--------------------------- MODULE MCMediaCache ---------------------------
(* TLC instance of MediaCache: two photos, one sealed; a moving sticker;   *)
(* a sticon package with a moving and a still one.                         *)
EXTENDS MediaCache

CONSTANTS m1, m2, k1, c1, c2, stk, sti

Shops == [i \in {k1, c1, c2} |-> IF i = k1 THEN stk ELSE sti]

Setup(seen, owned, sends, worn) ==
  [seen |-> seen, owned |-> owned, sends |-> sends, worn |-> worn]

\* A photo of an earlier run; a sent photo, sealed or not; a sticker and a
\* sticon package, each owned and not; an owned sticon package of which nothing
\* is stored; a photo beside a sticker.
Cases ==
  {Setup({m1}, {}, {}, {m1}), Setup({m1}, {}, {m1}, {}), Setup({m2}, {}, {m2}, {})}
  \union {Setup({k1}, owned, {}, {k1}) : owned \in SUBSET {stk}}
  \union {Setup({c1, c2}, owned, {}, {c1}) : owned \in SUBSET {sti}}
  \union {Setup({c1}, {sti}, {}, {}), Setup({m1, k1}, {stk}, {}, {})}
=============================================================================
