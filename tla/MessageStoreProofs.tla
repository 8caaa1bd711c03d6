-------------------------- MODULE MessageStoreProofs --------------------------
(***************************************************************************)
(* Proofs about MessageStore, for any members, message kinds, operation    *)
(* types, window and bounds: the types, the unread count from above and    *)
(* from below, convergence after a replay, and the marks that never move   *)
(* back.                                                                   *)
(***************************************************************************)
EXTENDS MessageStore, FiniteSetTheorems, WellFoundedInduction, TLAPS

-----------------------------------------------------------------------------
(* LINE's log.                                                             *)

\* Message i is announced by one of the first n operations of log o.
Logged(o, i, n) == \E j \in 1 .. n : o[j].type = "message" /\ o[j].msg = i

\* Every message is announced once, in order, before any operation about it;
\* a seen mark is about the newest message.
LogInv ==
  /\ \A i \in 1 .. Len(msgs) : Logged(ops, i, Len(ops))
  /\ \A j \in 1 .. Len(ops) :
       /\ ops[j].type = "chat" \/ ops[j].msg \in 1 .. Len(msgs)
       /\ ops[j].type \notin {"chat", "message"} =>
            \A i \in 1 .. ops[j].msg : Logged(ops, i, j - 1)
       /\ ops[j].type = "seen" => \A i \in Nat : Logged(ops, i, j - 1) => i <= ops[j].msg
  /\ \A j, k \in 1 .. Len(ops) :
       j < k /\ ops[j].type = "message" /\ ops[k].type = "message" => ops[j].msg < ops[k].msg
  /\ Len(msgs) <= setup.msgs

Theirs == {i \in 1 .. Len(msgs) : ~msgs[i].mine}
Unsent == {i \in 1 .. Len(msgs) : Destroyed(i)}

-----------------------------------------------------------------------------
(* The stream and the sync exclude each other.  Inside the savepoint of a  *)
(* message only the rows of sends are added, so its undo is what was read  *)
(* before it.                                                              *)

Saving == stream.pc = "saved"
Undo == [rows |-> stream.undo[1], box |-> stream.undo[2]]

\* What enil_db_message_box_upsert_live_message made of the box u when message
\* i came and the messages of D were cached.
CountedIn(b, u, D, i) ==
  /\ b.seen = u.seen
  /\ b.unread = IF i \in D THEN u.unread ELSE IF i \in Theirs THEN u.unread + 1 ELSE 0

Turns ==
  /\ stream.pc # "idle" => sync.pc = "idle" /\ rev < Len(ops) /\ Op.type = "message"
  /\ stream.pc \notin {"idle", "saved"} /\ removals = 0 => Op.msg \in DOMAIN rows
  /\ Saving =>
       /\ stream.undo = <<Undo.rows, Undo.box, readAt, name>>
       /\ Undo.box \in Box /\ CountedIn(box, Undo.box, DOMAIN Undo.rows, Op.msg)
       /\ DOMAIN Undo.rows \subseteq DOMAIN rows
       /\ \A i \in DOMAIN Undo.rows :
            /\ Undo.rows[i] \in Row
            /\ Undo.rows[i].deleted = rows[i].deleted /\ Undo.rows[i].react = rows[i].react
       /\ \A i \in DOMAIN rows \ DOMAIN Undo.rows : i \notin Theirs

Used ==
  /\ removals <= setup.removals /\ (removals = 0 => hidden = 0 /\ ~removing)
  /\ syncs = 0 => sync.pc = "idle" /\ ~torn

-----------------------------------------------------------------------------
(* What is cached: everything of the window up to the cursor, and up to    *)
(* the captured revision once a sync has fetched the messages.             *)

CachedIn(R, o, n, D) == \A i \in R : Logged(o, i, n) => i \in D

Fetched == sync.pc \in {"ranges", "list", "decrypt"}

Cached ==
  removals = 0 =>
    /\ CachedIn(Recent, ops, rev, DOMAIN rows)
    /\ Saving => CachedIn(Recent, ops, rev, DOMAIN Undo.rows)
    /\ Fetched => CachedIn(Recent, ops, sync.rev, DOMAIN rows)
    /\ sync.pc \notin {"idle", "account"} /\ ~sync.has =>
         \A i \in Nat : ~Logged(ops, i, sync.rev)

-----------------------------------------------------------------------------
(* The unread count from above: T are the incoming messages, G the unsent  *)
(* ones, D the cached ones.                                                *)

After(T, n) == {i \in T : i > n}
Above(T, G, D, b) ==
  b.unread <= Cardinality(After(T, b.seen) \intersect D)
              + Cardinality({i \in T \intersect G : i \in D \/ i > b.seen})
Covered(G, D, b) == 1 .. b.seen \subseteq D \union G

\* The messages that are cached once the handler is done.
Counting == IF Saving THEN DOMAIN rows \union {Op.msg} ELSE DOMAIN rows

NotTwice ==
  /\ box.seen # 0 => \E j \in 1 .. Len(ops) : ops[j].type = "seen"
  /\ box.seen <= Len(msgs) /\ (Saving => Undo.box.seen <= Len(msgs))
  /\ (setup.window >= setup.msgs /\ ~torn /\ removals = 0) =>
       IF sync.pc = "messages" /\ sync.has
         THEN box.unread <= Cardinality(After(Theirs, box.seen))
         ELSE /\ Above(Theirs, Unsent, Counting, box) /\ Covered(Unsent, DOMAIN rows, box)
              /\ Saving => /\ Above(Theirs, Unsent, DOMAIN Undo.rows, Undo.box)
                           /\ Covered(Unsent, DOMAIN Undo.rows, Undo.box)

-----------------------------------------------------------------------------
(* The unread count from below, before any sync.                           *)

\* Incoming messages of D after the seen one and after every own one of D.
Unseen(T, D, b) == {i \in T \intersect D : i > b.seen /\ \A j \in D \ T : j < i}
Below(T, D, b) == Cardinality(Unseen(T, D, b)) <= b.unread

Streamed ==
  (syncs = 0 /\ removals = 0) =>
    /\ \A i \in DOMAIN rows \intersect Theirs : Logged(ops, i, rev + 1)
    /\ Below(Theirs, Counting, box)
    /\ Saving => Below(Theirs, DOMAIN Undo.rows, Undo.box)

-----------------------------------------------------------------------------
(* What the rows show: LINE's state after some operation that the replay   *)
(* has not passed.                                                         *)

Reactions(o, i, w, p) ==
  {j \in 1 .. p : o[j].type = "react" /\ o[j].msg = i /\ o[j].who = w}
ReactAt(o, i, w, p) == LET k == LastOf(Reactions(o, i, w, p)) IN k # 0 /\ o[k].on
NameAt(o, p) == 1 + Cardinality({j \in 1 .. p : o[j].type = "chat"})

\* The reactions S of message i, by the members W, are those after an operation
\* from n on.
ReactFrom(o, W, i, S, n) ==
  \A w \in W : \E p \in n .. Len(o) : w \in S <=> ReactAt(o, i, w, p)
NameFrom(o, v, n) == v # 0 => \E p \in n .. Len(o) : v = NameAt(o, p)

Shown ==
  /\ removals = 0 =>
       /\ \A i \in (DOMAIN rows \intersect Recent) \ raced :
            ReactFrom(ops, Members, i, rows[i].react, rev)
       /\ Fetched =>
            \A i \in (DOMAIN rows \intersect Recent) \ raced :
               ReactFrom(ops, Members, i, rows[i].react, sync.rev)
  /\ NameFrom(ops, name, rev)
  /\ sync.pc \notin {"idle", "account"} => NameFrom(ops, name, sync.rev)

IInv == /\ TypeOK /\ setup \in Setups
        /\ LogInv /\ Turns /\ Used /\ Cached /\ NotTwice /\ Streamed /\ Shown

-----------------------------------------------------------------------------
(* Positions in the log.                                                   *)

LEMMA Maximum ==
  ASSUME NEW n \in Nat, NEW S \in SUBSET (1 .. n), S # {}
  PROVE  LastOf(S) \in S /\ \A j \in S : j <= LastOf(S)
<1> DEFINE T == {n - j : j \in S}
           R == OpToRel(<, Nat)
<1>1. T \subseteq Nat /\ T # {}
  <2>1. \A j \in S : n - j \in Nat
    OBVIOUS
  <2>2. PICK j \in S : TRUE
    OBVIOUS
  <2>3. n - j \in T
    BY <2>2
  <2> QED BY <2>1, <2>3
<1>2. PICK x \in T : \A y \in T : ~(<<y, x>> \in R)
  <2>1. IsWellFoundedOn(R, Nat)
    BY NatLessThanWellFounded
  <2> HIDE DEF T, R
  <2> QED BY <1>1, <2>1, WFMin
<1>3. \A y \in T : ~(y < x)
  BY <1>1, <1>2 DEF OpToRel
<1>4. PICK i \in S : x = n - i
  OBVIOUS
<1>5. \A j \in S : j <= i
  BY <1>3, <1>4
<1> QED BY <1>5 DEF LastOf

LEMMA LoggedStep ==
  ASSUME NEW o, NEW i, NEW n \in Nat
  PROVE  Logged(o, i, n + 1) <=> Logged(o, i, n) \/ (o[n + 1].type = "message" /\ o[n + 1].msg = i)
BY DEF Logged

LEMMA LoggedMono ==
  ASSUME NEW o, NEW i, NEW m \in Nat, NEW n \in Nat, m <= n, Logged(o, i, m)
  PROVE  Logged(o, i, n)
BY DEF Logged

LEMMA LoggedSame ==
  ASSUME NEW o, NEW p, NEW i, NEW n \in Nat, \A j \in 1 .. n : p[j] = o[j]
  PROVE  Logged(p, i, n) <=> Logged(o, i, n)
BY DEF Logged

\* A message is announced once.
LEMMA LoggedOnce ==
  ASSUME TypeOK, LogInv, NEW j \in 1 .. Len(ops), ops[j].type = "message"
  PROVE  ops[j].msg \in 1 .. Len(msgs) /\ ~Logged(ops, ops[j].msg, j - 1)
<1>1. ops[j].msg \in 1 .. Len(msgs) /\ Len(ops) \in Nat /\ Len(msgs) \in Nat
  BY SMTT(30) DEF LogInv, TypeOK
<1>2. ASSUME NEW k \in 1 .. j - 1, ops[k].type = "message", ops[k].msg = ops[j].msg
      PROVE  FALSE
  <2>1. k \in 1 .. Len(ops) /\ k < j
    BY <1>1
  <2>2. ops[k].msg < ops[j].msg
    BY <1>2, <2>1 DEF LogInv
  <2> QED BY <1>1, <1>2, <2>2
<1> QED BY <1>1, <1>2 DEF Logged

LEMMA ReactStep ==
  ASSUME NEW o, NEW i, NEW w, NEW n \in Nat
  PROVE  /\ ~(o[n + 1].type = "react" /\ o[n + 1].msg = i /\ o[n + 1].who = w) =>
              (ReactAt(o, i, w, n + 1) <=> ReactAt(o, i, w, n))
         /\ o[n + 1].type = "react" /\ o[n + 1].msg = i /\ o[n + 1].who = w =>
              (ReactAt(o, i, w, n + 1) <=> o[n + 1].on)
<1>1. ASSUME ~(o[n + 1].type = "react" /\ o[n + 1].msg = i /\ o[n + 1].who = w)
      PROVE  Reactions(o, i, w, n + 1) = Reactions(o, i, w, n)
  BY <1>1 DEF Reactions
<1>2. ASSUME o[n + 1].type = "react", o[n + 1].msg = i, o[n + 1].who = w
      PROVE  ReactAt(o, i, w, n + 1) <=> o[n + 1].on
  <2>1. Reactions(o, i, w, n + 1) \in SUBSET (1 .. n + 1) /\ n + 1 \in Reactions(o, i, w, n + 1)
    BY <1>2 DEF Reactions
  <2>2. LastOf(Reactions(o, i, w, n + 1)) = n + 1
    <3>1. /\ LastOf(Reactions(o, i, w, n + 1)) \in Reactions(o, i, w, n + 1)
          /\ \A j \in Reactions(o, i, w, n + 1) : j <= LastOf(Reactions(o, i, w, n + 1))
      BY <2>1, Maximum
    <3> QED BY <2>1, <3>1
  <2> QED BY <2>2 DEF ReactAt
<1> QED BY <1>1, <1>2 DEF ReactAt

LEMMA ReactSame ==
  ASSUME NEW o, NEW p, NEW i, NEW w, NEW n \in Nat, \A j \in 1 .. n : p[j] = o[j]
  PROVE  ReactAt(p, i, w, n) <=> ReactAt(o, i, w, n)
<1>1. Reactions(p, i, w, n) = Reactions(o, i, w, n) /\ Reactions(o, i, w, n) \in SUBSET (1 .. n)
  BY DEF Reactions
<1>2. LastOf(Reactions(o, i, w, n)) # 0 => LastOf(Reactions(o, i, w, n)) \in 1 .. n
  BY <1>1, Maximum DEF LastOf
<1> QED BY <1>1, <1>2 DEF ReactAt

\* Nobody has reacted to a message that is not announced.
LEMMA NoReaction ==
  ASSUME TypeOK, LogInv, NEW n \in 0 .. Len(ops), NEW i \in 1 .. Len(msgs), NEW w,
         ~Logged(ops, i, n)
  PROVE  ~ReactAt(ops, i, w, n)
<1>1. Len(ops) \in Nat /\ Len(msgs) \in Nat
  BY DEF TypeOK
<1>2. ASSUME NEW j \in Reactions(ops, i, w, n) PROVE FALSE
  <2>1. j \in 1 .. Len(ops) /\ j - 1 \in Nat /\ j - 1 <= n /\ ops[j].type = "react" /\ ops[j].msg = i
    BY <1>1 DEF Reactions
  <2>2. Logged(ops, i, j - 1)
    BY <2>1 DEF LogInv
  <2> QED BY <1>1, <2>1, <2>2, LoggedMono
<1>3. Reactions(ops, i, w, n) = {}
  BY <1>2
<1> QED BY <1>3 DEF ReactAt, LastOf

LEMMA NameStep ==
  ASSUME NEW o, NEW n \in Nat, o[n + 1].type # "chat"
  PROVE  NameAt(o, n + 1) = NameAt(o, n)
<1>1. {j \in 1 .. n + 1 : o[j].type = "chat"} = {j \in 1 .. n : o[j].type = "chat"}
  OBVIOUS
<1> QED BY <1>1 DEF NameAt

LEMMA NameSame ==
  ASSUME NEW o, NEW p, NEW n \in Nat, \A j \in 1 .. n : p[j] = o[j]
  PROVE  NameAt(p, n) = NameAt(o, n)
<1>1. {j \in 1 .. n : p[j].type = "chat"} = {j \in 1 .. n : o[j].type = "chat"}
  OBVIOUS
<1> QED BY <1>1 DEF NameAt

-----------------------------------------------------------------------------
(* Counting.                                                               *)

LEMMA PartFinite ==
  ASSUME NEW n \in Nat, NEW S, S \subseteq 1 .. n
  PROVE  IsFiniteSet(S) /\ Cardinality(S) \in Nat
<1>1. IsFiniteSet(1 .. n)
  BY FS_Interval
<1>2. IsFiniteSet(S)
  BY <1>1, FS_Subset
<1> QED BY <1>2, FS_CardinalityType

LEMMA PartCount ==
  ASSUME NEW n \in Nat, NEW S, S \subseteq 1 .. n, NEW R, R \subseteq S
  PROVE  Cardinality(R) <= Cardinality(S) /\ Cardinality(R) \in Nat /\ Cardinality(S) \in Nat
<1>1. IsFiniteSet(S)
  BY PartFinite
<1> QED BY <1>1, FS_Subset, FS_CardinalityType

\* The count may stay when more is cached, sent or unsent.
LEMMA AboveMono ==
  ASSUME NEW n \in Nat, NEW T, NEW U, T \subseteq U, U \subseteq 1 .. n,
         NEW G, NEW H, T \intersect G \subseteq H, NEW D, NEW E, D \subseteq E,
         NEW b \in Box, NEW c \in Box, c.seen = b.seen, c.unread <= b.unread,
         Above(T, G, D, b)
  PROVE  Above(U, H, E, c)
<1> DEFINE A == After(T, b.seen) \intersect D
           B == {i \in T \intersect G : i \in D \/ i > b.seen}
           X == After(U, c.seen) \intersect E
           Y == {i \in U \intersect H : i \in E \/ i > c.seen}
<1>1. A \subseteq X /\ X \subseteq 1 .. n /\ B \subseteq Y /\ Y \subseteq 1 .. n
  BY DEF After
<1>2. b.unread <= Cardinality(A) + Cardinality(B)
  BY DEF Above
<1>3. /\ Cardinality(A) <= Cardinality(X) /\ Cardinality(A) \in Nat /\ Cardinality(X) \in Nat
      /\ Cardinality(B) <= Cardinality(Y) /\ Cardinality(B) \in Nat /\ Cardinality(Y) \in Nat
  <2> HIDE DEF A, B, X, Y
  <2> QED BY <1>1, PartCount
<1>4. b.unread \in Nat /\ c.unread \in Nat
  BY DEF Box
<1>5. c.unread <= Cardinality(X) + Cardinality(Y)
  <2> HIDE DEF A, B, X, Y
  <2> QED BY <1>2, <1>3, <1>4
<1> QED BY <1>5 DEF Above

\* One more is counted when it was neither cached nor seen, unless unsent.
LEMMA AboveAdd ==
  ASSUME NEW n \in Nat, NEW T, T \subseteq 1 .. n, NEW G, NEW D, NEW i \in T, i \notin D,
         NEW b \in Box, NEW c \in Box, c.seen = b.seen, c.unread = b.unread + 1,
         Above(T, G, D, b), Covered(G, D, b)
  PROVE  Above(T, G, D \union {i}, c)
<1> DEFINE E == D \union {i}
           A == After(T, b.seen) \intersect D
           B == {k \in T \intersect G : k \in D \/ k > b.seen}
           X == After(T, c.seen) \intersect E
           Y == {k \in T \intersect G : k \in E \/ k > c.seen}
<1>1. /\ A \subseteq X /\ X \subseteq 1 .. n /\ B \subseteq Y /\ Y \subseteq 1 .. n
      /\ A \subseteq 1 .. n /\ B \subseteq 1 .. n
  BY DEF After
<1>2. b.unread <= Cardinality(A) + Cardinality(B) /\ b.unread \in Nat /\ b.seen \in Nat
  BY DEF Above, Box
<1>3. /\ Cardinality(A) <= Cardinality(X) /\ Cardinality(A) \in Nat /\ Cardinality(X) \in Nat
      /\ Cardinality(B) <= Cardinality(Y) /\ Cardinality(B) \in Nat /\ Cardinality(Y) \in Nat
      /\ IsFiniteSet(A) /\ IsFiniteSet(B)
  <2> HIDE DEF A, B, X, Y
  <2> QED BY <1>1, PartCount, PartFinite
<1>4. CASE i > b.seen
  <2>1. X = A \union {i} /\ i \notin A
    BY <1>4 DEF After
  <2>2. Cardinality(X) = Cardinality(A) + 1
    <3> HIDE DEF A, X
    <3> QED BY <1>3, <2>1, FS_AddElement
  <2> HIDE DEF A, B, X, Y
  <2>3. c.unread <= Cardinality(X) + Cardinality(Y)
    BY <1>2, <1>3, <2>2
  <2> QED BY <2>3 DEF Above, X, Y
<1>5. CASE ~(i > b.seen)
  <2>1. i \in 1 .. b.seen
    BY <1>2, <1>5
  <2>2. Y = B \union {i} /\ i \notin B
    BY <1>5, <2>1 DEF Covered
  <2>3. Cardinality(Y) = Cardinality(B) + 1
    <3> HIDE DEF B, Y
    <3> QED BY <1>3, <2>2, FS_AddElement
  <2> HIDE DEF A, B, X, Y
  <2>4. c.unread <= Cardinality(X) + Cardinality(Y)
    BY <1>2, <1>3, <2>3
  <2> QED BY <2>4 DEF Above, X, Y
<1> QED BY <1>4, <1>5

LEMMA AboveNone ==
  ASSUME NEW n \in Nat, NEW T, T \subseteq 1 .. n, NEW G, NEW D, NEW b, b.unread = 0
  PROVE  Above(T, G, D, b)
<1> DEFINE X == After(T, b.seen) \intersect D
           Y == {i \in T \intersect G : i \in D \/ i > b.seen}
<1>1. X \subseteq 1 .. n /\ Y \subseteq 1 .. n
  BY DEF After
<1>2. Cardinality(X) \in Nat /\ Cardinality(Y) \in Nat
  <2> HIDE DEF X, Y
  <2> QED BY <1>1, PartFinite
<1>3. b.unread <= Cardinality(X) + Cardinality(Y)
  <2> HIDE DEF X, Y
  <2> QED BY <1>2
<1> QED BY <1>3 DEF Above

\* A fetch caches every message that is not unsent.
LEMMA AboveFetched ==
  ASSUME NEW n \in Nat, NEW T, T \subseteq 1 .. n, NEW G, NEW D, T \subseteq D \union G,
         NEW b \in Box, b.unread <= Cardinality(After(T, b.seen))
  PROVE  Above(T, G, D, b)
<1> DEFINE A == After(T, b.seen)
           X == A \intersect D
           Y == {i \in T \intersect G : i \in D \/ i > b.seen}
<1>1. A \subseteq X \union Y /\ X \subseteq 1 .. n /\ Y \subseteq 1 .. n /\ X \union Y \subseteq 1 .. n
  BY DEF After
<1>2. b.unread \in Nat /\ b.unread <= Cardinality(A)
  BY DEF Box
<1> HIDE DEF A, X, Y
<1>3. /\ Cardinality(A) <= Cardinality(X \union Y) /\ Cardinality(A) \in Nat
      /\ Cardinality(X) \in Nat /\ Cardinality(Y) \in Nat
      /\ IsFiniteSet(X) /\ IsFiniteSet(Y)
  BY <1>1, PartCount, PartFinite
<1>4. /\ Cardinality(X \union Y) = Cardinality(X) + Cardinality(Y) - Cardinality(X \intersect Y)
      /\ Cardinality(X \intersect Y) \in Nat
  BY <1>3, FS_Union, FS_Intersection, FS_CardinalityType
<1>5. b.unread <= Cardinality(X) + Cardinality(Y)
  BY <1>2, <1>3, <1>4
<1> QED BY <1>5 DEF Above, A, X, Y

LEMMA AboveBound ==
  ASSUME NEW n \in Nat, NEW T, T \subseteq 1 .. n, NEW G, NEW D, NEW b \in Box,
         Above(T, G, D, b)
  PROVE  b.unread <= Cardinality(After(T, b.seen)) + Cardinality(T \intersect G)
<1> DEFINE X == After(T, b.seen) \intersect D
           Y == {i \in T \intersect G : i \in D \/ i > b.seen}
           A == After(T, b.seen)
           B == T \intersect G
<1>1. X \subseteq A /\ A \subseteq 1 .. n /\ Y \subseteq B /\ B \subseteq 1 .. n
  BY DEF After
<1>2. b.unread <= Cardinality(X) + Cardinality(Y) /\ b.unread \in Nat
  BY DEF Above, Box
<1> HIDE DEF A, B, X, Y
<1>3. /\ Cardinality(X) <= Cardinality(A) /\ Cardinality(Y) <= Cardinality(B)
      /\ {Cardinality(X), Cardinality(A), Cardinality(Y), Cardinality(B)} \subseteq Nat
  BY <1>1, PartCount
<1>4. b.unread <= Cardinality(A) + Cardinality(B)
  BY <1>2, <1>3
<1> QED BY <1>4 DEF A, B

LEMMA BelowMono ==
  ASSUME NEW n \in Nat, NEW T, T \subseteq 1 .. n, NEW U, NEW D, NEW E, NEW b, NEW c,
         Unseen(U, E, c) \subseteq Unseen(T, D, b), b.unread \in Nat, c.unread \in Nat,
         b.unread <= c.unread, Below(T, D, b)
  PROVE  Below(U, E, c)
<1>1. Unseen(T, D, b) \subseteq 1 .. n
  BY DEF Unseen
<1>2. /\ Cardinality(Unseen(U, E, c)) <= Cardinality(Unseen(T, D, b))
      /\ Cardinality(Unseen(U, E, c)) \in Nat /\ Cardinality(Unseen(T, D, b)) \in Nat
  BY <1>1, PartCount
<1> QED BY <1>2 DEF Below

LEMMA BelowAdd ==
  ASSUME NEW n \in Nat, NEW T, T \subseteq 1 .. n, NEW D, NEW i, NEW b, NEW c,
         b.unread \in Nat, c.unread = b.unread + 1, c.seen = b.seen, Below(T, D, b)
  PROVE  Below(T, D \union {i}, c)
<1> DEFINE A == Unseen(T, D, b)
           X == Unseen(T, D \union {i}, c)
<1>1. X \subseteq A \union {i} /\ A \subseteq 1 .. n /\ X \subseteq 1 .. n
  BY DEF Unseen
<1>2. Cardinality(A) <= b.unread
  BY DEF Below
<1> HIDE DEF A, X
<1>3. IsFiniteSet(A) /\ Cardinality(A) \in Nat /\ Cardinality(X) \in Nat
  BY <1>1, PartFinite
<1>4. IsFiniteSet(A \union {i}) /\ Cardinality(A \union {i}) <= Cardinality(A) + 1
  <2>1. /\ IsFiniteSet(A \union {i})
        /\ Cardinality(A \union {i}) = IF i \in A THEN Cardinality(A) ELSE Cardinality(A) + 1
    BY <1>3, FS_AddElement
  <2> QED BY <1>3, <2>1
<1>5. Cardinality(X) <= Cardinality(A \union {i})
  BY <1>1, <1>4, FS_Subset
<1>6. Cardinality(A \union {i}) \in Nat
  BY <1>4, FS_CardinalityType
<1>7. Cardinality(X) <= c.unread
  BY <1>2, <1>3, <1>4, <1>5, <1>6
<1> QED BY <1>7 DEF Below, X

LEMMA BelowNone ==
  ASSUME NEW T, NEW D, NEW b, b.unread \in Nat, Unseen(T, D, b) = {}
  PROVE  Below(T, D, b)
BY FS_EmptySet DEF Below

-----------------------------------------------------------------------------
(* Steps that leave LINE alone.                                            *)

LineKept == UNCHANGED <<msgs, ops, hidden, setup>>

LEMMA LineKeptFacts ==
  ASSUME LineKept
  PROVE  /\ msgs' = msgs /\ ops' = ops /\ hidden' = hidden /\ setup' = setup
         /\ Recent' = Recent /\ Theirs' = Theirs /\ Unsent' = Unsent /\ Members' = Members
         /\ LogInv => LogInv'
BY DEF LineKept, Recent, Theirs, Unsent, Destroyed, OpsOf, Now, Members, LogInv

LEMMA SetupFacts ==
  ASSUME setup \in Setups
  PROVE  /\ setup \in SetupType /\ Members \subseteq People /\ Members # {}
         /\ setup.window \in Nat \ {0} /\ setup.msgs \in Nat /\ setup.ops \in Nat
         /\ setup.removals \in Nat
BY StoreAssumption DEF SetupType, Members

LEMMA LogFacts ==
  ASSUME TypeOK
  PROVE  /\ Len(ops) \in Nat /\ Len(msgs) \in Nat
         /\ Theirs \subseteq 1 .. Len(msgs) /\ Unsent \subseteq 1 .. Len(msgs)
         /\ Recent \subseteq 1 .. Len(msgs)
BY SMTT(30) DEF TypeOK, Theirs, Unsent, Recent

\* The operation to be handled.
LEMMA OpFacts ==
  ASSUME TypeOK, LogInv, rev < Len(ops)
  PROVE  /\ rev \in Nat /\ rev + 1 \in 1 .. Len(ops) /\ Op = ops[rev + 1]
         /\ Op.type \in setup.types /\ Op.who \in Members /\ Op.on \in BOOLEAN
         /\ Op.type # "chat" => Op.msg \in 1 .. Len(msgs)
<1>1. rev \in Nat /\ rev + 1 \in 1 .. Len(ops)
  BY DEF TypeOK
<1>2. ops[rev + 1] \in [type : setup.types, msg : Nat, who : Members, on : BOOLEAN]
  <2> DEFINE R == [type : setup.types, msg : Nat, who : Members, on : BOOLEAN]
  <2>1. ops \in Seq(R)
    BY DEF TypeOK
  <2> HIDE DEF R
  <2>2. ops[rev + 1] \in R
    BY <1>1, <2>1
  <2> QED BY <2>2 DEF R
<1>3. Op = ops[rev + 1]
  BY DEF Op
<1>4. Op.type # "chat" => Op.msg \in 1 .. Len(msgs)
  BY <1>1, <1>3 DEF LogInv
<1> QED BY <1>1, <1>2, <1>3, <1>4

\* The window, when the bounds let nothing fall out of it.
LEMMA WindowFacts ==
  ASSUME TypeOK, LogInv, Used, setup \in Setups, setup.window >= setup.msgs, removals = 0
  PROVE  Recent = (1 .. Len(msgs)) \ Unsent
<1>1. hidden = 0 /\ Len(msgs) <= setup.msgs /\ Len(msgs) \in Nat
  BY LogFacts DEF Used, LogInv
<1>2. \A i \in 1 .. Len(msgs) : i + setup.window > Len(msgs)
  BY <1>1, SetupFacts
<1> QED BY <1>1, <1>2 DEF Recent, Unsent

LEMMA SeenFacts ==
  ASSUME TypeOK, LogInv
  PROVE  /\ SrvSeen \in 0 .. Len(msgs)
         /\ SrvSeen # 0 <=> \E j \in 1 .. Len(ops) : ops[j].type = "seen"
         /\ SrvUnread \in Nat /\ SrvUnread = Cardinality(After(Theirs, SrvSeen))
<1>1. Len(ops) \in Nat /\ Len(msgs) \in Nat
  BY LogFacts
<1> DEFINE S == OpsOf("seen", Now)
<1>2. S \in SUBSET (1 .. Len(ops))
  BY DEF OpsOf, Now
<1>3. S # {} => LastOf(S) \in S
  BY <1>1, <1>2, Maximum
<1>4. S # {} <=> \E j \in 1 .. Len(ops) : ops[j].type = "seen"
  BY DEF OpsOf, Now
<1>5. \A j \in S : ops[j].msg \in 1 .. Len(msgs) /\ j # 0
  BY <1>2 DEF OpsOf, Now, LogInv
<1>6. SrvSeen = IF LastOf(S) = 0 THEN 0 ELSE ops[LastOf(S)].msg
  BY DEF SrvSeen
<1>7. S = {} => LastOf(S) = 0
  BY DEF LastOf
<1> HIDE DEF S
<1>8. SrvSeen \in 0 .. Len(msgs) /\ (SrvSeen # 0 <=> S # {})
  BY <1>1, <1>3, <1>5, <1>6, <1>7
<1>9. {i \in 1 .. Len(msgs) : ~msgs[i].mine /\ i > SrvSeen} = After(Theirs, SrvSeen)
  BY DEF After, Theirs
<1>10. After(Theirs, SrvSeen) \subseteq 1 .. Len(msgs)
  BY DEF After, Theirs
<1> QED BY <1>1, <1>4, <1>8, <1>9, <1>10, PartFinite DEF SrvUnread

LEMMA ServerFacts ==
  ASSUME TypeOK
  PROVE  /\ SrvName \in Nat /\ SrvName = NameAt(ops, Len(ops))
         /\ \A w : SrvRead(w) \in 0 .. Len(ops)
         /\ \A i : /\ SrvReact(i) \subseteq Members
                   /\ \A w \in Members : w \in SrvReact(i) <=> ReactAt(ops, i, w, Len(ops))
<1>1. Len(ops) \in Nat
  BY LogFacts
<1>2. SrvName = NameAt(ops, Len(ops))
  BY DEF SrvName, NameAt, OpsOf, Now
<1>3. Cardinality(OpsOf("chat", Now)) \in Nat
  BY <1>1, PartFinite DEF OpsOf, Now
<1>4. SrvName \in Nat
  BY <1>3 DEF SrvName
<1>5. ASSUME NEW w PROVE SrvRead(w) \in 0 .. Len(ops)
  <2> DEFINE S == {i \in OpsOf("read", Now) : ops[i].who = w}
  <2>1. S \in SUBSET (1 .. Len(ops))
    BY DEF OpsOf, Now
  <2>2. S # {} => LastOf(S) \in S
    BY <1>1, <2>1, Maximum
  <2>3. S = {} => LastOf(S) = 0
    BY DEF LastOf
  <2>4. SrvRead(w) = LastOf(S)
    BY DEF SrvRead
  <2> HIDE DEF S
  <2>5. CASE S # {}
    <3>1. LastOf(S) \in 1 .. Len(ops)
      BY <2>1, <2>2, <2>5
    <3> QED BY <1>1, <2>4, <3>1
  <2>6. CASE S = {}
    BY <1>1, <2>3, <2>4, <2>6
  <2> QED BY <2>5, <2>6
<1>6. ASSUME NEW i PROVE SrvReact(i) \subseteq Members
  BY DEF SrvReact
<1>7. ASSUME NEW i, NEW w \in Members
      PROVE  w \in SrvReact(i) <=> ReactAt(ops, i, w, Len(ops))
  <2>1. {j \in OpsOf("react", Now) : ops[j].msg = i /\ ops[j].who = w}
        = Reactions(ops, i, w, Len(ops))
    BY DEF OpsOf, Now, Reactions
  <2> QED BY <2>1 DEF SrvReact, ReactAt
<1> QED BY <1>2, <1>4, <1>5, <1>6, <1>7

-----------------------------------------------------------------------------
(* The statements on messages_v2.                                          *)

RowsOf(rs) == \A i \in DOMAIN rs : rs[i] \in Row

\* The marks of every row that rs and ts share.
SameMarks(rs, ts) ==
  \A i \in DOMAIN rs : ts[i].deleted = rs[i].deleted /\ ts[i].react = rs[i].react

LEMMA SetTextRows ==
  ASSUME NEW rs, RowsOf(rs), NEW i, NEW text \in BOOLEAN, NEW status \in Statuses,
         NEW ts, ts = SetText(rs, i, text, status)
  PROVE  DOMAIN ts = DOMAIN rs /\ RowsOf(ts) /\ SameMarks(rs, ts)
<1>1. CASE i \notin DOMAIN rs
  BY <1>1 DEF SetText, SameMarks
<1>2. CASE i \in DOMAIN rs
  <2> DEFINE e == [rs[i] EXCEPT !.text = text, !.status = status]
  <2>1. DOMAIN ts = DOMAIN rs /\ \A k \in DOMAIN rs : ts[k] = IF k = i THEN e ELSE rs[k]
    BY <1>2 DEF SetText
  <2>2. rs[i] \in Row
    BY <1>2 DEF RowsOf
  <2>3. e \in Row /\ e.deleted = rs[i].deleted /\ e.react = rs[i].react
    BY <2>2 DEF Row
  <2> HIDE DEF e
  <2> QED BY <2>1, <2>2, <2>3 DEF RowsOf, SameMarks
<1> QED BY <1>1, <1>2

LEMMA DecryptRows ==
  ASSUME NEW rs, RowsOf(rs), NEW i, NEW ok \in BOOLEAN,
         NEW ts, ts = DecryptWrite(rs, i, ok)
  PROVE  DOMAIN ts = DOMAIN rs /\ RowsOf(ts) /\ SameMarks(rs, ts)
<1>1. {"notText", "success", "failed"} \subseteq Statuses
  BY DEF Statuses
<1>2. PICK s \in Statuses, text \in BOOLEAN : DecryptWrite(rs, i, ok) = SetText(rs, i, text, s)
  BY <1>1 DEF DecryptWrite
<1> QED BY <1>2, SetTextRows

LEMMA DeletedRows ==
  ASSUME NEW rs, RowsOf(rs), NEW i,
         NEW ts, ts = MarkDeleted(rs, i)
  PROVE  /\ DOMAIN ts = DOMAIN rs /\ RowsOf(ts)
         /\ \A k \in DOMAIN rs : /\ ts[k].react = rs[k].react
                                 /\ rs[k].deleted => ts[k].deleted
<1>1. CASE i \notin DOMAIN rs
  BY <1>1 DEF MarkDeleted
<1>2. CASE i \in DOMAIN rs
  <2>1. /\ DOMAIN ts = DOMAIN rs
        /\ \A k \in DOMAIN rs : ts[k] = IF k = i THEN [rs[i] EXCEPT !.deleted = TRUE] ELSE rs[k]
    BY <1>2 DEF MarkDeleted
  <2>2. /\ rs[i] \in Row
        /\ [rs[i] EXCEPT !.deleted = TRUE] \in Row
        /\ [rs[i] EXCEPT !.deleted = TRUE].react = rs[i].react
        /\ [rs[i] EXCEPT !.deleted = TRUE].deleted
    BY <1>2 DEF RowsOf, Row
  <2> QED BY <2>1, <2>2 DEF RowsOf
<1> QED BY <1>1, <1>2

Reacted(rs, ts, i, w, on) ==
  /\ DOMAIN ts = DOMAIN rs /\ RowsOf(ts)
  /\ \A k \in DOMAIN rs : ts[k].deleted = rs[k].deleted
  /\ \A k \in DOMAIN rs : k # i => ts[k].react = rs[k].react
  /\ i \in DOMAIN rs /\ on => ts[i].react = rs[i].react \union {w}
  /\ i \in DOMAIN rs /\ ~on => ts[i].react = rs[i].react \ {w}

LEMMA ReactionRows ==
  ASSUME NEW rs, RowsOf(rs), NEW i, NEW w \in Members, NEW on \in BOOLEAN,
         NEW ts, ts = ReactionsUpdate(rs, i, w, on)
  PROVE  Reacted(rs, ts, i, w, on)
<1> USE DEF Reacted
<1> DEFINE S == IF on THEN rs[i].react \union {w} ELSE rs[i].react \ {w}
<1>1. CASE i \notin DOMAIN rs
  BY <1>1 DEF ReactionsUpdate
<1>2. CASE i \in DOMAIN rs
  <2>1. /\ DOMAIN ts = DOMAIN rs
        /\ \A k \in DOMAIN rs : ts[k] = IF k = i THEN [rs[i] EXCEPT !.react = S] ELSE rs[k]
    BY <1>2 DEF ReactionsUpdate
  <2>2. rs[i] \in Row /\ rs[i].react \in SUBSET Members
    BY <1>2 DEF RowsOf, Row
  <2>3. S \in SUBSET Members
    BY <2>2
  <2> HIDE DEF S
  <2>4. /\ [rs[i] EXCEPT !.react = S] \in Row
        /\ [rs[i] EXCEPT !.react = S].react = S
        /\ [rs[i] EXCEPT !.react = S].deleted = rs[i].deleted
    BY <2>2, <2>3 DEF Row
  <2> QED BY <2>1, <2>2, <2>4 DEF RowsOf, S
<1> QED BY <1>1, <1>2

\* A row that exists keeps its marks, unless the wire carries reactions and the
\* test reads zero; a new one has the reactions of the wire.
Upserted(rs, ts, i, field, S, zero) ==
  /\ DOMAIN ts = DOMAIN rs \union {i} /\ RowsOf(ts)
  /\ \A k \in DOMAIN rs : ts[k].deleted = rs[k].deleted
  /\ \A k \in DOMAIN rs :
       k # i \/ ~field \/ "reactions" \notin zero => ts[k].react = rs[k].react
  /\ i \notin DOMAIN rs \/ (field /\ "reactions" \in zero) => ts[i].react = S

LEMMA UpsertRows ==
  ASSUME NEW rs, RowsOf(rs), NEW i, NEW text \in BOOLEAN, NEW field \in BOOLEAN,
         NEW S \in SUBSET Members, NEW zero,
         NEW ts, ts = MessageUpsert(rs, i, text, field, S, zero)
  PROVE  Upserted(rs, ts, i, field, S, zero)
<1> USE DEF Upserted
<1>0. {"plain", "pending"} \subseteq Statuses
  BY DEF Statuses
<1>1. CASE i \notin DOMAIN rs
  <2>1. PICK r : r = NewRow(text, S)
    OBVIOUS
  <2>2. r \in Row /\ r.react = S
    BY <1>0, <2>1 DEF NewRow, Row
  <2>3. ts = With(rs, i, r)
    BY <1>1, <2>1 DEF MessageUpsert
  <2>4. DOMAIN ts = DOMAIN rs \union {i} /\ ts[i] = r /\ \A k \in DOMAIN rs : ts[k] = rs[k]
    BY <1>1, <2>3 DEF With
  <2> QED BY <1>1, <2>2, <2>4 DEF RowsOf
<1>2. CASE i \in DOMAIN rs
  <2> DEFINE over == field /\ "reactions" \in zero
             fill == text /\ ~rs[i].text /\ "fill" \in zero
             R == IF over THEN S ELSE rs[i].react
             T == IF fill THEN TRUE ELSE rs[i].text
             U == IF fill THEN "plain" ELSE rs[i].status
             r == [rs[i] EXCEPT !.react = R, !.text = T, !.status = U]
  <2>1. rs[i] \in Row
    BY <1>2 DEF RowsOf
  <2>2. R \in SUBSET Members /\ T \in BOOLEAN /\ U \in Statuses
    BY <1>0, <2>1 DEF Row
  <2>3. ts = [rs EXCEPT ![i].react = R, ![i].text = T, ![i].status = U]
    BY <1>2 DEF MessageUpsert
  <2> HIDE DEF R, T, U
  <2>4. r \in Row /\ r.react = R /\ r.deleted = rs[i].deleted
    BY <2>1, <2>2 DEF Row
  <2>5. DOMAIN ts = DOMAIN rs /\ \A k \in DOMAIN rs : ts[k] = IF k = i THEN r ELSE rs[k]
    BY <1>2, <2>1, <2>3 DEF Row
  <2> HIDE DEF r
  <2>6. RowsOf(ts)
    BY <2>4, <2>5 DEF RowsOf
  <2>7. (over => R = S) /\ (~over => R = rs[i].react)
    BY DEF R
  <2> QED BY <1>2, <2>4, <2>5, <2>6, <2>7
<1> QED BY <1>1, <1>2

-----------------------------------------------------------------------------
(* The handlers of the stream.                                             *)

Syncs == [pc : {"idle", "account", "messages", "ranges", "list", "decrypt"},
          rev : 0 .. Len(ops), has : BOOLEAN, batch : SUBSET (1 .. Len(msgs))]
StreamSteps == {"idle", "saved", "stored", "decrypt", "done"}

LEMMA TypeFacts ==
  ASSUME TypeOK
  PROVE  /\ DOMAIN rows \subseteq 1 .. Len(msgs) /\ RowsOf(rows)
         /\ box \in Box /\ box.seen \in Nat /\ box.unread \in Nat
         /\ readAt \in [Members -> 0 .. Len(ops)] /\ name \in Nat /\ rev \in 0 .. Len(ops)
         /\ stream.pc \in StreamSteps /\ sync \in Syncs /\ sync.rev \in 0 .. Len(ops)
         /\ removing \in BOOLEAN /\ torn \in BOOLEAN /\ sent \subseteq 1 .. Len(msgs)
         /\ syncs \in Nat /\ faults \in Nat /\ removals \in Nat
         /\ hidden \in 0 .. Len(msgs) /\ raced \subseteq 1 .. Len(msgs)
BY DEF TypeOK, RowsOf, Syncs, StreamSteps, Box

LEMMA KeptType ==
  ASSUME TypeOK, LineKept, DOMAIN rows' \subseteq 1 .. Len(msgs), RowsOf(rows'), box' \in Box,
         readAt' \in [Members -> 0 .. Len(ops)], name' \in Nat, rev' \in 0 .. Len(ops),
         stream'.pc \in StreamSteps, sync' \in Syncs, removing' \in BOOLEAN, torn' \in BOOLEAN,
         sent' \subseteq 1 .. Len(msgs), syncs' \in Nat, faults' \in Nat, removals' \in Nat,
         raced' \subseteq 1 .. Len(msgs)
  PROVE  TypeOK'
<1>1. Row' = Row
  BY DEF LineKept, Row, Members, Statuses
<1>2. \A i \in DOMAIN rows' : rows'[i] \in Row'
  BY <1>1 DEF RowsOf
<1>3. Members' = Members
  BY DEF LineKept, Members
<1> QED BY <1>2, <1>3 DEF TypeOK, LineKept, Syncs, StreamSteps, Box

HandlerStep == LineKept /\ UNCHANGED <<sync, removing, sent, torn, raced, syncs, removals>>

\* The cursor stays, or passes an operation that is done.
Advance ==
  \/ rev' = rev
  \/ /\ rev' = rev + 1 /\ rev < Len(ops)
     /\ Op.type # "message" \/ Op.msg \in DOMAIN rows \/ removals # 0

LEMMA AdvanceLogged ==
  ASSUME TypeOK, LogInv, removals = 0, Advance, NEW i, Logged(ops, i, rev')
  PROVE  Logged(ops, i, rev) \/ i \in DOMAIN rows
<1>1. rev \in Nat
  BY TypeFacts, LogFacts
<1>2. CASE rev' = rev
  BY <1>2
<1>3. CASE rev' = rev + 1 /\ rev < Len(ops)
  BY <1>1, <1>3, LoggedStep DEF Advance, Op
<1> QED BY <1>2, <1>3 DEF Advance

LEMMA HandlerCached ==
  ASSUME IInv, HandlerStep, sync.pc = "idle", ~Saving', DOMAIN rows \subseteq DOMAIN rows',
         Advance
  PROVE  Cached'
<1>1. Recent' = Recent /\ ops' = ops /\ sync' = sync /\ removals' = removals
  BY LineKeptFacts DEF HandlerStep
<1>2. ASSUME removals = 0 PROVE CachedIn(Recent, ops, rev', DOMAIN rows')
  BY <1>2, AdvanceLogged DEF IInv, Cached, CachedIn
<1> QED BY <1>1, <1>2 DEF Cached, Fetched

LEMMA HandlerCounts ==
  ASSUME IInv, HandlerStep, sync.pc = "idle", ~Saving, ~Saving', box' = box,
         DOMAIN rows' = DOMAIN rows, Advance
  PROVE  NotTwice' /\ Streamed'
<1>1. /\ msgs' = msgs /\ ops' = ops /\ setup' = setup /\ Theirs' = Theirs /\ Unsent' = Unsent
      /\ sync' = sync /\ removals' = removals /\ torn' = torn /\ raced' = raced /\ syncs' = syncs
  BY LineKeptFacts DEF HandlerStep
<1>2. Counting = DOMAIN rows /\ Counting' = DOMAIN rows
  BY DEF Counting
<1>3. NotTwice'
  BY <1>1, <1>2 DEF IInv, NotTwice
<1>4. ASSUME NEW i, Logged(ops, i, rev + 1) PROVE Logged(ops, i, rev' + 1)
  BY <1>4, LoggedMono, TypeFacts, LogFacts DEF IInv, Advance
<1>5. Streamed'
  BY <1>1, <1>2, <1>4 DEF IInv, Streamed
<1> QED BY <1>3, <1>5

LEMMA HandlerShown ==
  ASSUME IInv, HandlerStep, sync.pc = "idle",
         removals = 0 => \A i \in (DOMAIN rows' \intersect Recent) \ raced :
                           ReactFrom(ops, Members, i, rows'[i].react, rev'),
         NameFrom(ops, name', rev')
  PROVE  Shown'
<1>1. /\ ops' = ops /\ Recent' = Recent /\ Members' = Members
      /\ sync' = sync /\ removals' = removals /\ raced' = raced
  BY LineKeptFacts DEF HandlerStep
<1> QED BY <1>1 DEF Shown, Fetched

LEMMA ReactAdvance ==
  ASSUME TypeOK, rev < Len(ops), NEW W, NEW i, NEW S, ReactFrom(ops, W, i, S, rev),
         Op.type # "react" \/ Op.msg # i
  PROVE  ReactFrom(ops, W, i, S, rev + 1)
<1>1. rev \in Nat /\ Len(ops) \in Nat
  BY TypeFacts, LogFacts
<1>2. ASSUME NEW w \in W
      PROVE  \E p \in rev + 1 .. Len(ops) : w \in S <=> ReactAt(ops, i, w, p)
  <2>1. PICK p \in rev .. Len(ops) : w \in S <=> ReactAt(ops, i, w, p)
    BY DEF ReactFrom
  <2>2. CASE p = rev
    <3>1. w \in S <=> ReactAt(ops, i, w, rev + 1)
      BY <1>1, <2>1, <2>2, ReactStep DEF Op
    <3> QED BY <1>1, <3>1
  <2>3. CASE p # rev
    BY <1>1, <2>1, <2>3
  <2> QED BY <2>2, <2>3
<1> QED BY <1>2 DEF ReactFrom

LEMMA NameAdvance ==
  ASSUME TypeOK, rev < Len(ops), NEW v, NameFrom(ops, v, rev), Op.type # "chat"
  PROVE  NameFrom(ops, v, rev + 1)
<1>1. rev \in Nat /\ Len(ops) \in Nat
  BY TypeFacts, LogFacts
<1>2. SUFFICES ASSUME v # 0 PROVE \E p \in rev + 1 .. Len(ops) : v = NameAt(ops, p)
  BY DEF NameFrom
<1>3. PICK p \in rev .. Len(ops) : v = NameAt(ops, p)
  BY <1>2 DEF NameFrom
<1>4. CASE p = rev
  <2>1. v = NameAt(ops, rev + 1)
    BY <1>1, <1>3, <1>4, NameStep DEF Op
  <2> QED BY <1>1, <2>1
<1>5. CASE p # rev
  BY <1>1, <1>3, <1>5
<1> QED BY <1>4, <1>5

LEMMA NameFresh ==
  ASSUME TypeOK, NEW n \in 0 .. Len(ops)
  PROVE  NameFrom(ops, SrvName, n)
BY LogFacts, ServerFacts DEF NameFrom

LEMMA ReactFresh ==
  ASSUME TypeOK, NEW n \in 0 .. Len(ops), NEW i
  PROVE  ReactFrom(ops, Members, i, SrvReact(i), n)
BY LogFacts, ServerFacts DEF ReactFrom

\* Outside the savepoint, with the set of rows as it is.
Outside ==
  /\ HandlerStep /\ sync.pc = "idle" /\ ~Saving /\ ~Saving'
  /\ DOMAIN rows' = DOMAIN rows /\ RowsOf(rows') /\ readAt' \in [Members -> 0 .. Len(ops)]
  /\ name' \in Nat /\ faults' \in Nat /\ stream'.pc \in StreamSteps /\ Advance
  /\ stream'.pc # "idle" => /\ rev' = rev /\ rev < Len(ops) /\ Op.type = "message"
                            /\ removals = 0 => Op.msg \in DOMAIN rows
  /\ removals = 0 => \A i \in (DOMAIN rows' \intersect Recent) \ raced :
                       ReactFrom(ops, Members, i, rows'[i].react, rev')
  /\ NameFrom(ops, name', rev')

LEMMA OutsideMost ==
  ASSUME IInv, Outside, box' \in Box
  PROVE  TypeOK' /\ setup' \in Setups /\ LogInv' /\ Turns' /\ Used' /\ Cached' /\ Shown'
<1>1. TypeOK /\ LogInv /\ LineKept
  BY DEF IInv, Outside, HandlerStep
<1>2. /\ ops' = ops /\ msgs' = msgs /\ setup' = setup /\ hidden' = hidden /\ LogInv'
      /\ sync' = sync /\ removing' = removing /\ torn' = torn /\ raced' = raced /\ sent' = sent
      /\ syncs' = syncs /\ removals' = removals
  BY <1>1, LineKeptFacts DEF Outside, HandlerStep
<1>3. rev' \in 0 .. Len(ops)
  BY <1>1, TypeFacts, LogFacts DEF Outside, Advance
<1>4. TypeOK'
  BY <1>1, <1>2, <1>3, TypeFacts, KeptType DEF Outside
<1>5. Turns' /\ Used'
  BY <1>2 DEF IInv, Turns, Used, Saving, Op, Outside
<1>6. Cached' /\ Shown'
  BY HandlerCached, HandlerShown DEF Outside
<1>7. setup' \in Setups
  BY <1>2 DEF IInv
<1> QED BY <1>2, <1>4, <1>5, <1>6, <1>7

LEMMA OutsideInv ==
  ASSUME IInv, Outside, box' = box
  PROVE  IInv'
<1>1. box' \in Box
  BY TypeFacts DEF IInv
<1> QED BY <1>1, OutsideMost, HandlerCounts DEF IInv, Outside

\* A handler of one statement ends with its operation passed, or to be repeated.
LEMMA SavedAdvance ==
  ASSUME TypeOK, Saved("idle"), rev < Len(ops),
         Op.type # "message" \/ Op.msg \in DOMAIN rows \/ removals # 0
  PROVE  /\ Advance /\ ~Saving' /\ stream'.pc = "idle" /\ faults' \in Nat
         /\ rev' = rev \/ rev' = rev + 1
BY TypeFacts DEF Saved, Advance, Saving, Fault

LEMMA ShownRows ==
  ASSUME IInv, removals = 0, NEW i \in (DOMAIN rows \intersect Recent) \ raced
  PROVE  ReactFrom(ops, Members, i, rows[i].react, rev)
BY DEF IInv, Shown

LEMMA AdvanceShown ==
  ASSUME IInv, rev < Len(ops), rev' = rev \/ rev' = rev + 1, Op.type # "react",
         DOMAIN rows' = DOMAIN rows, \A i \in DOMAIN rows : rows'[i].react = rows[i].react
  PROVE  removals = 0 => \A i \in (DOMAIN rows' \intersect Recent) \ raced :
                           ReactFrom(ops, Members, i, rows'[i].react, rev')
<1> SUFFICES ASSUME removals = 0, NEW i \in (DOMAIN rows \intersect Recent) \ raced
             PROVE  ReactFrom(ops, Members, i, rows[i].react, rev')
  OBVIOUS
<1>1. ReactFrom(ops, Members, i, rows[i].react, rev) /\ TypeOK
  BY ShownRows DEF IInv
<1>2. ReactFrom(ops, Members, i, rows[i].react, rev + 1)
  BY <1>1, ReactAdvance
<1> QED BY <1>1, <1>2

LEMMA AdvanceName ==
  ASSUME IInv, rev < Len(ops), rev' = rev \/ rev' = rev + 1, Op.type # "chat"
  PROVE  NameFrom(ops, name, rev')
<1>1. TypeOK /\ NameFrom(ops, name, rev)
  BY DEF IInv, Shown
<1>2. NameFrom(ops, name, rev + 1)
  BY <1>1, NameAdvance
<1> QED BY <1>1, <1>2

\* enil_db_message_box_set_peer_read and set_group_reader only move forward.
LEMMA SetReadFacts ==
  ASSUME TypeOK, NEW w \in Members, NEW t \in 0 .. Len(ops)
  PROVE  LET ra == SetRead(readAt, w, t)
         IN  /\ ra \in [Members -> 0 .. Len(ops)]
             /\ \A x \in Members : ra[x] >= readAt[x]
BY SMTT(30), TypeFacts, LogFacts DEF SetRead, SetPeerRead, SetGroupReader

LEMMA StreamReadInv ==
  ASSUME IInv, StreamRead
  PROVE  IInv'
<1>1. /\ TypeOK /\ LogInv /\ sync.pc = "idle" /\ rev < Len(ops) /\ Op.type = "read" /\ ~Saving
      /\ Saved("idle")
  BY DEF IInv, StreamRead, HasOp, Now, Saving
<1>2. HandlerStep /\ rows' = rows /\ box' = box /\ name' = name
  BY DEF StreamRead, HandlerVars, HandlerStep, LineKept, line
<1>3. readAt' \in [Members -> 0 .. Len(ops)]
  <2>1. rev + 1 \in 0 .. Len(ops) /\ Op.who \in Members
    BY <1>1, OpFacts, LogFacts
  <2> QED BY <1>1, <2>1, SetReadFacts DEF StreamRead
<1>4. /\ Advance /\ ~Saving' /\ stream'.pc = "idle" /\ faults' \in Nat
      /\ rev' = rev \/ rev' = rev + 1
  BY <1>1, SavedAdvance
<1>5. NameFrom(ops, name', rev')
  BY <1>1, <1>2, <1>4, AdvanceName
<1>6. removals = 0 => \A i \in (DOMAIN rows' \intersect Recent) \ raced :
                        ReactFrom(ops, Members, i, rows'[i].react, rev')
  BY <1>1, <1>2, <1>4, AdvanceShown
<1>7. RowsOf(rows') /\ name' \in Nat /\ "idle" \in StreamSteps
  BY <1>1, <1>2, TypeFacts DEF StreamSteps
<1> QED BY <1>1, <1>2, <1>3, <1>4, <1>5, <1>6, <1>7, OutsideInv DEF Outside

LEMMA StreamDestroyInv ==
  ASSUME IInv, StreamDestroy
  PROVE  IInv'
<1>1. /\ TypeOK /\ LogInv /\ sync.pc = "idle" /\ rev < Len(ops) /\ Op.type = "destroy" /\ ~Saving
      /\ Saved("idle")
  BY DEF IInv, StreamDestroy, HasOp, Now, Saving
<1>2. HandlerStep /\ rows' = MarkDeleted(rows, Op.msg) /\ box' = box /\ name' = name
      /\ readAt' = readAt
  BY DEF StreamDestroy, HandlerVars, HandlerStep, LineKept, line
<1>3. /\ RowsOf(rows') /\ DOMAIN rows' = DOMAIN rows
      /\ \A k \in DOMAIN rows : rows'[k].react = rows[k].react
  BY <1>1, <1>2, TypeFacts, DeletedRows
<1>4. /\ Advance /\ ~Saving' /\ stream'.pc = "idle" /\ faults' \in Nat
      /\ rev' = rev \/ rev' = rev + 1
  BY <1>1, SavedAdvance
<1>5. NameFrom(ops, name', rev')
  BY <1>1, <1>2, <1>4, AdvanceName
<1>6. removals = 0 => \A i \in (DOMAIN rows' \intersect Recent) \ raced :
                        ReactFrom(ops, Members, i, rows'[i].react, rev')
  BY <1>1, <1>3, <1>4, AdvanceShown
<1>7. name' \in Nat /\ readAt' \in [Members -> 0 .. Len(ops)] /\ "idle" \in StreamSteps
  BY <1>1, <1>2, TypeFacts DEF StreamSteps
<1> QED BY <1>1, <1>2, <1>3, <1>4, <1>5, <1>6, <1>7, OutsideInv DEF Outside

LEMMA StreamReactionInv ==
  ASSUME IInv, StreamReaction
  PROVE  IInv'
<1>1. /\ TypeOK /\ LogInv /\ sync.pc = "idle" /\ rev < Len(ops) /\ Op.type = "react" /\ ~Saving
      /\ Saved("idle")
  BY DEF IInv, StreamReaction, HasOp, Now, Saving
<1>2. /\ HandlerStep /\ rows' = ReactionsUpdate(rows, Op.msg, Op.who, Op.on) /\ box' = box
      /\ name' = name /\ readAt' = readAt
  BY DEF StreamReaction, HandlerVars, HandlerStep, LineKept, line
<1>3. /\ Op.who \in Members /\ Op.on \in BOOLEAN /\ rev \in Nat /\ rev + 1 \in 1 .. Len(ops)
      /\ Op = ops[rev + 1] /\ Len(ops) \in Nat
  BY <1>1, OpFacts, LogFacts
<1>4. /\ RowsOf(rows') /\ DOMAIN rows' = DOMAIN rows
      /\ \A k \in DOMAIN rows : k # Op.msg => rows'[k].react = rows[k].react
      /\ Op.msg \in DOMAIN rows /\ Op.on => rows'[Op.msg].react = rows[Op.msg].react \union {Op.who}
      /\ Op.msg \in DOMAIN rows /\ ~Op.on => rows'[Op.msg].react = rows[Op.msg].react \ {Op.who}
  <2>1. RowsOf(rows)
    BY <1>1, TypeFacts
  <2>2. Reacted(rows, rows', Op.msg, Op.who, Op.on)
    BY <1>2, <1>3, <2>1, ReactionRows
  <2> QED BY <2>2 DEF Reacted
<1>5. /\ Advance /\ ~Saving' /\ stream'.pc = "idle" /\ faults' \in Nat
      /\ rev' = rev \/ rev' = rev + 1
  BY <1>1, SavedAdvance
<1>6. NameFrom(ops, name', rev')
  BY <1>1, <1>2, <1>5, AdvanceName
<1>7. ASSUME removals = 0, NEW i \in (DOMAIN rows' \intersect Recent) \ raced
      PROVE  ReactFrom(ops, Members, i, rows'[i].react, rev')
  <2>1. ReactFrom(ops, Members, i, rows[i].react, rev)
    BY <1>4, <1>7, ShownRows
  <2>2. CASE i # Op.msg
    <3>1. ReactFrom(ops, Members, i, rows[i].react, rev + 1)
      BY <1>1, <2>1, <2>2, ReactAdvance
    <3> QED BY <1>4, <1>5, <1>7, <2>1, <2>2, <3>1
  <2>3. CASE i = Op.msg
    <3> SUFFICES ASSUME NEW w \in Members
                 PROVE  \E p \in rev' .. Len(ops) :
                          w \in rows'[i].react <=> ReactAt(ops, i, w, p)
      BY DEF ReactFrom
    <3>1. CASE w = Op.who
      <4>1. ReactAt(ops, i, w, rev + 1) <=> Op.on
        BY <1>1, <1>3, <2>3, <3>1, ReactStep
      <4>2. w \in rows'[i].react <=> Op.on
        BY <1>4, <1>7, <2>3, <3>1
      <4>3. rev + 1 \in rev' .. Len(ops)
        BY <1>3, <1>5
      <4> QED BY <4>1, <4>2, <4>3
    <3>2. CASE w # Op.who
      <4>1. w \in rows'[i].react <=> w \in rows[i].react
        <5>1. \/ rows'[i].react = rows[i].react \union {Op.who}
              \/ rows'[i].react = rows[i].react \ {Op.who}
          BY <1>4, <1>7, <2>3
        <5> QED BY <3>2, <5>1
      <4>2. PICK p \in rev .. Len(ops) : w \in rows[i].react <=> ReactAt(ops, i, w, p)
        BY <2>1 DEF ReactFrom
      <4>3. ReactAt(ops, i, w, rev + 1) <=> ReactAt(ops, i, w, rev)
        BY <1>3, <3>2, ReactStep
      <4>4. CASE p = rev
        <5>1. rev + 1 \in rev' .. Len(ops)
          BY <1>3, <1>5
        <5> QED BY <4>1, <4>2, <4>3, <4>4, <5>1
      <4>5. CASE p # rev
        <5>1. p \in rev' .. Len(ops)
          BY <1>3, <1>5, <4>5
        <5> QED BY <4>1, <4>2, <5>1
      <4> QED BY <4>4, <4>5
    <3> QED BY <3>1, <3>2
  <2> QED BY <2>2, <2>3
<1>8. name' \in Nat /\ readAt' \in [Members -> 0 .. Len(ops)] /\ "idle" \in StreamSteps
  BY <1>1, <1>2, TypeFacts DEF StreamSteps
<1> QED BY <1>1, <1>2, <1>4, <1>5, <1>6, <1>7, <1>8, OutsideInv DEF Outside

LEMMA StreamSeenInv ==
  ASSUME IInv, StreamSeen
  PROVE  IInv'
<1>1. /\ TypeOK /\ LogInv /\ sync.pc = "idle" /\ rev < Len(ops) /\ Op.type = "seen" /\ ~Saving
      /\ Saved("idle") /\ LineKept
  BY DEF IInv, StreamSeen, HasOp, Now, Saving, HandlerVars, LineKept, line
<1>2. HandlerStep /\ rows' = rows /\ box' = MarkSeen(box, Op.msg) /\ name' = name /\ readAt' = readAt
  BY DEF StreamSeen, HandlerVars, HandlerStep, LineKept, line
<1>3. /\ Advance /\ ~Saving' /\ stream'.pc = "idle" /\ faults' \in Nat
      /\ rev' = rev \/ rev' = rev + 1
  BY <1>1, SavedAdvance
<1>4. NameFrom(ops, name', rev')
  BY <1>1, <1>2, <1>3, AdvanceName
<1>5. removals = 0 => \A i \in (DOMAIN rows' \intersect Recent) \ raced :
                        ReactFrom(ops, Members, i, rows'[i].react, rev')
  BY <1>1, <1>2, <1>3, AdvanceShown
<1>6. /\ RowsOf(rows') /\ name' \in Nat /\ readAt' \in [Members -> 0 .. Len(ops)]
      /\ "idle" \in StreamSteps
  BY <1>1, <1>2, TypeFacts DEF StreamSteps
<1>7. Outside
  BY <1>1, <1>2, <1>3, <1>4, <1>5, <1>6 DEF Outside
<1>8. CASE ~box.in
  BY <1>2, <1>7, <1>8, OutsideInv DEF MarkSeen
<1>9. CASE box.in
  <2>1. /\ Op.msg \in 1 .. Len(msgs) /\ rev \in Nat /\ rev + 1 \in 1 .. Len(ops)
        /\ Op = ops[rev + 1] /\ Len(ops) \in Nat /\ Len(msgs) \in Nat
    BY <1>1, OpFacts, LogFacts
  <2>2. box' \in Box /\ box'.unread = 0 /\ box'.seen = Op.msg
    <3>1. PICK i \in Nat : i = Op.msg
      BY <2>1
    <3>2. box \in Box /\ box' = [box EXCEPT !.unread = 0, !.seen = i]
      BY <1>1, <1>2, <1>9, <3>1, TypeFacts DEF MarkSeen
    <3> QED BY <3>1, <3>2 DEF Box
  <2>3. /\ ops' = ops /\ msgs' = msgs /\ setup' = setup /\ Theirs' = Theirs /\ Unsent' = Unsent
        /\ sync' = sync /\ removals' = removals /\ torn' = torn /\ raced' = raced /\ syncs' = syncs
        /\ Theirs \subseteq 1 .. Len(msgs)
    BY <1>1, <1>2, LineKeptFacts, LogFacts DEF HandlerStep
  <2>4. \A i \in 1 .. Op.msg : Logged(ops, i, rev)
    BY <1>1, <2>1 DEF LogInv
  <2>5. \A i \in Nat : Logged(ops, i, rev + 1) => i <= Op.msg /\ Logged(ops, i, rev' + 1)
    <3> SUFFICES ASSUME NEW i \in Nat, Logged(ops, i, rev + 1)
                 PROVE  i <= Op.msg /\ Logged(ops, i, rev' + 1)
      OBVIOUS
    <3>1. Logged(ops, i, rev)
      BY <1>1, <2>1, LoggedStep
    <3>2. i <= Op.msg
      BY <1>1, <2>1, <3>1 DEF LogInv
    <3> QED BY <1>3, <2>1, <3>2, LoggedMono
  <2>6. Counting' = DOMAIN rows
    BY <1>2, <1>3 DEF Counting
  <2>7. /\ Above(Theirs, Unsent, DOMAIN rows, box')
        /\ syncs = 0 /\ removals = 0 => Below(Theirs, DOMAIN rows, box')
    <3>1. Above(Theirs, Unsent, DOMAIN rows, box')
      BY <2>1, <2>2, <2>3, AboveNone
    <3>2. ASSUME syncs = 0, removals = 0 PROVE Below(Theirs, DOMAIN rows, box')
      <4>1. \A i \in DOMAIN rows \intersect Theirs : i <= Op.msg
        <5>1. \A i \in DOMAIN rows \intersect Theirs : i \in Nat /\ Logged(ops, i, rev + 1)
          BY <2>3, <3>2 DEF IInv, Streamed
        <5> QED BY <2>5, <5>1
      <4>2. ASSUME NEW i \in DOMAIN rows \intersect Theirs PROVE ~(i > box'.seen)
        <5>1. i <= Op.msg
          BY <4>1
        <5>2. i \in 1 .. Len(msgs)
          BY <2>3
        <5> QED BY <2>1, <2>2, <5>1, <5>2
      <4>3. Unseen(Theirs, DOMAIN rows, box') = {}
        BY <4>2 DEF Unseen
      <4> QED BY <2>2, <4>3, BelowNone
    <3> QED BY <3>1, <3>2
  <2>8. NotTwice'
    <3>1. ASSUME setup.window >= setup.msgs, removals = 0
          PROVE  Covered(Unsent, DOMAIN rows, box')
      <4>1. Recent = (1 .. Len(msgs)) \ Unsent
        BY <1>1, <3>1, WindowFacts DEF IInv
      <4>2. CachedIn(Recent, ops, rev, DOMAIN rows)
        BY <3>1 DEF IInv, Cached
      <4>3. \A i \in 1 .. Op.msg : i \in 1 .. Len(msgs)
        BY <2>1
      <4> QED BY <2>2, <2>4, <4>1, <4>2, <4>3 DEF Covered, CachedIn
    <3>2. Op.msg <= Len(msgs) /\ \E j \in 1 .. Len(ops) : ops[j].type = "seen"
      BY <1>1, <2>1
    <3> QED BY <1>1, <1>2, <1>3, <2>2, <2>3, <2>6, <2>7, <3>1, <3>2 DEF NotTwice
  <2>9. Streamed'
    <3>1. \A i \in DOMAIN rows \intersect Theirs : i \in Nat
      BY <2>3
    <3> QED BY <1>2, <1>3, <2>3, <2>5, <2>6, <2>7, <3>1 DEF IInv, Streamed
  <2> QED BY <1>7, <2>2, <2>8, <2>9, OutsideMost DEF IInv
<1> QED BY <1>8, <1>9

LEMMA StreamChatUpdateInv ==
  ASSUME IInv, StreamChatUpdate
  PROVE  IInv'
<1>1. /\ TypeOK /\ LogInv /\ sync.pc = "idle" /\ rev < Len(ops) /\ Op.type = "chat" /\ ~Saving
  BY DEF IInv, StreamChatUpdate, HasOp, Now, Saving
<1>2. HandlerStep /\ rows' = rows /\ box' = box /\ readAt' = readAt
  BY DEF StreamChatUpdate, HandlerVars, HandlerStep, LineKept, line
<1>3. /\ Advance /\ ~Saving' /\ stream'.pc = "idle" /\ faults' \in Nat
      /\ rev' = rev \/ rev' = rev + 1
  <2>1. CASE Saved("idle")
    BY <1>1, <2>1, SavedAdvance
  <2>2. CASE UNCHANGED <<rev, stream>> /\ Fault
    BY <1>1, <2>2, TypeFacts DEF Advance, Saving, Fault, StreamChatUpdate
  <2> QED BY <2>1, <2>2 DEF StreamChatUpdate
<1>4. rev' \in 0 .. Len(ops)
  BY <1>1, <1>3, TypeFacts, LogFacts
<1>5. name' \in Nat /\ NameFrom(ops, name', rev')
  <2>1. CASE name' = SrvName
    BY <1>1, <1>4, <2>1, ServerFacts, NameFresh
  <2>2. CASE name' = name /\ rev' = rev
    BY <1>1, <2>2, TypeFacts DEF IInv, Shown
  <2> QED BY <2>1, <2>2 DEF StreamChatUpdate
<1>6. removals = 0 => \A i \in (DOMAIN rows' \intersect Recent) \ raced :
                        ReactFrom(ops, Members, i, rows'[i].react, rev')
  BY <1>1, <1>2, <1>3, AdvanceShown
<1>7. RowsOf(rows') /\ readAt' \in [Members -> 0 .. Len(ops)] /\ "idle" \in StreamSteps
  BY <1>1, <1>2, TypeFacts DEF StreamSteps
<1> QED BY <1>1, <1>2, <1>3, <1>5, <1>6, <1>7, OutsideInv DEF Outside

\* Metadata, decryption and cursor of a message that is stored.
LEMMA StreamTailInv ==
  ASSUME IInv, StreamCheck \/ StreamDecrypt \/ StreamDone
  PROVE  IInv'
<1>1. /\ TypeOK /\ LogInv /\ sync.pc = "idle" /\ rev < Len(ops) /\ Op.type = "message" /\ ~Saving
      /\ stream.pc # "idle"
  BY DEF IInv, StreamCheck, StreamDecrypt, StreamDone, Turns, Saving
<1>2. HandlerStep /\ box' = box /\ readAt' = readAt
  BY DEF StreamCheck, StreamDecrypt, StreamDone, HandlerVars, HandlerStep, LineKept, line, db
<1>3. removals = 0 => Op.msg \in DOMAIN rows
  BY <1>1 DEF IInv, Turns, Saving
<1>4. /\ DOMAIN rows' = DOMAIN rows /\ RowsOf(rows')
      /\ \A i \in DOMAIN rows : rows'[i].react = rows[i].react
  <2>1. RowsOf(rows)
    BY <1>1, TypeFacts
  <2>2. CASE rows' = rows
    BY <2>1, <2>2
  <2>3. ASSUME NEW ok \in BOOLEAN, rows' = DecryptWrite(rows, Op.msg, ok)
        PROVE  DOMAIN rows' = DOMAIN rows /\ RowsOf(rows') /\ SameMarks(rows, rows')
    BY <2>1, <2>3, DecryptRows
  <2>4. rows' = rows \/ \E ok \in BOOLEAN : rows' = DecryptWrite(rows, Op.msg, ok)
    BY DEF StreamCheck, StreamDecrypt, StreamDone, db
  <2> QED BY <2>2, <2>3, <2>4 DEF SameMarks
<1>5. /\ Advance /\ ~Saving' /\ faults' \in Nat /\ stream'.pc \in StreamSteps
      /\ stream'.pc # "idle" => rev' = rev
      /\ rev' = rev \/ rev' = rev + 1
  <2>1. faults \in Nat
    BY <1>1, TypeFacts
  <2>2. CASE StreamCheck
    BY <2>1, <2>2 DEF StreamCheck, Advance, Saving, StreamSteps, Backfill, Fault
  <2>3. CASE StreamDecrypt
    <3>1. stream'.pc = "done" /\ rev' = rev
      BY <2>3 DEF StreamDecrypt
    <3>2. faults' = faults \/ faults' = faults + 1
      BY <2>3 DEF StreamDecrypt, Fault
    <3> QED BY <2>1, <3>1, <3>2 DEF Advance, Saving, StreamSteps
  <2>4. CASE StreamDone
    <3>1. /\ Advance /\ ~Saving' /\ stream'.pc = "idle" /\ faults' \in Nat
          /\ rev' = rev \/ rev' = rev + 1
      BY <1>1, <1>3, <2>4, SavedAdvance DEF StreamDone
    <3> QED BY <3>1 DEF StreamSteps
  <2> QED BY <2>2, <2>3, <2>4
<1>6. rev' \in 0 .. Len(ops)
  BY <1>1, <1>5, TypeFacts, LogFacts
<1>7. name' \in Nat /\ NameFrom(ops, name', rev')
  <2>1. CASE name' = SrvName
    BY <1>1, <1>6, <2>1, ServerFacts, NameFresh
  <2>2. CASE name' = name
    BY <1>1, <1>5, <2>2, TypeFacts, AdvanceName
  <2> QED BY <2>1, <2>2 DEF StreamCheck, StreamDecrypt, StreamDone, Backfill, db
<1>8. removals = 0 => \A i \in (DOMAIN rows' \intersect Recent) \ raced :
                        ReactFrom(ops, Members, i, rows'[i].react, rev')
  BY <1>1, <1>4, <1>5, AdvanceShown
<1>9. readAt' \in [Members -> 0 .. Len(ops)]
  BY <1>1, <1>2, TypeFacts
<1> QED BY <1>1, <1>2, <1>3, <1>4, <1>5, <1>7, <1>8, <1>9, OutsideInv DEF Outside

-----------------------------------------------------------------------------
(* The savepoint of a message.                                             *)

LEMMA CountedAbove ==
  ASSUME TypeOK, NEW b \in Box, NEW u \in Box, NEW D, NEW i \in 1 .. Len(msgs),
         CountedIn(b, u, D, i), Above(Theirs, Unsent, D, u), Covered(Unsent, D, u)
  PROVE  Above(Theirs, Unsent, D \union {i}, b)
<1>1. Len(msgs) \in Nat /\ Theirs \subseteq 1 .. Len(msgs) /\ b.seen = u.seen
  BY LogFacts DEF CountedIn
<1>2. CASE i \in D
  <2>1. b.unread = u.unread /\ b.unread <= u.unread
    BY <1>2 DEF CountedIn, Box
  <2> QED BY <1>1, <2>1, AboveMono
<1>3. CASE i \notin D /\ i \in Theirs
  <2>1. b.unread = u.unread + 1
    BY <1>3 DEF CountedIn
  <2> QED BY <1>1, <1>3, <2>1, AboveAdd
<1>4. CASE i \notin D /\ i \notin Theirs
  <2>1. b.unread = 0
    BY <1>4 DEF CountedIn
  <2> QED BY <1>1, <2>1, AboveNone
<1> QED BY <1>2, <1>3, <1>4

LEMMA CountedBelow ==
  ASSUME TypeOK, NEW b \in Box, NEW u \in Box, NEW D, NEW i \in 1 .. Len(msgs),
         CountedIn(b, u, D, i), Below(Theirs, D, u),
         \A k \in D \intersect Theirs : k # i => k < i
  PROVE  Below(Theirs, D \union {i}, b)
<1>1. /\ Len(msgs) \in Nat /\ Theirs \subseteq 1 .. Len(msgs) /\ b.seen = u.seen
      /\ b.unread \in Nat /\ u.unread \in Nat
  BY LogFacts DEF CountedIn, Box
<1>2. CASE i \in D
  <2>1. b.unread = u.unread /\ D \union {i} = D
    BY <1>2 DEF CountedIn
  <2>2. Unseen(Theirs, D, b) = Unseen(Theirs, D, u)
    BY <1>1 DEF Unseen
  <2> QED BY <2>1, <2>2 DEF Below
<1>3. CASE i \notin D /\ i \in Theirs
  <2>1. b.unread = u.unread + 1
    BY <1>3 DEF CountedIn
  <2> QED BY <1>1, <2>1, BelowAdd
<1>4. CASE i \notin D /\ i \notin Theirs
  <2>1. ASSUME NEW k \in D \intersect Theirs PROVE k < i
    <3>1. k # i
      BY <1>4, <2>1
    <3> QED BY <3>1
  <2>2. ASSUME NEW k \in Unseen(Theirs, D \union {i}, b) PROVE FALSE
    <3>1. k \in D \union {i} /\ k \in Theirs /\ i < k /\ k \in Nat
      BY <1>1, <1>4, <2>2 DEF Unseen
    <3>2. k # i
      BY <1>4, <3>1
    <3>3. k < i
      BY <2>1, <3>1, <3>2
    <3> QED BY <3>1, <3>3
  <2>3. Unseen(Theirs, D \union {i}, b) = {}
    BY <2>2
  <2> QED BY <1>1, <2>3, BelowNone
<1> QED BY <1>2, <1>3, <1>4

LEMMA StreamSaveInv ==
  ASSUME IInv, StreamSave
  PROVE  IInv'
<1>1. /\ TypeOK /\ LogInv /\ sync.pc = "idle" /\ rev < Len(ops) /\ Op.type = "message" /\ ~Saving
      /\ LineKept
  BY DEF IInv, StreamSave, HasOp, Now, Saving, HandlerVars, LineKept, line
<1>2. /\ HandlerStep /\ rows' = rows /\ name' = name /\ readAt' = readAt /\ rev' = rev
      /\ faults' = faults /\ stream'.pc = "saved" /\ Saving'
  BY DEF StreamSave, HandlerVars, HandlerStep, LineKept, line, Saving
<1>3. Undo' = [rows |-> rows, box |-> box] /\ stream'.undo = <<rows, box, readAt, name>>
  BY DEF StreamSave, Undo, db
<1>4. /\ Op.msg \in 1 .. Len(msgs) /\ rev \in Nat /\ rev + 1 \in 1 .. Len(ops)
      /\ Op = ops[rev + 1] /\ Len(ops) \in Nat /\ Len(msgs) \in Nat
  BY <1>1, OpFacts, LogFacts
<1>5. /\ ops' = ops /\ msgs' = msgs /\ setup' = setup /\ hidden' = hidden /\ LogInv'
      /\ Theirs' = Theirs /\ Unsent' = Unsent /\ Recent' = Recent /\ Members' = Members
      /\ sync' = sync /\ removals' = removals /\ torn' = torn /\ raced' = raced /\ syncs' = syncs
      /\ removing' = removing /\ sent' = sent /\ Op' = Op
      /\ Theirs \subseteq 1 .. Len(msgs)
  BY <1>1, <1>2, LineKeptFacts, LogFacts DEF HandlerStep, Op
<1>6. box' \in Box /\ CountedIn(box', box, DOMAIN rows, Op.msg)
  <2>1. PICK i \in 1 .. Len(msgs) : i = Op.msg
    BY <1>4
  <2>2. i \in Nat /\ (msgs[i].mine <=> i \notin Theirs)
    BY <1>4 DEF Theirs
  <2>3. PICK n : n = IF i \in DOMAIN rows THEN box.unread
                     ELSE IF i \in Theirs THEN box.unread + 1 ELSE 0
    OBVIOUS
  <2>4. box \in Box /\ n \in Nat
    BY <1>1, <2>3, TypeFacts
  <2>5. box' = [box EXCEPT !.in = TRUE, !.delivered = i, !.unread = n]
    BY <2>1, <2>2, <2>3 DEF StreamSave, LiveMessage
  <2>6. box' \in Box /\ box'.seen = box.seen /\ box'.unread = n
    BY <2>2, <2>4, <2>5 DEF Box
  <2> QED BY <2>1, <2>3, <2>6 DEF CountedIn
<1>7. TypeOK'
  <2>1. "saved" \in StreamSteps
    BY DEF StreamSteps
  <2> QED BY <1>1, <1>2, <1>5, <1>6, <2>1, TypeFacts, KeptType
<1>8. Turns'
  <2>1. \A i \in DOMAIN rows : rows[i] \in Row
    BY <1>1, TypeFacts DEF RowsOf
  <2>2. Row' = Row
    BY <1>5 DEF Row, Statuses
  <2>3. CountedIn(box, Undo.box, DOMAIN Undo.rows, Op.msg)'
    BY <1>3, <1>5, <1>6 DEF CountedIn
  <2>4. box \in Box
    BY <1>1, TypeFacts
  <2> QED BY <1>1, <1>2, <1>3, <1>5, <2>1, <2>2, <2>3, <2>4 DEF Turns, Box
<1>9. Used'
  BY <1>5 DEF IInv, Used
<1>10. Cached'
  BY <1>1, <1>2, <1>3, <1>5 DEF IInv, Cached, Fetched
<1>11. Counting' = DOMAIN rows \union {Op.msg} /\ Counting = DOMAIN rows
  BY <1>1, <1>2, <1>5 DEF Counting
<1>12. NotTwice'
  <2>1. box'.seen = box.seen
    BY <1>6 DEF CountedIn
  <2>2. ASSUME setup.window >= setup.msgs, ~torn, removals = 0
        PROVE  /\ Above(Theirs, Unsent, DOMAIN rows, box) /\ Covered(Unsent, DOMAIN rows, box)
               /\ Above(Theirs, Unsent, Counting', box') /\ Covered(Unsent, DOMAIN rows, box')
    <3>1. Above(Theirs, Unsent, DOMAIN rows, box) /\ Covered(Unsent, DOMAIN rows, box)
      BY <1>1, <1>11, <2>2 DEF IInv, NotTwice
    <3>2. Above(Theirs, Unsent, Counting', box')
      BY <1>1, <1>4, <1>6, <1>11, <3>1, TypeFacts, CountedAbove
    <3> QED BY <2>1, <3>1, <3>2 DEF Covered
  <2>3. /\ box.seen # 0 => \E j \in 1 .. Len(ops) : ops[j].type = "seen"
        /\ box.seen <= Len(msgs)
    BY DEF IInv, NotTwice
  <2> QED BY <1>1, <1>2, <1>3, <1>5, <2>1, <2>2, <2>3 DEF NotTwice
<1>13. Streamed'
  <2>1. ASSUME syncs = 0, removals = 0
        PROVE  /\ Below(Theirs, DOMAIN rows, box) /\ Below(Theirs, Counting', box')
               /\ \A i \in DOMAIN rows \intersect Theirs : Logged(ops, i, rev + 1)
    <3>1. /\ Below(Theirs, DOMAIN rows, box)
          /\ \A i \in DOMAIN rows \intersect Theirs : Logged(ops, i, rev + 1)
      BY <1>11, <2>1 DEF IInv, Streamed
    <3>2. ASSUME NEW k \in DOMAIN rows \intersect Theirs, k # Op.msg PROVE k < Op.msg
      <4>1. Logged(ops, k, rev)
        BY <1>4, <3>1, <3>2, LoggedStep
      <4>2. PICK j \in 1 .. rev : ops[j].type = "message" /\ ops[j].msg = k
        BY <4>1 DEF Logged
      <4>3. j \in 1 .. Len(ops) /\ j < rev + 1
        BY <1>4
      <4> QED BY <1>1, <1>4, <4>2, <4>3 DEF LogInv
    <3>3. Below(Theirs, Counting', box')
      BY <1>1, <1>4, <1>6, <1>11, <3>1, <3>2, TypeFacts, CountedBelow
    <3> QED BY <3>1, <3>3
  <2> QED BY <1>2, <1>3, <1>5, <2>1 DEF Streamed
<1>14. Shown'
  BY <1>1, <1>2, <1>5 DEF IInv, Shown, Fetched
<1> QED BY <1>5, <1>7, <1>8, <1>9, <1>10, <1>12, <1>13, <1>14 DEF IInv

LEMMA StreamInsertInv ==
  ASSUME IInv, StreamInsert
  PROVE  IInv'
<1>1. /\ TypeOK /\ LogInv /\ sync.pc = "idle" /\ rev < Len(ops) /\ Op.type = "message" /\ Saving
      /\ LineKept
  BY DEF IInv, StreamInsert, Turns, Saving, HandlerVars, LineKept, line
<1>2. /\ HandlerStep /\ box' = box /\ name' = name /\ readAt' = readAt /\ rev' = rev
      /\ faults' = faults /\ stream'.pc = "stored" /\ ~Saving'
  BY DEF StreamInsert, HandlerVars, HandlerStep, LineKept, line, Saving
<1>3. /\ Op.msg \in 1 .. Len(msgs) /\ rev \in Nat /\ rev + 1 \in 1 .. Len(ops)
      /\ Op = ops[rev + 1] /\ Len(ops) \in Nat /\ Len(msgs) \in Nat
  BY <1>1, OpFacts, LogFacts
<1>4. /\ DOMAIN rows' = DOMAIN rows \union {Op.msg} /\ RowsOf(rows')
      /\ \A k \in DOMAIN rows : rows'[k].react = rows[k].react
      /\ Op.msg \notin DOMAIN rows => rows'[Op.msg].react = {}
  <2>1. PICK text \in BOOLEAN, no \in BOOLEAN, none \in SUBSET Members :
          text = (msgs[Op.msg].kind = "clear") /\ no = FALSE /\ none = {}
    OBVIOUS
  <2>2. PICK zero : rows' = MessageUpsert(rows, Op.msg, text, no, none, zero) /\ RowsOf(rows)
    BY <1>1, <2>1, TypeFacts DEF StreamInsert
  <2>3. Upserted(rows, rows', Op.msg, no, none, zero)
    BY <2>2, UpsertRows
  <2> QED BY <2>1, <2>3 DEF Upserted
<1>5. /\ ops' = ops /\ msgs' = msgs /\ setup' = setup /\ hidden' = hidden /\ LogInv'
      /\ Theirs' = Theirs /\ Unsent' = Unsent /\ Recent' = Recent /\ Members' = Members
      /\ sync' = sync /\ removals' = removals /\ torn' = torn /\ raced' = raced /\ syncs' = syncs
      /\ removing' = removing /\ sent' = sent /\ Op' = Op
      /\ Theirs \subseteq 1 .. Len(msgs)
  BY <1>1, <1>2, LineKeptFacts, LogFacts DEF HandlerStep, Op
<1>6. TypeOK'
  <2>1. "stored" \in StreamSteps
    BY DEF StreamSteps
  <2>2. DOMAIN rows' \subseteq 1 .. Len(msgs)
    BY <1>1, <1>3, <1>4, TypeFacts
  <2> QED BY <1>1, <1>2, <1>4, <1>5, <2>1, <2>2, TypeFacts, KeptType
<1>7. Turns' /\ Used'
  BY <1>1, <1>2, <1>4, <1>5 DEF IInv, Turns, Used
<1>8. Cached'
  BY <1>1, <1>2, <1>4, HandlerCached DEF Advance
<1>9. Counting = DOMAIN rows' /\ Counting' = DOMAIN rows'
  BY <1>1, <1>2, <1>4 DEF Counting
<1>10. NotTwice'
  <2>1. ASSUME setup.window >= setup.msgs, ~torn, removals = 0
        PROVE  Above(Theirs, Unsent, DOMAIN rows', box) /\ Covered(Unsent, DOMAIN rows', box)
    <3>1. Above(Theirs, Unsent, Counting, box) /\ Covered(Unsent, DOMAIN rows, box)
      BY <1>1, <2>1 DEF IInv, NotTwice
    <3> QED BY <1>4, <1>9, <3>1 DEF Covered
  <2> QED BY <1>1, <1>2, <1>5, <1>9, <2>1 DEF IInv, NotTwice
<1>11. Streamed'
  <2>1. ASSUME syncs = 0, removals = 0
        PROVE  /\ Below(Theirs, DOMAIN rows', box)
               /\ \A i \in DOMAIN rows' \intersect Theirs : Logged(ops, i, rev + 1)
    <3>1. /\ Below(Theirs, Counting, box)
          /\ \A i \in DOMAIN rows \intersect Theirs : Logged(ops, i, rev + 1)
      BY <2>1 DEF IInv, Streamed
    <3>2. Logged(ops, Op.msg, rev + 1)
      BY <1>1, <1>3, LoggedStep
    <3> QED BY <1>4, <1>9, <3>1, <3>2
  <2> QED BY <1>2, <1>5, <1>9, <2>1 DEF Streamed
<1>12. Shown'
  <2>1. ASSUME removals = 0, NEW i \in (DOMAIN rows' \intersect Recent) \ raced
        PROVE  ReactFrom(ops, Members, i, rows'[i].react, rev)
    <3>1. CASE i \in DOMAIN rows
      BY <1>4, <2>1, <3>1, ShownRows
    <3>2. CASE i \notin DOMAIN rows
      <4>1. i = Op.msg /\ rows'[i].react = {}
        BY <1>4, <2>1, <3>2
      <4>2. ~Logged(ops, i, rev)
        BY <1>1, <1>3, <4>1, LoggedOnce
      <4>3. \A w \in Members : ~ReactAt(ops, i, w, rev)
        BY <1>1, <1>3, <4>1, <4>2, NoReaction
      <4>4. rev \in rev .. Len(ops)
        BY <1>1, <1>3
      <4> QED BY <4>1, <4>3, <4>4 DEF ReactFrom
    <3> QED BY <3>1, <3>2
  <2>2. NameFrom(ops, name', rev')
    BY <1>2 DEF IInv, Shown
  <2> QED BY <1>1, <1>2, <2>1, <2>2, HandlerShown
<1> QED BY <1>5, <1>6, <1>7, <1>8, <1>10, <1>11, <1>12 DEF IInv

LEMMA StreamRollbackInv ==
  ASSUME IInv, StreamRollback
  PROVE  IInv'
<1>1. /\ TypeOK /\ LogInv /\ sync.pc = "idle" /\ rev < Len(ops) /\ Op.type = "message" /\ Saving
      /\ LineKept
  BY DEF IInv, StreamRollback, Turns, Saving, HandlerVars, LineKept, line
<1>2. /\ HandlerStep /\ rev' = rev /\ stream'.pc = "idle" /\ ~Saving' /\ faults' \in Nat
      /\ rows' = Undo.rows /\ box' = Undo.box
  BY <1>1, TypeFacts DEF StreamRollback, HandlerVars, HandlerStep, LineKept, line, Saving, Undo,
     Fault, Idle
<1>3. readAt' = readAt /\ name' = name
  <2>1. stream.undo = <<Undo.rows, Undo.box, readAt, name>>
    BY <1>1 DEF IInv, Turns
  <2> QED BY <2>1 DEF StreamRollback
<1>4. /\ Undo.box \in Box /\ DOMAIN Undo.rows \subseteq DOMAIN rows /\ RowsOf(Undo.rows)
      /\ \A i \in DOMAIN Undo.rows : Undo.rows[i].react = rows[i].react
  BY <1>1 DEF IInv, Turns, RowsOf
<1>5. /\ ops' = ops /\ msgs' = msgs /\ setup' = setup /\ hidden' = hidden /\ LogInv'
      /\ Theirs' = Theirs /\ Unsent' = Unsent /\ Recent' = Recent /\ Members' = Members
      /\ sync' = sync /\ removals' = removals /\ torn' = torn /\ raced' = raced /\ syncs' = syncs
      /\ removing' = removing /\ sent' = sent /\ Op' = Op
  BY <1>1, <1>2, LineKeptFacts DEF HandlerStep, Op
<1>6. TypeOK'
  <2>1. "idle" \in StreamSteps
    BY DEF StreamSteps
  <2>2. DOMAIN rows' \subseteq 1 .. Len(msgs)
    BY <1>1, <1>2, <1>4, TypeFacts
  <2>3. RowsOf(rows') /\ box' \in Box
    BY <1>2, <1>4
  <2> QED BY <1>1, <1>2, <1>3, <1>5, <2>1, <2>2, <2>3, TypeFacts, KeptType
<1>7. Turns' /\ Used'
  BY <1>2, <1>5 DEF IInv, Turns, Used
<1>8. Cached'
  BY <1>1, <1>2, <1>5 DEF IInv, Cached, Fetched
<1>9. Counting' = DOMAIN Undo.rows
  BY <1>2 DEF Counting
<1>10. NotTwice'
  <2>1. box'.seen = box.seen /\ box.seen <= Len(msgs)
    BY <1>1, <1>2 DEF IInv, Turns, CountedIn, NotTwice
  <2>2. ASSUME setup.window >= setup.msgs, ~torn, removals = 0
        PROVE  /\ Above(Theirs, Unsent, DOMAIN Undo.rows, Undo.box)
               /\ Covered(Unsent, DOMAIN Undo.rows, Undo.box)
    BY <1>1, <2>2 DEF IInv, NotTwice
  <2>3. box.seen # 0 => \E j \in 1 .. Len(ops) : ops[j].type = "seen"
    BY DEF IInv, NotTwice
  <2> QED BY <1>1, <1>2, <1>5, <1>9, <2>1, <2>2, <2>3 DEF NotTwice
<1>11. Streamed'
  <2>1. ASSUME syncs = 0, removals = 0
        PROVE  /\ Below(Theirs, DOMAIN Undo.rows, Undo.box)
               /\ \A i \in DOMAIN Undo.rows \intersect Theirs : Logged(ops, i, rev + 1)
    BY <1>1, <1>4, <2>1 DEF IInv, Streamed
  <2> QED BY <1>2, <1>5, <1>9, <2>1 DEF Streamed
<1>12. Shown'
  <2>1. ASSUME removals = 0, NEW i \in (DOMAIN rows' \intersect Recent) \ raced
        PROVE  ReactFrom(ops, Members, i, rows'[i].react, rev')
    <3>1. i \in (DOMAIN rows \intersect Recent) \ raced /\ rows'[i].react = rows[i].react
      BY <1>2, <1>4, <2>1
    <3> QED BY <1>2, <2>1, <3>1, ShownRows
  <2>2. NameFrom(ops, name', rev')
    BY <1>2, <1>3 DEF IInv, Shown
  <2> QED BY <1>1, <1>2, <2>1, <2>2, HandlerShown
<1> QED BY <1>5, <1>6, <1>7, <1>8, <1>10, <1>11, <1>12 DEF IInv

-----------------------------------------------------------------------------
(* The sync; the stream is stopped.                                        *)

\* What every step of a sync keeps.
SyncKept ==
  /\ LineKept /\ UNCHANGED <<stream, removing, sent, removals>> /\ stream.pc = "idle"
  /\ DOMAIN rows' \subseteq 1 .. Len(msgs) /\ RowsOf(rows') /\ box' \in Box
  /\ readAt' \in [Members -> 0 .. Len(ops)] /\ name' \in Nat /\ rev' \in 0 .. Len(ops)
  /\ sync' \in Syncs /\ torn' \in BOOLEAN /\ faults' \in Nat /\ syncs' \in Nat /\ syncs' # 0
  /\ raced' \subseteq 1 .. Len(msgs)

LEMMA SyncMost ==
  ASSUME IInv, SyncKept
  PROVE  /\ TypeOK' /\ setup' \in Setups /\ LogInv' /\ Turns' /\ Used' /\ Streamed'
         /\ ops' = ops /\ msgs' = msgs /\ setup' = setup /\ removals' = removals
         /\ Theirs' = Theirs /\ Unsent' = Unsent /\ Recent' = Recent /\ Members' = Members
         /\ ~Saving /\ ~Saving' /\ Counting = DOMAIN rows /\ Counting' = DOMAIN rows'
<1>1. TypeOK /\ LogInv /\ LineKept /\ stream' = stream /\ stream.pc = "idle"
  BY DEF IInv, SyncKept
<1>2. /\ ops' = ops /\ msgs' = msgs /\ setup' = setup /\ hidden' = hidden /\ LogInv'
      /\ removals' = removals /\ removing' = removing /\ sent' = sent
      /\ Theirs' = Theirs /\ Unsent' = Unsent /\ Recent' = Recent /\ Members' = Members
  BY <1>1, LineKeptFacts DEF SyncKept
<1>3. TypeOK'
  BY <1>1, <1>2, TypeFacts, KeptType DEF SyncKept
<1>4. ~Saving /\ ~Saving' /\ Counting = DOMAIN rows /\ Counting' = DOMAIN rows'
  BY <1>1 DEF Saving, Counting
<1>5. Turns'
  BY <1>1, <1>4 DEF Turns
<1>6. Used' /\ Streamed'
  BY <1>2 DEF IInv, Used, Streamed, SyncKept
<1>7. setup' \in Setups
  BY <1>2 DEF IInv
<1> QED BY <1>2, <1>3, <1>4, <1>5, <1>6, <1>7

\* A sync under way.
LEMMA SyncFacts ==
  ASSUME IInv, sync.pc # "idle"
  PROVE  /\ TypeOK /\ LogInv /\ stream.pc = "idle" /\ syncs # 0 /\ syncs \in Nat
         /\ sync.rev \in 0 .. Len(ops) /\ sync.has \in BOOLEAN
         /\ Len(ops) \in Nat /\ Len(msgs) \in Nat
BY TypeFacts, LogFacts DEF IInv, Turns, Used, Syncs

LEMMA SyncBeginInv ==
  ASSUME IInv, SyncBegin
  PROVE  IInv'
<1>1. TypeOK /\ stream.pc = "idle" /\ sync.pc = "idle" /\ Len(ops) \in Nat
  BY LogFacts DEF IInv, SyncBegin
<1>2. /\ LineKept /\ UNCHANGED <<stream, removing, sent, removals>>
      /\ rows' = rows /\ box' = box /\ readAt' = readAt /\ name' = name /\ rev' = rev
      /\ torn' = torn /\ raced' = raced /\ faults' = faults /\ syncs' = syncs + 1
  BY DEF SyncBegin, SyncStep, SyncVars, LineKept, line, db
<1>3. PICK n \in 0 .. Len(ops) : n = Now
  BY <1>1 DEF Now
<1>4. sync' = [pc |-> "account", rev |-> n, has |-> FALSE, batch |-> {}]
  BY <1>3 DEF SyncBegin, NoSync
<1>5. SyncKept
  BY SMTT(30), <1>1, <1>2, <1>4, TypeFacts DEF SyncKept, Syncs
<1>6. Cached' /\ Shown'
  BY <1>2, <1>4, <1>5, SyncMost DEF IInv, Cached, Shown, Fetched
<1>7. NotTwice'
  BY <1>1, <1>2, <1>4, <1>5, SyncMost DEF IInv, NotTwice
<1> QED BY <1>5, <1>6, <1>7, SyncMost DEF IInv

LEMMA SyncAccountInv ==
  ASSUME IInv, SyncAccount
  PROVE  IInv'
<1>1. sync.pc = "account"
  BY DEF SyncAccount
<1>2. /\ TypeOK /\ LogInv /\ stream.pc = "idle" /\ syncs # 0 /\ syncs \in Nat
      /\ sync.rev \in 0 .. Len(ops) /\ Len(ops) \in Nat /\ Len(msgs) \in Nat
  BY <1>1, SyncFacts
<1>3. /\ LineKept /\ UNCHANGED <<stream, removing, sent, removals>>
      /\ rows' = rows /\ readAt' = readAt /\ name' = SrvName /\ rev' = rev
      /\ torn' = torn /\ raced' = raced /\ faults' = faults /\ syncs' = syncs
      /\ box' = IF Len(msgs) > hidden THEN MessageBoxUpsert(box) ELSE box
  BY DEF SyncAccount, SyncStep, SyncVars, LineKept, line
<1>4. PICK has \in BOOLEAN : has = (Len(msgs) > hidden)
  <2>1. (Len(msgs) > hidden) \in BOOLEAN
    OBVIOUS
  <2> QED BY <2>1, Zenon
<1>5. /\ sync' \in Syncs /\ sync'.pc = "messages" /\ sync'.rev = sync.rev
      /\ sync'.has <=> Len(msgs) > hidden
  <2>1. sync \in Syncs /\ sync' = [sync EXCEPT !.pc = "messages", !.has = has]
    BY <1>2, <1>4, TypeFacts DEF SyncAccount
  <2> QED BY <1>4, <2>1 DEF Syncs
<1>6. /\ box' \in Box /\ box'.seen \in 0 .. Len(msgs)
      /\ box'.seen # 0 => \E j \in 1 .. Len(ops) : ops[j].type = "seen"
      /\ sync'.has => box'.unread = Cardinality(After(Theirs, box'.seen))
  <2>1. /\ box \in Box /\ box.seen \in Nat /\ box.seen <= Len(msgs)
        /\ box.seen # 0 => \E j \in 1 .. Len(ops) : ops[j].type = "seen"
    BY <1>2, TypeFacts DEF IInv, NotTwice
  <2>2. /\ SrvSeen \in 0 .. Len(msgs)
        /\ SrvSeen # 0 <=> \E j \in 1 .. Len(ops) : ops[j].type = "seen"
        /\ SrvUnread \in Nat /\ SrvUnread = Cardinality(After(Theirs, SrvSeen))
    BY <1>2, SeenFacts
  <2>3. CASE Len(msgs) > hidden
    <3>1. box' = [in |-> TRUE, seen |-> IF SrvSeen = 0 THEN box.seen ELSE SrvSeen,
                  unread |-> SrvUnread, delivered |-> Len(msgs)]
      BY <1>3, <2>3 DEF MessageBoxUpsert
    <3>2. box'.seen = SrvSeen /\ box'.unread = SrvUnread
      BY <2>1, <2>2, <3>1
    <3>3. box' \in Box
      BY <1>2, <2>1, <2>2, <3>1 DEF Box
    <3> QED BY <2>2, <3>2, <3>3
  <2>4. CASE ~(Len(msgs) > hidden)
    BY <1>2, <1>3, <1>5, <2>1, <2>4
  <2> QED BY <2>3, <2>4
<1>7. SyncKept
  BY <1>2, <1>3, <1>5, <1>6, TypeFacts, ServerFacts DEF SyncKept
<1>8. Cached'
  <2>1. ASSUME removals = 0, ~sync'.has, NEW i \in Nat, Logged(ops, i, sync.rev) PROVE FALSE
    <3>1. Len(msgs) = 0
      BY <1>2, <1>5, <2>1 DEF IInv, Used
    <3>2. PICK j \in 1 .. sync.rev : ops[j].type = "message" /\ ops[j].msg = i
      BY <2>1 DEF Logged
    <3>3. j \in 1 .. Len(ops)
      BY <1>2
    <3> QED BY <1>2, <3>1, <3>2, <3>3 DEF LogInv
  <2> QED BY <1>3, <1>5, <1>7, <2>1, SyncMost DEF IInv, Cached, Fetched
<1>9. NotTwice'
  <2>1. ASSUME sync'.has PROVE box'.unread <= Cardinality(After(Theirs, box'.seen))
    BY <1>6, <2>1 DEF Box
  <2>2. ASSUME ~sync'.has PROVE box' = box
    BY <1>3, <1>5, <2>2
  <2> QED BY <1>1, <1>3, <1>5, <1>6, <1>7, <2>1, <2>2, SyncMost DEF IInv, NotTwice
<1>10. Shown'
  <2>1. NameFrom(ops, name', rev) /\ NameFrom(ops, name', sync.rev)
    BY <1>2, <1>3, TypeFacts, NameFresh
  <2> QED BY <1>3, <1>5, <1>7, <2>1, SyncMost DEF IInv, Shown, Fetched
<1> QED BY <1>7, <1>8, <1>9, <1>10, SyncMost DEF IInv

\* Phases that leave the set of rows and their reactions alone.
LEMMA SyncQuiet ==
  ASSUME IInv, SyncKept, Fetched, Fetched', DOMAIN rows' = DOMAIN rows,
         \A i \in DOMAIN rows : rows'[i].react = rows[i].react,
         box' = box, name' = name, rev' = rev, torn' = torn, raced' = raced,
         sync'.rev = sync.rev, sync'.has = sync.has
  PROVE  IInv'
<1>1. Cached'
  BY SyncMost DEF IInv, Cached, Fetched
<1>2. NotTwice'
  BY SyncMost DEF IInv, NotTwice, Fetched
<1>3. Shown'
  BY SyncMost DEF IInv, Shown, Fetched
<1> QED BY <1>1, <1>2, <1>3, SyncMost DEF IInv

\* The rows a sync's upserts leave, with the tests zero.
Synced(ts, zero) ==
  ts = [i \in DOMAIN rows \union Recent |->
          IF i \in Recent THEN SyncReacts(rows, i, zero[i]) ELSE rows[i]]

\* sync_phase_messages upserts the recent messages, each with LINE's reactions
\* or, where another thread's write is in the way, with those it had.
LEMMA FetchedRows ==
  ASSUME TypeOK, NEW zero,
         NEW ts, Synced(ts, zero)
  PROVE  /\ DOMAIN ts = DOMAIN rows \union Recent /\ RowsOf(ts)
         /\ \A i \in Recent \ Missed(zero) : ts[i].react = SrvReact(i)
         /\ \A i \in DOMAIN rows \ Recent : ts[i] = rows[i]
         /\ \A i \in DOMAIN rows : ts[i].deleted = rows[i].deleted
<1>1. RowsOf(rows)
  BY TypeFacts
<1>2. ASSUME NEW i \in Recent
      PROVE  /\ ts[i] \in Row /\ (i \notin Missed(zero) => ts[i].react = SrvReact(i))
             /\ i \in DOMAIN rows => ts[i].deleted = rows[i].deleted
  <2>1. PICK S \in SUBSET Members : S = SrvReact(i)
    BY ServerFacts
  <2>2. PICK text \in BOOLEAN, field \in BOOLEAN :
          text = (msgs[i].kind = "clear") /\ field = TRUE
    OBVIOUS
  <2>3. PICK us, z : z = zero[i] /\ us = MessageUpsert(rows, i, text, field, S, z)
    OBVIOUS
  <2>4. Upserted(rows, us, i, field, S, z)
    BY <1>1, <2>3, UpsertRows
  <2>5. ts[i] = us[i]
    <3>1. ts[i] = SyncReacts(rows, i, zero[i])
      BY DEF Synced
    <3>2. SyncReacts(rows, i, zero[i]) = us[i]
      BY <2>1, <2>2, <2>3 DEF SyncReacts
    <3> QED BY <3>1, <3>2
  <2>6. ASSUME i \notin Missed(zero) PROVE us[i].react = S
    <3>1. i \notin DOMAIN rows \/ "reactions" \in z \/ rows[i].react = S
      BY <2>1, <2>3, <2>6 DEF Missed
    <3> QED BY <2>2, <2>4, <3>1 DEF Upserted
  <2> QED BY <2>1, <2>4, <2>5, <2>6 DEF Upserted, RowsOf
<1>3. DOMAIN ts = DOMAIN rows \union Recent /\ \A i \in DOMAIN rows \ Recent : ts[i] = rows[i]
  BY DEF Synced
<1>4. \A i \in DOMAIN ts : ts[i] \in Row
  BY <1>1, <1>2, <1>3 DEF RowsOf
<1>5. \A i \in DOMAIN rows : ts[i].deleted = rows[i].deleted
  BY <1>2, <1>3
<1> QED BY <1>2, <1>3, <1>4, <1>5 DEF RowsOf

LEMMA SyncMessagesInv ==
  ASSUME IInv, SyncMessages
  PROVE  IInv'
<1>1. sync.pc = "messages"
  BY DEF SyncMessages
<1>2. /\ TypeOK /\ LogInv /\ stream.pc = "idle" /\ syncs # 0 /\ syncs \in Nat
      /\ sync.rev \in 0 .. Len(ops) /\ sync.has \in BOOLEAN
      /\ Len(ops) \in Nat /\ Len(msgs) \in Nat
  BY <1>1, SyncFacts
<1>3. /\ LineKept /\ UNCHANGED <<stream, removing, sent, removals>>
      /\ box' = box /\ readAt' = readAt /\ name' = name /\ rev' = rev
      /\ torn' = torn /\ faults' = faults /\ syncs' = syncs
  BY DEF SyncMessages, SyncVars, LineKept, line
<1>4. /\ sync' \in Syncs /\ sync'.pc = "ranges" /\ sync'.rev = sync.rev /\ sync'.has = sync.has
      /\ Fetched' /\ ~Fetched
  BY <1>1, <1>2, TypeFacts DEF SyncMessages, Syncs, Fetched
<1>5. /\ DOMAIN rows \subseteq 1 .. Len(msgs) /\ RowsOf(rows) /\ Recent \subseteq 1 .. Len(msgs)
      /\ raced \subseteq 1 .. Len(msgs)
  BY <1>2, TypeFacts, LogFacts
<1>6. CASE ~sync.has
  <2>1. rows' = rows /\ raced' = raced
    BY <1>6 DEF SyncMessages
  <2>2. SyncKept
    BY <1>2, <1>3, <1>4, <1>5, <2>1, TypeFacts DEF SyncKept
  <2>3. removals = 0 => \A i \in Nat : ~Logged(ops, i, sync.rev)
    BY <1>1, <1>6 DEF IInv, Cached
  <2>4. Cached'
    <3>1. removals = 0 => CachedIn(Recent, ops, sync.rev, DOMAIN rows)
      BY <1>5, <2>3 DEF CachedIn
    <3> QED BY <1>3, <1>4, <1>6, <2>1, <2>2, <2>3, <3>1, SyncMost DEF IInv, Cached
  <2>5. NotTwice'
    BY <1>1, <1>3, <1>4, <1>6, <2>1, <2>2, SyncMost DEF IInv, NotTwice
  <2>6. ASSUME removals = 0, NEW i \in (DOMAIN rows \intersect Recent) \ raced
        PROVE  ReactFrom(ops, Members, i, rows[i].react, sync.rev)
    <3> SUFFICES ASSUME NEW w \in Members
                 PROVE  \E p \in sync.rev .. Len(ops) :
                          w \in rows[i].react <=> ReactAt(ops, i, w, p)
      BY DEF ReactFrom
    <3>1. PICK p \in rev .. Len(ops) : w \in rows[i].react <=> ReactAt(ops, i, w, p)
      BY <2>6, ShownRows DEF ReactFrom
    <3>2. p \in 0 .. Len(ops)
      BY <1>2, TypeFacts
    <3>3. CASE p < sync.rev
      <4>1. ~Logged(ops, i, sync.rev) /\ i \in 1 .. Len(msgs)
        BY <1>5, <2>3, <2>6
      <4>2. ~Logged(ops, i, p)
        BY <1>2, <3>2, <3>3, <4>1, LoggedMono
      <4>3. ~ReactAt(ops, i, w, p) /\ ~ReactAt(ops, i, w, sync.rev)
        BY <1>2, <3>2, <4>1, <4>2, NoReaction
      <4>4. sync.rev \in sync.rev .. Len(ops)
        BY <1>2
      <4> QED BY <3>1, <4>3, <4>4
    <3>4. CASE ~(p < sync.rev)
      <4>1. p \in sync.rev .. Len(ops)
        BY <1>2, <3>2, <3>4
      <4> QED BY <3>1, <4>1
    <3> QED BY <3>3, <3>4
  <2>7. Shown'
    BY <1>1, <1>3, <1>4, <2>1, <2>2, <2>6, SyncMost DEF IInv, Shown
  <2> QED BY <2>2, <2>4, <2>5, <2>7, SyncMost DEF IInv
<1>7. CASE sync.has
  <2>0. PICK zero :
          /\ rows' = [i \in DOMAIN rows \union Recent |->
                        IF i \in Recent THEN SyncReacts(rows, i, zero[i]) ELSE rows[i]]
          /\ raced' = (raced \ Recent) \union Missed(zero)
    BY <1>7 DEF SyncMessages
  <2>1. /\ DOMAIN rows' = DOMAIN rows \union Recent /\ RowsOf(rows')
        /\ \A i \in Recent \ raced' : rows'[i].react = SrvReact(i)
        /\ raced' \subseteq 1 .. Len(msgs)
    <3>0. PICK ts : rows' = ts /\ Synced(ts, zero)
      BY <2>0 DEF Synced
    <3>1. /\ DOMAIN ts = DOMAIN rows \union Recent /\ RowsOf(ts)
          /\ \A i \in Recent \ Missed(zero) : ts[i].react = SrvReact(i)
      BY <1>2, <3>0, FetchedRows
    <3>2. Missed(zero) \subseteq Recent
      BY DEF Missed
    <3> QED BY <1>5, <2>0, <3>0, <3>1, <3>2
  <2>2. SyncKept
    BY <1>2, <1>3, <1>4, <1>5, <2>1, TypeFacts DEF SyncKept
  <2>3. Cached'
    BY <1>3, <1>4, <1>7, <2>1, <2>2, SyncMost DEF Cached, CachedIn
  <2>4. NotTwice'
    <3>1. /\ box.seen <= Len(msgs)
          /\ box.seen # 0 => \E j \in 1 .. Len(ops) : ops[j].type = "seen"
      BY DEF IInv, NotTwice
    <3>2. ASSUME setup.window >= setup.msgs, ~torn, removals = 0
          PROVE  Above(Theirs, Unsent, DOMAIN rows', box) /\ Covered(Unsent, DOMAIN rows', box)
      <4>1. Recent = (1 .. Len(msgs)) \ Unsent
        BY <1>2, <3>2, WindowFacts DEF IInv
      <4>2. box.unread <= Cardinality(After(Theirs, box.seen))
        BY <1>1, <1>7, <3>2 DEF IInv, NotTwice
      <4>3. Theirs \subseteq 1 .. Len(msgs) /\ box \in Box /\ box.seen \in Nat
        BY <1>2, LogFacts, TypeFacts
      <4>4. Theirs \subseteq DOMAIN rows' \union Unsent
        BY <2>1, <4>1, <4>3
      <4>5. Above(Theirs, Unsent, DOMAIN rows', box)
        BY <1>2, <4>2, <4>3, <4>4, AboveFetched
      <4>6. ASSUME NEW i \in 1 .. box.seen PROVE i \in DOMAIN rows' \union Unsent
        <5>1. i \in 1 .. Len(msgs)
          BY <1>2, <3>1, <4>3
        <5> QED BY <2>1, <4>1, <5>1
      <4> QED BY <4>5, <4>6 DEF Covered
    <3> QED BY <1>3, <1>4, <2>2, <3>1, <3>2, SyncMost DEF NotTwice
  <2>5. ASSUME NEW i \in (DOMAIN rows' \intersect Recent) \ raced'
        PROVE  /\ ReactFrom(ops, Members, i, rows'[i].react, rev)
               /\ ReactFrom(ops, Members, i, rows'[i].react, sync.rev)
    BY <1>2, <2>1, TypeFacts, ReactFresh
  <2>6. Shown'
    BY <1>1, <1>3, <1>4, <2>2, <2>5, SyncMost DEF IInv, Shown
  <2> QED BY <2>2, <2>3, <2>4, <2>6, SyncMost DEF IInv
<1> QED BY <1>2, <1>6, <1>7

LEMMA SyncReadRangeInv ==
  ASSUME IInv, SyncReadRange
  PROVE  IInv'
<1>1. sync.pc = "ranges" /\ Fetched
  BY DEF SyncReadRange, Fetched
<1>2. TypeOK /\ stream.pc = "idle" /\ syncs # 0 /\ syncs \in Nat
  BY <1>1, SyncFacts
<1>3. /\ LineKept /\ UNCHANGED <<stream, removing, sent, removals>>
      /\ rows' = rows /\ box' = box /\ name' = name /\ rev' = rev
      /\ torn' = torn /\ raced' = raced /\ syncs' = syncs /\ faults' \in Nat
  BY <1>2, TypeFacts DEF SyncReadRange, SyncStep, SyncVars, LineKept, line, Fault
<1>4. /\ sync' \in Syncs /\ sync'.pc = "list" /\ sync'.rev = sync.rev /\ sync'.has = sync.has
      /\ Fetched'
  BY <1>1, <1>2, TypeFacts DEF SyncReadRange, Syncs, Fetched
<1>5. readAt' \in [Members -> 0 .. Len(ops)]
  <2>1. readAt \in [Members -> 0 .. Len(ops)]
    BY <1>2, TypeFacts
  <2>2. ASSUME NEW w \in Members PROVE ReadRange(w) \in 0 .. Len(ops)
    BY <1>2, <2>1, ServerFacts, SetReadFacts DEF ReadRange
  <2>3. readAt' = readAt \/ readAt' = [w \in Members |-> ReadRange(w)]
    BY DEF SyncReadRange
  <2> QED BY <2>1, <2>2, <2>3
<1>6. SyncKept
  BY <1>2, <1>3, <1>4, <1>5, TypeFacts DEF SyncKept
<1> QED BY <1>1, <1>3, <1>4, <1>6, SyncQuiet

LEMMA SyncListInv ==
  ASSUME IInv, SyncList
  PROVE  IInv'
<1>1. sync.pc = "list" /\ Fetched
  BY DEF SyncList, Fetched
<1>2. TypeOK /\ stream.pc = "idle" /\ syncs # 0 /\ syncs \in Nat
  BY <1>1, SyncFacts
<1>3. /\ LineKept /\ UNCHANGED <<stream, removing, sent, removals>>
      /\ rows' = rows /\ box' = box /\ name' = name /\ rev' = rev /\ readAt' = readAt
      /\ torn' = torn /\ raced' = raced /\ syncs' = syncs /\ faults' = faults
  BY DEF SyncList, SyncStep, SyncVars, LineKept, line, db
<1>4. /\ sync' \in Syncs /\ sync'.pc = "decrypt" /\ sync'.rev = sync.rev /\ sync'.has = sync.has
      /\ Fetched'
  <2>1. PICK B \in SUBSET (1 .. Len(msgs)) : sync' = [sync EXCEPT !.pc = "decrypt", !.batch = B]
    BY <1>2, TypeFacts DEF SyncList
  <2> QED BY <1>2, <2>1, TypeFacts DEF Syncs, Fetched
<1>5. SyncKept
  BY <1>2, <1>3, <1>4, TypeFacts DEF SyncKept
<1> QED BY <1>1, <1>3, <1>4, <1>5, SyncQuiet

LEMMA SyncDecryptInv ==
  ASSUME IInv, NEW i \in 1 .. Len(msgs), SyncDecrypt(i)
  PROVE  IInv'
<1>1. sync.pc = "decrypt" /\ Fetched
  BY DEF SyncDecrypt, Fetched
<1>2. TypeOK /\ stream.pc = "idle" /\ syncs # 0 /\ syncs \in Nat
  BY <1>1, SyncFacts
<1>3. /\ LineKept /\ UNCHANGED <<stream, removing, sent, removals>>
      /\ box' = box /\ name' = name /\ rev' = rev /\ readAt' = readAt
      /\ torn' = torn /\ raced' = raced /\ syncs' = syncs
  BY DEF SyncDecrypt, SyncStep, SyncVars, LineKept, line
<1>4. faults' \in Nat
  <2>1. faults' = faults \/ faults' = faults + 1
    BY DEF SyncDecrypt, Fault
  <2> QED BY <1>2, <2>1, TypeFacts
<1>5. /\ sync' \in Syncs /\ sync'.pc = "decrypt" /\ sync'.rev = sync.rev /\ sync'.has = sync.has
      /\ Fetched'
  <2>1. PICK B \in SUBSET (1 .. Len(msgs)) : B = sync.batch \ {i}
    BY <1>2, TypeFacts DEF Syncs
  <2>2. sync' = [sync EXCEPT !.batch = B] /\ sync \in Syncs
    BY <1>2, <2>1, TypeFacts DEF SyncDecrypt
  <2> QED BY <1>1, <2>2 DEF Syncs, Fetched
<1>6. DOMAIN rows' = DOMAIN rows /\ RowsOf(rows') /\ SameMarks(rows, rows')
  <2>1. RowsOf(rows)
    BY <1>2, TypeFacts
  <2>2. PICK ok \in BOOLEAN : rows' = DecryptWrite(rows, i, ok)
    BY DEF SyncDecrypt
  <2> QED BY <2>1, <2>2, DecryptRows
<1>7. SyncKept
  BY <1>2, <1>3, <1>4, <1>5, <1>6, TypeFacts DEF SyncKept
<1> QED BY <1>1, <1>3, <1>5, <1>6, <1>7, SyncQuiet DEF SameMarks

LEMMA SyncFinishInv ==
  ASSUME IInv, SyncFinish
  PROVE  IInv'
<1>1. sync.pc = "decrypt" /\ Fetched
  BY DEF SyncFinish, Fetched
<1>2. /\ TypeOK /\ stream.pc = "idle" /\ syncs # 0 /\ syncs \in Nat /\ sync.rev \in 0 .. Len(ops)
      /\ Len(ops) \in Nat
  BY <1>1, SyncFacts
<1>3. /\ LineKept /\ UNCHANGED <<stream, removing, sent, removals>>
      /\ rows' = rows /\ box' = box /\ name' = name /\ readAt' = readAt /\ rev' = sync.rev
      /\ torn' = torn /\ raced' = raced /\ syncs' = syncs /\ faults' = faults
  BY DEF SyncFinish, SyncStep, SyncVars, LineKept, line, db
<1>4. sync' \in Syncs /\ sync'.pc = "idle" /\ ~Fetched'
  BY <1>2 DEF SyncFinish, NoSync, Syncs, Fetched
<1>5. SyncKept
  BY <1>2, <1>3, <1>4, TypeFacts DEF SyncKept
<1>6. Cached'
  BY <1>1, <1>3, <1>4, <1>5, SyncMost DEF IInv, Cached
<1>7. NotTwice'
  BY <1>1, <1>3, <1>4, <1>5, SyncMost DEF IInv, NotTwice
<1>8. Shown'
  BY <1>1, <1>3, <1>4, <1>5, SyncMost DEF IInv, Shown
<1> QED BY <1>5, <1>6, <1>7, <1>8, SyncMost DEF IInv

LEMMA SyncFailsInv ==
  ASSUME IInv, SyncFails
  PROVE  IInv'
<1>1. sync.pc # "idle"
  BY DEF SyncFails
<1>2. /\ TypeOK /\ stream.pc = "idle" /\ syncs # 0 /\ syncs \in Nat /\ Len(ops) \in Nat
  BY <1>1, SyncFacts
<1>3. /\ LineKept /\ UNCHANGED <<stream, removing, sent, removals>>
      /\ rows' = rows /\ box' = box /\ name' = name /\ readAt' = readAt /\ rev' = rev
      /\ torn' = (torn \/ sync.pc # "account") /\ syncs' = syncs /\ raced' = raced
  BY DEF SyncFails, SyncVars, LineKept, line, db
<1>4. sync' \in Syncs /\ sync'.pc = "idle" /\ ~Fetched'
  BY <1>2 DEF SyncFails, NoSync, Syncs, Fetched
<1>5. torn' \in BOOLEAN /\ faults' \in Nat
  BY <1>2, <1>3, TypeFacts DEF SyncFails, Fault
<1>6. SyncKept
  BY <1>2, <1>3, <1>4, <1>5, TypeFacts DEF SyncKept
<1>7. Cached' /\ Shown'
  BY <1>3, <1>4, <1>6, SyncMost DEF IInv, Cached, Shown
<1>8. NotTwice'
  <2>1. ~torn' => ~torn /\ sync.pc = "account"
    BY <1>3
  <2> QED BY <1>3, <1>4, <1>6, <2>1, SyncMost DEF IInv, NotTwice
<1> QED BY <1>6, <1>7, <1>8, SyncMost DEF IInv

-----------------------------------------------------------------------------
(* The other threads.                                                      *)

LEMMA StoreSentInv ==
  ASSUME IInv, NEW i \in 1 .. Len(msgs), StoreSent(i)
  PROVE  IInv'
<1>1. /\ TypeOK /\ LogInv /\ Len(ops) \in Nat /\ Len(msgs) \in Nat
      /\ Theirs \subseteq 1 .. Len(msgs) /\ Recent \subseteq 1 .. Len(msgs)
  BY LogFacts DEF IInv
<1>2. /\ LineKept /\ box' = box /\ readAt' = readAt /\ name' = name /\ rev' = rev
      /\ stream' = stream /\ sync' = sync /\ removing' = removing /\ torn' = torn /\ raced' = raced
      /\ sent' = sent \union {i} /\ syncs' = syncs /\ faults' = faults /\ removals' = removals
  BY DEF StoreSent, LineKept, line, bounds
<1>3. i \notin Theirs
  BY DEF StoreSent, Theirs
<1>4. /\ DOMAIN rows' = DOMAIN rows \union {i} /\ RowsOf(rows')
      /\ \A k \in DOMAIN rows : rows'[k].react = rows[k].react /\ rows'[k].deleted = rows[k].deleted
      /\ i \notin DOMAIN rows => rows'[i].react = {}
  <2>1. PICK text \in BOOLEAN, no \in BOOLEAN, none \in SUBSET Members :
          text = TRUE /\ no = FALSE /\ none = {}
    OBVIOUS
  <2>2. PICK zero : rows' = MessageUpsert(rows, i, text, no, none, zero) /\ RowsOf(rows)
    BY <1>1, <2>1, TypeFacts DEF StoreSent
  <2>3. Upserted(rows, rows', i, no, none, zero)
    BY <2>2, UpsertRows
  <2> QED BY <2>1, <2>3 DEF Upserted
<1>5. /\ ops' = ops /\ msgs' = msgs /\ setup' = setup /\ hidden' = hidden /\ LogInv'
      /\ Theirs' = Theirs /\ Unsent' = Unsent /\ Recent' = Recent /\ Members' = Members
      /\ Op' = Op /\ (Saving' <=> Saving) /\ Undo' = Undo /\ (Fetched' <=> Fetched)
  BY <1>1, <1>2, LineKeptFacts DEF Op, Saving, Undo, Fetched
<1>6. TypeOK'
  <2>1. DOMAIN rows' \subseteq 1 .. Len(msgs) /\ sent' \subseteq 1 .. Len(msgs)
    BY <1>1, <1>2, <1>4, TypeFacts
  <2> QED BY <1>1, <1>2, <1>4, <1>5, <2>1, TypeFacts, KeptType
<1>7. Turns'
  <2>1. Row' = Row /\ Box' = Box
    BY <1>5 DEF Row, Statuses, Box
  <2>2. Saving => CountedIn(box, Undo.box, DOMAIN Undo.rows, Op.msg)'
    BY <1>2, <1>5 DEF IInv, Turns, CountedIn
  <2>3. ASSUME Saving
        PROVE  /\ stream.undo = <<Undo.rows, Undo.box, readAt, name>> /\ Undo.box \in Box
               /\ DOMAIN Undo.rows \subseteq DOMAIN rows'
               /\ \A k \in DOMAIN Undo.rows :
                    /\ Undo.rows[k] \in Row
                    /\ Undo.rows[k].deleted = rows'[k].deleted
                    /\ Undo.rows[k].react = rows'[k].react
               /\ \A k \in DOMAIN rows' \ DOMAIN Undo.rows : k \notin Theirs
    BY <1>3, <1>4, <2>3 DEF IInv, Turns
  <2>4. /\ stream.pc # "idle" => sync.pc = "idle" /\ rev < Len(ops) /\ Op.type = "message"
        /\ stream.pc \notin {"idle", "saved"} /\ removals = 0 => Op.msg \in DOMAIN rows'
    BY <1>4 DEF IInv, Turns
  <2> QED BY <1>2, <1>5, <2>1, <2>2, <2>3, <2>4 DEF Turns
<1>8. Used'
  BY <1>2, <1>5 DEF IInv, Used
<1>9. Cached'
  BY <1>2, <1>4, <1>5 DEF IInv, Cached, CachedIn
<1>10. /\ Counting' = Counting \union {i} /\ box \in Box /\ box.unread \in Nat
       /\ box.unread <= box.unread
  BY <1>1, <1>4, <1>5, TypeFacts DEF Counting
<1>11. NotTwice'
  <2>1. /\ box.seen # 0 => \E j \in 1 .. Len(ops) : ops[j].type = "seen"
        /\ box.seen <= Len(msgs) /\ (Saving => Undo.box.seen <= Len(msgs))
    BY DEF IInv, NotTwice
  <2>2. ASSUME setup.window >= setup.msgs, ~torn, removals = 0
        PROVE  IF sync.pc = "messages" /\ sync.has
               THEN box.unread <= Cardinality(After(Theirs, box.seen))
               ELSE /\ Above(Theirs, Unsent, Counting', box) /\ Covered(Unsent, DOMAIN rows', box)
                    /\ Saving => /\ Above(Theirs, Unsent, DOMAIN Undo.rows, Undo.box)
                                 /\ Covered(Unsent, DOMAIN Undo.rows, Undo.box)
    <3>1. CASE sync.pc = "messages" /\ sync.has
      BY <2>2, <3>1 DEF IInv, NotTwice
    <3>2. CASE ~(sync.pc = "messages" /\ sync.has)
      <4>1. /\ Above(Theirs, Unsent, Counting, box) /\ Covered(Unsent, DOMAIN rows, box)
            /\ Saving => /\ Above(Theirs, Unsent, DOMAIN Undo.rows, Undo.box)
                         /\ Covered(Unsent, DOMAIN Undo.rows, Undo.box)
        BY <2>2, <3>2 DEF IInv, NotTwice
      <4>2. Above(Theirs, Unsent, Counting', box)
        BY <1>1, <1>10, <4>1, AboveMono
      <4>3. Covered(Unsent, DOMAIN rows', box)
        BY <1>4, <4>1 DEF Covered
      <4> QED BY <3>2, <4>1, <4>2, <4>3
    <3> QED BY <3>1, <3>2
  <2> QED BY <1>2, <1>5, <2>1, <2>2 DEF NotTwice
<1>12. Streamed'
  <2>1. ASSUME syncs = 0, removals = 0
        PROVE  /\ \A k \in DOMAIN rows' \intersect Theirs : Logged(ops, k, rev + 1)
               /\ Below(Theirs, Counting', box)
               /\ Saving => Below(Theirs, DOMAIN Undo.rows, Undo.box)
    <3>1. /\ \A k \in DOMAIN rows \intersect Theirs : Logged(ops, k, rev + 1)
          /\ Below(Theirs, Counting, box)
          /\ Saving => Below(Theirs, DOMAIN Undo.rows, Undo.box)
      BY <2>1 DEF IInv, Streamed
    <3>2. Unseen(Theirs, Counting', box) \subseteq Unseen(Theirs, Counting, box)
      BY <1>3, <1>10 DEF Unseen
    <3>3. Below(Theirs, Counting', box)
      BY <1>1, <1>10, <3>1, <3>2, BelowMono
    <3> QED BY <1>3, <1>4, <3>1, <3>3
  <2> QED BY <1>2, <1>5, <2>1 DEF Streamed
<1>13. Shown'
  <2>1. ASSUME NEW n \in 0 .. Len(ops), CachedIn(Recent, ops, n, DOMAIN rows),
               \A k \in (DOMAIN rows \intersect Recent) \ raced :
                 ReactFrom(ops, Members, k, rows[k].react, n),
               NEW k \in (DOMAIN rows' \intersect Recent) \ raced
        PROVE  ReactFrom(ops, Members, k, rows'[k].react, n)
    <3>1. CASE k \in DOMAIN rows
      BY <1>4, <2>1, <3>1
    <3>2. CASE k \notin DOMAIN rows
      <4>1. k = i /\ rows'[k].react = {} /\ k \in 1 .. Len(msgs)
        BY <1>1, <1>4, <2>1, <3>2
      <4>2. ~Logged(ops, k, n)
        BY <2>1, <3>2 DEF CachedIn
      <4>3. \A w \in Members : ~ReactAt(ops, k, w, n)
        BY <1>1, <2>1, <4>1, <4>2, NoReaction
      <4>4. n \in n .. Len(ops)
        BY <1>1, <2>1
      <4> QED BY <4>1, <4>3, <4>4 DEF ReactFrom
    <3> QED BY <3>1, <3>2
  <2>2. rev \in 0 .. Len(ops) /\ sync.rev \in 0 .. Len(ops)
    BY <1>1, TypeFacts
  <2>3. removals = 0 => \A k \in (DOMAIN rows' \intersect Recent) \ raced :
                          ReactFrom(ops, Members, k, rows'[k].react, rev)
    BY <2>1, <2>2 DEF IInv, Cached, Shown
  <2>4. removals = 0 /\ Fetched => \A k \in (DOMAIN rows' \intersect Recent) \ raced :
                                     ReactFrom(ops, Members, k, rows'[k].react, sync.rev)
    BY <2>1, <2>2 DEF IInv, Cached, Shown
  <2> QED BY <1>2, <1>5, <2>3, <2>4 DEF IInv, Shown
<1>14. setup' \in Setups
  BY <1>5 DEF IInv
<1> QED BY <1>5, <1>6, <1>7, <1>8, <1>9, <1>11, <1>12, <1>13, <1>14 DEF IInv

LEMMA RemoveChatInv ==
  ASSUME IInv, RemoveChat
  PROVE  IInv'
<1>1. TypeOK /\ LogInv /\ Len(ops) \in Nat /\ Len(msgs) \in Nat
  BY LogFacts DEF IInv
<1>2. /\ msgs' = msgs /\ ops' = ops /\ rows' = rows /\ box' = box /\ readAt' = readAt
      /\ name' = name /\ rev' = rev /\ stream' = stream /\ sync' = sync /\ sent' = sent
      /\ torn' = torn /\ raced' = raced /\ setup' = setup /\ syncs' = syncs /\ faults' = faults
      /\ hidden' = Len(msgs) /\ removing' = TRUE /\ removals' = removals + 1
      /\ removals < setup.removals
  BY DEF RemoveChat, db
<1>3. removals \in Nat /\ removals' \in Nat /\ removals' # 0 /\ hidden' \in 0 .. Len(msgs)
  BY <1>1, <1>2, TypeFacts
<1>4. LogInv' /\ Members' = Members /\ Theirs' = Theirs /\ Op' = Op /\ setup' \in Setups
  BY <1>1, <1>2 DEF IInv, LogInv, Members, Theirs, Op
<1>5. TypeOK'
  BY <1>1, <1>2, <1>3, <1>4 DEF TypeOK, Row
<1>6. Turns'
  BY <1>2, <1>3, <1>4 DEF IInv, Turns, Saving, Undo, CountedIn, Row
<1>7. Used'
  BY <1>2, <1>3, SetupFacts DEF IInv, Used
<1>8. Cached' /\ NotTwice' /\ Streamed'
  BY <1>2, <1>3 DEF IInv, Cached, NotTwice, Streamed, Saving, Undo
<1>9. Shown'
  BY <1>2, <1>3 DEF IInv, Shown
<1> QED BY <1>4, <1>5, <1>6, <1>7, <1>8, <1>9 DEF IInv

LEMMA ChatDeleteInv ==
  ASSUME IInv, ChatDelete
  PROVE  IInv'
<1>1. TypeOK /\ LogInv /\ Len(ops) \in Nat /\ Len(msgs) \in Nat
  BY LogFacts DEF IInv
<1>2. /\ LineKept /\ rev' = rev /\ stream' = stream /\ sync' = sync /\ sent' = sent
      /\ torn' = torn /\ raced' = raced /\ syncs' = syncs /\ faults' = faults /\ removals' = removals
      /\ removing' = FALSE
  BY DEF ChatDelete, LineKept, line, bounds
<1>3. removals # 0
  BY DEF IInv, Used, ChatDelete
<1>4. /\ ops' = ops /\ msgs' = msgs /\ setup' = setup /\ hidden' = hidden /\ LogInv'
      /\ Theirs' = Theirs /\ Members' = Members /\ Op' = Op
      /\ (Saving' <=> Saving) /\ Undo' = Undo
  BY <1>1, <1>2, LineKeptFacts DEF Op, Saving, Undo
<1>5. /\ Saving => rows' = rows /\ box' = box /\ readAt' = readAt /\ name' = name
      /\ DOMAIN rows' \subseteq 1 .. Len(msgs) /\ RowsOf(rows') /\ box' \in Box
      /\ readAt' \in [Members -> 0 .. Len(ops)] /\ name' \in Nat
      /\ name' = name \/ name' = 0
      /\ box'.seen = box.seen \/ box'.seen = 0
  <2>1. CASE Saving
    BY <1>1, <2>1, TypeFacts DEF ChatDelete, Saving, db
  <2>2. CASE ~Saving
    <3>1. rows' = <<>> /\ box' = NoBox
      BY <2>2 DEF ChatDelete, Saving
    <3>2. DOMAIN rows' = {}
      BY <3>1
    <3>3. readAt' \in [Members -> 0 .. Len(ops)] /\ name' \in Nat /\ (name' = name \/ name' = 0)
      BY <1>1, <2>2, TypeFacts DEF ChatDelete, Saving
    <3>4. box' \in Box /\ box'.seen = 0
      BY <3>1 DEF NoBox, Box
    <3> QED BY <2>2, <3>2, <3>3, <3>4 DEF RowsOf
  <2> QED BY <2>1, <2>2
<1>6. TypeOK'
  BY <1>1, <1>2, <1>4, <1>5, TypeFacts, KeptType
<1>7. Turns' /\ Used'
  <2>1. Row' = Row /\ Box' = Box
    BY <1>4 DEF Row, Statuses, Box
  <2> QED BY <1>2, <1>3, <1>4, <1>5, <2>1 DEF IInv, Turns, Used, CountedIn
<1>8. Cached' /\ Streamed'
  BY <1>2, <1>3 DEF Cached, Streamed
<1>9. NotTwice'
  <2>1. box.seen <= Len(msgs) => box'.seen <= Len(msgs)
    BY <1>1, <1>5
  <2> QED BY <1>2, <1>3, <1>4, <1>5, <2>1 DEF IInv, NotTwice
<1>10. Shown'
  <2>1. ASSUME NEW n, NameFrom(ops, name, n) PROVE NameFrom(ops, name', n)
    BY <1>5, <2>1 DEF NameFrom
  <2> QED BY <1>2, <1>3, <1>4, <2>1 DEF IInv, Shown
<1>11. setup' \in Setups
  BY <1>4 DEF IInv
<1> QED BY <1>4, <1>6, <1>7, <1>8, <1>9, <1>10, <1>11 DEF IInv

-----------------------------------------------------------------------------
(* LINE sends.                                                             *)

\* LINE logs the operation e, with a new message or without one.
Logs(e) ==
  /\ e \in [type : setup.types, msg : Nat, who : Members, on : BOOLEAN]
  /\ ops' = Append(ops, e)
  /\ \/ /\ e.type = "message" /\ e.msg = Len(msgs) + 1 /\ Len(msgs) < setup.msgs
        /\ \E m \in [mine : BOOLEAN, kind : setup.kinds] : msgs' = Append(msgs, m)
     \/ /\ msgs' = msgs /\ e.type # "message"
        /\ e.type = "chat" \/ e.msg \in 1 .. Len(msgs)
        /\ e.type = "seen" => e.msg = Len(msgs)
  /\ UNCHANGED <<hidden, db, rev, stream, sync, removing, sent, torn, raced, bounds>>

LEMMA LogsFacts ==
  ASSUME TypeOK, NEW e, Logs(e)
  PROVE  /\ Len(ops) \in Nat /\ Len(ops') = Len(ops) + 1 /\ ops'[Len(ops) + 1] = e
         /\ \A j \in 1 .. Len(ops) : ops'[j] = ops[j]
         /\ Len(msgs) \in Nat /\ Len(msgs') \in Nat /\ Len(msgs) <= Len(msgs')
         /\ Len(msgs') = IF e.type = "message" THEN Len(msgs) + 1 ELSE Len(msgs)
         /\ \A i \in 1 .. Len(msgs) : msgs'[i] = msgs[i]
         /\ ops' \in Seq([type : setup.types, msg : Nat, who : Members, on : BOOLEAN])
         /\ msgs' \in Seq([mine : BOOLEAN, kind : setup.kinds])
<1> DEFINE R == [type : setup.types, msg : Nat, who : Members, on : BOOLEAN]
           M == [mine : BOOLEAN, kind : setup.kinds]
<1>1. /\ ops \in Seq(R) /\ e \in R /\ ops' = Append(ops, e) /\ msgs \in Seq(M)
      /\ \/ e.type = "message" /\ \E m \in M : msgs' = Append(msgs, m)
         \/ e.type # "message" /\ msgs' = msgs
  BY DEF TypeOK, Logs
<1> HIDE DEF R, M
<1>2. /\ Len(ops) \in Nat /\ Len(ops') = Len(ops) + 1 /\ ops'[Len(ops) + 1] = e
      /\ \A j \in 1 .. Len(ops) : ops'[j] = ops[j]
      /\ ops' \in Seq(R)
  BY <1>1
<1>3. /\ Len(msgs) \in Nat /\ Len(msgs') \in Nat /\ Len(msgs) <= Len(msgs')
      /\ Len(msgs') = IF e.type = "message" THEN Len(msgs) + 1 ELSE Len(msgs)
      /\ \A i \in 1 .. Len(msgs) : msgs'[i] = msgs[i]
      /\ msgs' \in Seq(M)
  <2>1. CASE e.type = "message"
    <3>1. PICK m \in M : msgs' = Append(msgs, m)
      BY <1>1, <2>1
    <3>2. msgs \in Seq(M)
      BY <1>1
    <3>3. /\ Len(msgs) \in Nat /\ Len(msgs') = Len(msgs) + 1 /\ msgs' \in Seq(M)
          /\ \A i \in 1 .. Len(msgs) : msgs'[i] = msgs[i]
      BY <3>1, <3>2
    <3> QED BY <2>1, <3>3
  <2>2. CASE e.type # "message"
    <3>1. msgs' = msgs /\ msgs \in Seq(M) /\ Len(msgs) \in Nat
      BY <1>1, <2>2
    <3> QED BY <2>2, <3>1
  <2> QED BY <2>1, <2>2
<1> QED BY <1>2, <1>3 DEF R, M

\* What is known of the part of the log and of the messages that was there.
LEMMA LogsKeep ==
  ASSUME TypeOK, LogInv, NEW e, Logs(e)
  PROVE  /\ \A n \in 0 .. Len(ops) : \A i : Logged(ops', i, n) <=> Logged(ops, i, n)
         /\ \A n \in 0 .. Len(ops) : \A i : Logged(ops, i, n) => i \in 1 .. Len(msgs)
         /\ Theirs \subseteq Theirs' /\ Theirs' \intersect (1 .. Len(msgs)) \subseteq Theirs
         /\ Theirs' \subseteq 1 .. Len(msgs') /\ Unsent \subseteq Unsent'
         /\ Recent' \intersect (1 .. Len(msgs)) \subseteq Recent
         /\ Members' = Members /\ setup' = setup /\ hidden' = hidden
<1>1. /\ Len(ops) \in Nat /\ Len(ops') = Len(ops) + 1
      /\ \A j \in 1 .. Len(ops) : ops'[j] = ops[j]
      /\ Len(msgs) \in Nat /\ Len(msgs') \in Nat /\ Len(msgs) <= Len(msgs')
      /\ \A i \in 1 .. Len(msgs) : msgs'[i] = msgs[i]
  BY LogsFacts
<1>2. ASSUME NEW n \in 0 .. Len(ops), NEW i PROVE Logged(ops', i, n) <=> Logged(ops, i, n)
  <2>1. n \in Nat /\ \A j \in 1 .. n : ops'[j] = ops[j]
    BY <1>1
  <2> QED BY <2>1, LoggedSame
<1>3. ASSUME NEW n \in 0 .. Len(ops), NEW i, Logged(ops, i, n) PROVE i \in 1 .. Len(msgs)
  <2>1. PICK j \in 1 .. n : ops[j].type = "message" /\ ops[j].msg = i
    BY <1>3 DEF Logged
  <2>2. j \in 1 .. Len(ops)
    BY <1>1
  <2> QED BY <2>1, <2>2 DEF LogInv
<1>4. /\ Theirs \subseteq Theirs' /\ Theirs' \intersect (1 .. Len(msgs)) \subseteq Theirs
      /\ Theirs' \subseteq 1 .. Len(msgs')
  BY <1>1 DEF Theirs
<1>5. ASSUME NEW i, Destroyed(i) PROVE Destroyed(i)'
  <2>1. PICK j \in 1 .. Len(ops) : ops[j].type = "destroy" /\ ops[j].msg = i
    BY <1>5 DEF Destroyed, OpsOf, Now
  <2>2. j \in 1 .. Len(ops') /\ ops'[j] = ops[j]
    BY <1>1
  <2> QED BY <2>1, <2>2 DEF Destroyed, OpsOf, Now
<1>6. Unsent \subseteq Unsent'
  BY <1>1, <1>5 DEF Unsent
<1>7. setup' = setup /\ hidden' = hidden /\ Members' = Members
  BY DEF Logs, bounds, Members
<1>8. ASSUME NEW i \in Recent', i \in 1 .. Len(msgs) PROVE i \in Recent
  <2>1. i > hidden' /\ i + setup'.window > Len(msgs') /\ ~Destroyed(i)'
    BY DEF Recent
  <2>2. i > hidden /\ ~Destroyed(i)
    BY <1>5, <1>7, <2>1
  <2>3. i + setup.window > Len(msgs)
    <3>1. PICK d : d = i + setup.window
      OBVIOUS
    <3> QED BY <1>1, <1>7, <1>8, <2>1, <3>1
  <2> QED BY <1>8, <2>2, <2>3 DEF Recent
<1> QED BY <1>2, <1>3, <1>4, <1>6, <1>7, <1>8

LEMMA LogsLogInv ==
  ASSUME TypeOK, LogInv, setup \in Setups, NEW e, Logs(e)
  PROVE  LogInv'
<1> DEFINE n == Len(ops) + 1
<1>1. /\ Len(ops) \in Nat /\ Len(ops') = n /\ ops'[n] = e
      /\ \A j \in 1 .. Len(ops) : ops'[j] = ops[j]
      /\ Len(msgs) \in Nat /\ Len(msgs') \in Nat /\ Len(msgs) <= Len(msgs')
      /\ Len(msgs') = IF e.type = "message" THEN Len(msgs) + 1 ELSE Len(msgs)
  BY LogsFacts
<1>2. /\ \A m \in 0 .. Len(ops) : \A i : Logged(ops', i, m) <=> Logged(ops, i, m)
      /\ \A m \in 0 .. Len(ops) : \A i : Logged(ops, i, m) => i \in 1 .. Len(msgs)
      /\ setup' = setup
  BY LogsKeep
<1>3. /\ e.type = "message" => e.msg = Len(msgs) + 1 /\ Len(msgs) < setup.msgs
      /\ e.type # "message" => /\ e.type = "chat" \/ e.msg \in 1 .. Len(msgs)
                               /\ e.type = "seen" => e.msg = Len(msgs)
      /\ e.msg \in Nat
  BY DEF Logs
<1>4. /\ \A i \in 1 .. Len(msgs) : Logged(ops', i, Len(ops))
      /\ \A i : Logged(ops', i, Len(ops)) => i \in 1 .. Len(msgs)
  BY <1>1, <1>2 DEF LogInv
<1>5. ASSUME NEW i \in 1 .. Len(msgs') PROVE Logged(ops', i, Len(ops'))
  <2>1. Logged(ops', i, n) <=>
          Logged(ops', i, Len(ops)) \/ (ops'[n].type = "message" /\ ops'[n].msg = i)
    BY ZenonT(40), <1>1, LoggedStep
  <2>2. i \in 1 .. Len(msgs) \/ (e.type = "message" /\ i = Len(msgs) + 1)
    BY <1>1
  <2> QED BY <1>1, <1>3, <1>4, <2>1, <2>2
<1>6. ASSUME NEW j \in 1 .. Len(ops')
      PROVE  /\ ops'[j].type = "chat" \/ ops'[j].msg \in 1 .. Len(msgs')
             /\ ops'[j].type \notin {"chat", "message"} =>
                  \A i \in 1 .. ops'[j].msg : Logged(ops', i, j - 1)
             /\ ops'[j].type = "seen" =>
                  \A i \in Nat : Logged(ops', i, j - 1) => i <= ops'[j].msg
  <2>1. CASE j \in 1 .. Len(ops)
    <3>1. ops'[j] = ops[j] /\ j - 1 \in 0 .. Len(ops)
      BY <1>1, <2>1
    <3>2. /\ ops[j].type = "chat" \/ ops[j].msg \in 1 .. Len(msgs)
          /\ ops[j].type \notin {"chat", "message"} =>
               \A i \in 1 .. ops[j].msg : Logged(ops, i, j - 1)
          /\ ops[j].type = "seen" => \A i \in Nat : Logged(ops, i, j - 1) => i <= ops[j].msg
      BY <2>1 DEF LogInv
    <3>3. \A i : Logged(ops', i, j - 1) <=> Logged(ops, i, j - 1)
      BY <1>2, <3>1
    <3>4. ops[j].msg \in 1 .. Len(msgs) => ops[j].msg \in 1 .. Len(msgs')
      BY <1>1
    <3> QED BY <3>1, <3>2, <3>3, <3>4
  <2>2. CASE j = n
    <3>1. ops'[j] = e /\ j - 1 = Len(ops)
      BY <1>1, <2>2
    <3>2. e.type = "chat" \/ e.msg \in 1 .. Len(msgs')
      BY <1>1, <1>3
    <3>3. ASSUME e.type \notin {"chat", "message"}, NEW i \in 1 .. e.msg
          PROVE  Logged(ops', i, Len(ops))
      <4>1. i \in 1 .. Len(msgs)
        BY <1>1, <1>3, <3>3
      <4> QED BY <1>4, <4>1
    <3>4. ASSUME e.type = "seen", NEW i \in Nat, Logged(ops', i, Len(ops))
          PROVE  i <= e.msg
      BY <1>1, <1>3, <1>4, <3>4
    <3> QED BY <3>1, <3>2, <3>3, <3>4
  <2> QED BY <1>1, <2>1, <2>2
<1>7. ASSUME NEW j \in 1 .. Len(ops'), NEW k \in 1 .. Len(ops'), j < k,
             ops'[j].type = "message", ops'[k].type = "message"
      PROVE  ops'[j].msg < ops'[k].msg
  <2>1. j \in 1 .. Len(ops) /\ ops'[j] = ops[j]
    BY <1>1, <1>7
  <2>2. ops[j].msg \in 1 .. Len(msgs)
    BY <1>7, <2>1 DEF LogInv
  <2>3. CASE k \in 1 .. Len(ops)
    <3>1. ops'[k] = ops[k]
      BY <1>1, <2>3
    <3> QED BY <1>7, <2>1, <2>3, <3>1 DEF LogInv
  <2>4. CASE k = n
    <3>1. ops'[k].msg = Len(msgs) + 1
      BY <1>1, <1>3, <1>7, <2>4
    <3> QED BY <1>1, <2>1, <2>2, <3>1
  <2> QED BY <1>1, <2>3, <2>4
<1>8. Len(msgs') <= setup'.msgs
  <2>1. Len(msgs) <= setup.msgs
    BY DEF LogInv
  <2>2. CASE e.type = "message"
    <3>1. PICK m \in Nat : m = setup.msgs
      BY SetupFacts
    <3>2. Len(msgs) < m /\ Len(msgs') = Len(msgs) + 1 /\ setup'.msgs = m
      BY <1>1, <1>2, <1>3, <2>2, <3>1
    <3> QED BY <1>1, <3>2
  <2>3. CASE e.type # "message"
    BY <1>1, <1>2, <2>1, <2>3
  <2> QED BY <2>2, <2>3
<1> QED BY <1>5, <1>6, <1>7, <1>8 DEF LogInv

LEMMA LogsType ==
  ASSUME TypeOK, LogInv, NEW e, Logs(e)
  PROVE  TypeOK'
<1>1. /\ Len(ops) \in Nat /\ Len(ops') = Len(ops) + 1
      /\ Len(msgs) \in Nat /\ Len(msgs') \in Nat /\ Len(msgs) <= Len(msgs')
      /\ ops' \in Seq([type : setup.types, msg : Nat, who : Members, on : BOOLEAN])
      /\ msgs' \in Seq([mine : BOOLEAN, kind : setup.kinds])
  BY LogsFacts
<1>2. /\ hidden' = hidden /\ rows' = rows /\ box' = box /\ readAt' = readAt /\ name' = name
      /\ rev' = rev /\ stream' = stream /\ sync' = sync /\ removing' = removing
      /\ sent' = sent /\ torn' = torn /\ raced' = raced /\ setup' = setup /\ syncs' = syncs /\ faults' = faults
      /\ removals' = removals /\ Members' = Members
  BY DEF Logs, db, bounds, Members
<1>3. 1 .. Len(msgs) \subseteq 1 .. Len(msgs') /\ 0 .. Len(msgs) \subseteq 0 .. Len(msgs')
      /\ 0 .. Len(ops) \subseteq 0 .. Len(ops')
  BY <1>1
<1>4. hidden' \in 0 .. Len(msgs') /\ rev' \in 0 .. Len(ops') /\ sent' \subseteq 1 .. Len(msgs')
      /\ DOMAIN rows' \subseteq 1 .. Len(msgs') /\ raced' \subseteq 1 .. Len(msgs')
  BY <1>2, <1>3, TypeFacts
<1>5. readAt' \in [Members -> 0 .. Len(ops')]
  <2>1. readAt \in [Members -> 0 .. Len(ops)]
    BY TypeFacts
  <2> QED BY <1>2, <1>3, <2>1
<1>6. sync' \in [pc : {"idle", "account", "messages", "ranges", "list", "decrypt"},
                 rev : 0 .. Len(ops'), has : BOOLEAN, batch : SUBSET (1 .. Len(msgs'))]
  <2>1. sync \in [pc : {"idle", "account", "messages", "ranges", "list", "decrypt"},
                  rev : 0 .. Len(ops), has : BOOLEAN, batch : SUBSET (1 .. Len(msgs))]
    BY DEF TypeOK
  <2>2. SUBSET (1 .. Len(msgs)) \subseteq SUBSET (1 .. Len(msgs'))
    BY <1>3
  <2> QED BY <1>2, <1>3, <2>1, <2>2
<1>7. \A i \in DOMAIN rows' : rows'[i] \in Row'
  BY <1>2 DEF TypeOK, Row, Statuses
<1> QED BY <1>1, <1>2, <1>4, <1>5, <1>6, <1>7 DEF TypeOK, Box

\* LINE's reactions and metadata after some operation stay what they were.
LEMMA LogsShown ==
  ASSUME TypeOK, NEW e, Logs(e), NEW n \in 0 .. Len(ops)
  PROVE  /\ \A i, S : ReactFrom(ops, Members, i, S, n) => ReactFrom(ops', Members, i, S, n)
         /\ \A v : NameFrom(ops, v, n) => NameFrom(ops', v, n)
<1>1. /\ Len(ops) \in Nat /\ Len(ops') = Len(ops) + 1
      /\ \A j \in 1 .. Len(ops) : ops'[j] = ops[j]
  BY LogsFacts
<1>2. ASSUME NEW p \in n .. Len(ops)
      PROVE  p \in n .. Len(ops') /\ p \in Nat /\ \A j \in 1 .. p : ops'[j] = ops[j]
  BY <1>1
<1>3. ASSUME NEW i, NEW S, ReactFrom(ops, Members, i, S, n), NEW w \in Members
      PROVE  \E p \in n .. Len(ops') : w \in S <=> ReactAt(ops', i, w, p)
  <2>1. PICK p \in n .. Len(ops) : w \in S <=> ReactAt(ops, i, w, p)
    BY <1>3 DEF ReactFrom
  <2>2. p \in n .. Len(ops') /\ p \in Nat /\ \A j \in 1 .. p : ops'[j] = ops[j]
    BY <1>2
  <2>3. ReactAt(ops', i, w, p) <=> ReactAt(ops, i, w, p)
    BY <2>2, ReactSame
  <2> QED BY <2>1, <2>2, <2>3
<1>4. ASSUME NEW v, NameFrom(ops, v, n), v # 0
      PROVE  \E p \in n .. Len(ops') : v = NameAt(ops', p)
  <2>1. PICK p \in n .. Len(ops) : v = NameAt(ops, p)
    BY <1>4 DEF NameFrom
  <2>2. p \in n .. Len(ops') /\ p \in Nat /\ \A j \in 1 .. p : ops'[j] = ops[j]
    BY <1>2
  <2>3. NameAt(ops', p) = NameAt(ops, p)
    BY <2>2, NameSame
  <2> QED BY <2>1, <2>2, <2>3
<1> QED BY <1>3, <1>4 DEF ReactFrom, NameFrom

LEMMA LogsInv ==
  ASSUME IInv, NEW e, Logs(e)
  PROVE  IInv'
<1>1. TypeOK /\ LogInv /\ setup \in Setups
  BY DEF IInv
<1>2. /\ hidden' = hidden /\ rows' = rows /\ box' = box /\ readAt' = readAt /\ name' = name
      /\ rev' = rev /\ stream' = stream /\ sync' = sync /\ removing' = removing
      /\ sent' = sent /\ torn' = torn /\ raced' = raced /\ setup' = setup /\ syncs' = syncs /\ faults' = faults
      /\ removals' = removals
  BY DEF Logs, db, bounds
<1>3. /\ Len(ops) \in Nat /\ Len(ops') = Len(ops) + 1
      /\ \A j \in 1 .. Len(ops) : ops'[j] = ops[j]
      /\ Len(msgs) \in Nat /\ Len(msgs') \in Nat /\ Len(msgs) <= Len(msgs')
  BY <1>1, LogsFacts
<1>4. /\ \A n \in 0 .. Len(ops) : \A i : Logged(ops', i, n) <=> Logged(ops, i, n)
      /\ \A n \in 0 .. Len(ops) : \A i : Logged(ops, i, n) => i \in 1 .. Len(msgs)
      /\ Theirs \subseteq Theirs' /\ Theirs' \intersect (1 .. Len(msgs)) \subseteq Theirs
      /\ Theirs' \subseteq 1 .. Len(msgs') /\ Unsent \subseteq Unsent'
      /\ Recent' \intersect (1 .. Len(msgs)) \subseteq Recent
      /\ Members' = Members
  BY <1>1, LogsKeep
<1>5. TypeOK' /\ LogInv'
  BY <1>1, LogsType, LogsLogInv
<1>6. /\ rev \in 0 .. Len(ops) /\ sync.rev \in 0 .. Len(ops) /\ box \in Box
      /\ box.unread \in Nat /\ DOMAIN rows \subseteq 1 .. Len(msgs)
  BY <1>1, TypeFacts
<1>7. /\ (Saving' <=> Saving) /\ Undo' = Undo /\ (Fetched' <=> Fetched)
      /\ Row' = Row /\ Box' = Box
  BY <1>2, <1>4 DEF Saving, Undo, Fetched, Row, Statuses, Box
<1>8. rev < Len(ops) => Op' = Op /\ rev < Len(ops')
  BY <1>2, <1>3, <1>6 DEF Op
<1>9. /\ stream.pc # "idle" => rev < Len(ops) /\ Op' = Op /\ Op.type = "message"
                               /\ Op.msg \in 1 .. Len(msgs)
      /\ Saving => stream.pc # "idle"
  <2>1. stream.pc # "idle" => rev < Len(ops) /\ Op.type = "message"
    BY DEF IInv, Turns
  <2> QED BY <1>1, <1>8, <2>1, OpFacts DEF Saving
<1>10. Turns'
  <2>1. ASSUME Saving PROVE CountedIn(box, Undo.box, DOMAIN Undo.rows, Op.msg)'
    <3>1. Op.msg \in Theirs' <=> Op.msg \in Theirs
      BY <1>4, <1>9, <2>1
    <3>2. CountedIn(box, Undo.box, DOMAIN Undo.rows, Op.msg)
      BY <2>1 DEF IInv, Turns
    <3> QED BY <1>2, <1>7, <1>9, <2>1, <3>1, <3>2 DEF CountedIn
  <2>2. ASSUME Saving, NEW k \in DOMAIN rows \ DOMAIN Undo.rows PROVE k \notin Theirs'
    <3>1. k \notin Theirs /\ k \in 1 .. Len(msgs)
      BY <1>6, <2>2 DEF IInv, Turns
    <3> QED BY <1>4, <3>1
  <2> QED BY <1>2, <1>7, <1>8, <1>9, <2>1, <2>2 DEF IInv, Turns
<1>11. Used'
  BY <1>2 DEF IInv, Used
<1>12. Cached'
  <2>1. ASSUME NEW n \in 0 .. Len(ops), NEW D, CachedIn(Recent, ops, n, D)
        PROVE  CachedIn(Recent', ops', n, D)
    BY <1>4, <2>1 DEF CachedIn
  <2>2. ASSUME NEW i, Logged(ops', i, sync.rev) PROVE Logged(ops, i, sync.rev)
    BY <1>4, <1>6, <2>2
  <2> QED BY <1>2, <1>6, <1>7, <2>1, <2>2 DEF IInv, Cached
<1>13. Counting' = Counting
  BY <1>2, <1>7, <1>9 DEF Counting
<1>14. NotTwice'
  <2>1. ASSUME NEW D, NEW b \in Box, Above(Theirs, Unsent, D, b) PROVE Above(Theirs', Unsent', D, b)
    <3>1. b.unread <= b.unread
      BY DEF Box
    <3>2. Theirs \intersect Unsent \subseteq Unsent'
      BY <1>4
    <3> QED BY <1>3, <1>4, <2>1, <3>1, <3>2, AboveMono
  <2>2. ASSUME NEW D, NEW b, Covered(Unsent, D, b) PROVE Covered(Unsent', D, b)
    BY <1>4, <2>2 DEF Covered
  <2>3. ASSUME box.unread <= Cardinality(After(Theirs, box.seen))
        PROVE  box.unread <= Cardinality(After(Theirs', box.seen))
    <3>1. /\ After(Theirs, box.seen) \subseteq After(Theirs', box.seen)
          /\ After(Theirs', box.seen) \subseteq 1 .. Len(msgs')
      BY <1>4 DEF After
    <3>2. /\ Cardinality(After(Theirs, box.seen)) <= Cardinality(After(Theirs', box.seen))
          /\ Cardinality(After(Theirs, box.seen)) \in Nat
          /\ Cardinality(After(Theirs', box.seen)) \in Nat
      BY <1>3, <3>1, PartCount
    <3> QED BY <1>6, <2>3, <3>2
  <2>4. /\ box.seen # 0 => \E j \in 1 .. Len(ops') : ops'[j].type = "seen"
        /\ box.seen <= Len(msgs') /\ (Saving => Undo.box.seen <= Len(msgs'))
    <3>1. /\ box.seen # 0 => \E j \in 1 .. Len(ops) : ops[j].type = "seen"
          /\ box.seen <= Len(msgs) /\ (Saving => Undo.box.seen <= Len(msgs))
      BY DEF IInv, NotTwice
    <3>2. box.seen \in Nat /\ (Saving => Undo.box.seen \in Nat)
      BY <1>6 DEF IInv, Turns, Box
    <3>3. \A j \in 1 .. Len(ops) : j \in 1 .. Len(ops')
      BY <1>3
    <3> QED BY <1>3, <3>1, <3>2, <3>3
  <2>5. Saving => Undo.box \in Box
    BY DEF IInv, Turns
  <2>6. ASSUME setup.window >= setup.msgs, ~torn, removals = 0
        PROVE  IF sync.pc = "messages" /\ sync.has
               THEN box.unread <= Cardinality(After(Theirs', box.seen))
               ELSE /\ Above(Theirs', Unsent', Counting, box) /\ Covered(Unsent', DOMAIN rows, box)
                    /\ Saving => /\ Above(Theirs', Unsent', DOMAIN Undo.rows, Undo.box)
                                 /\ Covered(Unsent', DOMAIN Undo.rows, Undo.box)
    <3>1. CASE sync.pc = "messages" /\ sync.has
      BY <2>3, <2>6, <3>1 DEF IInv, NotTwice
    <3>2. CASE ~(sync.pc = "messages" /\ sync.has)
      <4>1. /\ Above(Theirs, Unsent, Counting, box) /\ Covered(Unsent, DOMAIN rows, box)
            /\ Saving => /\ Above(Theirs, Unsent, DOMAIN Undo.rows, Undo.box)
                         /\ Covered(Unsent, DOMAIN Undo.rows, Undo.box)
        BY <2>6, <3>2 DEF IInv, NotTwice
      <4> QED BY <1>6, <2>1, <2>2, <2>5, <3>2, <4>1
    <3> QED BY <3>1, <3>2
  <2> QED BY <1>2, <1>7, <1>13, <2>4, <2>6 DEF NotTwice
<1>15. Streamed'
  <2>1. Counting \subseteq 1 .. Len(msgs) /\ (Saving => DOMAIN Undo.rows \subseteq 1 .. Len(msgs))
    BY <1>6, <1>9 DEF IInv, Turns, Counting
  <2>2. ASSUME NEW D, D \subseteq 1 .. Len(msgs), NEW b, Below(Theirs, D, b)
        PROVE  Below(Theirs', D, b)
    <3>1. D \intersect Theirs' = D \intersect Theirs /\ D \ Theirs' = D \ Theirs
      BY <1>4, <2>2
    <3>2. Unseen(Theirs', D, b) = Unseen(Theirs, D, b)
      BY <3>1 DEF Unseen
    <3> QED BY <2>2, <3>2 DEF Below
  <2>3. ASSUME NEW i \in DOMAIN rows \intersect Theirs', Logged(ops, i, rev + 1)
        PROVE  Logged(ops', i, rev + 1)
    <3>1. CASE rev < Len(ops)
      <4>1. rev + 1 \in 0 .. Len(ops)
        BY <1>3, <1>6, <3>1
      <4> QED BY <1>4, <2>3, <4>1
    <3>2. CASE ~(rev < Len(ops))
      <4>1. i \in 1 .. Len(msgs) /\ Len(ops) \in 0 .. Len(ops)
        BY <1>3, <1>6, <2>3
      <4>2. Logged(ops', i, Len(ops))
        BY <1>1, <1>4, <4>1 DEF LogInv
      <4>3. rev = Len(ops) /\ rev + 1 \in Nat /\ Len(ops) <= rev + 1
        BY <1>3, <1>6, <3>2
      <4> QED BY <1>3, <4>2, <4>3, LoggedMono
    <3> QED BY <3>1, <3>2
  <2>4. DOMAIN rows \intersect Theirs' \subseteq DOMAIN rows \intersect Theirs
    BY <1>4, <1>6
  <2>5. ASSUME syncs = 0, removals = 0
        PROVE  /\ \A i \in DOMAIN rows \intersect Theirs' : Logged(ops', i, rev + 1)
               /\ Below(Theirs', Counting, box)
               /\ Saving => Below(Theirs', DOMAIN Undo.rows, Undo.box)
    <3>1. /\ \A i \in DOMAIN rows \intersect Theirs : Logged(ops, i, rev + 1)
          /\ Below(Theirs, Counting, box)
          /\ Saving => Below(Theirs, DOMAIN Undo.rows, Undo.box)
      BY <2>5 DEF IInv, Streamed
    <3> QED BY <2>1, <2>2, <2>3, <2>4, <3>1
  <2> QED BY <1>2, <1>7, <1>13, <2>5 DEF Streamed
<1>16. Shown'
  <2>1. ASSUME NEW n \in 0 .. Len(ops),
               \A i \in (DOMAIN rows \intersect Recent) \ raced :
                 ReactFrom(ops, Members, i, rows[i].react, n),
               NEW i \in (DOMAIN rows \intersect Recent') \ raced
        PROVE  ReactFrom(ops', Members, i, rows[i].react, n)
    <3>1. i \in (DOMAIN rows \intersect Recent) \ raced
      BY <1>4, <1>6, <2>1
    <3>2. ReactFrom(ops, Members, i, rows[i].react, n)
      BY <2>1, <3>1
    <3> QED BY <1>1, <3>2, LogsShown
  <2>2. ASSUME NEW n \in 0 .. Len(ops), NameFrom(ops, name, n) PROVE NameFrom(ops', name, n)
    BY <1>1, <2>2, LogsShown
  <2>3. removals = 0 => \A i \in (DOMAIN rows \intersect Recent') \ raced :
                          ReactFrom(ops', Members, i, rows[i].react, rev)
    BY <1>6, <2>1 DEF IInv, Shown
  <2>4. removals = 0 /\ Fetched => \A i \in (DOMAIN rows \intersect Recent') \ raced :
                                     ReactFrom(ops', Members, i, rows[i].react, sync.rev)
    BY <1>6, <2>1 DEF IInv, Shown
  <2>5. /\ NameFrom(ops', name, rev)
        /\ sync.pc \notin {"idle", "account"} => NameFrom(ops', name, sync.rev)
    BY <1>6, <2>2 DEF IInv, Shown
  <2> QED BY <1>2, <1>4, <1>7, <2>3, <2>4, <2>5 DEF Shown
<1> QED BY <1>1, <1>2, <1>5, <1>10, <1>11, <1>12, <1>14, <1>15, <1>16 DEF IInv

LEMMA LineInv ==
  ASSUME IInv, Line
  PROVE  IInv'
<1>1. /\ TypeOK /\ Len(msgs) \in Nat /\ AnyMember \in Members
      /\ msgs # <<>> => Len(msgs) \in 1 .. Len(msgs)
  <2>1. TypeOK /\ Len(msgs) \in Nat
    BY LogFacts DEF IInv
  <2>2. Members # {}
    BY SetupFacts DEF IInv
  <2>3. AnyMember \in Members
    BY <2>2 DEF AnyMember
  <2>4. msgs \in Seq([mine : BOOLEAN, kind : setup.kinds])
    BY <2>1 DEF TypeOK
  <2>5. msgs # <<>> => Len(msgs) # 0
    BY <2>4
  <2> QED BY <2>1, <2>3, <2>5
<1>2. SUFFICES \E e : Logs(e)
  BY LogsInv
<1> DEFINE Entry(type, i, w, on) == [type |-> type, msg |-> i, who |-> w, on |-> on]
<1>3. ASSUME NEW type, NEW i \in Nat, NEW w \in Members, NEW on \in BOOLEAN, Log(type, i, w, on),
             \/ /\ type = "message" /\ i = Len(msgs) + 1 /\ Len(msgs) < setup.msgs
                /\ \E m \in [mine : BOOLEAN, kind : setup.kinds] : msgs' = Append(msgs, m)
             \/ /\ msgs' = msgs /\ type # "message"
                /\ type = "chat" \/ i \in 1 .. Len(msgs)
                /\ type = "seen" => i = Len(msgs)
      PROVE  \E e : Logs(e)
  <2>1. PICK e : e = Entry(type, i, w, on)
    OBVIOUS
  <2>2. e.type = type /\ e.msg = i
    BY <2>1
  <2>3. /\ type \in setup.types /\ ops' = Append(ops, e)
        /\ UNCHANGED <<hidden, db, rev, stream, sync, removing, sent, torn, raced, bounds>>
    BY <1>3, <2>1 DEF Log
  <2>4. e \in [type : setup.types, msg : Nat, who : Members, on : BOOLEAN]
    BY <2>1, <2>3
  <2> HIDE DEF Entry
  <2>5. Logs(e)
    BY <1>3, <2>2, <2>3, <2>4 DEF Logs
  <2> QED BY <2>5
<1>4. ASSUME NEW mine \in BOOLEAN, NEW kind \in setup.kinds, NewMessage(mine, kind)
      PROVE  \E e : Logs(e)
  <2>1. PICK m : m = [mine |-> mine, kind |-> kind]
    OBVIOUS
  <2>2. m \in [mine : BOOLEAN, kind : setup.kinds] /\ msgs' = Append(msgs, m)
    BY <1>4, <2>1 DEF NewMessage
  <2>3. /\ Log("message", Len(msgs) + 1, AnyMember, mine) /\ Len(msgs) < setup.msgs
        /\ Len(msgs) + 1 \in Nat
    BY <1>1, <1>4 DEF NewMessage
  <2> QED BY <1>1, <1>3, <2>2, <2>3
<1>5. CASE NewSeen
  <2>1. /\ Log("seen", Len(msgs), AnyMember, TRUE) /\ msgs' = msgs
        /\ Len(msgs) \in 1 .. Len(msgs)
    BY <1>1, <1>5 DEF NewSeen
  <2> QED BY <1>1, <1>3, <2>1
<1>6. CASE NewChat
  <2>1. Log("chat", 0, AnyMember, TRUE) /\ msgs' = msgs
    BY <1>6 DEF NewChat
  <2> QED BY <1>1, <1>3, <2>1
<1>7. ASSUME NEW w \in Members, NewRead(w) PROVE \E e : Logs(e)
  <2>1. Log("read", Len(msgs), w, TRUE) /\ msgs' = msgs /\ Len(msgs) \in 1 .. Len(msgs)
    BY <1>1, <1>7 DEF NewRead
  <2> QED BY <1>1, <1>3, <1>7, <2>1
<1>8. ASSUME NEW i \in 1 .. Len(msgs), NEW w \in Members, NEW on \in BOOLEAN, NewReact(i, w, on)
      PROVE  \E e : Logs(e)
  <2>1. Log("react", i, w, on) /\ msgs' = msgs /\ i \in Nat
    BY <1>8 DEF NewReact
  <2> QED BY <1>3, <1>8, <2>1
<1>9. ASSUME NEW i \in 1 .. Len(msgs), NewDestroy(i) PROVE \E e : Logs(e)
  <2>1. Log("destroy", i, AnyMember, TRUE) /\ msgs' = msgs
    BY <1>9, Zenon DEF NewDestroy
  <2>2. i \in Nat
    OBVIOUS
  <2> QED BY <1>1, <1>3, <1>9, <2>1, <2>2
<1> QED BY <1>4, <1>5, <1>6, <1>7, <1>8, <1>9 DEF Line

-----------------------------------------------------------------------------
(* Theorems.                                                               *)

LEMMA StutterInv ==
  ASSUME IInv, UNCHANGED vars
  PROVE  IInv'
<1>1. /\ msgs' = msgs /\ ops' = ops /\ hidden' = hidden /\ rows' = rows /\ box' = box
      /\ readAt' = readAt /\ name' = name /\ rev' = rev /\ stream' = stream /\ sync' = sync
      /\ removing' = removing /\ sent' = sent /\ torn' = torn /\ raced' = raced /\ setup' = setup
      /\ syncs' = syncs /\ faults' = faults /\ removals' = removals
  BY DEF vars, line, db, bounds
<1>2. LineKept
  BY <1>1 DEF LineKept
<1>3. /\ Recent' = Recent /\ Theirs' = Theirs /\ Unsent' = Unsent /\ Members' = Members
      /\ LogInv' /\ Op' = Op /\ (Saving' <=> Saving) /\ Undo' = Undo /\ (Fetched' <=> Fetched)
      /\ Counting' = Counting /\ Row' = Row /\ Box' = Box
  BY <1>1, <1>2, LineKeptFacts DEF IInv, Op, Saving, Undo, Fetched, Counting, Row, Statuses, Box,
     Members
<1>4. TypeOK' /\ setup' \in Setups
  BY <1>1, <1>3 DEF IInv, TypeOK
<1>5. Turns' /\ Used'
  BY <1>1, <1>3 DEF IInv, Turns, Used, CountedIn
<1>6. Cached' /\ Shown'
  BY <1>1, <1>3 DEF IInv, Cached, Shown
<1>7. NotTwice' /\ Streamed'
  BY <1>1, <1>3 DEF IInv, NotTwice, Streamed
<1> QED BY <1>3, <1>4, <1>5, <1>6, <1>7 DEF IInv

LEMMA NextInv ==
  ASSUME IInv, Next
  PROVE  IInv'
<1>1. CASE Line
  BY <1>1, LineInv
<1>2. CASE Handler
  BY <1>2, StreamReadInv, StreamSeenInv, StreamDestroyInv, StreamReactionInv,
     StreamChatUpdateInv, StreamSaveInv, StreamInsertInv, StreamRollbackInv, StreamTailInv
     DEF Handler
<1>3. CASE Syncing
  BY <1>3, SyncBeginInv, SyncAccountInv, SyncMessagesInv, SyncReadRangeInv, SyncListInv,
     SyncDecryptInv, SyncFinishInv, SyncFailsInv DEF Syncing
<1>4. CASE (\E i \in 1 .. Len(msgs) : StoreSent(i)) \/ RemoveChat \/ ChatDelete
  BY <1>4, StoreSentInv, RemoveChatInv, ChatDeleteInv
<1> QED BY <1>1, <1>2, <1>3, <1>4 DEF Next

LEMMA InitInv ==
  ASSUME Init
  PROVE  IInv
<1>1. /\ msgs = <<>> /\ ops = <<>> /\ hidden = 0 /\ setup \in Setups /\ rows = <<>>
      /\ box = NoBox /\ readAt = [w \in Members |-> 0] /\ name = 0 /\ rev = 0
      /\ stream = Idle /\ sync = NoSync /\ removing = FALSE /\ sent = {} /\ torn = FALSE /\ raced = {}
      /\ syncs = 0 /\ faults = 0 /\ removals = 0
  BY DEF Init
<1>2. /\ Len(msgs) = 0 /\ Len(ops) = 0 /\ DOMAIN rows = {} /\ stream.pc = "idle"
      /\ sync.pc = "idle" /\ box.seen = 0 /\ box.unread = 0 /\ box \in Box
      /\ ~Saving /\ ~Fetched /\ Counting = {}
  BY <1>1 DEF NoBox, Box, Idle, NoSync, Saving, Fetched, Counting
<1>3. TypeOK
  <2>1. sync \in [pc : {"idle", "account", "messages", "ranges", "list", "decrypt"},
                  rev : 0 .. Len(ops), has : BOOLEAN, batch : SUBSET (1 .. Len(msgs))]
    BY <1>1, <1>2 DEF NoSync
  <2>2. /\ msgs \in Seq([mine : BOOLEAN, kind : setup.kinds])
        /\ ops \in Seq([type : setup.types, msg : Nat, who : Members, on : BOOLEAN])
    BY <1>1
  <2>3. readAt \in [Members -> 0 .. Len(ops)]
    BY <1>1, <1>2
  <2>4. /\ hidden \in 0 .. Len(msgs) /\ rev \in 0 .. Len(ops)
        /\ DOMAIN rows \subseteq 1 .. Len(msgs) /\ sent \subseteq 1 .. Len(msgs)
        /\ \A i \in DOMAIN rows : rows[i] \in Row
    BY <1>1, <1>2
  <2>5. {syncs, faults, removals} \subseteq Nat /\ name \in Nat
    BY <1>1
  <2>6. removing \in BOOLEAN /\ torn \in BOOLEAN /\ raced \subseteq 1 .. Len(msgs)
    BY <1>1
  <2> QED BY <1>2, <2>1, <2>2, <2>3, <2>4, <2>5, <2>6 DEF TypeOK
<1>4. LogInv
  BY <1>1, <1>2, SetupFacts DEF LogInv
<1>5. Turns /\ Used
  BY <1>1, <1>2, SetupFacts DEF Turns, Used
<1>6. Cached
  BY <1>1, <1>2 DEF Cached, CachedIn, Logged
<1>7. Theirs = {}
  BY <1>2 DEF Theirs
<1>8. NotTwice
  <2>1. Above(Theirs, Unsent, Counting, box)
    BY <1>2, <1>7, AboveNone
  <2>2. Covered(Unsent, DOMAIN rows, box)
    BY <1>2 DEF Covered
  <2> QED BY <1>2, <2>1, <2>2 DEF NotTwice
<1>9. Streamed
  <2>1. Below(Theirs, Counting, box)
    BY <1>2, <1>7, BelowNone DEF Unseen
  <2> QED BY <1>2, <2>1 DEF Streamed
<1>10. Shown
  BY <1>1, <1>2 DEF Shown, NameFrom
<1> QED BY <1>1, <1>3, <1>4, <1>5, <1>6, <1>8, <1>9, <1>10 DEF IInv

\* The inductive invariant holds in every state, whichever of the stream's
\* handlers, the phases of a full sync, finished sends and the removal of the
\* chat come between each other: the log, the savepoint, what is cached, counted
\* and shown.
THEOREM Inductive == Spec => []IInv
<1>1. Init => IInv
  BY InitInv
<1>2. IInv /\ [Next]_vars => IInv'
  BY NextInv, StutterInv
<1> QED BY <1>1, <1>2, PTL DEF Spec

\* messages_v2, message_boxes_v2, the marks and the two cursors stay within what
\* LINE has sent, whatever the handlers, syncs, sends and removals do.
THEOREM TypeCorrect == Spec => []TypeOK
<1>1. IInv => TypeOK
  BY DEF IInv
<1> QED BY <1>1, Inductive, PTL

\* enil_db_message_box_upsert_live_message never counts a message twice: the
\* unread count is at most the incoming messages after the seen mark and the
\* unsent ones, however often a failed insert, a lost cursor or the replay after
\* a sync delivers an operation again.
THEOREM NeverCountedTwice == Spec => []CountedOnce
<1>1. ASSUME IInv PROVE CountedOnce
  <2> SUFFICES ASSUME setup.window >= setup.msgs, ~torn, removals = 0
               PROVE  box.unread <= Cardinality(Incoming(box.seen))
                                    + Cardinality({i \in Incoming(0) : Destroyed(i)})
    BY DEF CountedOnce
  <2>1. /\ TypeOK /\ Len(msgs) \in Nat /\ Theirs \subseteq 1 .. Len(msgs) /\ box \in Box
        /\ box.unread \in Nat
    BY <1>1, LogFacts, TypeFacts DEF IInv
  <2>2. Incoming(box.seen) = After(Theirs, box.seen)
    BY DEF Incoming, After, Theirs
  <2> DEFINE gone == {i \in Incoming(0) : Destroyed(i)}
  <2>3. gone = Theirs \intersect Unsent
    BY <2>1 DEF Incoming, Theirs, Unsent
  <2> HIDE DEF gone
  <2>4. /\ Cardinality(After(Theirs, box.seen)) \in Nat
        /\ Cardinality(Theirs \intersect Unsent) \in Nat
    <3>1. After(Theirs, box.seen) \subseteq 1 .. Len(msgs)
          /\ Theirs \intersect Unsent \subseteq 1 .. Len(msgs)
      BY <2>1 DEF After
    <3> QED BY <2>1, <3>1, PartFinite
  <2>5. ASSUME sync.pc = "messages", sync.has
        PROVE  box.unread <= Cardinality(Incoming(box.seen)) + Cardinality(gone)
    <3>1. box.unread <= Cardinality(After(Theirs, box.seen))
      BY <1>1, <2>5 DEF IInv, NotTwice
    <3> QED BY <2>1, <2>2, <2>3, <2>4, <3>1
  <2>6. ASSUME ~(sync.pc = "messages" /\ sync.has)
        PROVE  box.unread <= Cardinality(Incoming(box.seen)) + Cardinality(gone)
    <3>1. Above(Theirs, Unsent, Counting, box)
      BY <1>1, <2>6 DEF IInv, NotTwice
    <3>2. box.unread <= Cardinality(After(Theirs, box.seen)) + Cardinality(Theirs \intersect Unsent)
      BY <2>1, <3>1, AboveBound
    <3> QED BY <2>2, <2>3, <3>2
  <2>7. box.unread <= Cardinality(Incoming(box.seen)) + Cardinality(gone)
    BY <2>5, <2>6
  <2> QED BY <2>7 DEF gone
<1> QED BY <1>1, Inductive, PTL

\* The stream's handler never loses a count: until a sync or a removal
\* interferes, it counts every cached incoming message after the last own and
\* the last seen one, whatever sends store in between.
THEOREM StreamNeverLosesCount == Spec => []StreamCounts
<1>1. ASSUME IInv PROVE StreamCounts
  <2> DEFINE S == {i \in DOMAIN rows : msgs[i].mine} \union {box.seen}
             zero == LastOf(S)
  <2> SUFFICES ASSUME syncs = 0, removals = 0, Settled
               PROVE  Cardinality(Incoming(zero) \intersect DOMAIN rows) <= box.unread
    BY DEF StreamCounts
  <2>1. /\ TypeOK /\ Len(msgs) \in Nat /\ Theirs \subseteq 1 .. Len(msgs)
        /\ DOMAIN rows \subseteq 1 .. Len(msgs) /\ box.seen \in Nat /\ box.unread \in Nat
        /\ box.seen <= Len(msgs)
    BY <1>1, LogFacts, TypeFacts DEF IInv, NotTwice
  <2>2. Below(Theirs, DOMAIN rows, box)
    BY <1>1 DEF IInv, Streamed, Counting, Saving, Settled
  <2>3. \A j \in S : j <= zero /\ zero \in Nat
    <3>1. CASE \E j \in S : j # 0
      <4> DEFINE P == S \ {0}
      <4>1. P \in SUBSET (1 .. Len(msgs)) /\ P # {}
        BY <2>1, <3>1
      <4>2. LastOf(P) \in P /\ \A j \in P : j <= LastOf(P)
        <5> HIDE DEF P
        <5> QED BY <2>1, <4>1, Maximum
      <4>3. LastOf(P) \in S /\ \A j \in S : j <= LastOf(P)
        <5>1. LastOf(P) \in 1 .. Len(msgs) /\ LastOf(P) \in S
          BY <4>1, <4>2
        <5>2. ASSUME NEW j \in S PROVE j <= LastOf(P)
          <6>1. CASE j \in P
            BY <4>2, <6>1
          <6>2. CASE j = 0
            BY <2>1, <5>1, <6>2
          <6> QED BY <6>1, <6>2
        <5> QED BY <5>1, <5>2
      <4>4. S # {} /\ zero = CHOOSE i \in S : \A j \in S : j <= i
        BY DEF LastOf
      <4> HIDE DEF S, P, zero
      <4>5. zero \in S /\ \A j \in S : j <= zero
        BY <4>3, <4>4
      <4>6. \A j \in S : j \in Nat
        BY <2>1 DEF S
      <4> QED BY <4>5, <4>6
    <3>2. CASE ~\E j \in S : j # 0
      <4>1. S = {0}
        BY <3>2
      <4>2. zero = CHOOSE i \in {0} : \A j \in {0} : j <= i
        BY <4>1 DEF LastOf
      <4>3. zero = 0
        BY <4>2
      <4> QED BY <4>1, <4>3
    <3> QED BY <3>1, <3>2
  <2>4. box.seen \in S /\ \A j \in DOMAIN rows \ Theirs : j \in S
    BY <2>1 DEF Theirs
  <2> HIDE DEF S, zero
  <2>5. Incoming(zero) \intersect DOMAIN rows \subseteq Unseen(Theirs, DOMAIN rows, box)
    <3> SUFFICES ASSUME NEW i \in Incoming(zero) \intersect DOMAIN rows
                 PROVE  i \in Unseen(Theirs, DOMAIN rows, box)
      OBVIOUS
    <3>1. i \in Theirs /\ i > zero /\ i \in Nat
      BY <2>1 DEF Incoming, Theirs
    <3>2. i > box.seen
      BY <2>1, <2>3, <2>4, <3>1
    <3>3. ASSUME NEW j \in DOMAIN rows \ Theirs PROVE j < i
      <4>1. j <= zero /\ zero \in Nat /\ j \in Nat
        BY <2>1, <2>3, <2>4
      <4> QED BY <3>1, <4>1
    <3> QED BY <3>1, <3>2, <3>3 DEF Unseen
  <2>6. Unseen(Theirs, DOMAIN rows, box) \subseteq 1 .. Len(msgs)
    BY <2>1 DEF Unseen
  <2>7. /\ Cardinality(Incoming(zero) \intersect DOMAIN rows)
             <= Cardinality(Unseen(Theirs, DOMAIN rows, box))
        /\ Cardinality(Incoming(zero) \intersect DOMAIN rows) \in Nat
        /\ Cardinality(Unseen(Theirs, DOMAIN rows, box)) \in Nat
    BY <2>1, <2>5, <2>6, PartCount
  <2> QED BY <2>1, <2>2, <2>7 DEF Below
<1> QED BY <1>1, Inductive, PTL

\* A sync that captures local_rev first and reads chats, boxes and messages at
\* different moments, and the replay from that revision, end with LINE's
\* metadata, messages and reactions.
THEOREM Converged == Spec => []Converges
<1>1. ASSUME IInv PROVE Converges
  <2> SUFFICES ASSUME CaughtUp
               PROVE  /\ name # 0 => name = SrvName
                      /\ removals = 0 =>
                           /\ Recent \subseteq DOMAIN rows
                           /\ \A i \in Recent \ raced : rows[i].react = SrvReact(i)
    BY DEF Converges
  <2>1. /\ TypeOK /\ LogInv /\ Len(ops) \in Nat /\ rev = Len(ops) /\ RowsOf(rows)
        /\ Recent \subseteq 1 .. Len(msgs)
    BY <1>1, LogFacts, TypeFacts DEF IInv, CaughtUp, Now
  <2>2. name # 0 => name = SrvName
    <3>1. name # 0 => \E p \in Len(ops) .. Len(ops) : name = NameAt(ops, p)
      BY <1>1, <2>1 DEF IInv, Shown, NameFrom
    <3>2. \A p \in Len(ops) .. Len(ops) : p = Len(ops)
      BY <2>1
    <3> QED BY <2>1, <3>1, <3>2, ServerFacts
  <2>3. ASSUME removals = 0 PROVE Recent \subseteq DOMAIN rows
    BY <1>1, <2>1, <2>3 DEF IInv, Cached, CachedIn, LogInv
  <2>4. ASSUME removals = 0, NEW i \in Recent \ raced PROVE rows[i].react = SrvReact(i)
    <3>1. i \in (DOMAIN rows \intersect Recent) \ raced
      BY <2>3, <2>4
    <3>2. rows[i].react \subseteq Members
      BY <2>1, <3>1 DEF RowsOf, Row
    <3>3. ReactFrom(ops, Members, i, rows[i].react, Len(ops))
      BY <1>1, <2>1, <2>4, <3>1, ShownRows
    <3>4. ASSUME NEW w \in Members PROVE w \in rows[i].react <=> w \in SrvReact(i)
      <4>1. PICK p \in Len(ops) .. Len(ops) : w \in rows[i].react <=> ReactAt(ops, i, w, p)
        BY <3>3 DEF ReactFrom
      <4>2. p = Len(ops)
        BY <2>1
      <4> QED BY <2>1, <4>1, <4>2, ServerFacts
    <3>5. SrvReact(i) \subseteq Members
      BY <2>1, ServerFacts
    <3> QED BY <3>2, <3>4, <3>5
  <2> QED BY <2>2, <2>3, <2>4
<1> QED BY <1>1, Inductive, PTL

\* Rows keep is_deleted; the steps that write rows, one by one.
Sticky == \A i \in DOMAIN rows \intersect DOMAIN rows' : rows[i].deleted => rows'[i].deleted

LEMMA HandlerSticky ==
  ASSUME IInv, Handler
  PROVE  Sticky
<1>1. TypeOK /\ LogInv /\ RowsOf(rows)
  BY TypeFacts DEF IInv
<1>2. CASE StreamRead \/ StreamSeen \/ StreamChatUpdate \/ StreamSave \/ StreamCheck \/ StreamDone
  <2>1. rows' = rows
    BY <1>2 DEF StreamRead, StreamSeen, StreamChatUpdate, StreamSave, StreamCheck, StreamDone, db
  <2> QED BY <2>1 DEF Sticky
<1>3. CASE StreamDestroy
  <2>1. rows' = MarkDeleted(rows, Op.msg)
    BY <1>3 DEF StreamDestroy
  <2> QED BY <1>1, <2>1, DeletedRows DEF Sticky
<1>4. CASE StreamReaction
  <2>1. rows' = ReactionsUpdate(rows, Op.msg, Op.who, Op.on)
    BY <1>4 DEF StreamReaction
  <2>2. Op.who \in Members /\ Op.on \in BOOLEAN
    BY <1>1, <1>4, OpFacts DEF StreamReaction, HasOp, Now
  <2>3. Reacted(rows, rows', Op.msg, Op.who, Op.on)
    BY <1>1, <2>1, <2>2, ReactionRows
  <2> QED BY <2>3 DEF Reacted, Sticky
<1>5. CASE StreamInsert
  <2>1. PICK text \in BOOLEAN, no \in BOOLEAN, none \in SUBSET Members :
          text = (msgs[Op.msg].kind = "clear") /\ no = FALSE /\ none = {}
    OBVIOUS
  <2>2. PICK zero : rows' = MessageUpsert(rows, Op.msg, text, no, none, zero)
    BY <1>5, <2>1 DEF StreamInsert
  <2>3. Upserted(rows, rows', Op.msg, no, none, zero)
    BY <1>1, <2>2, UpsertRows
  <2> QED BY <2>3 DEF Upserted, Sticky
<1>6. CASE StreamRollback
  <2>1. Saving /\ rows' = Undo.rows
    BY <1>6 DEF StreamRollback, Saving, Undo
  <2> QED BY <2>1 DEF IInv, Turns, Sticky
<1>7. CASE StreamDecrypt
  <2>1. PICK ok \in BOOLEAN : rows' = DecryptWrite(rows, Op.msg, ok)
    BY <1>7 DEF StreamDecrypt
  <2>2. SameMarks(rows, rows')
    BY <1>1, <2>1, DecryptRows
  <2> QED BY <2>2 DEF SameMarks, Sticky
<1> QED BY <1>2, <1>3, <1>4, <1>5, <1>6, <1>7 DEF Handler

LEMMA NextSticky ==
  ASSUME IInv, Next
  PROVE  Sticky
<1>1. TypeOK /\ RowsOf(rows)
  BY TypeFacts DEF IInv
<1>2. CASE rows' = rows
  BY <1>2 DEF Sticky
<1>3. CASE Line
  <2>1. rows' = rows
    BY <1>3 DEF Line, NewMessage, NewSeen, NewChat, NewRead, NewReact, NewDestroy, Log, db
  <2> QED BY <1>2, <2>1
<1>4. CASE SyncMessages /\ sync.has
  <2>1. \A i \in DOMAIN rows : rows'[i].deleted = rows[i].deleted
    <3>1. PICK zero, ts : rows' = ts /\ Synced(ts, zero)
      BY <1>4 DEF SyncMessages, Synced
    <3>2. \A i \in DOMAIN rows : ts[i].deleted = rows[i].deleted
      BY <1>1, <3>1, FetchedRows
    <3> QED BY <3>1, <3>2
  <2> QED BY <2>1 DEF Sticky
<1>5. ASSUME NEW i \in 1 .. Len(msgs), SyncDecrypt(i) PROVE Sticky
  <2>1. PICK ok \in BOOLEAN : rows' = DecryptWrite(rows, i, ok)
    BY <1>5 DEF SyncDecrypt
  <2>2. SameMarks(rows, rows')
    BY <1>1, <2>1, DecryptRows
  <2> QED BY <2>2 DEF SameMarks, Sticky
<1>6. ASSUME NEW i \in 1 .. Len(msgs), StoreSent(i) PROVE Sticky
  <2>1. PICK text \in BOOLEAN, no \in BOOLEAN, none \in SUBSET Members :
          text = TRUE /\ no = FALSE /\ none = {}
    OBVIOUS
  <2>2. PICK zero : rows' = MessageUpsert(rows, i, text, no, none, zero)
    BY <1>6, <2>1 DEF StoreSent
  <2>3. Upserted(rows, rows', i, no, none, zero)
    BY <1>1, <2>2, UpsertRows
  <2> QED BY <2>3 DEF Upserted, Sticky
<1>7. CASE ChatDelete
  <2>1. rows' = rows \/ rows' = <<>>
    BY <1>7 DEF ChatDelete, db
  <2>2. CASE rows' = <<>>
    <3>1. DOMAIN rows' = {}
      BY <2>2
    <3> QED BY <3>1 DEF Sticky
  <2> QED BY <1>2, <2>1, <2>2
<1>8. CASE RemoveChat
  BY <1>2, <1>8 DEF RemoveChat, db
<1>9. CASE Syncing
  <2>1. rows' = rows \/ (SyncMessages /\ sync.has) \/ \E i \in 1 .. Len(msgs) : SyncDecrypt(i)
    BY <1>9 DEF Syncing, SyncBegin, SyncAccount, SyncMessages, SyncReadRange, SyncList,
       SyncFinish, SyncFails, db
  <2> QED BY <1>2, <1>4, <1>5, <2>1
<1> QED BY <1>3, <1>6, <1>7, <1>8, <1>9, HandlerSticky DEF Next

\* enil_db_message_upsert and its callers never bring an unsent message back:
\* not a replay, nor a fetch, a decryption, the rollback of a savepoint, or the
\* copy a send stores.
THEOREM UnsentStays == Spec => DeletedSticky
<1>1. ASSUME IInv, [Next]_vars
      PROVE  [Sticky]_vars
  BY <1>1, NextSticky
<1>2. Spec => [][Sticky]_vars
  BY <1>1, Inductive, PTL DEF Spec
<1>3. [Sticky]_vars =>
        [\A i \in DOMAIN rows \intersect DOMAIN rows' : rows[i].deleted => rows'[i].deleted]_vars
  BY DEF Sticky
<1> QED BY <1>2, <1>3, PTL DEF DeletedSticky

\* A reader's mark, whichever of the live receipt and the read ranges is older.
Forward == \A w \in Members : readAt'[w] >= readAt[w] \/ ~box'.in

LEMMA NextForward ==
  ASSUME IInv, Next
  PROVE  Forward
<1>1. TypeOK /\ LogInv /\ readAt \in [Members -> 0 .. Len(ops)] /\ Len(ops) \in Nat
  BY TypeFacts, LogFacts DEF IInv
<1>2. \A w \in Members : readAt[w] \in Nat /\ readAt[w] >= readAt[w]
  BY <1>1
<1>3. CASE readAt' = readAt
  BY <1>2, <1>3 DEF Forward
<1>4. CASE StreamRead
  <2>1. rev + 1 \in 0 .. Len(ops) /\ Op.who \in Members
    BY <1>1, <1>4, OpFacts DEF StreamRead, HasOp, Now
  <2>2. readAt' = SetRead(readAt, Op.who, rev + 1)
    BY <1>4 DEF StreamRead
  <2> QED BY <1>1, <2>1, <2>2, SetReadFacts DEF Forward
<1>5. CASE StreamRollback
  <2>1. Saving /\ readAt' = stream.undo[3]
    BY <1>5 DEF StreamRollback, Saving
  <2>2. stream.undo = <<Undo.rows, Undo.box, readAt, name>>
    BY <2>1 DEF IInv, Turns
  <2> QED BY <1>3, <2>1, <2>2
<1>6. CASE SyncReadRange
  <2>1. ASSUME NEW w \in Members PROVE ReadRange(w) >= readAt[w]
    <3>1. SrvRead(w) \in 0 .. Len(ops)
      BY <1>1, ServerFacts
    <3>2. SetRead(readAt, w, SrvRead(w))[w] >= readAt[w]
      BY <1>1, <3>1, SetReadFacts
    <3> QED BY <1>2, <3>2 DEF ReadRange
  <2>2. readAt' = readAt \/ readAt' = [w \in Members |-> ReadRange(w)]
    BY <1>6 DEF SyncReadRange
  <2> QED BY <1>3, <2>1, <2>2 DEF Forward
<1>7. CASE ChatDelete
  <2>1. readAt' = readAt \/ box' = NoBox
    BY <1>7 DEF ChatDelete, db
  <2> QED BY <1>3, <2>1 DEF NoBox, Forward
<1>8. CASE Line \/ RemoveChat \/ \E i \in 1 .. Len(msgs) : StoreSent(i)
  <2>1. readAt' = readAt
    BY <1>8 DEF Line, NewMessage, NewSeen, NewChat, NewRead, NewReact, NewDestroy, Log, db,
       RemoveChat, StoreSent
  <2> QED BY <1>3, <2>1
<1>9. CASE Handler /\ ~StreamRead /\ ~StreamRollback
  <2>1. readAt' = readAt
    BY <1>9 DEF Handler, StreamSeen, StreamDestroy, StreamReaction, StreamChatUpdate, StreamSave,
       StreamInsert, StreamCheck, StreamDecrypt, StreamDone, db
  <2> QED BY <1>3, <2>1
<1>10. CASE Syncing /\ ~SyncReadRange
  <2>1. readAt' = readAt
    BY <1>10 DEF Syncing, SyncBegin, SyncAccount, SyncMessages, SyncList, SyncDecrypt,
       SyncFinish, SyncFails, db
  <2> QED BY <1>3, <2>1
<1> QED BY <1>4, <1>5, <1>6, <1>7, <1>8, <1>9, <1>10 DEF Next

\* Live receipts and the read ranges of a sync only move a mark forward,
\* whichever is older; a one-to-one chat's marks go with its deleted box.
THEOREM MarksForward == Spec => ReadNeverBack
<1>1. ASSUME IInv, [Next]_vars
      PROVE  [Forward]_vars
  BY <1>1, NextForward
<1>2. Spec => [][Forward]_vars
  BY <1>1, Inductive, PTL DEF Spec
<1>3. [Forward]_vars => [\A w \in Members : readAt'[w] >= readAt[w] \/ ~box'.in]_vars
  BY DEF Forward
<1> QED BY <1>2, <1>3, PTL DEF ReadNeverBack
=============================================================================
