------------------------ MODULE OptimisticPageProofs ------------------------
(***************************************************************************)
(* Proof that the page of OptimisticSend converges: what the page shows is *)
(* decided by its bubbles and by the scripts that wait for it, which are   *)
(* taken together here.  A script only moves along, until it runs.         *)
(***************************************************************************)
EXTENDS OptimisticSendProofs

-----------------------------------------------------------------------------
(* The scripts that wait: those in the buffer, then those of the main      *)
(* queue.                                                                  *)

Pipeline == [i \in DOMAIN buf |-> Coalesced(buf[i])] \o mainq
Items(M) == [direct : BOOLEAN, js : Script(M)]

\* The message a script shows, and the bubble one settles.
Names(js) == IF js.fn \in {"append", "update"} THEN js.id ELSE None
Settles(js, s) == js.fn \in {"update", "fail"} /\ js.temp = s

\* The main thread runs what is posted, the timer what is buffered.
Sorted(q) ==
  \A k \in DOMAIN q : IF q[k].direct THEN q[k].js.fn \in {"seen", "fail"}
                                     ELSE q[k].js.fn \in {"seen", "append", "update"}

-----------------------------------------------------------------------------
(* Bubbles are settled.                                                    *)

Looks(pg, s) == \E i \in DOMAIN pg.rows : pg.rows[i].temp = s /\ ~pg.rows[i].err
Queued(q, s) == \E i \in DOMAIN q : q[i] = s
Settled(q, s) == \E k \in DOMAIN q : Settles(q[k].js, s)

SettleInv ==
  /\ Sorted(Pipeline)
  /\ \A s \in Sends : Looks(page, s) => Queued(order, s) \/ Settled(Pipeline, s)

-----------------------------------------------------------------------------
(* Every message is shown once.                                            *)

Distinct(pg, q) ==
  /\ \A i, j \in DOMAIN pg.rows : i # j /\ pg.rows[i].id # None => pg.rows[i].id # pg.rows[j].id
  /\ \A i, j \in DOMAIN pg.rows : i # j /\ pg.rows[i].temp # None =>
                                    pg.rows[i].temp # pg.rows[j].temp
  /\ \A i \in DOMAIN pg.rows, k \in DOMAIN q : Names(q[k].js) # None => pg.rows[i].id # Names(q[k].js)
  /\ \A k, l \in DOMAIN q : k # l /\ Names(q[k].js) # None => Names(q[k].js) # Names(q[l].js)
  /\ \A k, l \in DOMAIN q : k # l /\ q[k].js.fn = "update" /\ q[l].js.fn = "update" =>
                              q[k].js.temp # q[l].js.temp
\* An update finds the bubble it replaces.
HasTemp(pg, s) == \E i \in DOMAIN pg.rows : pg.rows[i].temp = s
Replaces(pg, q) == \A k \in DOMAIN q : q[k].js.fn = "update" => HasTemp(pg, q[k].js.temp)
Updated(q, s) == \E k \in DOMAIN q : q[k].js.fn = "update" /\ q[k].js.temp = s
Covered(pg, q, m) == HasRow(pg.rows, m) \/ \E k \in DOMAIN q : Names(q[k].js) = m

Steady == Undisturbed /\ bound.reloads = 0

OnceInv ==
  Steady =>
    /\ budget.left["reloads"] = 0
    /\ Distinct(page, Pipeline) /\ Replaces(page, Pipeline)
    /\ \A m \in Messages : m < next => Covered(page, Pipeline, m)
    /\ \A i \in DOMAIN page.rows : page.rows[i].id < next
    /\ \A k \in DOMAIN Pipeline : Names(Pipeline[k].js) < next
    /\ \A i \in DOMAIN order : HasTemp(page, order[i]) /\ ~Updated(Pipeline, order[i])
    /\ \A s \in Sends : HasTemp(page, s) => pc[s] # "idle"

-----------------------------------------------------------------------------
(* The Seen line gets where the database has it.                           *)

\* The bubble a buffered script puts the line under is there before it runs.
Founded(pg, q) ==
  \A k \in DOMAIN q : ~q[k].direct /\ q[k].js.fn = "seen" /\ q[k].js.id # None =>
    \/ HasRow(pg.rows, q[k].js.id)
    \/ \E l \in 1 .. (k - 1) : Names(q[l].js) = q[k].js.id

Agrees(q, k, m) == q[k].js.fn = "seen" => q[k].js.id = m
Ends(pg, q, m) ==
  \/ \E k \in DOMAIN q : /\ ~q[k].direct /\ q[k].js.fn = "seen" /\ q[k].js.id = m
                         /\ \A l \in DOMAIN q : l > k => Agrees(q, l, m)
  \/ /\ pg.marker = m /\ (m = None \/ HasRow(pg.rows, m))
     /\ \A l \in DOMAIN q : Agrees(q, l, m)

Marked(m) == \E j \in DOMAIN log : log[j].type = "seen" /\ log[j].of = m

SeenInv ==
  Steady =>
    /\ seen < next
    /\ \A j \in DOMAIN log : log[j].type = "seen" => log[j].of < j
    /\ \A m \in Messages : m \in seenRpc \/ Marked(m) => \E s \in Sends : pc[s] = "done" /\ msgOf[s] = m
    /\ Founded(page, Pipeline)
    /\ \/ \E s \in Sends : pc[s] = "done" /\ ~Marked(msgOf[s])
       \/ \E j \in DOMAIN log : j >= next /\ log[j].type = "seen"
       \/ Ends(page, Pipeline, seen)

PageInv == SettleInv /\ OnceInv /\ SeenInv

-----------------------------------------------------------------------------
(* Running one of the waiting scripts.                                     *)

Rest(q, p) == [k \in 1 .. (Len(q) - 1) |-> IF k < p THEN q[k] ELSE q[k + 1]]

\* What holds of a page and its scripts holds after some of them have run.
Sound(pg, q) == Distinct(pg, q) /\ Replaces(pg, q) /\ Founded(pg, q)
Carries(pg, q, pg2, q2) ==
  Sorted(q) =>
    /\ Sorted(q2)
    /\ \A s \in Sends : Looks(pg2, s) => Looks(pg, s) /\ (Settled(q, s) => Settled(q2, s))
    /\ Sound(pg, q) =>
         /\ Sound(pg2, q2)
         /\ \A m \in Nat : m # None => (Covered(pg2, q2, m) <=> Covered(pg, q, m))
         /\ \A s \in Sends : HasTemp(pg2, s) => HasTemp(pg, s)
         /\ \A s \in Sends : HasTemp(pg, s) /\ ~Updated(q, s) =>
                               HasTemp(pg2, s) /\ ~Updated(q2, s)
         /\ \A m \in Nat : Ends(pg, q, m) => Ends(pg2, q2, m)

-----------------------------------------------------------------------------
(* What a script does to the bubbles.                                      *)

LEMMA EvalRows ==
  ASSUME NEW M \in SUBSET Nat, None \notin M, NEW pg \in Page(M), NEW js \in Script(M)
  PROVE  LET r == pg.rows  e == Eval(pg, js) IN
         /\ Len(r) \in Nat /\ DOMAIN r = 1 .. Len(r)
         /\ js.fn = "append" =>
              /\ DOMAIN e.rows = 1 .. (Len(r) + 1) /\ e.rows[Len(r) + 1] = Shown(js.id)
              /\ \A i \in 1 .. Len(r) : e.rows[i] = r[i]
              /\ e.marker = pg.marker
         /\ js.fn = "update" =>
              /\ DOMAIN e.rows = DOMAIN r /\ e.marker = pg.marker
              /\ \A i \in DOMAIN r : e.rows[i] = IF r[i].temp = js.temp THEN Shown(js.id) ELSE r[i]
         /\ js.fn = "fail" =>
              /\ DOMAIN e.rows = DOMAIN r /\ e.marker = pg.marker
              /\ \A i \in DOMAIN r : /\ e.rows[i].temp = r[i].temp /\ e.rows[i].id = r[i].id
                                     /\ r[i].err => e.rows[i].err
                                     /\ r[i].temp = js.temp => e.rows[i].err
         /\ js.fn = "seen" =>
              e.rows = r /\ e.marker = IF HasRow(r, js.id) THEN js.id ELSE None
<1> DEFINE r == pg.rows
           n == Len(r)
<1>1. /\ pg.rows \in Seq(Bubble(M)) /\ pg = [rows |-> pg.rows, marker |-> pg.marker]
      /\ n \in Nat /\ DOMAIN r = 1 .. n /\ \A i \in 1 .. n : r[i] \in Bubble(M)
  <2>1. pg.rows \in Seq(Bubble(M)) /\ pg = [rows |-> pg.rows, marker |-> pg.marker]
    BY DEF Page
  <2> QED BY <2>1, LenProperties, ElementOfSeq
<1>2. ASSUME js.fn = "append"
      PROVE  /\ DOMAIN Eval(pg, js).rows = 1 .. (n + 1) /\ Eval(pg, js).rows[n + 1] = Shown(js.id)
             /\ \A i \in 1 .. n : Eval(pg, js).rows[i] = r[i]
             /\ Eval(pg, js).marker = pg.marker
  <2>1. js.id \in M /\ Eval(pg, js) = [pg EXCEPT !.rows = Append(@, Shown(js.id))]
    BY <1>2 DEF Script, Eval, AppendMessage
  <2>2. Shown(js.id) \in Bubble(M)
    BY <2>1 DEF Shown, Bubble
  <2>3. /\ DOMAIN Append(r, Shown(js.id)) = 1 .. (n + 1)
        /\ \A i \in 1 .. n : Append(r, Shown(js.id))[i] = r[i]
        /\ Append(r, Shown(js.id))[n + 1] = Shown(js.id)
    BY <1>1, <2>2, AppendProperties, LenProperties
  <2>4. Eval(pg, js).rows = Append(r, Shown(js.id)) /\ Eval(pg, js).marker = pg.marker
    BY <1>1, <2>1
  <2> QED BY <2>3, <2>4
<1>3. ASSUME js.fn = "update"
      PROVE  /\ DOMAIN Eval(pg, js).rows = DOMAIN r /\ Eval(pg, js).marker = pg.marker
             /\ \A i \in DOMAIN r : Eval(pg, js).rows[i] =
                                      IF r[i].temp = js.temp THEN Shown(js.id) ELSE r[i]
  <2> DEFINE u == [i \in DOMAIN r |-> IF i \in RowOf(r, js.temp) THEN Shown(js.id) ELSE r[i]]
  <2>1. Eval(pg, js) = [pg EXCEPT !.rows = u]
    BY <1>3 DEF Eval, UpdateMessage
  <2>2. \A i \in DOMAIN r : u[i] = IF r[i].temp = js.temp THEN Shown(js.id) ELSE r[i]
    BY DEF RowOf
  <2>3. Eval(pg, js).rows = u /\ Eval(pg, js).marker = pg.marker
    BY <1>1, <2>1
  <2> QED BY <2>2, <2>3
<1>4. ASSUME js.fn = "fail"
      PROVE  /\ DOMAIN Eval(pg, js).rows = DOMAIN r /\ Eval(pg, js).marker = pg.marker
             /\ \A i \in DOMAIN r : /\ Eval(pg, js).rows[i].temp = r[i].temp
                                    /\ Eval(pg, js).rows[i].id = r[i].id
                                    /\ r[i].err => Eval(pg, js).rows[i].err
                                    /\ r[i].temp = js.temp => Eval(pg, js).rows[i].err
  <2> DEFINE u == [i \in DOMAIN r |-> IF i \in RowOf(r, js.temp) THEN [r[i] EXCEPT !.err = TRUE]
                                                                 ELSE r[i]]
  <2>1. Eval(pg, js) = [pg EXCEPT !.rows = u]
    BY <1>4 DEF Eval, FailMessage
  <2>2. \A i \in DOMAIN r : u[i] = IF r[i].temp = js.temp THEN [r[i] EXCEPT !.err = TRUE] ELSE r[i]
    BY DEF RowOf
  <2>3. \A i \in DOMAIN r : /\ u[i].temp = r[i].temp /\ u[i].id = r[i].id
                            /\ r[i].err => u[i].err
                            /\ r[i].temp = js.temp => u[i].err
    <3> TAKE i \in DOMAIN r
    <3>1. r[i] \in Bubble(M)
      BY <1>1
    <3>2. LET x == [r[i] EXCEPT !.err = TRUE] IN x.temp = r[i].temp /\ x.id = r[i].id /\ x.err
      BY <3>1 DEF Bubble
    <3> HIDE DEF u
    <3> QED BY <2>2, <3>2
  <2>4. Eval(pg, js).rows = u /\ Eval(pg, js).marker = pg.marker
    BY <1>1, <2>1
  <2> HIDE DEF u
  <2>5. DOMAIN u = DOMAIN r
    BY DEF u
  <2> QED BY <2>3, <2>4, <2>5
<1>5. ASSUME js.fn = "seen"
      PROVE  Eval(pg, js).rows = r /\ Eval(pg, js).marker = IF HasRow(r, js.id) THEN js.id ELSE None
  <2>1. Eval(pg, js) = [pg EXCEPT !.marker = IF HasRow(pg.rows, js.id) THEN js.id ELSE None]
    BY <1>5 DEF Eval, SetSeenMarker
  <2> QED BY <1>1, <2>1
<1> QED BY <1>1, <1>2, <1>3, <1>4, <1>5

\* A bubble keeps what it names, unless the script replaces it.
LEMMA RowMoves ==
  ASSUME NEW M \in SUBSET Nat, None \notin M, NEW pg \in Page(M), NEW js \in Script(M)
  PROVE  LET r == pg.rows  e == Eval(pg, js).rows IN
         /\ Len(r) + 1 \notin DOMAIN r
         /\ \A i \in DOMAIN r : r[i].temp \in Sends \union {None} /\ r[i].id \in Nat
         /\ \A i \in DOMAIN e :
              \/ /\ i \in DOMAIN r /\ e[i].temp = r[i].temp /\ e[i].id = r[i].id
                 /\ ~e[i].err /\ r[i].temp \in Sends => ~r[i].err /\ ~Settles(js, r[i].temp)
              \/ /\ e[i].temp = None /\ e[i].id = Names(js) /\ Names(js) # None
                 /\ IF js.fn = "update" THEN i \in DOMAIN r /\ r[i].temp = js.temp
                                        ELSE i = Len(r) + 1
         /\ \A i \in DOMAIN r : /\ i \in DOMAIN e
                                /\ \/ e[i].temp = r[i].temp /\ e[i].id = r[i].id
                                   \/ /\ js.fn = "update" /\ r[i].temp = js.temp
                                      /\ r[i].id = None /\ e[i].id = Names(js)
         /\ \A i \in DOMAIN r : js.fn = "update" /\ r[i].temp = js.temp => e[i].id = Names(js)
         /\ js.fn = "append" => Len(r) + 1 \in DOMAIN e /\ e[Len(r) + 1].id = Names(js)
         /\ js.fn \in {"append", "update"} => Names(js) \in M
         /\ js.fn = "update" => js.temp \in Sends
         /\ js.fn \notin {"append", "update"} => Names(js) = None
<1> DEFINE r == pg.rows
           e == Eval(pg, js).rows
<1>1. /\ None \notin Sends /\ Len(r) \in Nat /\ DOMAIN r = 1 .. Len(r)
      /\ \A i \in DOMAIN r : r[i] \in Bubble(M)
  <2>1. r \in Seq(Bubble(M))
    BY DEF Page
  <2> QED BY <2>1, LenProperties, ElementOfSeq DEF Sends, None
<1>2. \A i \in DOMAIN r : /\ r[i].temp \in Sends \union {None} /\ r[i].id \in M \union {None}
                          /\ r[i].temp \in Sends => r[i].id = None
  BY <1>1 DEF Bubble
<1>3. js.fn \in {"append", "update", "fail", "seen"}
  BY DEF Script
<1>4. /\ js.fn = "append" => js.id \in M
      /\ js.fn = "update" => js.id \in M /\ js.temp \in Sends
  BY DEF Script
<1>5. Shown(js.id).temp = None /\ Shown(js.id).id = js.id
  BY DEF Shown
<1>6. Len(r) + 1 \notin DOMAIN r /\ \A i \in DOMAIN r : r[i].id \in Nat
  <2>1. Len(r) + 1 \notin 1 .. Len(r) /\ None \in Nat
    BY <1>1 DEF None
  <2> QED BY <1>1, <1>2, <2>1
<1>7. /\ js.fn = "append" => /\ DOMAIN e = 1 .. (Len(r) + 1) /\ e[Len(r) + 1] = Shown(js.id)
                             /\ \A i \in 1 .. Len(r) : e[i] = r[i]
      /\ js.fn = "update" => /\ DOMAIN e = DOMAIN r
                             /\ \A i \in DOMAIN r : e[i] = IF r[i].temp = js.temp THEN Shown(js.id)
                                                                                ELSE r[i]
      /\ js.fn = "fail" => /\ DOMAIN e = DOMAIN r
                           /\ \A i \in DOMAIN r : /\ e[i].temp = r[i].temp /\ e[i].id = r[i].id
                                                  /\ r[i].err => e[i].err
                                                  /\ r[i].temp = js.temp => e[i].err
      /\ js.fn = "seen" => e = r
  BY EvalRows
<1> DEFINE Old(i) == /\ i \in DOMAIN r /\ e[i].temp = r[i].temp /\ e[i].id = r[i].id
                     /\ ~e[i].err /\ r[i].temp \in Sends => ~r[i].err /\ ~Settles(js, r[i].temp)
           New(i) == /\ e[i].temp = None /\ e[i].id = Names(js) /\ Names(js) # None
                     /\ IF js.fn = "update" THEN i \in DOMAIN r /\ r[i].temp = js.temp
                                            ELSE i = Len(r) + 1
           Stays(i) == \/ e[i].temp = r[i].temp /\ e[i].id = r[i].id
                       \/ /\ js.fn = "update" /\ r[i].temp = js.temp
                          /\ r[i].id = None /\ e[i].id = Names(js)
<1> HIDE DEF r, e
<1>8. /\ \A i \in DOMAIN e : Old(i) \/ New(i)
      /\ \A i \in DOMAIN r : i \in DOMAIN e /\ Stays(i)
      /\ \A i \in DOMAIN r : js.fn = "update" /\ r[i].temp = js.temp => e[i].id = Names(js)
      /\ js.fn = "append" => Len(r) + 1 \in DOMAIN e /\ e[Len(r) + 1].id = Names(js)
  <2>1. CASE js.fn = "append"
    <3>1. \A i \in DOMAIN e : i \in DOMAIN r \/ i = Len(r) + 1
      BY <1>1, <1>7, <2>1
    <3>2. Len(r) + 1 \in DOMAIN e /\ \A i \in DOMAIN r : i \in DOMAIN e
      BY <1>1, <1>7, <2>1
    <3>3. \A i \in DOMAIN r : e[i] = r[i]
      BY <1>1, <1>7, <2>1
    <3>4. Names(js) = js.id /\ Names(js) # None /\ \A s : ~Settles(js, s)
      BY <1>4, <2>1 DEF Names, Settles
    <3> QED BY <1>5, <1>7, <2>1, <3>1, <3>2, <3>3, <3>4
  <2>2. CASE js.fn = "update"
    <3>1. Names(js) = js.id /\ Names(js) # None
      BY <1>4, <2>2 DEF Names
    <3> QED BY <1>2, <1>4, <1>5, <1>7, <2>2, <3>1 DEF Settles
  <2>3. CASE js.fn = "fail"
    BY <1>7, <2>3 DEF Settles
  <2>4. CASE js.fn = "seen"
    BY <1>7, <2>4 DEF Settles
  <2> QED BY <1>3, <2>1, <2>2, <2>3, <2>4
<1>9. js.fn \notin {"append", "update"} => Names(js) = None
  BY DEF Names
<1>10. js.fn \in {"append", "update"} => Names(js) \in M
  BY <1>4 DEF Names
<1> QED BY <1>2, <1>4, <1>6, <1>8, <1>9, <1>10 DEF r, e

-----------------------------------------------------------------------------
(* What waits moves along.                                                 *)

At(p, k) == IF k < p THEN k ELSE k + 1
To(p, k) == IF k < p THEN k ELSE k - 1

LEMMA RestFacts ==
  ASSUME NEW S, NEW q \in Seq(S), NEW p \in 1 .. Len(q)
  PROVE  /\ Rest(q, p) \in Seq(S) /\ DOMAIN Rest(q, p) = 1 .. (Len(q) - 1)
         /\ Len(Rest(q, p)) = Len(q) - 1
         /\ \A k \in DOMAIN Rest(q, p) : /\ At(p, k) \in DOMAIN q /\ At(p, k) # p
                                         /\ Rest(q, p)[k] = q[At(p, k)]
         /\ \A k \in DOMAIN q : k # p => To(p, k) \in DOMAIN Rest(q, p) /\ At(p, To(p, k)) = k
         /\ \A k, l \in DOMAIN Rest(q, p) : /\ k < l <=> At(p, k) < At(p, l)
                                            /\ k # l => At(p, k) # At(p, l)
<1> DEFINE n == Len(q)
<1>1. n \in Nat /\ DOMAIN q = 1 .. n /\ n - 1 \in Nat /\ p \in Nat /\ \A k \in 1 .. n : q[k] \in S
  BY LenProperties, ElementOfSeq
<1>2. DOMAIN Rest(q, p) = 1 .. (n - 1)
  BY DEF Rest
<1>3. \A k \in 1 .. (n - 1) : At(p, k) \in 1 .. n /\ At(p, k) # p /\ Rest(q, p)[k] = q[At(p, k)]
  BY <1>1 DEF At, Rest
<1>4. \A k \in 1 .. n : k # p => To(p, k) \in 1 .. (n - 1) /\ At(p, To(p, k)) = k
  BY <1>1 DEF At, To
<1>5. \A k, l \in 1 .. (n - 1) : (k < l <=> At(p, k) < At(p, l)) /\ (k # l => At(p, k) # At(p, l))
  BY <1>1 DEF At
<1>6. Rest(q, p) \in [1 .. (n - 1) -> S]
  <2>1. \A k \in 1 .. (n - 1) : Rest(q, p)[k] \in S
    BY <1>1, <1>3
  <2> QED BY <2>1 DEF Rest
<1>7. Rest(q, p) \in Seq(S) /\ Len(Rest(q, p)) = n - 1
  <2>1. Rest(q, p) \in Seq(S)
    BY <1>1, <1>6, SeqDef
  <2>2. Len(Rest(q, p)) \in Nat /\ DOMAIN Rest(q, p) = 1 .. Len(Rest(q, p))
    BY <2>1, LenProperties
  <2>3. \A a, b \in Nat : 1 .. a = 1 .. b => a = b
    OBVIOUS
  <2>4. Len(Rest(q, p)) = n - 1
    BY <1>1, <1>2, <2>2, <2>3, Zenon
  <2> QED BY <2>1, <2>4
<1> QED BY <1>1, <1>2, <1>3, <1>4, <1>5, <1>7

LEMMA RunOne ==
  ASSUME NEW M \in SUBSET Nat, None \notin M, NEW pg \in Page(M), NEW q \in Seq(Items(M)),
         NEW p \in 1 .. Len(q), p = 1 \/ q[p].direct
  PROVE  Carries(pg, q, Eval(pg, q[p].js), Rest(q, p))
<1> SUFFICES ASSUME Sorted(q) PROVE Carries(pg, q, Eval(pg, q[p].js), Rest(q, p))
  BY DEF Carries
<1> DEFINE js == q[p].js
           pg2 == Eval(pg, js)
           q2 == Rest(q, p)
           r == pg.rows
           e == pg2.rows
           n == Len(r) + 1
<1>1. /\ Len(q) \in Nat /\ DOMAIN q = 1 .. Len(q) /\ p \in DOMAIN q /\ js \in Script(M)
      /\ 0 \notin Sends
  <2>1. Len(q) \in Nat /\ DOMAIN q = 1 .. Len(q) /\ q[p] \in Items(M)
    BY LenProperties, ElementOfSeq
  <2> QED BY <2>1 DEF Items, Sends
<1>2. /\ \A k \in DOMAIN q2 : At(p, k) \in DOMAIN q /\ At(p, k) # p /\ q2[k] = q[At(p, k)]
      /\ \A k \in DOMAIN q : k # p => To(p, k) \in DOMAIN q2 /\ At(p, To(p, k)) = k
      /\ \A k, l \in DOMAIN q2 : (k < l <=> At(p, k) < At(p, l)) /\ (k # l => At(p, k) # At(p, l))
      /\ DOMAIN q2 = 1 .. (Len(q) - 1)
  BY RestFacts
<1>3. \A k \in DOMAIN q : k # p => \E l \in DOMAIN q2 : q2[l] = q[k]
  BY <1>2
<1>m. /\ \A i \in DOMAIN r : r[i].temp \in Sends \union {None} /\ r[i].id \in Nat
      /\ \A i \in DOMAIN e :
           \/ /\ i \in DOMAIN r /\ e[i].temp = r[i].temp /\ e[i].id = r[i].id
              /\ ~e[i].err /\ r[i].temp \in Sends => ~r[i].err /\ ~Settles(js, r[i].temp)
           \/ /\ e[i].temp = None /\ e[i].id = Names(js) /\ Names(js) # None
              /\ IF js.fn = "update" THEN i \in DOMAIN r /\ r[i].temp = js.temp ELSE i = n
      /\ \A i \in DOMAIN r : /\ i \in DOMAIN e
                             /\ \/ e[i].temp = r[i].temp /\ e[i].id = r[i].id
                                \/ /\ js.fn = "update" /\ r[i].temp = js.temp
                                   /\ r[i].id = None /\ e[i].id = Names(js)
      /\ \A i \in DOMAIN r : js.fn = "update" /\ r[i].temp = js.temp => e[i].id = Names(js)
      /\ js.fn = "append" => n \in DOMAIN e /\ e[n].id = Names(js)
      /\ js.fn = "update" => js.temp \in Sends
      /\ js.fn \notin {"append", "update"} => Names(js) = None
      /\ n \notin DOMAIN r
  BY <1>1, RowMoves
<1>s. js.fn = "seen" => e = r /\ pg2.marker = IF HasRow(r, js.id) THEN js.id ELSE None
  BY <1>1, EvalRows
<1>t. js.fn # "seen" => pg2.marker = pg.marker
  <2>1. js.fn \in {"append", "update", "fail", "seen"}
    BY <1>1 DEF Script
  <2> QED BY <1>1, <2>1, EvalRows
<1> HIDE DEF pg2, q2, r, e, n, js
<1>4. Sorted(q2)
  BY <1>2 DEF Sorted
<1>5. ASSUME NEW s \in Sends, Looks(pg2, s) PROVE Looks(pg, s) /\ (Settled(q, s) => Settled(q2, s))
  <2>1. PICK i \in DOMAIN e : e[i].temp = s /\ ~e[i].err
    BY <1>5 DEF Looks, e
  <2>2. s # None
    BY <1>1 DEF None
  <2>3. i \in DOMAIN r /\ r[i].temp = s /\ ~r[i].err /\ ~Settles(js, s)
    BY <1>m, <2>1, <2>2
  <2> QED BY <1>3, <2>3 DEF Looks, Settled, r, js
<1>6. ASSUME NEW m, m # None, HasRow(r, m) PROVE HasRow(e, m)
  BY <1>6, <1>m DEF HasRow
<1>7. SUFFICES ASSUME Sound(pg, q)
               PROVE  /\ Sound(pg2, q2)
                      /\ \A m \in Nat : m # None => (Covered(pg2, q2, m) <=> Covered(pg, q, m))
                      /\ \A s \in Sends : HasTemp(pg2, s) => HasTemp(pg, s)
                      /\ \A s \in Sends : HasTemp(pg, s) /\ ~Updated(q, s) =>
                                            HasTemp(pg2, s) /\ ~Updated(q2, s)
                      /\ \A m \in Nat : Ends(pg, q, m) => Ends(pg2, q2, m)
  BY <1>4, <1>5 DEF Carries, pg2, q2, js
<1>a. /\ \A i, j \in DOMAIN r : i # j /\ r[i].id # None => r[i].id # r[j].id
      /\ \A i, j \in DOMAIN r : i # j /\ r[i].temp # None => r[i].temp # r[j].temp
      /\ \A i \in DOMAIN r, k \in DOMAIN q : Names(q[k].js) # None => r[i].id # Names(q[k].js)
      /\ \A k, l \in DOMAIN q : k # l /\ Names(q[k].js) # None => Names(q[k].js) # Names(q[l].js)
      /\ \A k, l \in DOMAIN q : k # l /\ q[k].js.fn = "update" /\ q[l].js.fn = "update" =>
                                  q[k].js.temp # q[l].js.temp
  BY <1>7 DEF Sound, Distinct, r
\* A script that names a message shows it.
<1>8. Names(js) # None => HasRow(e, Names(js))
  <2>1. CASE js.fn = "append"
    BY <1>m, <2>1 DEF HasRow
  <2>2. CASE js.fn = "update"
    <3>1. PICK i \in DOMAIN r : r[i].temp = js.temp
      BY <1>1, <1>7, <2>2 DEF Sound, Replaces, HasTemp, r, js
    <3> QED BY <1>m, <2>2, <3>1 DEF HasRow
  <2> QED BY <1>m, <2>1, <2>2
<1>9. Distinct(pg2, q2)
  <2>1. ASSUME NEW i \in DOMAIN e, NEW j \in DOMAIN e, i # j, e[i].id # None
        PROVE  e[i].id # e[j].id
    <3>1. CASE e[i].id = Names(js)
      <4>1. \A x \in DOMAIN r : r[x].id # Names(js)
        BY <1>1, <1>a, <2>1, <3>1 DEF js
      <4>2. IF js.fn = "update" THEN i \in DOMAIN r /\ r[i].temp = js.temp ELSE i = n
        BY <1>m, <3>1, <4>1
      <4>3. ASSUME e[j].id = Names(js) PROVE FALSE
        <5>1. IF js.fn = "update" THEN j \in DOMAIN r /\ r[j].temp = js.temp ELSE j = n
          BY <1>m, <4>1, <4>3
        <5>2. js.fn = "update" => js.temp # None
          BY <1>1, <1>m DEF None
        <5> QED BY <1>a, <2>1, <4>2, <5>1, <5>2
      <4> QED BY <3>1, <4>3
    <3>2. CASE e[i].id # Names(js) /\ e[j].id # Names(js)
      BY <1>a, <1>m, <2>1, <3>2
    <3> QED BY <2>1, <3>1, <3>2
  <2>2. ASSUME NEW i \in DOMAIN e, NEW j \in DOMAIN e, i # j, e[i].temp # None
        PROVE  e[i].temp # e[j].temp
    BY <1>a, <1>m, <2>2
  <2>3. ASSUME NEW i \in DOMAIN e, NEW k \in DOMAIN q2, Names(q2[k].js) # None
        PROVE  e[i].id # Names(q2[k].js)
    BY <1>1, <1>2, <1>a, <1>m, <2>3 DEF js
  <2>4. ASSUME NEW k \in DOMAIN q2, NEW l \in DOMAIN q2, k # l
        PROVE  /\ Names(q2[k].js) # None => Names(q2[k].js) # Names(q2[l].js)
               /\ q2[k].js.fn = "update" /\ q2[l].js.fn = "update" => q2[k].js.temp # q2[l].js.temp
    BY <1>2, <1>a, <2>4
  <2> QED BY <2>1, <2>2, <2>3, <2>4 DEF Distinct, e
<1>10. Replaces(pg2, q2)
  <2> SUFFICES ASSUME NEW k \in DOMAIN q2, q2[k].js.fn = "update" PROVE HasTemp(pg2, q2[k].js.temp)
    BY DEF Replaces
  <2>1. /\ At(p, k) \in DOMAIN q /\ At(p, k) # p /\ q2[k] = q[At(p, k)]
    BY <1>2
  <2>2. PICK i \in DOMAIN r : r[i].temp = q2[k].js.temp
    BY <1>7, <2>1 DEF Sound, Replaces, HasTemp, r
  <2>3. js.fn = "update" => r[i].temp # js.temp
    BY <1>1, <1>a, <2>1, <2>2 DEF js
  <2> QED BY <1>m, <2>2, <2>3 DEF HasTemp, e
<1>11. Founded(pg2, q2)
  <2> SUFFICES ASSUME NEW k \in DOMAIN q2, ~q2[k].direct, q2[k].js.fn = "seen", q2[k].js.id # None
               PROVE  HasRow(e, q2[k].js.id) \/ \E l \in 1 .. (k - 1) : Names(q2[l].js) = q2[k].js.id
    BY DEF Founded, e
  <2>1. At(p, k) \in DOMAIN q /\ q2[k] = q[At(p, k)] /\ k \in Nat
    BY <1>1, <1>2
  <2>2. HasRow(r, q2[k].js.id) \/ \E l \in 1 .. (At(p, k) - 1) : Names(q[l].js) = q2[k].js.id
    BY <1>7, <2>1 DEF Sound, Founded, r
  <2>3. ASSUME NEW l \in 1 .. (At(p, k) - 1), Names(q[l].js) = q2[k].js.id, l # p
        PROVE  \E x \in 1 .. (k - 1) : Names(q2[x].js) = q2[k].js.id
    <3>1. l \in DOMAIN q /\ l < At(p, k)
      BY <1>1, <2>1
    <3>2. To(p, l) \in DOMAIN q2 /\ q2[To(p, l)] = q[l] /\ To(p, l) < k
      BY <1>2, <2>3, <3>1
    <3>3. To(p, l) \in 1 .. (k - 1)
      BY <1>1, <1>2, <2>1, <3>2
    <3> QED BY <2>3, <3>2, <3>3
  <2> QED BY <1>6, <1>8, <2>2, <2>3 DEF js
<1>12. ASSUME NEW m \in Nat, m # None PROVE Covered(pg2, q2, m) <=> Covered(pg, q, m)
  <2>1. ASSUME HasRow(e, m) PROVE Covered(pg, q, m)
    BY <1>1, <1>m, <1>12, <2>1 DEF HasRow, Covered, r, js
  <2>2. ASSUME NEW k \in DOMAIN q2, Names(q2[k].js) = m PROVE Covered(pg, q, m)
    BY <1>2, <2>2 DEF Covered
  <2>3. ASSUME HasRow(r, m) PROVE Covered(pg2, q2, m)
    BY <1>6, <1>12, <2>3 DEF Covered, e
  <2>4. ASSUME NEW k \in DOMAIN q, Names(q[k].js) = m PROVE Covered(pg2, q2, m)
    BY <1>3, <1>8, <1>12, <2>4 DEF Covered, e, js
  <2> QED BY <2>1, <2>2, <2>3, <2>4 DEF Covered, r, e
<1>13. ASSUME NEW s \in Sends PROVE /\ HasTemp(pg2, s) => HasTemp(pg, s)
                                    /\ HasTemp(pg, s) /\ ~Updated(q, s) =>
                                         HasTemp(pg2, s) /\ ~Updated(q2, s)
  <2>1. s # None
    BY <1>1 DEF None
  <2>2. HasTemp(pg2, s) => HasTemp(pg, s)
    BY <1>m, <2>1 DEF HasTemp, r, e
  <2>3. ASSUME HasTemp(pg, s), ~Updated(q, s) PROVE HasTemp(pg2, s) /\ ~Updated(q2, s)
    <3>1. ~(js.fn = "update" /\ js.temp = s)
      BY <1>1, <2>3 DEF Updated, js
    <3>2. HasTemp(pg2, s)
      BY <1>m, <2>3, <3>1 DEF HasTemp, r, e
    <3> QED BY <1>2, <2>3, <3>2 DEF Updated
  <2> QED BY <2>2, <2>3
<1>14. ASSUME NEW m \in Nat, Ends(pg, q, m) PROVE Ends(pg2, q2, m)
  <2>1. ASSUME NEW k \in DOMAIN q, ~q[k].direct, q[k].js.fn = "seen", q[k].js.id = m,
               \A l \in DOMAIN q : l > k => Agrees(q, l, m)
        PROVE  Ends(pg2, q2, m)
    <3>1. CASE k # p
      <4>1. /\ To(p, k) \in DOMAIN q2 /\ At(p, To(p, k)) = k /\ q2[To(p, k)] = q[k]
        BY <1>2, <2>1, <3>1
      <4>2. ASSUME NEW l \in DOMAIN q2, l > To(p, k) PROVE Agrees(q2, l, m)
        <5>1. At(p, l) \in DOMAIN q /\ q2[l] = q[At(p, l)] /\ At(p, l) > k
          <6>1. To(p, k) < l
            BY <1>1, <1>2, <4>1, <4>2
          <6>2. k < At(p, l)
            BY <1>2, <4>1, <6>1
          <6> QED BY <1>2, <6>2
        <5> QED BY <2>1, <5>1 DEF Agrees
      <4> QED BY <2>1, <4>1, <4>2 DEF Ends
    <3>2. CASE k = p
      <4>1. p = 1 /\ js.fn = "seen" /\ js.id = m
        BY <2>1, <3>2 DEF js
      <4>2. m = None \/ HasRow(r, m)
        <5>1. \A l \in 1 .. (1 - 1) : FALSE
          OBVIOUS
        <5> QED BY <1>1, <1>7, <2>1, <3>2, <4>1, <5>1 DEF Sound, Founded, r
      <4>3. pg2.marker = m /\ e = r
        BY <1>s, <4>1, <4>2
      <4>4. \A l \in DOMAIN q2 : Agrees(q2, l, m)
        <5> TAKE l \in DOMAIN q2
        <5>1. At(p, l) \in DOMAIN q /\ q2[l] = q[At(p, l)] /\ At(p, l) > 1
          <6>1. At(p, l) \in DOMAIN q /\ q2[l] = q[At(p, l)] /\ At(p, l) # 1
            BY <1>2, <4>1
          <6> QED BY <1>1, <6>1
        <5> QED BY <2>1, <3>2, <4>1, <5>1 DEF Agrees
      <4> QED BY <4>2, <4>3, <4>4 DEF Ends, e
    <3> QED BY <3>1, <3>2
  <2>2. ASSUME pg.marker = m, m = None \/ HasRow(r, m), \A l \in DOMAIN q : Agrees(q, l, m)
        PROVE  Ends(pg2, q2, m)
    <3>1. js.fn = "seen" => js.id = m
      BY <1>1, <2>2 DEF Agrees, js
    <3>2. pg2.marker = m
      BY <1>s, <1>t, <2>2, <3>1
    <3>3. m = None \/ HasRow(e, m)
      BY <1>6, <2>2
    <3>4. \A l \in DOMAIN q2 : Agrees(q2, l, m)
      BY <1>2, <2>2 DEF Agrees
    <3> QED BY <3>2, <3>3, <3>4 DEF Ends, e
  <2> QED BY <1>14, <2>1, <2>2 DEF Ends, r
<1> QED BY <1>9, <1>10, <1>11, <1>12, <1>13, <1>14 DEF Sound

-----------------------------------------------------------------------------
(* A step of the main thread runs some of what waits.                      *)

LEMMA CarriesSame == ASSUME NEW pg, NEW q PROVE Carries(pg, q, pg, q)
BY DEF Carries

LEMMA CarriesOn ==
  ASSUME NEW pg, NEW q, NEW pg1, NEW q1, NEW pg2, NEW q2,
         Carries(pg, q, pg1, q1), Carries(pg1, q1, pg2, q2)
  PROVE  Carries(pg, q, pg2, q2)
BY DEF Carries

LEMMA PipeOf ==
  ASSUME NEW M, NEW b \in Seq(Script(M)), NEW w \in Seq(Items(M))
  PROVE  LET q == [i \in DOMAIN b |-> Coalesced(b[i])] \o w IN
         /\ q \in Seq(Items(M)) /\ Len(q) = Len(b) + Len(w) /\ DOMAIN q = 1 .. Len(q)
         /\ Len(b) \in Nat /\ Len(w) \in Nat /\ DOMAIN b = 1 .. Len(b) /\ DOMAIN w = 1 .. Len(w)
         /\ \A i \in 1 .. Len(b) : q[i] = Coalesced(b[i])
         /\ \A i \in 1 .. Len(w) : q[Len(b) + i] = w[i]
<1> DEFINE c == [i \in DOMAIN b |-> Coalesced(b[i])]
           I == Items(M)
<1>1. /\ Len(b) \in Nat /\ DOMAIN b = 1 .. Len(b) /\ \A i \in 1 .. Len(b) : b[i] \in Script(M)
      /\ Len(w) \in Nat /\ DOMAIN w = 1 .. Len(w)
  BY LenProperties, ElementOfSeq
<1>2. \A i \in 1 .. Len(b) : Coalesced(b[i]) \in I
  BY <1>1 DEF Coalesced, Items
<1>3. c \in [1 .. Len(b) -> I]
  <2> HIDE DEF I
  <2> QED BY <1>1, <1>2
<1>4. \A i \in 1 .. Len(b) : c[i] = Coalesced(b[i])
  BY <1>1
<1> HIDE DEF c, I
<1>5. c \in Seq(I) /\ w \in Seq(I)
  BY <1>1, <1>3, SeqDef DEF I
<1>6. Len(c) = Len(b)
  <2>1. Len(c) \in Nat /\ DOMAIN c = 1 .. Len(c) /\ DOMAIN c = 1 .. Len(b)
    BY <1>3, <1>5, LenProperties
  <2>2. \A x, y \in Nat : 1 .. x = 1 .. y => x = y
    OBVIOUS
  <2> QED BY <1>1, <2>1, <2>2, Zenon
<1>7. /\ c \o w \in Seq(I) /\ Len(c \o w) = Len(b) + Len(w)
      /\ \A i \in 1 .. (Len(b) + Len(w)) : (c \o w)[i] = IF i <= Len(b) THEN c[i] ELSE w[i - Len(b)]
  <2>1. /\ c \o w \in Seq(I) /\ Len(c \o w) = Len(c) + Len(w)
        /\ \A i \in 1 .. (Len(c) + Len(w)) : (c \o w)[i] = IF i <= Len(c) THEN c[i] ELSE w[i - Len(c)]
    BY <1>5, ConcatProperties
  <2> QED BY <1>6, <2>1
<1>8. DOMAIN (c \o w) = 1 .. Len(c \o w)
  BY <1>7, LenProperties
<1>9. \A i \in 1 .. Len(b) : (c \o w)[i] = Coalesced(b[i])
  <2> TAKE i \in 1 .. Len(b)
  <2>1. i \in 1 .. (Len(b) + Len(w)) /\ i <= Len(b)
    BY <1>1
  <2> QED BY <1>4, <1>7, <2>1
<1>10. \A i \in 1 .. Len(w) : (c \o w)[Len(b) + i] = w[i]
  <2> TAKE i \in 1 .. Len(w)
  <2>1. Len(b) + i \in 1 .. (Len(b) + Len(w)) /\ ~(Len(b) + i <= Len(b)) /\ (Len(b) + i) - Len(b) = i
    BY <1>1
  <2> QED BY <1>7, <2>1
<1> QED BY <1>1, <1>7, <1>8, <1>9, <1>10 DEF c, I

LEMMA PipeFacts ==
  ASSUME Types
  PROVE  /\ Pipeline \in Seq(Items(Messages)) /\ Len(Pipeline) = Len(buf) + Len(mainq)
         /\ DOMAIN Pipeline = 1 .. Len(Pipeline) /\ Len(Pipeline) \in Nat
         /\ Len(buf) \in Nat /\ Len(mainq) \in Nat
         /\ DOMAIN buf = 1 .. Len(buf) /\ DOMAIN mainq = 1 .. Len(mainq)
         /\ \A k \in DOMAIN Pipeline : /\ Pipeline[k] \in Items(Messages) /\ k \in Nat
                                       /\ Pipeline[k].js \in Script(Messages)
         /\ \A i \in 1 .. Len(buf) : Pipeline[i] = Coalesced(buf[i])
         /\ \A i \in 1 .. Len(mainq) : Pipeline[Len(buf) + i] = mainq[i]
<1>1. buf \in Seq(Script(Messages)) /\ mainq \in Seq(Items(Messages))
  BY DEF Types, Items
<1>2. /\ Pipeline \in Seq(Items(Messages)) /\ Len(Pipeline) = Len(buf) + Len(mainq)
      /\ DOMAIN Pipeline = 1 .. Len(Pipeline)
      /\ Len(buf) \in Nat /\ Len(mainq) \in Nat
      /\ DOMAIN buf = 1 .. Len(buf) /\ DOMAIN mainq = 1 .. Len(mainq)
      /\ \A i \in 1 .. Len(buf) : Pipeline[i] = Coalesced(buf[i])
      /\ \A i \in 1 .. Len(mainq) : Pipeline[Len(buf) + i] = mainq[i]
  BY <1>1, PipeOf DEF Pipeline
<1>3. \A k \in DOMAIN Pipeline : Pipeline[k] \in Items(Messages) /\ k \in Nat
  BY <1>2, ElementOfSeq
<1>4. \A x \in Items(Messages) : x.js \in Script(Messages)
  BY DEF Items
<1> QED BY <1>2, <1>3, <1>4

LEMMA PipeNext ==
  ASSUME NEW M, buf' \in Seq(Script(M)), mainq' \in Seq(Items(M))
  PROVE  /\ Pipeline' \in Seq(Items(M)) /\ Len(Pipeline') = Len(buf') + Len(mainq')
         /\ DOMAIN Pipeline' = 1 .. Len(Pipeline')
         /\ \A i \in 1 .. Len(buf') : Pipeline'[i] = Coalesced(buf'[i])
         /\ \A i \in 1 .. Len(mainq') : Pipeline'[Len(buf') + i] = mainq'[i]
BY PipeOf DEF Pipeline

LEMMA MainRuns ==
  ASSUME Types, Types', RunMain
  PROVE  Carries(page, Pipeline, page', Pipeline')
<1> DEFINE M == Messages
           n == Len(buf)
           h == Head(mainq)
<1>1. /\ M \in SUBSET Nat /\ None \notin M /\ Messages' = M /\ page \in Page(M)
      /\ UNCHANGED log
  <2>1. UNCHANGED log
    BY DEF RunMain, lineVars
  <2> QED BY <2>1, Basics, SameLog DEF Types
<1>2. /\ Pipeline \in Seq(Items(M)) /\ Len(Pipeline) = n + Len(mainq)
      /\ DOMAIN Pipeline = 1 .. Len(Pipeline)
      /\ n \in Nat /\ Len(mainq) \in Nat
      /\ \A i \in 1 .. n : Pipeline[i] = Coalesced(buf[i])
      /\ \A i \in 1 .. Len(mainq) : Pipeline[n + i] = mainq[i]
  BY PipeFacts
<1>3. /\ Pipeline' \in Seq(Items(M)) /\ Len(Pipeline') = Len(buf') + Len(mainq')
      /\ \A i \in 1 .. Len(buf') : Pipeline'[i] = Coalesced(buf'[i])
      /\ \A i \in 1 .. Len(mainq') : Pipeline'[Len(buf') + i] = mainq'[i]
  <2>1. buf' \in Seq(Script(M)) /\ mainq' \in Seq(Items(M))
    BY <1>1 DEF Types, Items
  <2> QED BY <2>1, PipeNext
<1>4. /\ h = mainq[1] /\ h \in Items(M) /\ Len(mainq) # 0 /\ Len(mainq') = Len(mainq) - 1
      /\ \A i \in 1 .. (Len(mainq) - 1) : mainq'[i] = mainq[i + 1]
  <2>1. mainq \in Seq(Items(M)) /\ mainq # <<>> /\ mainq' = Tail(mainq)
    BY DEF Types, Items, RunMain
  <2>2. /\ h = mainq[1] /\ h \in Items(M) /\ Len(mainq') = Len(mainq) - 1 /\ mainq' \in Seq(Items(M))
        /\ \A i \in 1 .. Len(mainq') : mainq'[i] = mainq[i + 1]
    BY <2>1, HeadTailProperties
  <2>3. Len(mainq) # 0
    BY <2>1, EmptySeq
  <2> QED BY <2>2, <2>3
<1>5. CASE h.direct
  <2>1. page' = Eval(page, h.js) /\ buf' = buf
    BY <1>5 DEF RunMain
  <2> DEFINE p == n + 1
  <2>2. p \in 1 .. Len(Pipeline) /\ Pipeline[p] = h
    BY <1>2, <1>4
  <2>3. Carries(page, Pipeline, Eval(page, h.js), Rest(Pipeline, p))
    BY <1>1, <1>2, <1>5, <2>2, RunOne
  <2>4. /\ Rest(Pipeline, p) \in Seq(Items(M)) /\ Len(Rest(Pipeline, p)) = Len(Pipeline) - 1
        /\ \A k \in 1 .. (Len(Pipeline) - 1) :
             Rest(Pipeline, p)[k] = IF k < p THEN Pipeline[k] ELSE Pipeline[k + 1]
    BY <1>2, <2>2, RestFacts DEF Rest
  <2>5. Len(Pipeline') = Len(Pipeline) - 1
    BY <1>2, <1>3, <1>4, <2>1
  <2>6. ASSUME NEW k \in 1 .. (Len(Pipeline) - 1) PROVE Pipeline'[k] = Rest(Pipeline, p)[k]
    <3>1. CASE k <= n
      <4>1. k \in 1 .. n /\ k < p
        BY <1>2, <3>1
      <4> QED BY <1>2, <1>3, <2>1, <2>4, <4>1
    <3>2. CASE ~(k <= n)
      <4>1. /\ k - n \in 1 .. (Len(mainq) - 1) /\ n + (k - n) = k /\ ~(k < p)
            /\ (k - n) + 1 \in 1 .. Len(mainq) /\ n + ((k - n) + 1) = k + 1
        BY <1>2, <1>4, <3>2
      <4>2. Pipeline'[k] = mainq'[k - n]
        BY <1>3, <1>4, <2>1, <4>1
      <4>3. Pipeline[k + 1] = mainq[(k - n) + 1]
        <5>1. Pipeline[n + ((k - n) + 1)] = mainq[(k - n) + 1]
          BY <1>2, <4>1, Zenon
        <5> QED BY <4>1, <5>1
      <4>4. mainq'[k - n] = mainq[(k - n) + 1]
        BY <1>4, <4>1
      <4>5. Rest(Pipeline, p)[k] = Pipeline[k + 1]
        BY <2>4, <4>1
      <4> QED BY <4>2, <4>3, <4>4, <4>5
    <3> QED BY <3>1, <3>2
  <2>7. Pipeline' = Rest(Pipeline, p)
    <3> HIDE DEF p, M
    <3> QED BY <1>3, <2>4, <2>5, <2>6, SeqEqual
  <2> QED BY <2>1, <2>3, <2>7
<1>6. CASE ~h.direct
  <2>1. page' = page /\ buf' = Append(buf, h.js)
    BY <1>6 DEF RunMain
  <2>2. Coalesced(h.js) = h /\ h.js \in Script(M)
    BY <1>4, <1>6 DEF Items, Coalesced
  <2>3. Len(buf') = n + 1 /\ buf'[n + 1] = h.js /\ \A i \in 1 .. n : buf'[i] = buf[i]
    BY <2>1, <2>2, AppendProperties DEF Types
  <2>4. Len(Pipeline') = Len(Pipeline)
    BY <1>2, <1>3, <1>4, <2>3
  <2>5. ASSUME NEW k \in 1 .. Len(Pipeline) PROVE Pipeline'[k] = Pipeline[k]
    <3>1. CASE k <= n
      <4>1. k \in 1 .. n /\ k \in 1 .. (n + 1)
        BY <1>2, <3>1
      <4> QED BY <1>2, <1>3, <2>3, <4>1
    <3>2. CASE k = n + 1
      <4>1. k \in 1 .. (n + 1) /\ 1 \in 1 .. Len(mainq)
        BY <1>2, <1>4, <3>2
      <4>2. Pipeline'[k] = Coalesced(h.js)
        BY <1>3, <2>3, <3>2, <4>1
      <4> QED BY <1>2, <1>4, <2>2, <3>2, <4>1, <4>2
    <3>3. CASE k > n + 1
      <4>1. /\ k - (n + 1) \in 1 .. (Len(mainq) - 1) /\ (n + 1) + (k - (n + 1)) = k
            /\ (k - (n + 1)) + 1 \in 1 .. Len(mainq) /\ n + ((k - (n + 1)) + 1) = k
        BY <1>2, <1>4, <3>3
      <4>2. Pipeline'[k] = mainq'[k - (n + 1)]
        BY <1>3, <1>4, <2>3, <4>1
      <4>3. Pipeline[k] = mainq[(k - (n + 1)) + 1]
        BY <1>2, <4>1
      <4> QED BY <1>4, <4>1, <4>2, <4>3
    <3> QED BY <1>2, <3>1, <3>2, <3>3
  <2>6. Pipeline' = Pipeline
    <3> HIDE DEF M
    <3> QED BY <1>2, <1>3, <2>4, <2>5, SeqEqual
  <2> QED BY <2>1, <2>6, CarriesSame
<1> QED BY <1>5, <1>6

Drop(q, i) == [k \in 1 .. (Len(q) - i) |-> q[k + i]]

LEMMA DropFacts ==
  ASSUME NEW S, NEW q \in Seq(S), NEW i \in 0 .. Len(q)
  PROVE  /\ Drop(q, i) \in Seq(S) /\ Len(Drop(q, i)) = Len(q) - i
         /\ \A k \in 1 .. (Len(q) - i) : Drop(q, i)[k] = q[k + i]
<1>1. Len(q) \in Nat /\ \A k \in 1 .. Len(q) : q[k] \in S
  BY LenProperties, ElementOfSeq
<1>2. Len(q) - i \in Nat /\ \A k \in 1 .. (Len(q) - i) : k + i \in 1 .. Len(q)
  BY <1>1
<1>3. \A k \in 1 .. (Len(q) - i) : Drop(q, i)[k] = q[k + i]
  BY DEF Drop
<1>4. Drop(q, i) \in [1 .. (Len(q) - i) -> S]
  BY <1>1, <1>2 DEF Drop
<1>5. Drop(q, i) \in Seq(S)
  BY <1>2, <1>4, SeqDef
<1>6. Len(Drop(q, i)) = Len(q) - i
  <2>1. /\ Len(Drop(q, i)) \in Nat /\ DOMAIN Drop(q, i) = 1 .. Len(Drop(q, i))
        /\ DOMAIN Drop(q, i) = 1 .. (Len(q) - i)
    BY <1>4, <1>5, LenProperties
  <2>2. \A x, y \in Nat : 1 .. x = 1 .. y => x = y
    OBVIOUS
  <2> QED BY <1>2, <2>1, <2>2, Zenon
<1> QED BY <1>3, <1>5, <1>6

LEMMA DropOne ==
  ASSUME NEW S, NEW q \in Seq(S), NEW i \in 0 .. (Len(q) - 1)
  PROVE  Rest(Drop(q, i), 1) = Drop(q, i + 1)
<1>1. Len(q) \in Nat /\ i \in 0 .. Len(q) /\ i + 1 \in 0 .. Len(q) /\ 1 \in 1 .. (Len(q) - i)
      /\ (Len(q) - i) - 1 = Len(q) - (i + 1)
  BY LenProperties
<1>2. /\ Drop(q, i) \in Seq(S) /\ Len(Drop(q, i)) = Len(q) - i
      /\ \A k \in 1 .. (Len(q) - i) : Drop(q, i)[k] = q[k + i]
  BY <1>1, DropFacts, Zenon
<1>3. /\ Drop(q, i + 1) \in Seq(S) /\ Len(Drop(q, i + 1)) = Len(q) - (i + 1)
      /\ \A k \in 1 .. (Len(q) - (i + 1)) : Drop(q, i + 1)[k] = q[k + (i + 1)]
  BY <1>1, DropFacts, Zenon
<1>4. /\ Rest(Drop(q, i), 1) \in Seq(S) /\ Len(Rest(Drop(q, i), 1)) = Len(q) - (i + 1)
  <2>1. 1 \in 1 .. Len(Drop(q, i)) /\ (Len(q) - i) - 1 = Len(q) - (i + 1)
    BY <1>1, <1>2
  <2>2. Rest(Drop(q, i), 1) \in Seq(S) /\ Len(Rest(Drop(q, i), 1)) = Len(Drop(q, i)) - 1
    BY <1>2, <2>1, RestFacts
  <2> QED BY <1>2, <2>1, <2>2
<1>5. ASSUME NEW k \in 1 .. (Len(q) - (i + 1)) PROVE Rest(Drop(q, i), 1)[k] = Drop(q, i + 1)[k]
  <2>1. /\ ~(k < 1) /\ k \in 1 .. ((Len(q) - i) - 1) /\ k + 1 \in 1 .. (Len(q) - i)
        /\ (k + 1) + i = k + (i + 1)
    BY <1>1
  <2>2. Rest(Drop(q, i), 1)[k] = Drop(q, i)[k + 1]
    BY <1>2, <2>1 DEF Rest
  <2> QED BY <1>2, <1>3, <2>1, <2>2
<1>6. Len(Rest(Drop(q, i), 1)) = Len(Drop(q, i + 1))
  BY <1>3, <1>4
<1>7. \A k \in 1 .. Len(Rest(Drop(q, i), 1)) : Rest(Drop(q, i), 1)[k] = Drop(q, i + 1)[k]
  BY <1>4, <1>5
<1> QED BY <1>3, <1>4, <1>6, <1>7, SeqEqual, Zenon

\* The timer runs all that is buffered.
LEMMA FlushRuns ==
  ASSUME NEW M \in SUBSET Nat, None \notin M, NEW pg \in Page(M), NEW b \in Seq(Script(M)),
         NEW w \in Seq(Items(M))
  PROVE  Carries(pg, [i \in DOMAIN b |-> Coalesced(b[i])] \o w, FoldLeft(Eval, pg, b), w)
<1> DEFINE I == Items(M)
           q == [i \in DOMAIN b |-> Coalesced(b[i])] \o w
           n == Len(b)
<1>1. /\ q \in Seq(I) /\ Len(q) = n + Len(w) /\ n \in Nat /\ Len(w) \in Nat
      /\ \A i \in 1 .. n : q[i] = Coalesced(b[i]) /\ b[i] \in Script(M)
      /\ \A i \in 1 .. Len(w) : q[n + i] = w[i]
  BY PipeOf, ElementOfSeq
<1>2. PICK run : /\ run[0] = pg
                 /\ \A i \in 1 .. Len(b) : run[i] = Eval(run[i - 1], b[i])
                 /\ run[Len(b)] = FoldLeft(Eval, pg, b)
  BY Runs, Zenon
<1> DEFINE S == {i \in 0 .. n : run[i] \in Page(M) /\ Carries(pg, q, run[i], Drop(q, i))}
<1> HIDE DEF q
<1>3. Drop(q, 0) = q /\ Drop(q, n) = w
  <2>1. 0 \in 0 .. Len(q) /\ n \in 0 .. Len(q) /\ Len(q) - 0 = Len(q) /\ Len(q) - n = Len(w)
    BY <1>1
  <2> HIDE DEF I, n
  <2>a. /\ Drop(q, 0) \in Seq(I) /\ Len(Drop(q, 0)) = Len(q) - 0
        /\ \A k \in 1 .. (Len(q) - 0) : Drop(q, 0)[k] = q[k + 0]
    BY <1>1, <2>1, DropFacts, Zenon
  <2>b. /\ Drop(q, n) \in Seq(I) /\ Len(Drop(q, n)) = Len(q) - n
        /\ \A k \in 1 .. (Len(q) - n) : Drop(q, n)[k] = q[k + n]
    BY <1>1, <2>1, DropFacts, Zenon
  <2>2. /\ Drop(q, 0) \in Seq(I) /\ Len(Drop(q, 0)) = Len(q)
        /\ \A k \in 1 .. Len(q) : Drop(q, 0)[k] = q[k + 0]
    BY <2>1, <2>a, Zenon
  <2>3. /\ Drop(q, n) \in Seq(I) /\ Len(Drop(q, n)) = Len(w)
        /\ \A k \in 1 .. Len(w) : Drop(q, n)[k] = q[k + n]
    BY <2>1, <2>b, Zenon
  <2>4. \A k \in 1 .. Len(q) : k + 0 = k
    BY <1>1
  <2>5. \A k \in 1 .. Len(w) : k + n = n + k
    BY <1>1
  <2>6. w \in Seq(I)
    BY DEF I
  <2>7. Drop(q, 0) = q
    BY <1>1, <2>2, <2>4, SeqEqual
  <2> QED BY <1>1, <2>3, <2>5, <2>6, <2>7, SeqEqual
<1>4. 0 \in S
  BY <1>1, <1>2, <1>3, CarriesSame
<1>5. ASSUME NEW i \in 0 .. (n - 1), i \in S PROVE i + 1 \in S
  <2>1. /\ i + 1 \in 1 .. n /\ i + 1 \in 0 .. n /\ (i + 1) - 1 = i /\ i \in 0 .. (Len(q) - 1)
        /\ i \in 0 .. Len(q) /\ 1 \in 1 .. (Len(q) - i) /\ 1 + i = i + 1
    BY <1>1
  <2>2. run[i + 1] = Eval(run[i], b[i + 1]) /\ b[i + 1] \in Script(M) /\ q[i + 1] = Coalesced(b[i + 1])
    BY <1>1, <1>2, <2>1
  <2>3. /\ Drop(q, i) \in Seq(I) /\ 1 \in 1 .. Len(Drop(q, i)) /\ Drop(q, i)[1].js = b[i + 1]
    <3>1. /\ Drop(q, i) \in Seq(I) /\ Len(Drop(q, i)) = Len(q) - i
          /\ \A k \in 1 .. (Len(q) - i) : Drop(q, i)[k] = q[k + i]
      <4>1. q \in Seq(I) /\ i \in 0 .. Len(q)
        BY <1>1, <2>1
      <4> HIDE DEF I, n, S
      <4> QED BY <4>1, DropFacts, Zenon
    <3>2. Drop(q, i)[1] = q[i + 1]
      BY <2>1, <3>1
    <3> QED BY <2>1, <2>2, <3>1, <3>2 DEF Coalesced
  <2>4. run[i] \in Page(M) /\ Carries(pg, q, run[i], Drop(q, i))
    BY <1>5
  <2>5. run[i + 1] \in Page(M)
    BY <2>2, <2>4, EvalPage
  <2>6. Carries(run[i], Drop(q, i), Eval(run[i], b[i + 1]), Rest(Drop(q, i), 1))
    <3> HIDE DEF S
    <3> QED BY <2>3, <2>4, RunOne DEF I
  <2>7. Carries(run[i], Drop(q, i), run[i + 1], Drop(q, i + 1))
    <3>1. Rest(Drop(q, i), 1) = Drop(q, i + 1)
      <4> HIDE DEF I
      <4> QED BY <1>1, <2>1, DropOne, Zenon
    <3> QED BY <2>2, <2>6, <3>1
  <2>8. Carries(pg, q, run[i + 1], Drop(q, i + 1))
    BY <2>4, <2>7, CarriesOn
  <2> QED BY <2>1, <2>5, <2>8
<1>6. n \in S
  <2> HIDE DEF S, n
  <2>1. \A i \in 0 .. n : i \in S
    BY <1>1, <1>4, <1>5, Induct
  <2> QED BY <1>1, <2>1
<1> QED BY <1>2, <1>3, <1>6 DEF q

-----------------------------------------------------------------------------
(* What a step adds to the end of what waits.                              *)

\* The old scripts keep their places, and those of u come after them.
Extends(q, u, q2) ==
  /\ DOMAIN q2 = 1 .. (Len(q) + Len(u))
  /\ \A k \in DOMAIN q : k \in DOMAIN q2 /\ q2[k] = q[k]
  /\ \A l \in DOMAIN u : Len(q) + l \in DOMAIN q2 /\ q2[Len(q) + l] = u[l]
  /\ \A k \in DOMAIN q2 : k \in DOMAIN q \/ \E l \in DOMAIN u : k = Len(q) + l

LEMMA PipeGrows ==
  ASSUME Types, NEW u \in Seq(Items(Messages)), mainq' = mainq \o u, UNCHANGED buf
  PROVE  Extends(Pipeline, u, Pipeline')
<1> DEFINE I == Items(Messages)
           n == Len(buf)
           p == Len(Pipeline)
<1>1. /\ buf \in Seq(Script(Messages)) /\ mainq \in Seq(I) /\ u \in Seq(I)
      /\ Len(u) \in Nat /\ DOMAIN u = 1 .. Len(u)
  BY LenProperties DEF Types, Items
<1>2. /\ p = n + Len(mainq) /\ DOMAIN Pipeline = 1 .. p /\ n \in Nat /\ Len(mainq) \in Nat
      /\ \A i \in 1 .. n : Pipeline[i] = Coalesced(buf[i])
      /\ \A i \in 1 .. Len(mainq) : Pipeline[n + i] = mainq[i]
  BY PipeFacts
<1>3. /\ mainq' \in Seq(I) /\ Len(mainq') = Len(mainq) + Len(u)
      /\ \A i \in 1 .. (Len(mainq) + Len(u)) :
           mainq'[i] = IF i <= Len(mainq) THEN mainq[i] ELSE u[i - Len(mainq)]
  <2> HIDE DEF I
  <2> QED BY <1>1, ConcatProperties
<1>4. buf' \in Seq(Script(Messages)) /\ buf' = buf
  BY <1>1
<1>5. /\ Len(Pipeline') = n + Len(mainq') /\ DOMAIN Pipeline' = 1 .. Len(Pipeline')
      /\ \A i \in 1 .. n : Pipeline'[i] = Coalesced(buf[i])
      /\ \A i \in 1 .. Len(mainq') : Pipeline'[n + i] = mainq'[i]
  <2>1. /\ Len(Pipeline') = Len(buf') + Len(mainq') /\ DOMAIN Pipeline' = 1 .. Len(Pipeline')
        /\ \A i \in 1 .. Len(buf') : Pipeline'[i] = Coalesced(buf'[i])
        /\ \A i \in 1 .. Len(mainq') : Pipeline'[Len(buf') + i] = mainq'[i]
    BY <1>3, <1>4, PipeNext
  <2> QED BY <1>4, <2>1
<1> HIDE DEF n, p, I
<1>6. DOMAIN Pipeline' = 1 .. (p + Len(u))
  BY <1>1, <1>2, <1>3, <1>5
<1>7. ASSUME NEW k \in 1 .. p PROVE Pipeline'[k] = Pipeline[k]
  <2>1. CASE k <= n
    <3>1. k \in 1 .. n
      BY <1>2, <2>1
    <3> QED BY <1>2, <1>5, <3>1
  <2>2. CASE k > n
    <3>1. k - n \in 1 .. Len(mainq) /\ n + (k - n) = k /\ k - n <= Len(mainq)
          /\ k - n \in 1 .. Len(mainq') /\ k - n \in 1 .. (Len(mainq) + Len(u))
      BY <1>1, <1>2, <1>3, <2>2
    <3>2. Pipeline'[k] = mainq'[k - n] /\ Pipeline[k] = mainq[k - n]
      BY <1>2, <1>5, <3>1
    <3> QED BY <1>3, <3>1, <3>2
  <2> QED BY <1>2, <2>1, <2>2
<1>8. ASSUME NEW l \in 1 .. Len(u) PROVE Pipeline'[p + l] = u[l]
  <2>1. /\ Len(mainq) + l \in 1 .. (Len(mainq) + Len(u)) /\ ~(Len(mainq) + l <= Len(mainq))
        /\ (Len(mainq) + l) - Len(mainq) = l /\ n + (Len(mainq) + l) = p + l
    BY <1>1, <1>2
  <2>2. Pipeline'[p + l] = mainq'[Len(mainq) + l]
    BY <1>3, <1>5, <2>1
  <2> QED BY <1>3, <2>1, <2>2
<1>9. \A k \in 1 .. (p + Len(u)) : k \in 1 .. p \/ \E l \in 1 .. Len(u) : k = p + l
  <2> TAKE k \in 1 .. (p + Len(u))
  <2>1. ASSUME k > p PROVE k - p \in 1 .. Len(u) /\ k = p + (k - p)
    BY SMTT(30), <1>1, <1>2, <2>1
  <2>2. ~(k > p) => k \in 1 .. p
    BY <1>1, <1>2
  <2> QED BY <2>1, <2>2
<1>10. /\ \A k \in 1 .. p : k \in 1 .. (p + Len(u))
       /\ \A l \in 1 .. Len(u) : p + l \in 1 .. (p + Len(u))
  BY <1>1, <1>2
<1> QED BY <1>1, <1>2, <1>6, <1>7, <1>8, <1>9, <1>10 DEF Extends, p

LEMMA PipeAppends ==
  ASSUME Types, NEW js \in Script(Messages), mainq' = Append(mainq, Direct(js)), UNCHANGED buf
  PROVE  Extends(Pipeline, <<Direct(js)>>, Pipeline')
<1>1. Direct(js) \in Items(Messages)
  BY DEF Direct, Items
<1>2. mainq \in Seq(Items(Messages))
  BY DEF Types, Items
<1> DEFINE I == Items(Messages)
           x == Direct(js)
<1> HIDE DEF I, x
<1>3. <<x>> \in Seq(I) /\ Append(mainq, x) = mainq \o <<x>>
  <2>1. x \in I /\ mainq \in Seq(I)
    BY <1>1, <1>2 DEF I, x
  <2> QED BY <2>1, AppendIsConcat
<1> QED BY <1>3, PipeGrows DEF I, x

\* What the callback draws for the event it holds.
Draws(temp) == [i \in DOMAIN MessageUpdates(next, temp) |-> Coalesced(MessageUpdates(next, temp)[i])]
Line(m) == Coalesced(JS("seen", None, m))
New(m) == Coalesced(JS("append", None, m))
Swap(s, m) == Coalesced(JS("update", s, m))

LEMMA Drawn ==
  ASSUME Types, LogInv, StreamInv, ConsumeEvent
  PROVE  LET u == Draws(cb.temp) IN
         /\ next \in DOMAIN log /\ next <= Len(log) /\ next \in Nat
         /\ cb.temp \in Sends \union {None}
         /\ u \in Seq(Items(Messages)) /\ Extends(Pipeline, u, Pipeline')
         /\ next \in Messages <=> log[next].type = "message"
         /\ \/ /\ next \notin Messages /\ log[next].type = "seen" /\ cb.temp = None
               /\ u = <<Line(seen)>>
            \/ /\ next \in Messages /\ cb.temp # None
               /\ u = <<Swap(cb.temp, next)>>
            \/ /\ next \in Messages /\ cb.temp = None
               /\ IF log[next].from = "peer" THEN u = <<New(next), Line(seen)>>
                                             ELSE u = <<New(next)>>
<1>1. next \in DOMAIN log /\ next <= Len(log) /\ next \in Nat /\ cb.temp \in Sends \union {None}
  <2>1. DOMAIN log = 1 .. Len(log) /\ next \in 1 .. (Len(log) + 1) /\ Len(log) \in Nat
    BY Basics DEF Types
  <2>2. next <= Len(log)
    BY DEF ConsumeEvent, StreamInv
  <2>3. cb.temp \in Sends \union {None}
    BY DEF Types
  <2> QED BY <2>1, <2>2, <2>3
<1>2. log[next].type \in {"message", "seen"} /\ (next \in Messages <=> log[next].type = "message")
  BY <1>1, Basics DEF Op, Messages
<1>3. log[next].type = "seen" => cb.temp = None
  BY DEF StreamInv, ConsumeEvent
<1> DEFINE u == Draws(cb.temp)
           I == Items(Messages)
<1>4. u \in Seq(I)
  BY <1>1, <1>2, UpdatesType DEF Draws, Items
<1>5. mainq' = mainq \o u /\ UNCHANGED buf
  BY DEF ConsumeEvent, Draws
<1>6. Extends(Pipeline, u, Pipeline')
  <2> HIDE DEF u
  <2> QED BY <1>4, <1>5, PipeGrows
<1>7. /\ \A x : [i \in DOMAIN <<x>> |-> Coalesced(<<x>>[i])] = <<Coalesced(x)>>
      /\ \A x, y : [i \in DOMAIN <<x, y>> |-> Coalesced(<<x, y>>[i])] = <<Coalesced(x), Coalesced(y)>>
  OBVIOUS
<1>8. \/ /\ next \notin Messages /\ log[next].type = "seen" /\ cb.temp = None
         /\ u = <<Line(seen)>>
      \/ /\ next \in Messages /\ cb.temp # None
         /\ u = <<Swap(cb.temp, next)>>
      \/ /\ next \in Messages /\ cb.temp = None
         /\ IF log[next].from = "peer" THEN u = <<New(next), Line(seen)>> ELSE u = <<New(next)>>
  <2>1. CASE log[next].type = "seen"
    <3>1. MessageUpdates(next, cb.temp) = <<JS("seen", None, seen)>>
      BY <2>1 DEF MessageUpdates
    <3> QED BY <1>2, <1>3, <1>7, <2>1, <3>1 DEF Draws, Line
  <2>2. CASE log[next].type # "seen" /\ cb.temp # None
    <3>1. MessageUpdates(next, cb.temp) = <<JS("update", cb.temp, next)>>
      BY <2>2 DEF MessageUpdates
    <3> QED BY <1>2, <1>7, <2>2, <3>1 DEF Draws, Swap
  <2>3. CASE log[next].type # "seen" /\ cb.temp = None /\ log[next].from = "peer"
    <3>1. MessageUpdates(next, cb.temp) = <<JS("append", None, next), JS("seen", None, seen)>>
      BY <2>3 DEF MessageUpdates
    <3> QED BY <1>2, <1>7, <2>3, <3>1 DEF Draws, New, Line
  <2>4. CASE log[next].type # "seen" /\ cb.temp = None /\ log[next].from # "peer"
    <3>1. MessageUpdates(next, cb.temp) = <<JS("append", None, next)>>
      BY <2>4 DEF MessageUpdates
    <3> QED BY <1>2, <1>7, <2>4, <3>1 DEF Draws, New
  <2> QED BY <2>1, <2>2, <2>3, <2>4
<1> QED BY <1>1, <1>2, <1>4, <1>6, <1>8

-----------------------------------------------------------------------------
(* Bubbles are settled.                                                    *)

\* A step of the main thread runs some of what waits; the others leave it,
\* the page and the queue alone, or are named here.
LEMMA PageCases ==
  ASSUME Types, Types', [Next]_vars
  PROVE  \/ \E s \in Sends : \/ \E c \in bound.contents : UserSend(s, c)
                             \/ ConfirmTempId(s) \/ FailTempId(s)
         \/ ConsumeEvent \/ Reload
         \/ Carries(page, Pipeline, page', Pipeline') /\ UNCHANGED order
<1>1. ASSUME FlushCoalesced PROVE Carries(page, Pipeline, page', Pipeline')
  <2>1. /\ page' = FoldLeft(Eval, page, buf) /\ buf' = <<>> /\ UNCHANGED mainq
    BY <1>1, Zenon DEF FlushCoalesced
  <2>2. /\ Messages \in SUBSET Nat /\ None \notin Messages /\ page \in Page(Messages)
        /\ buf \in Seq(Script(Messages)) /\ mainq \in Seq(Items(Messages))
    BY Basics DEF Types, Items
  <2>3. Carries(page, Pipeline, FoldLeft(Eval, page, buf), mainq)
    BY <2>2, FlushRuns, Zenon DEF Pipeline
  <2>4. Pipeline' = mainq
    <3> DEFINE c == [i \in DOMAIN buf' |-> Coalesced(buf'[i])]
    <3>1. c = <<>>
      BY <2>1
    <3> HIDE DEF c
    <3>2. Pipeline' = c \o mainq
      BY <2>1 DEF Pipeline, c
    <3> DEFINE I == Items(Messages)
    <3> HIDE DEF I
    <3>3. mainq \in Seq(I)
      BY <2>2 DEF I
    <3>4. <<>> \o mainq = mainq
      BY <3>3, ConcatEmptySeq
    <3> QED BY <3>1, <3>2, <3>4
  <2> QED BY <2>1, <2>3, <2>4, Zenon
<1>2. ASSUME RunMain PROVE Carries(page, Pipeline, page', Pipeline')
  BY <1>2, MainRuns
<1>3. ASSUME UNCHANGED uiVars PROVE Carries(page, Pipeline, page', Pipeline')
  <2>1. page' = page /\ Pipeline' = Pipeline
    BY <1>3 DEF uiVars, Pipeline
  <2> QED BY <2>1, CarriesSame
<1>4. ASSUME RunMain \/ FlushCoalesced PROVE UNCHANGED order
  BY <1>4 DEF RunMain, FlushCoalesced, matchVars
<1>5. ASSUME \/ \E s \in Sends : \/ Prepare(s) \/ \E e \in BOOLEAN : Accept(s, e)
                                 \/ SendReply(s) \/ UploadPlain(s) \/ FinishSend(s)
             \/ \E x \in seenRpc : MarkChatSeen(x)
             \/ \E o \in bound.senders : OtherMessage(o)
             \/ MatchEvent \/ ProcessEvent \/ UNCHANGED vars
      PROVE  UNCHANGED uiVars /\ UNCHANGED order
  BY <1>5 DEF Prepare, Accept, SendReply, UploadPlain, FinishSend, MarkChatSeen, OtherMessage,
              MatchEvent, ProcessEvent, vars, matchVars
<1> QED BY <1>1, <1>2, <1>3, <1>4, <1>5, StepCases, Zenon

\* The user's bubble comes below the others.
LEMMA NewBubble ==
  ASSUME Types, NEW s \in Sends, NEW c, UserSend(s, c)
  PROVE  LET n == Len(page.rows) + 1 IN
         /\ n \notin DOMAIN page.rows /\ n \in DOMAIN page'.rows /\ page'.rows[n] = Temp(s)
         /\ \A i \in DOMAIN page.rows : i \in DOMAIN page'.rows /\ page'.rows[i] = page.rows[i]
         /\ \A i \in DOMAIN page'.rows : i \in DOMAIN page.rows \/ i = n
         /\ \A i \in DOMAIN page'.rows : \/ i \in DOMAIN page.rows /\ page'.rows[i] = page.rows[i]
                                         \/ page'.rows[i] = Temp(s)
         /\ page'.marker = page.marker
<1> DEFINE n == Len(page.rows) + 1
<1>1. /\ page.rows \in Seq(Bubble(Messages)) /\ page'.rows = Append(page.rows, Temp(s))
      /\ page'.marker = page.marker
  BY DEF UserSend, Types, Page
<1>2. page.rows \in Seq(Bubble(Messages) \union {Temp(s)})
  BY <1>1, SeqMonotonic
<1>3. /\ DOMAIN page'.rows = 1 .. n /\ DOMAIN page.rows = 1 .. Len(page.rows)
      /\ \A i \in 1 .. Len(page.rows) : page'.rows[i] = page.rows[i]
      /\ page'.rows[n] = Temp(s) /\ Len(page.rows) \in Nat
  BY <1>1, <1>2, AppendProperties, LenProperties
<1>4. /\ n \notin 1 .. Len(page.rows) /\ n \in 1 .. n
      /\ \A i \in 1 .. Len(page.rows) : i \in 1 .. n
      /\ \A i \in 1 .. n : i \in 1 .. Len(page.rows) \/ i = n
  BY <1>3
<1> QED BY <1>1, <1>3, <1>4

LEMMA SettleStep ==
  ASSUME Types, Types', LogInv, QueueInv, StreamInv, SettleInv, [Next]_vars
  PROVE  SettleInv'
<1>a. /\ Sorted(Pipeline) /\ \A s \in Sends : Looks(page, s) => Queued(order, s) \/ Settled(Pipeline, s)
      /\ None \notin Sends
  BY Basics DEF SettleInv
\* What is added settles what leaves the queue.
<1>b. ASSUME NEW u, Extends(Pipeline, u, Pipeline'), Sorted(u), UNCHANGED page,
             \A i \in DOMAIN order : Queued(order', order[i]) \/ Settled(u, order[i])
      PROVE  SettleInv'
  <2>1. Sorted(Pipeline)'
    <3>1. Sorted(Pipeline')
      BY <1>a, <1>b DEF Sorted, Extends
    <3> QED BY <3>1 DEF Sorted
  <2>2. ASSUME NEW s \in Sends, Looks(page, s) PROVE Queued(order', s) \/ Settled(Pipeline', s)
    <3>1. CASE Settled(Pipeline, s)
      BY <1>b, <3>1 DEF Settled, Extends
    <3>2. CASE Queued(order, s)
      <4>1. PICK i \in DOMAIN order : order[i] = s
        BY <3>2 DEF Queued
      <4>2. Queued(order', s) \/ Settled(u, s)
        BY <1>b, <4>1
      <4> QED BY <1>b, <4>2 DEF Settled, Extends
    <3> QED BY <1>a, <2>2, <3>1, <3>2
  <2>3. \A s \in Sends : Looks(page', s) => Queued(order', s) \/ Settled(Pipeline', s)
    BY <1>b, <2>2
  <2> QED BY <2>1, <2>3 DEF SettleInv, Looks, Settled
<1>1. ASSUME NEW s \in Sends, NEW c \in bound.contents, UserSend(s, c) PROVE SettleInv'
  <2>1. Pipeline' = Pipeline /\ order' = Append(order, s)
    BY <1>1 DEF UserSend, Pipeline, QueuePendingTemp
  <2>2. \A i \in DOMAIN page'.rows : \/ i \in DOMAIN page.rows /\ page'.rows[i] = page.rows[i]
                                     \/ page'.rows[i] = Temp(s)
    BY <1>1, NewBubble
  <2>3. Queued(order', s) /\ \A t \in Sends : Queued(order, t) => Queued(order', t)
    <3>1. order \in Seq(Sends)
      BY DEF Types
    <3>2. /\ DOMAIN order' = 1 .. (Len(order) + 1) /\ DOMAIN order = 1 .. Len(order)
          /\ \A i \in 1 .. Len(order) : order'[i] = order[i]
          /\ order'[Len(order) + 1] = s /\ Len(order) \in Nat
      BY <2>1, <3>1, AppendProperties, LenProperties
    <3>3. Len(order) + 1 \in DOMAIN order' /\ \A i \in DOMAIN order : i \in DOMAIN order' /\ order'[i] = order[i]
      BY <3>2
    <3> QED BY <3>2, <3>3 DEF Queued
  <2>4. \A t \in Sends : Looks(page', t) => Queued(order', t) \/ Settled(Pipeline', t)
    <3> TAKE t \in Sends
    <3> HAVE Looks(page', t)
    <3>1. PICK i \in DOMAIN page'.rows : page'.rows[i].temp = t /\ ~page'.rows[i].err
      BY DEF Looks
    <3>2. CASE page'.rows[i] = Temp(s)
      BY <2>3, <3>1, <3>2 DEF Temp
    <3>3. CASE i \in DOMAIN page.rows /\ page'.rows[i] = page.rows[i]
      BY <1>a, <2>1, <2>3, <3>1, <3>3 DEF Looks
    <3> QED BY <2>2, <3>2, <3>3
  <2>5. Sorted(Pipeline')
    BY <1>a, <2>1
  <2> QED BY <2>4, <2>5 DEF SettleInv, Looks, Settled, Sorted
<1>2. ASSUME NEW s \in Sends, ConfirmTempId(s) PROVE SettleInv'
  <2> DEFINE js == JS("seen", None, msgOf[s])
  <2>1. js \in Script(Messages)
    <3>1. msgOf[s] \in Messages
      BY <1>2 DEF ConfirmTempId, LogInv, Posted
    <3> QED BY <3>1 DEF JS, Script
  <2>2. mainq' = Append(mainq, Direct(js)) /\ UNCHANGED <<buf, page, order>>
    BY <1>2 DEF ConfirmTempId
  <2>3. Sorted(<<Direct(js)>>)
    BY DEF Sorted, Direct, JS
  <2>4. \A i \in DOMAIN order : Queued(order', order[i])
    BY <2>2 DEF Queued
  <2> HIDE DEF js
  <2> QED BY <1>b, <2>1, <2>2, <2>3, <2>4, PipeAppends
<1>3. ASSUME NEW s \in Sends, FailTempId(s) PROVE SettleInv'
  <2> DEFINE js == JS("fail", s, None)
  <2>1. js \in Script(Messages)
    BY DEF JS, Script
  <2>2. mainq' = Append(mainq, Direct(js)) /\ UNCHANGED <<buf, page>>
        /\ order' = RemovePendingTemp(order, s)
    BY <1>3 DEF FailTempId
  <2>3. Sorted(<<Direct(js)>>) /\ Settled(<<Direct(js)>>, s)
    BY DEF Sorted, Settled, Settles, Direct, JS
  <2>4. \A i \in DOMAIN order : order[i] # s => Queued(order', order[i])
    BY <2>2, QueueFacts DEF Queued
  <2> HIDE DEF js
  <2> QED BY <1>b, <2>1, <2>2, <2>3, <2>4, PipeAppends
<1>4. ASSUME ConsumeEvent PROVE SettleInv'
  <2> DEFINE u == Draws(cb.temp)
  <2>1. /\ Extends(Pipeline, u, Pipeline')
        /\ \/ cb.temp = None /\ u = <<Line(seen)>>
           \/ cb.temp # None /\ u = <<Swap(cb.temp, next)>>
           \/ cb.temp = None /\ (u = <<New(next), Line(seen)>> \/ u = <<New(next)>>)
    BY <1>4, Drawn
  <2>2. UNCHANGED page /\ order' = IF cb.temp # None THEN RemovePendingTemp(order, cb.temp) ELSE order
    BY <1>4 DEF ConsumeEvent
  <2> HIDE DEF u
  <2>3. Sorted(u)
    BY <2>1 DEF Sorted, Line, Swap, New, Coalesced, JS
  <2>4. \A i \in DOMAIN order : Queued(order', order[i]) \/ Settled(u, order[i])
    <3>1. CASE cb.temp = None
      BY <2>2, <3>1 DEF Queued
    <3>2. CASE cb.temp # None
      <4>1. Settled(u, cb.temp)
        BY <2>1, <3>2 DEF Settled, Settles, Swap, Coalesced, JS
      <4>2. \A i \in DOMAIN order : order[i] # cb.temp => Queued(order', order[i])
        BY <2>2, <3>2, QueueFacts DEF Queued
      <4> QED BY <4>1, <4>2
    <3> QED BY <3>1, <3>2
  <2> QED BY <1>b, <2>1, <2>2, <2>3, <2>4
<1>5. ASSUME Reload PROVE SettleInv'
  <2>1. page' = Rendered /\ Pipeline' = Pipeline
    BY <1>5 DEF Reload, Pipeline
  <2>2. \A i \in DOMAIN Rendered.rows : Rendered.rows[i].temp = None
    BY DEF Rendered, Shown
  <2>3. \A s \in Sends : ~Looks(page', s)
    BY <1>a, <2>1, <2>2 DEF Looks
  <2> QED BY <1>a, <2>1, <2>3 DEF SettleInv, Looks, Settled, Sorted
<1>6. ASSUME Carries(page, Pipeline, page', Pipeline'), UNCHANGED order PROVE SettleInv'
  <2>1. /\ Sorted(Pipeline')
        /\ \A s \in Sends : Looks(page', s) =>
             Looks(page, s) /\ (Settled(Pipeline, s) => Settled(Pipeline', s))
    BY <1>6, <1>a DEF Carries
  <2>2. \A s \in Sends : Queued(order', s) <=> Queued(order, s)
    BY <1>6 DEF Queued
  <2>3. \A s \in Sends : Looks(page', s) => Queued(order', s) \/ Settled(Pipeline', s)
    BY <1>a, <2>1, <2>2
  <2> QED BY <2>1, <2>3 DEF SettleInv, Looks, Settled, Sorted
<1> QED BY <1>1, <1>2, <1>3, <1>4, <1>5, <1>6, PageCases

-----------------------------------------------------------------------------
(* Every message is shown once.                                            *)

\* A send that began stays begun, an ended one ended, with its message.
LEMMA ThreadsKept ==
  ASSUME Types, LogInv, [Next]_vars
  PROVE  /\ \A s \in Sends : pc[s] # "idle" => pc'[s] # "idle"
         /\ \A s \in Sends : pc[s] \in Ended => pc'[s] = pc[s] /\ msgOf'[s] = msgOf[s]
         /\ ConsumeEvent \/ UNCHANGED next
<1>1. ASSUME NEW s \in Sends, NEW x, pc' = [pc EXCEPT ![s] = x], pc[s] \notin Ended, x # "idle",
             UNCHANGED msgOf \/ \E m : msgOf' = [msgOf EXCEPT ![s] = m]
      PROVE  /\ \A t \in Sends : pc[t] # "idle" => pc'[t] # "idle"
             /\ \A t \in Sends : pc[t] \in Ended => pc'[t] = pc[t] /\ msgOf'[t] = msgOf[t]
  <2>1. /\ \A t \in Sends : pc'[t] = IF t = s THEN x ELSE pc[t]
        /\ \A t \in Sends : t # s => msgOf'[t] = msgOf[t]
    BY <1>1 DEF Types
  <2> QED BY <1>1, <2>1
<1>2. ASSUME NEW s \in Sends, NEW c \in bound.contents, UserSend(s, c)
      PROVE  /\ pc[s] \notin Ended /\ UNCHANGED <<msgOf, next>>
             /\ \E x : x # "idle" /\ pc' = [pc EXCEPT ![s] = x]
  <2>1. pc' = [pc EXCEPT ![s] = "flow"] \/ pc' = [pc EXCEPT ![s] = "load"]
    BY <1>2 DEF UserSend
  <2> QED BY <1>2, <2>1 DEF UserSend, Ended, streamVars
<1>3. ASSUME NEW s \in Sends, Prepare(s)
      PROVE  /\ pc[s] \notin Ended /\ UNCHANGED <<msgOf, next>>
             /\ \E x : x # "idle" /\ pc' = [pc EXCEPT ![s] = x]
  BY <1>3 DEF Prepare, Ended, streamVars
<1>4. ASSUME NEW s \in Sends, NEW e \in BOOLEAN, Accept(s, e)
      PROVE  /\ pc[s] \notin Ended /\ msgOf' = [msgOf EXCEPT ![s] = Len(log) + 1] /\ UNCHANGED next
             /\ \E x : x # "idle" /\ pc' = [pc EXCEPT ![s] = x]
  BY <1>4 DEF Accept, Ended, streamVars
<1>5. ASSUME NEW s \in Sends, \/ SendReply(s) \/ UploadPlain(s) \/ FinishSend(s)
                              \/ ConfirmTempId(s) \/ FailTempId(s)
      PROVE  /\ pc[s] \notin Ended /\ UNCHANGED <<msgOf, next>>
             /\ \E x : x # "idle" /\ pc' = [pc EXCEPT ![s] = x]
  BY <1>5 DEF SendReply, UploadPlain, FinishSend, ConfirmTempId, FailTempId, Ended, streamVars
<1>6. ASSUME \/ \E m \in seenRpc : MarkChatSeen(m)
             \/ \E o \in bound.senders : OtherMessage(o)
             \/ MatchEvent \/ ProcessEvent \/ RunMain \/ FlushCoalesced \/ Reload
             \/ UNCHANGED vars
      PROVE  UNCHANGED <<pc, msgOf, next>>
  BY <1>6 DEF MarkChatSeen, OtherMessage, MatchEvent, ProcessEvent, RunMain, FlushCoalesced,
              Reload, vars, sendVars, streamVars
<1>7. ASSUME ConsumeEvent PROVE UNCHANGED <<pc, msgOf>>
  BY <1>7 DEF ConsumeEvent, sendVars
<1> QED BY <1>1, <1>2, <1>3, <1>4, <1>5, <1>6, <1>7, StepCases, Zenon

LEMMA SteadyKept ==
  ASSUME Types, [Next]_vars
  PROVE  /\ Steady' <=> Steady
         /\ budget.left["reloads"] = 0 => budget'.left["reloads"] = 0
BY BudgetKept DEF Steady, Undisturbed

\* What the bubbles and the scripts of a page name.
LEMMA PageNames ==
  ASSUME NEW M \in SUBSET Nat, None \notin M, NEW pg \in Page(M), NEW q \in Seq(Items(M))
  PROVE  /\ \A i \in DOMAIN pg.rows : /\ pg.rows[i].id \in Nat
                                      /\ pg.rows[i].temp \in Sends \union {None}
         /\ \A k \in DOMAIN q : Names(q[k].js) \in Nat
<1>1. None \in Nat
  BY DEF None
<1>2. pg.rows \in Seq(Bubble(M))
  BY DEF Page
<1>3. \A i \in DOMAIN pg.rows : pg.rows[i] \in Bubble(M)
  BY <1>2, LenProperties, ElementOfSeq
<1>4. \A k \in DOMAIN q : q[k].js \in Script(M)
  <2>1. \A k \in DOMAIN q : q[k] \in Items(M)
    BY LenProperties, ElementOfSeq
  <2> QED BY <2>1 DEF Items
<1>5. \A js \in Script(M) : Names(js) \in Nat
  BY <1>1 DEF Names, Script
<1>6. \A i \in DOMAIN pg.rows : pg.rows[i].temp \in Sends \union {None}
  BY <1>3 DEF Bubble
<1>7. \A i \in DOMAIN pg.rows : pg.rows[i].id \in M \union {None}
  BY <1>3 DEF Bubble
<1> QED BY <1>1, <1>4, <1>5, <1>6, <1>7

LEMMA PageTypes ==
  ASSUME Types, Types'
  PROVE  /\ \A i \in DOMAIN page.rows : /\ page.rows[i].id \in Nat
                                        /\ page.rows[i].temp \in Sends \union {None}
         /\ \A k \in DOMAIN Pipeline : Names(Pipeline[k].js) \in Nat
         /\ \A i \in DOMAIN page'.rows : /\ page'.rows[i].id \in Nat
                                         /\ page'.rows[i].temp \in Sends \union {None}
         /\ \A k \in DOMAIN Pipeline' : Names(Pipeline'[k].js) \in Nat
<1>1. /\ Messages \in SUBSET Nat /\ None \notin Messages /\ page \in Page(Messages)
      /\ Pipeline \in Seq(Items(Messages))
  BY Basics, PipeFacts DEF Types
<1>2. /\ Messages' \in SUBSET Nat /\ None \notin Messages' /\ page' \in Page(Messages')
      /\ Pipeline' \in Seq(Items(Messages'))
  <2>1. Messages' \in SUBSET Nat /\ None \notin Messages'
    <3>1. log' \in Seq(Op)
      BY DEF Types
    <3>2. DOMAIN log' = 1 .. Len(log')
      BY <3>1, LenProperties
    <3> QED BY <3>2 DEF Messages, None
  <2>2. buf' \in Seq(Script(Messages')) /\ mainq' \in Seq(Items(Messages')) /\ page' \in Page(Messages')
    BY DEF Types, Items
  <2> QED BY <2>1, <2>2, PipeNext
<1>3. /\ \A i \in DOMAIN page.rows : /\ page.rows[i].id \in Nat
                                     /\ page.rows[i].temp \in Sends \union {None}
      /\ \A k \in DOMAIN Pipeline : Names(Pipeline[k].js) \in Nat
  BY <1>1, PageNames
<1>4. /\ \A i \in DOMAIN page'.rows : /\ page'.rows[i].id \in Nat
                                      /\ page'.rows[i].temp \in Sends \union {None}
      /\ \A k \in DOMAIN Pipeline' : Names(Pipeline'[k].js) \in Nat
  BY <1>2, PageNames
<1> QED BY <1>3, <1>4

LEMMA OnceStep ==
  ASSUME Types, Types', LogInv, QueueInv, StreamInv, Waiting, PageInv, [Next]_vars
  PROVE  OnceInv'
<1> SUFFICES ASSUME Steady PROVE OnceInv'
  BY SteadyKept DEF OnceInv
<1>a. /\ budget.left["reloads"] = 0
      /\ Distinct(page, Pipeline) /\ Replaces(page, Pipeline)
      /\ \A m \in Messages : m < next => Covered(page, Pipeline, m)
      /\ \A i \in DOMAIN page.rows : page.rows[i].id < next
      /\ \A k \in DOMAIN Pipeline : Names(Pipeline[k].js) < next
      /\ \A i \in DOMAIN order : HasTemp(page, order[i]) /\ ~Updated(Pipeline, order[i])
      /\ \A s \in Sends : HasTemp(page, s) => pc[s] # "idle"
  BY DEF PageInv, OnceInv
<1>b. Sorted(Pipeline) /\ Founded(page, Pipeline)
  BY DEF PageInv, SettleInv, SeenInv
<1>c. /\ \A i \in DOMAIN page.rows : /\ page.rows[i].id \in Nat
                                     /\ page.rows[i].temp \in Sends \union {None}
      /\ \A k \in DOMAIN Pipeline : Names(Pipeline[k].js) \in Nat
      /\ \A i \in DOMAIN page'.rows : /\ page'.rows[i].id \in Nat
                                      /\ page'.rows[i].temp \in Sends \union {None}
      /\ \A k \in DOMAIN Pipeline' : Names(Pipeline'[k].js) \in Nat
  BY PageTypes
<1>d. /\ next \in Nat /\ next # 0 /\ None = 0 /\ None \notin Sends
      /\ \A s \in Sends : pc[s] # "idle" => pc'[s] # "idle"
      /\ \A i \in DOMAIN order : order[i] \in Sends
  <2>1. next \in 1 .. (Len(log) + 1) /\ order \in Seq(Sends)
    BY DEF Types
  <2> QED BY <2>1, Basics, ThreadsKept, ElementOfSeq, LenProperties DEF None
\* The messages before the next one are those of before the step.
<1>e. \A m \in Messages' : m < next => m \in Messages
  <2>1. /\ \A m \in Messages' : m <= Len(log) => m \in Messages
        /\ Messages' \subseteq DOMAIN log' /\ DOMAIN log' = 1 .. Len(log')
        /\ next \in 1 .. (Len(log) + 1) /\ Len(log) \in Nat
    <3>1. log' \in Seq(Op) /\ next \in 1 .. (Len(log) + 1)
      BY DEF Types
    <3> QED BY <3>1, LogKept, LenProperties, Basics DEF Messages
  <2> QED BY <2>1
<1>f. SUFFICES /\ Distinct(page', Pipeline') /\ Replaces(page', Pipeline')
               /\ \A m \in Messages' : m < next' => Covered(page', Pipeline', m)
               /\ \A i \in DOMAIN page'.rows : page'.rows[i].id < next'
               /\ \A k \in DOMAIN Pipeline' : Names(Pipeline'[k].js) < next'
               /\ \A i \in DOMAIN order' : HasTemp(page', order'[i]) /\ ~Updated(Pipeline', order'[i])
               /\ \A s \in Sends : HasTemp(page', s) => pc'[s] # "idle"
  <2>1. budget'.left["reloads"] = 0
    BY <1>a, SteadyKept
  <2> QED BY <2>1 DEF OnceInv, Distinct, Replaces, Covered, HasTemp, Updated
<1> DEFINE Goal == /\ Distinct(page', Pipeline') /\ Replaces(page', Pipeline')
                   /\ \A m \in Messages' : m < next' => Covered(page', Pipeline', m)
                   /\ \A i \in DOMAIN page'.rows : page'.rows[i].id < next'
                   /\ \A k \in DOMAIN Pipeline' : Names(Pipeline'[k].js) < next'
                   /\ \A i \in DOMAIN order' : /\ HasTemp(page', order'[i])
                                               /\ ~Updated(Pipeline', order'[i])
                   /\ \A s \in Sends : HasTemp(page', s) => pc'[s] # "idle"
<1>1. ASSUME NEW s \in Sends, NEW c \in bound.contents, UserSend(s, c) PROVE Goal
  <2> DEFINE n == Len(page.rows) + 1
  <2>1. /\ n \notin DOMAIN page.rows /\ n \in DOMAIN page'.rows /\ page'.rows[n] = Temp(s)
        /\ \A i \in DOMAIN page.rows : i \in DOMAIN page'.rows /\ page'.rows[i] = page.rows[i]
        /\ \A i \in DOMAIN page'.rows : i \in DOMAIN page.rows \/ i = n
    BY <1>1, NewBubble
  <2>2. /\ Pipeline' = Pipeline /\ UNCHANGED <<next, log>> /\ pc[s] = "idle"
        /\ order' = Append(order, s) /\ pc'[s] # "idle"
    BY <1>1 DEF UserSend, Pipeline, QueuePendingTemp, streamVars, lineVars, Types
  <2> HIDE DEF n
  <2>3. Temp(s).id = None /\ Temp(s).temp = s
    BY DEF Temp
  <2>4. \A t : HasTemp(page', t) <=> HasTemp(page, t) \/ t = s
    BY <2>1, <2>3 DEF HasTemp
  <2>5. ~HasTemp(page, s) /\ ~Updated(Pipeline, s)
    <3>1. ~HasTemp(page, s)
      BY <1>a, <2>2
    <3> QED BY <1>a, <3>1 DEF Replaces, Updated
  <2>6. Distinct(page', Pipeline')
    <3>1. \A i, j \in DOMAIN page'.rows : i # j /\ page'.rows[i].id # None =>
            page'.rows[i].id # page'.rows[j].id
      BY <1>a, <2>1, <2>3 DEF Distinct
    <3>2. \A i, j \in DOMAIN page'.rows : i # j /\ page'.rows[i].temp # None =>
            page'.rows[i].temp # page'.rows[j].temp
      BY <1>a, <2>1, <2>3, <2>5 DEF Distinct, HasTemp
    <3>3. \A i \in DOMAIN page'.rows, k \in DOMAIN Pipeline : Names(Pipeline[k].js) # None =>
            page'.rows[i].id # Names(Pipeline[k].js)
      BY <1>a, <2>1, <2>3 DEF Distinct
    <3> QED BY <1>a, <2>2, <3>1, <3>2, <3>3 DEF Distinct
  <2>7. Replaces(page', Pipeline')
    BY <1>a, <2>2, <2>4 DEF Replaces
  <2>8. \A m : HasRow(page.rows, m) => HasRow(page'.rows, m)
    BY <2>1 DEF HasRow
  <2>9. \A m \in Messages' : m < next' => Covered(page', Pipeline', m)
    BY <1>a, <1>e, <2>2, <2>8 DEF Covered
  <2>10. \A i \in DOMAIN page'.rows : page'.rows[i].id < next'
    BY <1>a, <1>d, <2>1, <2>2, <2>3
  <2>11. \A i \in DOMAIN order' : HasTemp(page', order'[i]) /\ ~Updated(Pipeline', order'[i])
    <3>1. \A i \in DOMAIN order' : order'[i] = s \/ \E j \in DOMAIN order : order'[i] = order[j]
      <4>1. order \in Seq(Sends)
        BY DEF Types
      <4>2. /\ DOMAIN order' = 1 .. (Len(order) + 1) /\ DOMAIN order = 1 .. Len(order)
            /\ \A i \in 1 .. Len(order) : order'[i] = order[i]
            /\ order'[Len(order) + 1] = s /\ Len(order) \in Nat
        BY <2>2, <4>1, AppendProperties, LenProperties
      <4> QED BY <4>2
    <3> QED BY <1>a, <2>2, <2>4, <2>5, <3>1
  <2>12. \A t \in Sends : HasTemp(page', t) => pc'[t] # "idle"
    BY <1>a, <1>d, <2>2, <2>4
  <2> QED BY <1>a, <2>2, <2>6, <2>7, <2>9, <2>10, <2>11, <2>12
\* Scripts that name no message and replace no bubble.
<1>2. ASSUME NEW x, Extends(Pipeline, <<x>>, Pipeline'), Names(x.js) = None, x.js.fn # "update",
             UNCHANGED page, \A m \in Messages' : m < next' => m \in Messages /\ m < next,
             next' \in Nat, next <= next',
             \A i \in DOMAIN order' : \E j \in DOMAIN order : order'[i] = order[j]
      PROVE  Goal
  <2>1. /\ \A k \in DOMAIN Pipeline : k \in DOMAIN Pipeline' /\ Pipeline'[k] = Pipeline[k]
        /\ \A k \in DOMAIN Pipeline' : \/ k \in DOMAIN Pipeline /\ Pipeline'[k] = Pipeline[k]
                                       \/ Pipeline'[k] = x
    <3>1. DOMAIN <<x>> = {1} /\ <<x>>[1] = x
      OBVIOUS
    <3> QED BY <1>2, <3>1 DEF Extends
  <2>2. \A k \in DOMAIN Pipeline' : Names(Pipeline'[k].js) # None \/ Pipeline'[k].js.fn = "update" =>
          k \in DOMAIN Pipeline /\ Pipeline'[k] = Pipeline[k]
    BY <1>2, <2>1
  <2>3. Distinct(page', Pipeline')
    BY <1>2, <1>a, <2>2 DEF Distinct
  <2>4. Replaces(page', Pipeline') /\ \A t : Updated(Pipeline', t) => Updated(Pipeline, t)
    BY <1>2, <1>a, <2>2 DEF Replaces, Updated
  <2>5. \A m \in Messages' : m < next' => Covered(page', Pipeline', m)
    BY <1>2, <1>a, <2>1 DEF Covered
  <2>6. \A i \in DOMAIN page'.rows : page'.rows[i].id < next'
    BY <1>2, <1>a, <1>c, <1>d
  <2>7. \A k \in DOMAIN Pipeline' : Names(Pipeline'[k].js) < next'
    BY <1>2, <1>a, <1>c, <1>d, <2>1
  <2>8. \A i \in DOMAIN order' : HasTemp(page', order'[i]) /\ ~Updated(Pipeline', order'[i])
    BY <1>2, <1>a, <2>4
  <2>9. \A s \in Sends : HasTemp(page', s) => pc'[s] # "idle"
    BY <1>2, <1>a, <1>d
  <2> QED BY <2>3, <2>4, <2>5, <2>6, <2>7, <2>8, <2>9
<1>3. ASSUME NEW s \in Sends, ConfirmTempId(s) PROVE Goal
  <2> DEFINE js == JS("seen", None, msgOf[s])
  <2>1. js \in Script(Messages) /\ Names(js) = None /\ js.fn # "update" /\ Direct(js).js = js
    <3>1. msgOf[s] \in Messages
      BY <1>3 DEF ConfirmTempId, LogInv, Posted
    <3> QED BY <3>1 DEF JS, Script, Names, Direct
  <2>2. mainq' = Append(mainq, Direct(js)) /\ UNCHANGED <<buf, page, order, next>>
    BY <1>3 DEF ConfirmTempId, streamVars
  <2> HIDE DEF js
  <2>3. Extends(Pipeline, <<Direct(js)>>, Pipeline')
    BY <2>1, <2>2, PipeAppends
  <2> QED BY <1>2, <1>d, <1>e, <2>1, <2>2, <2>3
<1>4. ASSUME NEW s \in Sends, FailTempId(s) PROVE Goal
  <2> DEFINE js == JS("fail", s, None)
  <2>1. js \in Script(Messages) /\ Names(js) = None /\ js.fn # "update" /\ Direct(js).js = js
    BY DEF JS, Script, Names, Direct
  <2>2. /\ mainq' = Append(mainq, Direct(js)) /\ UNCHANGED <<buf, page, next>>
        /\ order' = RemovePendingTemp(order, s)
    BY <1>4 DEF FailTempId, streamVars
  <2> HIDE DEF js
  <2>3. Extends(Pipeline, <<Direct(js)>>, Pipeline')
    BY <2>1, <2>2, PipeAppends
  <2>4. \A i \in DOMAIN order' : \E j \in DOMAIN order : order'[i] = order[j]
    BY <2>2, QueueFacts
  <2> QED BY <1>2, <1>d, <1>e, <2>1, <2>2, <2>3, <2>4
<1>5. ASSUME ConsumeEvent PROVE Goal
  <2> DEFINE u == Draws(cb.temp)
  <2>1. /\ Extends(Pipeline, u, Pipeline') /\ cb.temp \in Sends \union {None}
        /\ \/ /\ next \notin Messages /\ cb.temp = None /\ u = <<Line(seen)>>
           \/ /\ next \in Messages /\ cb.temp # None /\ u = <<Swap(cb.temp, next)>>
           \/ /\ next \in Messages /\ cb.temp = None
              /\ (u = <<New(next), Line(seen)>> \/ u = <<New(next)>>)
    BY <1>5, Drawn
  <2>2. /\ UNCHANGED <<page, pc, msgOf, log>> /\ next' = next + 1 /\ next' \in Nat /\ next <= next'
        /\ order' = IF cb.temp # None THEN RemovePendingTemp(order, cb.temp) ELSE order
    <3>1. ~Spend("replays")
      BY DEF Spend, Waiting, Steady
    <3> QED BY <1>5, <1>d, <3>1 DEF ConsumeEvent, sendVars, lineVars
  <2>3. Messages' = Messages /\ \A m \in Messages : m \in Nat
    BY <2>2, SameLog, Basics
  <2>4. /\ \A i \in DOMAIN order' : order'[i] # cb.temp /\ \E j \in DOMAIN order : order'[i] = order[j]
    <3>1. \A i \in DOMAIN order : order[i] # None
      BY <1>d
    <3> QED BY <2>2, <3>1, QueueFacts
  <2> HIDE DEF u
  <2>5. CASE next \notin Messages /\ u = <<Line(seen)>>
    <3>1. Names(Line(seen).js) = None /\ Line(seen).js.fn # "update"
      BY DEF Line, Coalesced, JS, Names
    <3>2. \A m \in Messages' : m < next' => m \in Messages /\ m < next
      BY <1>d, <2>2, <2>3, <2>5
    <3> QED BY <1>2, <2>1, <2>2, <2>4, <2>5, <3>1, <3>2
  \* One script names the message, and it may replace the bubble of its send.
  <2>6. ASSUME NEW x, Names(x.js) = next, next \in Messages,
               u = <<x>> \/ u = <<x, Line(seen)>>,
               IF cb.temp = None THEN x.js.fn # "update"
                                 ELSE x.js.fn = "update" /\ x.js.temp = cb.temp
        PROVE  Goal
    <3>1. /\ \A k \in DOMAIN Pipeline : k \in DOMAIN Pipeline' /\ Pipeline'[k] = Pipeline[k]
          /\ \E k \in DOMAIN Pipeline' : Pipeline'[k] = x
          /\ \A k \in DOMAIN Pipeline' :
               \/ k \in DOMAIN Pipeline /\ Pipeline'[k] = Pipeline[k]
               \/ k = Len(Pipeline) + 1 /\ k \notin DOMAIN Pipeline /\ Pipeline'[k] = x
               \/ Pipeline'[k] = Line(seen)
      <4>1. /\ DOMAIN <<x>> = {1} /\ <<x>>[1] = x
            /\ DOMAIN <<x, Line(seen)>> = {1, 2} /\ <<x, Line(seen)>>[1] = x
            /\ <<x, Line(seen)>>[2] = Line(seen)
        OBVIOUS
      <4>2. Len(Pipeline) + 1 \notin DOMAIN Pipeline
        BY PipeFacts
      <4>3. 1 \in DOMAIN u /\ u[1] = x
        BY <2>6, <4>1
      <4>4. \A l \in DOMAIN u : l = 1 \/ u[l] = Line(seen)
        BY <2>6, <4>1
      <4> QED BY <2>1, <4>2, <4>3, <4>4 DEF Extends
    <3>2. Names(Line(seen).js) = None /\ Line(seen).js.fn # "update"
      BY DEF Line, Coalesced, JS, Names
    <3> DEFINE Here(k) == k = Len(Pipeline) + 1 /\ k \notin DOMAIN Pipeline /\ Pipeline'[k] = x
    <3>3. \A k \in DOMAIN Pipeline' : Names(Pipeline'[k].js) # None \/ Pipeline'[k].js.fn = "update" =>
            (k \in DOMAIN Pipeline /\ Pipeline'[k] = Pipeline[k]) \/ Here(k)
      BY <3>1, <3>2
    <3>4. \A j, k \in DOMAIN Pipeline' : Here(j) /\ Here(k) => j = k
      OBVIOUS
    <3>5. /\ \A i \in DOMAIN page.rows : page.rows[i].id # next
          /\ \A k \in DOMAIN Pipeline : Names(Pipeline[k].js) # next
      BY <1>a, <1>c, <1>d
    \* The bubble of the send that posted the message is still queued.
    <3>6. cb.temp # None => HasTemp(page, cb.temp) /\ ~Updated(Pipeline, cb.temp)
      <4> SUFFICES ASSUME cb.temp # None PROVE \E i \in DOMAIN order : order[i] = cb.temp
        BY <1>a
      <4>1. log[next].of = cb.temp /\ cb.temp \in Sends
        BY <2>1 DEF Waiting, SwapsOwnBubble, Steady
      <4>2. msgOf[cb.temp] = next
        BY <1>d, <2>6, <4>1 DEF LogInv
      <4>3. pc[cb.temp] \notin {"idle", "failed"}
        BY <1>d, <4>1, <4>2 DEF LogInv, Unposted, Waiting, Steady
      <4> QED BY <1>d, <4>1, <4>2, <4>3 DEF Waiting, Steady
    <3> HIDE DEF Here
    <3>h. \A k : Here(k) => Pipeline'[k] = x
      BY DEF Here
    <3>7. Distinct(page', Pipeline')
      <4>1. \A i \in DOMAIN page.rows, k \in DOMAIN Pipeline' : Names(Pipeline'[k].js) # None =>
              page.rows[i].id # Names(Pipeline'[k].js)
        BY <1>a, <2>6, <3>3, <3>5, <3>h DEF Distinct
      <4>2. \A k, l \in DOMAIN Pipeline' : k # l /\ Names(Pipeline'[k].js) # None =>
              Names(Pipeline'[k].js) # Names(Pipeline'[l].js)
        <5> TAKE k, l \in DOMAIN Pipeline'
        <5> HAVE k # l /\ Names(Pipeline'[k].js) # None
        <5> SUFFICES ASSUME Names(Pipeline'[k].js) = Names(Pipeline'[l].js) PROVE FALSE
          OBVIOUS
        <5>1. CASE Here(k)
          BY <2>6, <3>3, <3>4, <3>5, <3>h, <5>1
        <5>2. CASE Here(l)
          BY <2>6, <3>3, <3>4, <3>5, <3>h, <5>2
        <5>3. CASE ~Here(k) /\ ~Here(l)
          BY <1>a, <3>3, <5>3 DEF Distinct
        <5> QED BY <5>1, <5>2, <5>3
      <4>3. \A k, l \in DOMAIN Pipeline' :
              k # l /\ Pipeline'[k].js.fn = "update" /\ Pipeline'[l].js.fn = "update" =>
                Pipeline'[k].js.temp # Pipeline'[l].js.temp
        <5> TAKE k, l \in DOMAIN Pipeline'
        <5> HAVE k # l /\ Pipeline'[k].js.fn = "update" /\ Pipeline'[l].js.fn = "update"
        <5>1. CASE Here(k)
          BY <2>6, <3>3, <3>4, <3>6, <3>h, <5>1 DEF Updated
        <5>2. CASE Here(l)
          BY <2>6, <3>3, <3>4, <3>6, <3>h, <5>2 DEF Updated
        <5>3. CASE ~Here(k) /\ ~Here(l)
          BY <1>a, <3>3, <5>3 DEF Distinct
        <5> QED BY <5>1, <5>2, <5>3
      <4> QED BY <1>a, <2>2, <4>1, <4>2, <4>3 DEF Distinct
    <3>8. Replaces(page', Pipeline')
      BY <1>a, <2>2, <2>6, <3>3, <3>6, <3>h DEF Replaces
    <3>9. \A m \in Messages' : m < next' => Covered(page', Pipeline', m)
      <4> TAKE m \in Messages'
      <4> HAVE m < next'
      <4>1. m < next \/ m = next
        BY <1>d, <2>2, <2>3
      <4> QED BY <1>a, <2>2, <2>3, <2>6, <3>1, <4>1 DEF Covered
    <3>10. \A i \in DOMAIN page'.rows : page'.rows[i].id < next'
      BY <1>a, <1>c, <1>d, <2>2
    <3>11. \A k \in DOMAIN Pipeline' : Names(Pipeline'[k].js) < next'
      <4> TAKE k \in DOMAIN Pipeline'
      <4>1. Names(Pipeline'[k].js) = None \/ Names(Pipeline'[k].js) = next \/ Names(Pipeline'[k].js) < next
        BY <1>a, <2>6, <3>3, <3>h
      <4> QED BY <1>c, <1>d, <2>2, <4>1
    <3>12. \A i \in DOMAIN order' : HasTemp(page', order'[i]) /\ ~Updated(Pipeline', order'[i])
      <4> TAKE i \in DOMAIN order'
      <4>1. PICK j \in DOMAIN order : order'[i] = order[j] /\ order[j] # cb.temp
        BY <2>4
      <4>2. order[j] \in Sends /\ HasTemp(page, order[j]) /\ ~Updated(Pipeline, order[j])
        BY <1>a, <1>d
      <4>3. ~Updated(Pipeline', order[j])
        BY <2>6, <3>3, <3>h, <4>1, <4>2 DEF Updated
      <4> QED BY <2>2, <4>1, <4>2, <4>3
    <3>13. \A s \in Sends : HasTemp(page', s) => pc'[s] # "idle"
      BY <1>a, <2>2
    <3> QED BY <3>7, <3>8, <3>9, <3>10, <3>11, <3>12, <3>13
  <2>7. CASE next \in Messages /\ cb.temp # None /\ u = <<Swap(cb.temp, next)>>
    <3>1. /\ Names(Swap(cb.temp, next).js) = next
          /\ Swap(cb.temp, next).js.fn = "update" /\ Swap(cb.temp, next).js.temp = cb.temp
      BY DEF Swap, Coalesced, JS, Names
    <3> QED BY <2>6, <2>7, <3>1
  <2>8. CASE /\ next \in Messages /\ cb.temp = None
             /\ (u = <<New(next), Line(seen)>> \/ u = <<New(next)>>)
    <3>1. Names(New(next).js) = next /\ New(next).js.fn # "update"
      BY DEF New, Coalesced, JS, Names
    <3> QED BY <2>6, <2>8, <3>1
  <2> QED BY <2>1, <2>5, <2>7, <2>8
<1>6. ~Reload
  BY <1>a DEF Reload, Spend
<1>7. ASSUME Carries(page, Pipeline, page', Pipeline'), UNCHANGED <<order, next>> PROVE Goal
  <2>1. /\ Sound(page', Pipeline')
        /\ \A m \in Nat : m # None => (Covered(page', Pipeline', m) <=> Covered(page, Pipeline, m))
        /\ \A s \in Sends : HasTemp(page', s) => HasTemp(page, s)
        /\ \A s \in Sends : HasTemp(page, s) /\ ~Updated(Pipeline, s) =>
                              HasTemp(page', s) /\ ~Updated(Pipeline', s)
    BY <1>7, <1>a, <1>b DEF Carries, Sound
  <2>2. \A m \in Messages' : m < next' => Covered(page', Pipeline', m)
    BY <1>7, <1>a, <1>e, <2>1, Basics
  <2>3. \A m \in Nat : m # None /\ Covered(page, Pipeline, m) => m < next
    BY <1>a DEF Covered, HasRow
  <2>4. \A i \in DOMAIN page'.rows : page'.rows[i].id < next'
    <3> TAKE i \in DOMAIN page'.rows
    <3>1. CASE page'.rows[i].id = None
      BY <1>7, <1>d, <3>1
    <3>2. CASE page'.rows[i].id # None
      <4>1. Covered(page', Pipeline', page'.rows[i].id)
        BY DEF Covered, HasRow
      <4> QED BY <1>7, <1>c, <2>1, <2>3, <3>2, <4>1
    <3> QED BY <3>1, <3>2
  <2>5. \A k \in DOMAIN Pipeline' : Names(Pipeline'[k].js) < next'
    <3> TAKE k \in DOMAIN Pipeline'
    <3>1. CASE Names(Pipeline'[k].js) = None
      BY <1>7, <1>d, <3>1
    <3>2. CASE Names(Pipeline'[k].js) # None
      <4>1. Covered(page', Pipeline', Names(Pipeline'[k].js))
        BY DEF Covered
      <4> QED BY <1>7, <1>c, <2>1, <2>3, <3>2, <4>1
    <3> QED BY <3>1, <3>2
  <2>6. \A i \in DOMAIN order' : HasTemp(page', order'[i]) /\ ~Updated(Pipeline', order'[i])
    BY <1>7, <1>a, <1>d, <2>1
  <2>7. \A s \in Sends : HasTemp(page', s) => pc'[s] # "idle"
    BY <1>a, <1>d, <2>1
  <2> QED BY <2>1, <2>2, <2>4, <2>5, <2>6, <2>7 DEF Sound
<1>8. CASE ConsumeEvent
  BY <1>5, <1>8
<1>9. CASE ~ConsumeEvent
  <2>1. UNCHANGED next
    BY <1>9, ThreadsKept
  <2> HIDE DEF Goal
  <2>2. Goal
    BY <1>1, <1>3, <1>4, <1>6, <1>7, <1>9, <2>1, PageCases
  <2> QED BY <2>2 DEF Goal
<1> QED BY <1>8, <1>9

-----------------------------------------------------------------------------
(* The Seen line.                                                          *)

LEMMA EndsKept ==
  ASSUME NEW q, NEW u, NEW q2, Extends(q, u, q2), NEW pg, NEW m, Ends(pg, q, m),
         \A l \in DOMAIN u : Agrees(u, l, m)
  PROVE  Ends(pg, q2, m)
<1>1. ASSUME NEW l \in DOMAIN q2 PROVE (l \in DOMAIN q /\ q2[l] = q[l]) \/ Agrees(q2, l, m)
  <2>1. CASE l \in DOMAIN q
    BY <2>1 DEF Extends
  <2>2. ASSUME NEW x \in DOMAIN u, l = Len(q) + x PROVE Agrees(q2, l, m)
    <3>1. q2[l] = u[x] /\ Agrees(u, x, m)
      BY <2>2 DEF Extends
    <3> QED BY <3>1 DEF Agrees
  <2> QED BY <2>1, <2>2 DEF Extends
<1>2. ASSUME NEW k \in DOMAIN q, ~q[k].direct, q[k].js.fn = "seen", q[k].js.id = m,
             \A l \in DOMAIN q : l > k => Agrees(q, l, m)
      PROVE  Ends(pg, q2, m)
  <2>1. k \in DOMAIN q2 /\ q2[k] = q[k]
    BY DEF Extends
  <2>2. \A l \in DOMAIN q2 : l > k => Agrees(q2, l, m)
    BY <1>1, <1>2 DEF Agrees
  <2> QED BY <1>2, <2>1, <2>2 DEF Ends
<1>3. ASSUME pg.marker = m, m = None \/ HasRow(pg.rows, m), \A l \in DOMAIN q : Agrees(q, l, m)
      PROVE  Ends(pg, q2, m)
  <2>1. \A l \in DOMAIN q2 : Agrees(q2, l, m)
    BY <1>1, <1>3 DEF Agrees
  <2> QED BY <1>3, <2>1 DEF Ends
<1> QED BY <1>2, <1>3 DEF Ends

\* The line drawn last counts.
LEMMA EndsLast ==
  ASSUME NEW q, NEW u, NEW q2, Extends(q, u, q2), Len(q) \in Nat, NEW pg, NEW m, NEW x,
         u = <<Line(m)>> \/ u = <<x, Line(m)>>
  PROVE  Ends(pg, q2, m)
<1> DEFINE n == Len(q) + Len(u)
<1>1. Len(u) \in {1, 2} /\ Len(u) \in DOMAIN u /\ u[Len(u)] = Line(m)
  <2>1. \A a : Len(<<a>>) = 1 /\ DOMAIN <<a>> = {1} /\ <<a>>[1] = a
    OBVIOUS
  <2>2. \A a, b : Len(<<a, b>>) = 2 /\ DOMAIN <<a, b>> = {1, 2} /\ <<a, b>>[2] = b
    OBVIOUS
  <2>3. CASE u = <<Line(m)>>
    BY <2>1, <2>3
  <2>4. CASE u = <<x, Line(m)>>
    BY <2>2, <2>4
  <2> QED BY <2>3, <2>4
<1>2. n \in DOMAIN q2 /\ q2[n] = Line(m) /\ \A l \in DOMAIN q2 : ~(l > n)
  BY <1>1 DEF Extends
<1>3. ~Line(m).direct /\ Line(m).js.fn = "seen" /\ Line(m).js.id = m
  BY DEF Line, Coalesced, JS
<1> QED BY <1>2, <1>3 DEF Ends

LEMMA FoundedKept ==
  ASSUME NEW q, NEW u, NEW q2, Extends(q, u, q2), Len(q) \in Nat, DOMAIN q = 1 .. Len(q),
         DOMAIN u \subseteq Nat \ {0}, NEW pg, Founded(pg, q),
         \A l \in DOMAIN u : ~u[l].direct /\ u[l].js.fn = "seen" /\ u[l].js.id # None =>
                               Covered(pg, q, u[l].js.id)
  PROVE  Founded(pg, q2)
<1> SUFFICES ASSUME NEW k \in DOMAIN q2, ~q2[k].direct, q2[k].js.fn = "seen", q2[k].js.id # None
             PROVE  HasRow(pg.rows, q2[k].js.id) \/ \E l \in 1 .. (k - 1) : Names(q2[l].js) = q2[k].js.id
  BY DEF Founded
<1>1. CASE k \in DOMAIN q
  <2>1. q2[k] = q[k] /\ \A l \in 1 .. (k - 1) : q2[l] = q[l]
    <3>1. \A l \in 1 .. (k - 1) : l \in DOMAIN q
      BY <1>1
    <3> QED BY <1>1, <3>1 DEF Extends
  <2>2. HasRow(pg.rows, q[k].js.id) \/ \E l \in 1 .. (k - 1) : Names(q[l].js) = q[k].js.id
    BY <1>1, <2>1 DEF Founded
  <2> QED BY <2>1, <2>2
<1>2. ASSUME NEW x \in DOMAIN u, k = Len(q) + x
      PROVE  HasRow(pg.rows, q2[k].js.id) \/ \E l \in 1 .. (k - 1) : Names(q2[l].js) = q2[k].js.id
  <2>1. q2[k] = u[x]
    BY <1>2 DEF Extends
  <2>2. Covered(pg, q, q2[k].js.id)
    BY <2>1
  <2>3. \A l \in DOMAIN q : l \in 1 .. (k - 1) /\ q2[l] = q[l]
    <3>1. \A l \in 1 .. Len(q) : l \in 1 .. (k - 1)
      BY <1>2
    <3> QED BY <3>1 DEF Extends
  <2> QED BY <2>2, <2>3 DEF Covered
<1> QED BY <1>1, <1>2 DEF Extends

\* LINE logs an answer to a mark that a thread sent; only a confirmed send
\* sends one, and only a stored answer moves the database's line.
LEMMA LineKept ==
  ASSUME Types, Types', LogInv, StreamInv, [Next]_vars
  PROVE  /\ \A j \in DOMAIN log' : \/ j \in DOMAIN log
                                   \/ /\ j = Len(log) + 1
                                      /\ log'[j].type = "seen" => log'[j].of \in seenRpc
         /\ \A m \in seenRpc' : m \in seenRpc \/ \E s \in Sends : ConfirmTempId(s) /\ m = msgOf[s]
         /\ seen' = seen \/ /\ ProcessEvent /\ next \in DOMAIN log
                            /\ log[next].type = "seen" /\ seen' = log[next].of
<1>a. /\ Len(log) \in Nat /\ DOMAIN log = 1 .. Len(log) /\ log \in Seq(Op) /\ log' \in Seq(Op)
  BY Basics DEF Types
<1>b. ASSUME NEW op, log' = Append(log, op)
      PROVE  \A j \in DOMAIN log' : j \in DOMAIN log \/ (j = Len(log) + 1 /\ log'[j] = op)
  <2>1. Append(log, op)[Len(log) + 1] = op /\ Len(Append(log, op)) = Len(log) + 1
    BY <1>a, AppendProperties
  <2>2. DOMAIN log' = 1 .. (Len(log) + 1)
    BY <1>a, <1>b, <2>1, LenProperties
  <2> QED BY <1>a, <1>b, <2>1, <2>2
<1> DEFINE L == \A j \in DOMAIN log' : \/ j \in DOMAIN log
                                       \/ /\ j = Len(log) + 1
                                          /\ log'[j].type = "seen" => log'[j].of \in seenRpc
           R == \A m \in seenRpc' : m \in seenRpc \/ \E s \in Sends : ConfirmTempId(s) /\ m = msgOf[s]
           D == seen' = seen \/ /\ ProcessEvent /\ next \in DOMAIN log
                                /\ log[next].type = "seen" /\ seen' = log[next].of
<1>1. ASSUME NEW s \in Sends, \/ \E c \in bound.contents : UserSend(s, c)
                              \/ Prepare(s) \/ SendReply(s) \/ UploadPlain(s) \/ FinishSend(s)
                              \/ FailTempId(s)
      PROVE  L /\ R /\ D
  <2>1. UNCHANGED <<log, seenRpc, seen>>
    BY <1>1 DEF UserSend, Prepare, SendReply, UploadPlain, FinishSend, FailTempId, lineVars, dbVars
  <2> QED BY <2>1
<1>2. ASSUME NEW s \in Sends, ConfirmTempId(s) PROVE L /\ R /\ D
  <2>1. UNCHANGED <<log, seen>> /\ seenRpc' = seenRpc \cup {msgOf[s]}
    BY <1>2 DEF ConfirmTempId, dbVars
  <2>2. L /\ D
    BY <2>1
  <2>3. R
    BY <1>2, <2>1
  <2> QED BY <2>2, <2>3
<1>3. ASSUME NEW s \in Sends, NEW e \in BOOLEAN, Accept(s, e) PROVE L /\ R /\ D
  <2>1. UNCHANGED <<seenRpc, seen>> /\ log' = Append(log, PostedOp(s, e))
    BY <1>3 DEF Accept, dbVars
  <2>2. PostedOp(s, e).type # "seen"
    BY DEF PostedOp
  <2> QED BY <1>b, <2>1, <2>2
<1>4. ASSUME NEW m \in seenRpc, MarkChatSeen(m) PROVE L /\ R /\ D
  <2>1. seenRpc' \subseteq seenRpc /\ UNCHANGED seen
    BY <1>4 DEF MarkChatSeen, dbVars
  <2>2. CASE UNCHANGED log
    BY <2>1, <2>2
  <2>3. CASE log' = Append(log, [type |-> "seen", of |-> m])
    BY <1>b, <2>1, <2>3
  <2> QED BY <1>4, <2>2, <2>3 DEF MarkChatSeen
<1>5. ASSUME NEW o \in bound.senders, OtherMessage(o) PROVE L /\ R /\ D
  <2> DEFINE op == [type |-> "message", from |-> o, of |-> None, sealed |-> TRUE,
                    req |-> None, seq |-> None]
  <2>1. UNCHANGED <<seenRpc, seen>> /\ log' = Append(log, op)
    BY <1>5 DEF OtherMessage, dbVars
  <2>2. op.type # "seen"
    OBVIOUS
  <2> HIDE DEF op
  <2> QED BY <1>b, <2>1, <2>2
<1>6. ASSUME ProcessEvent PROVE L /\ R /\ D
  <2>1. UNCHANGED <<log, seenRpc>> /\ cb.pc = "process"
    BY <1>6 DEF ProcessEvent, lineVars
  <2>2. next \in DOMAIN log
    BY <1>a, <2>1 DEF StreamInv, Types
  <2>3. log[next].type \in {"message", "seen"}
    BY <2>2, Basics DEF Op
  <2>4. D
    BY <1>6, <2>2, <2>3 DEF ProcessEvent, dbVars
  <2> QED BY <2>1, <2>4
<1>7. ASSUME \/ MatchEvent \/ ConsumeEvent \/ RunMain \/ FlushCoalesced \/ Reload
             \/ UNCHANGED vars
      PROVE  L /\ R /\ D
  <2>1. UNCHANGED <<log, seenRpc, seen>>
    BY <1>7 DEF MatchEvent, ConsumeEvent, RunMain, FlushCoalesced, Reload, vars, lineVars, dbVars
  <2> QED BY <2>1
<1> HIDE DEF L, R, D
<1>8. L /\ R /\ D
  BY <1>1, <1>2, <1>3, <1>4, <1>5, <1>6, <1>7, StepCases
<1> QED BY <1>8 DEF L, R, D

LEMMA SeenStep ==
  ASSUME Types, Types', LogInv, LogInv', QueueInv, StreamInv, Waiting, PageInv, [Next]_vars
  PROVE  SeenInv'
<1> SUFFICES ASSUME Steady PROVE SeenInv'
  BY SteadyKept DEF SeenInv
<1> DEFINE Unmarked == \E s \in Sends : pc[s] = "done" /\ ~Marked(msgOf[s])
           Coming == \E j \in DOMAIN log : j >= next /\ log[j].type = "seen"
           Shows == Ends(page, Pipeline, seen)
<1>a. /\ seen < next
      /\ \A j \in DOMAIN log : log[j].type = "seen" => log[j].of < j
      /\ \A m \in Messages : m \in seenRpc \/ Marked(m) =>
           \E s \in Sends : pc[s] = "done" /\ msgOf[s] = m
      /\ Founded(page, Pipeline)
      /\ Unmarked \/ Coming \/ Shows
  BY DEF PageInv, SeenInv
<1>b. /\ budget.left["reloads"] = 0 /\ Distinct(page, Pipeline) /\ Replaces(page, Pipeline)
      /\ \A m \in Messages : m < next => Covered(page, Pipeline, m)
      /\ Sorted(Pipeline)
  BY DEF PageInv, OnceInv, SettleInv
<1>c. /\ Len(log) \in Nat /\ DOMAIN log = 1 .. Len(log) /\ next \in 1 .. (Len(log) + 1)
      /\ Messages \subseteq 1 .. Len(log) /\ seen \in Messages \union {None} /\ seen \in Nat
      /\ seenRpc \subseteq Messages /\ None \notin Sends
      /\ Len(Pipeline) \in Nat /\ DOMAIN Pipeline = 1 .. Len(Pipeline)
  <2>1. /\ next \in 1 .. (Len(log) + 1) /\ seen \in Messages \union {None} /\ seenRpc \subseteq Messages
    BY DEF Types
  <2> QED BY <2>1, Basics, PipeFacts DEF None
<1>d. /\ \A j \in DOMAIN log : j \in DOMAIN log' /\ log'[j] = log[j]
      /\ \A j \in DOMAIN log' : \/ j \in DOMAIN log
                                \/ /\ j = Len(log) + 1
                                   /\ log'[j].type = "seen" => log'[j].of \in seenRpc
      /\ \A m \in seenRpc' : m \in seenRpc \/ \E s \in Sends : ConfirmTempId(s) /\ m = msgOf[s]
      /\ seen' = seen \/ /\ ProcessEvent /\ next \in DOMAIN log
                         /\ log[next].type = "seen" /\ seen' = log[next].of
  BY LogKept, LineKept
<1>e. /\ \A s \in Sends : pc[s] = "done" => pc'[s] = "done" /\ msgOf'[s] = msgOf[s]
      /\ ConsumeEvent => next' = next + 1
      /\ ~ConsumeEvent => UNCHANGED next
  <2>1. ~Spend("replays")
    BY DEF Spend, Waiting, Steady
  <2> QED BY <2>1, ThreadsKept DEF Ended, ConsumeEvent
\* Where the line may be.
<1>1. seen' < next'
  <2>1. seen' < next
    BY <1>a, <1>d
  <2>2. next' = next \/ next' = next + 1
    BY <1>e
  <2>3. seen' \in Nat
    <3>1. CASE seen' = seen
      BY <1>c, <3>1
    <3>2. CASE next \in DOMAIN log /\ log[next].type = "seen" /\ seen' = log[next].of
      <4>1. log[next].of \in Messages
        BY <3>2 DEF LogInv
      <4>2. \A m \in 1 .. Len(log) : m \in Nat
        BY <1>c
      <4> QED BY <1>c, <3>2, <4>1, <4>2
    <3>3. seen' = seen \/ (next \in DOMAIN log /\ log[next].type = "seen" /\ seen' = log[next].of)
      BY <1>d
    <3> QED BY <3>1, <3>2, <3>3
  <2> QED BY <1>c, <2>1, <2>2, <2>3
<1>2. \A j \in DOMAIN log' : log'[j].type = "seen" => log'[j].of < j
  <2> TAKE j \in DOMAIN log'
  <2> HAVE log'[j].type = "seen"
  <2>1. CASE j \in DOMAIN log
    BY <1>a, <1>d, <2>1
  <2>2. CASE j = Len(log) + 1 /\ log'[j].of \in seenRpc
    <3>1. log'[j].of \in 1 .. Len(log)
      BY <1>c, <2>2
    <3> HIDE <1>a
    <3> QED BY <1>c, <2>2, <3>1
  <2> QED BY <1>d, <2>1, <2>2
<1>3. \A m \in Messages' : m \in seenRpc' \/ (\E j \in DOMAIN log' : log'[j].type = "seen" /\ log'[j].of = m)
                            => \E s \in Sends : pc'[s] = "done" /\ msgOf'[s] = m
  <2>1. ASSUME NEW m \in Messages, m \in seenRpc \/ Marked(m)
        PROVE  \E s \in Sends : pc'[s] = "done" /\ msgOf'[s] = m
    BY <1>a, <1>e, <2>1
  <2>2. ASSUME NEW m \in seenRpc' PROVE \E s \in Sends : pc'[s] = "done" /\ msgOf'[s] = m
    <3>1. CASE m \in seenRpc
      BY <1>c, <2>1, <3>1
    <3>2. ASSUME NEW s \in Sends, ConfirmTempId(s), m = msgOf[s]
          PROVE  \E t \in Sends : pc'[t] = "done" /\ msgOf'[t] = m
      <4>1. pc'[s] = "done" /\ msgOf' = msgOf
        BY <3>2 DEF ConfirmTempId, Types
      <4> QED BY <3>2, <4>1
    <3> QED BY <1>d, <3>1, <3>2
  <2>3. ASSUME NEW j \in DOMAIN log', log'[j].type = "seen"
        PROVE  \E s \in Sends : pc'[s] = "done" /\ msgOf'[s] = log'[j].of
    <3>1. CASE j \in DOMAIN log
      <4>1. log'[j] = log[j] /\ log[j].of \in Messages /\ Marked(log[j].of)
        BY <1>d, <2>3, <3>1 DEF LogInv, Marked
      <4> QED BY <2>1, <4>1
    <3>2. CASE log'[j].of \in seenRpc
      BY <1>c, <2>1, <3>2
    <3> QED BY <1>d, <2>3, <3>1, <3>2
  <2> QED BY <2>2, <2>3
\* What makes up for a line that is not drawn stays, or LINE logs an answer.
<1>4. Unmarked => Unmarked' \/ Coming'
  <2> SUFFICES ASSUME NEW s \in Sends, pc[s] = "done", ~Marked(msgOf[s]), ~Unmarked'
               PROVE  Coming'
    OBVIOUS
  <2>1. pc'[s] = "done" /\ msgOf'[s] = msgOf[s]
    BY <1>e
  <2>2. PICK j \in DOMAIN log' : log'[j].type = "seen" /\ log'[j].of = msgOf[s]
    BY <2>1 DEF Marked
  <2>3. j = Len(log) + 1
    BY <1>d, <2>2 DEF Marked
  <2>4. UNCHANGED log \/ ~ConsumeEvent
    BY DEF ConsumeEvent, lineVars
  <2>5. j \notin DOMAIN log
    BY <1>c, <2>3
  <2>6. next' = next
    BY <1>e, <2>4, <2>5
  <2> QED BY <1>c, <2>2, <2>3, <2>6
<1>5. ~ConsumeEvent /\ Coming => Coming'
  BY <1>d, <1>e
<1>6. SUFFICES Founded(page', Pipeline') /\ (Unmarked' \/ Coming' \/ Ends(page', Pipeline', seen'))
  BY <1>1, <1>2, <1>3 DEF SeenInv, Marked, Founded, Ends, Agrees
<1> DEFINE Goal == Founded(page', Pipeline') /\ (Unmarked' \/ Coming' \/ Ends(page', Pipeline', seen'))
<1>7. ASSUME ~ConsumeEvent, Founded(page', Pipeline'),
             Shows => Unmarked' \/ Coming' \/ Ends(page', Pipeline', seen')
      PROVE  Goal
  BY <1>4, <1>5, <1>7, <1>a
<1>8. CASE UNCHANGED seen /\ ~ConsumeEvent
  <2>1. ASSUME NEW s \in Sends, NEW c \in bound.contents, UserSend(s, c) PROVE Goal
    <3>1. /\ \A i \in DOMAIN page.rows : i \in DOMAIN page'.rows /\ page'.rows[i] = page.rows[i]
          /\ page'.marker = page.marker
      BY <2>1, NewBubble
    <3>2. Pipeline' = Pipeline
      BY <2>1 DEF UserSend, Pipeline
    <3>3. \A m : HasRow(page.rows, m) => HasRow(page'.rows, m)
      BY <3>1 DEF HasRow
    <3>4. Founded(page', Pipeline')
      BY <1>a, <3>2, <3>3 DEF Founded
    <3>5. Shows => Ends(page', Pipeline', seen')
      BY <1>8, <3>1, <3>2, <3>3 DEF Ends
    <3> HIDE DEF Goal, Unmarked, Coming, Shows
    <3> QED BY <1>7, <1>8, <3>4, <3>5
  <2>2. ASSUME NEW s \in Sends, ConfirmTempId(s) PROVE Goal
    <3> DEFINE js == JS("seen", None, msgOf[s])
    <3>1. js \in Script(Messages) /\ msgOf[s] \in Messages
      <4>1. msgOf[s] \in Messages
        BY <2>2 DEF ConfirmTempId, LogInv, Posted
      <4> QED BY <4>1 DEF JS, Script
    <3>2. mainq' = Append(mainq, Direct(js)) /\ UNCHANGED <<buf, page, log, msgOf>>
          /\ pc[s] = "confirm" /\ pc'[s] = "done"
      BY <2>2 DEF ConfirmTempId, Types
    <3> HIDE DEF js
    <3>3. Extends(Pipeline, <<Direct(js)>>, Pipeline')
      BY <3>1, <3>2, PipeAppends
    <3>4. Founded(page', Pipeline')
      <4>1. DOMAIN <<Direct(js)>> = {1} /\ <<Direct(js)>>[1].direct
        BY DEF Direct
      <4>2. Founded(page, Pipeline')
        BY <1>a, <1>c, <3>3, <4>1, FoundedKept
      <4> QED BY <3>2, <4>2
    \* No answer to its mark is there yet: only its own thread sends one.
    <3>5. ~Marked(msgOf[s])
      <4> SUFFICES ASSUME Marked(msgOf[s]) PROVE FALSE
        OBVIOUS
      <4>1. PICK t \in Sends : pc[t] = "done" /\ msgOf[t] = msgOf[s]
        BY <1>a, <3>1
      <4>2. msgOf[s] # None
        BY <1>c, <3>1 DEF None
      <4>3. log[msgOf[s]].of = s /\ log[msgOf[t]].of = t
        BY <4>1, <4>2 DEF LogInv
      <4> QED BY <3>2, <4>1, <4>3
    <3>6. Unmarked'
      BY <3>2, <3>5 DEF Marked
    <3> HIDE DEF Unmarked, Coming
    <3> QED BY <3>4, <3>6
  <2>3. ASSUME NEW s \in Sends, FailTempId(s) PROVE Goal
    <3> DEFINE js == JS("fail", s, None)
    <3>1. js \in Script(Messages) /\ Direct(js).js.fn # "seen"
      BY DEF JS, Script, Direct
    <3>2. mainq' = Append(mainq, Direct(js)) /\ UNCHANGED <<buf, page>>
      BY <2>3 DEF FailTempId
    <3>3. Extends(Pipeline, <<Direct(js)>>, Pipeline')
      BY <3>1, <3>2, PipeAppends
    <3> DEFINE u == <<Direct(js)>>
    <3>4. DOMAIN u = {1} /\ u[1].js.fn # "seen"
      BY <3>1
    <3> HIDE DEF js, u
    <3>5. Founded(page', Pipeline')
      <4>1. Founded(page, Pipeline')
        BY <1>a, <1>c, <3>3, <3>4, FoundedKept DEF u
      <4> QED BY <3>2, <4>1
    <3>6. Shows => Ends(page', Pipeline', seen')
      <4>1. \A l \in DOMAIN u : Agrees(u, l, seen)
        BY <3>4 DEF Agrees
      <4>2. Shows => Ends(page, Pipeline', seen)
        BY <3>3, <4>1, EndsKept DEF u
      <4> QED BY <1>8, <3>2, <4>2
    <3> HIDE DEF Goal, Unmarked, Coming, Shows
    <3> QED BY <1>7, <1>8, <3>5, <3>6
  <2>4. ~Reload
    BY <1>b DEF Reload, Spend
  <2>5. ASSUME Carries(page, Pipeline, page', Pipeline') PROVE Goal
    <3>1. /\ Sound(page', Pipeline')
          /\ \A m \in Nat : Ends(page, Pipeline, m) => Ends(page', Pipeline', m)
      BY <1>a, <1>b, <2>5 DEF Carries, Sound
    <3>2. Shows => Ends(page', Pipeline', seen')
      BY <1>8, <1>c, <3>1
    <3>3. Founded(page', Pipeline')
      BY <3>1 DEF Sound
    <3> HIDE DEF Goal, Unmarked, Coming, Shows
    <3> QED BY <1>7, <1>8, <3>2, <3>3
  <2> HIDE DEF Goal
  <2>6. Goal
    BY <1>8, <2>1, <2>2, <2>3, <2>4, <2>5, PageCases
  <2> QED BY <2>6 DEF Goal
<1>9. CASE ConsumeEvent
  <2> DEFINE u == Draws(cb.temp)
  <2>1. /\ Extends(Pipeline, u, Pipeline') /\ next \in DOMAIN log
        /\ \/ /\ log[next].type = "seen" /\ u = <<Line(seen)>>
           \/ /\ log[next].type = "message"
              /\ \/ u = <<Swap(cb.temp, next)>> \/ u = <<New(next), Line(seen)>> \/ u = <<New(next)>>
    BY <1>9, Drawn
  <2>2. UNCHANGED <<page, seen, log>> /\ next' = next + 1
    BY <1>9, <1>e DEF ConsumeEvent, dbVars, lineVars
  <2> HIDE DEF u
  <2>3. /\ Swap(cb.temp, next).js.fn # "seen" /\ New(next).js.fn # "seen"
        /\ Line(seen).js.id = seen
    BY DEF Swap, New, Line, Coalesced, JS
  <2>4. DOMAIN u \subseteq {1, 2} /\ \A l \in DOMAIN u : u[l].js.fn = "seen" => u[l].js.id = seen
    <3>1. \A x, y : DOMAIN <<x>> = {1} /\ DOMAIN <<x, y>> = {1, 2} /\ <<x>>[1] = x
                    /\ <<x, y>>[1] = x /\ <<x, y>>[2] = y
      OBVIOUS
    <3>2. CASE u = <<Line(seen)>>
      BY <2>3, <3>1, <3>2
    <3>3. CASE u = <<Swap(cb.temp, next)>> \/ u = <<New(next)>>
      BY <2>3, <3>1, <3>3
    <3>4. CASE u = <<New(next), Line(seen)>>
      BY <2>3, <3>1, <3>4
    <3> QED BY <2>1, <3>2, <3>3, <3>4
  \* The bubble of the message the database marks is on the page or on its way.
  <2>5. Founded(page', Pipeline')
    <3>1. seen # None => Covered(page, Pipeline, seen)
      BY <1>a, <1>b, <1>c
    <3>2. \A l \in DOMAIN u : ~u[l].direct /\ u[l].js.fn = "seen" /\ u[l].js.id # None =>
            Covered(page, Pipeline, u[l].js.id)
      BY <2>4, <3>1
    <3>3. DOMAIN u \subseteq Nat \ {0}
      BY <2>4
    <3>4. Founded(page, Pipeline')
      BY <1>a, <1>c, <2>1, <3>2, <3>3, FoundedKept
    <3> QED BY <2>2, <3>4
  <2>6. Shows => Ends(page', Pipeline', seen')
    <3>1. \A l \in DOMAIN u : Agrees(u, l, seen)
      BY <2>4 DEF Agrees
    <3>2. Shows => Ends(page, Pipeline', seen)
      BY <2>1, <3>1, EndsKept
    <3> QED BY <2>2, <3>2
  <2>7. Coming => Coming' \/ Ends(page', Pipeline', seen')
    <3> SUFFICES ASSUME NEW j \in DOMAIN log, j >= next, log[j].type = "seen"
                 PROVE  Coming' \/ Ends(page', Pipeline', seen')
      OBVIOUS
    <3>1. CASE j = next
      <4>1. u = <<Line(seen)>>
        BY <2>1, <3>1
      <4>2. Ends(page, Pipeline', seen)
        BY <1>c, <2>1, <4>1, EndsLast
      <4> QED BY <2>2, <4>2
    <3>2. CASE j # next
      <4>1. j >= next'
        BY <1>c, <2>2, <3>2
      <4> QED BY <2>2, <4>1
    <3> QED BY <3>1, <3>2
  <2> HIDE DEF Unmarked, Coming, Shows
  <2> QED BY <1>4, <1>a, <2>5, <2>6, <2>7
\* The database's line moves: the event is still to be drawn.
<1>10. CASE seen' # seen
  <2>1. ProcessEvent /\ next \in DOMAIN log /\ log[next].type = "seen"
    BY <1>10, <1>d
  <2>2. UNCHANGED <<page, Pipeline, next, log>>
    BY <2>1 DEF ProcessEvent, uiVars, Pipeline, lineVars
  <2>3. Coming'
    BY <1>c, <2>1, <2>2
  <2> HIDE DEF Coming, Unmarked
  <2> QED BY <1>a, <2>2, <2>3
<1> QED BY <1>8, <1>9, <1>10

-----------------------------------------------------------------------------
(* The theorem.                                                            *)

LEMMA PageInitial ==
  ASSUME Init
  PROVE  PageInv
<1>1. /\ Types /\ DOMAIN log = {} /\ DOMAIN order = {} /\ Messages = {}
      /\ DOMAIN page.rows = {} /\ page.marker = None /\ seen = None /\ next = 1
      /\ seenRpc = {} /\ Len(buf) = 0 /\ Len(mainq) = 0
  BY Initial DEF IInv, Init, Messages
<1>2. DOMAIN Pipeline = {}
  BY <1>1, PipeFacts
<1>3. SettleInv
  BY <1>1, <1>2 DEF SettleInv, Sorted, Looks
<1>4. OnceInv
  <2>1. ASSUME Steady PROVE budget.left["reloads"] = 0
    <3>1. PICK c \in Cases :
            budget = [case |-> c, left |-> [b \in {"others", "lost", "retries", "replays", "reloads"}
                                              |-> c[b]]]
      BY DEF Init
    <3> QED BY <2>1, <3>1 DEF Steady, bound
  <2>2. Distinct(page, Pipeline) /\ Replaces(page, Pipeline)
    BY <1>1, <1>2 DEF Distinct, Replaces
  <2>3. \A s \in Sends : ~HasTemp(page, s)
    BY <1>1 DEF HasTemp
  <2> QED BY <1>1, <1>2, <2>1, <2>2, <2>3 DEF OnceInv
<1>5. SeenInv
  <2>1. Founded(page, Pipeline) /\ Ends(page, Pipeline, seen)
    BY <1>1, <1>2 DEF Founded, Ends
  <2>2. seen < next
    BY <1>1 DEF None
  <2> QED BY <1>1, <2>1, <2>2 DEF SeenInv, Marked
<1> QED BY <1>3, <1>4, <1>5 DEF PageInv

LEMMA PagePreserved ==
  ASSUME IInv, PageInv, [Next]_vars
  PROVE  PageInv'
<1>1. /\ Types /\ LogInv /\ QueueInv /\ StreamInv /\ Waiting /\ SettleInv
      /\ Types' /\ LogInv'
  BY Preserved DEF IInv, PageInv
<1>2. SettleInv'
  BY <1>1, SettleStep
<1>3. OnceInv'
  BY <1>1, OnceStep
<1>4. SeenInv'
  BY <1>1, SeenStep
<1> QED BY <1>2, <1>3, <1>4 DEF PageInv

\* Once every send has ended and every event is drawn, no bubble of sends that
\* did not overlap still looks as if it were being sent, whatever was lost,
\* replayed or rendered meanwhile; undisturbed and not rendered anew, the page
\* shows each message of the database once, and the Seen line stands where the
\* database has it if LINE answered every mark (sse_event_cb, failTempId,
\* markChatSeen).
THEOREM PageSettles == Spec => []PageConverges
<1>1. ASSUME IInv, PageInv PROVE PageConverges
  <2> SUFFICES ASSUME Quiet
               PROVE  /\ bound.overlap = 1 => \A i \in DOMAIN Rows : Rows[i].temp = None \/ Rows[i].err
                      /\ Steady => /\ \A m \in db : Cardinality({i \in DOMAIN Rows : Rows[i].id = m}) = 1
                                   /\ SeenAnswered => page.marker = seen
    BY DEF PageConverges, Steady
  <2>1. /\ Types /\ LogInv /\ QueueInv /\ Alone
        /\ Len(log) \in Nat /\ DOMAIN log = 1 .. Len(log)
        /\ Messages \subseteq 1 .. Len(log) /\ None \notin Messages
    BY <1>1, Basics DEF IInv
  <2>2. /\ next \in Nat /\ next > Len(log) /\ DOMAIN Pipeline = {} /\ db \subseteq Messages
        /\ \A m \in Messages : m \in Nat /\ m < next
    <3>1. Len(buf) = 0 /\ Len(mainq) = 0 /\ next > Len(log)
      BY DEF Quiet
    <3>2. next \in 1 .. (Len(log) + 1) /\ db \subseteq Messages
      BY <2>1 DEF Types
    <3>3. DOMAIN Pipeline = {}
      BY <2>1, <3>1, PipeFacts
    <3> QED BY <2>1, <3>1, <3>2, <3>3
  \* An ended send whose bubble is still queued has an echo to come.
  <2>3. ASSUME bound.overlap = 1, NEW i \in DOMAIN Rows
        PROVE  Rows[i].temp = None \/ Rows[i].err
    <3>1. ASSUME NEW s \in Sends PROVE ~Queued(order, s)
      <4> SUFFICES ASSUME NEW k \in DOMAIN order, order[k] = s PROVE FALSE
        BY DEF Queued
      <4>1. pc[s] = "done"
        BY <2>1 DEF QueueInv, Quiet, InFlight
      <4>2. msgOf[s] \in Messages
        BY <2>1, <4>1 DEF LogInv, Posted
      <4>3. msgOf[s] = None \/ msgOf[s] >= next
        BY <2>1, <2>3 DEF Alone
      <4> QED BY <2>1, <2>2, <4>2, <4>3
    <3>2. \A s \in Sends : ~Looks(page, s)
      <4>1. \A s \in Sends : ~Settled(Pipeline, s)
        BY <2>2 DEF Settled
      <4> QED BY <1>1, <3>1, <4>1 DEF PageInv, SettleInv
    <3>3. Rows[i].temp \in Sends \union {None}
      <4>1. page \in Page(Messages) /\ Messages \in SUBSET Nat /\ Pipeline \in Seq(Items(Messages))
        BY <2>1, Basics, PipeFacts DEF Types
      <4> QED BY <2>1, <4>1, PageNames DEF Rows
    <3> QED BY <3>2, <3>3 DEF Looks, Rows
  <2>4. ASSUME Steady, NEW m \in db
        PROVE  Cardinality({i \in DOMAIN Rows : Rows[i].id = m}) = 1
    <3>1. Distinct(page, Pipeline) /\ Covered(page, Pipeline, m)
      BY <1>1, <2>2, <2>4 DEF PageInv, OnceInv
    <3>2. PICK i \in DOMAIN Rows : Rows[i].id = m
      BY <2>2, <3>1 DEF Covered, HasRow, Rows
    <3>3. \A j \in DOMAIN Rows : Rows[j].id = m => j = i
      BY <2>1, <2>2, <3>1, <3>2 DEF Distinct, Rows
    <3>4. {j \in DOMAIN Rows : Rows[j].id = m} = {i}
      BY <3>2, <3>3
    <3> QED BY <3>4, FS_Singleton
  <2>5. ASSUME Steady, SeenAnswered PROVE page.marker = seen
    <3>1. \A s \in Sends : pc[s] = "done" => Marked(msgOf[s])
      BY <2>5 DEF SeenAnswered, Marked
    <3>2. ~ \E j \in DOMAIN log : j >= next /\ log[j].type = "seen"
      BY <2>1, <2>2
    <3>3. Ends(page, Pipeline, seen)
      BY <1>1, <2>5, <3>1, <3>2 DEF PageInv, SeenInv
    <3> QED BY <2>2, <3>3 DEF Ends
  <2> QED BY <2>3, <2>4, <2>5
<1>2. Init => IInv /\ PageInv
  BY Initial, PageInitial
<1>3. IInv /\ PageInv /\ [Next]_vars => (IInv /\ PageInv)'
  BY Preserved, PagePreserved
<1> QED BY <1>1, <1>2, <1>3, PTL DEF Spec
=============================================================================
