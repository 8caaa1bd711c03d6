-------------------------- MODULE StatusQueueProofs --------------------------
(***************************************************************************)
(* Proofs about StatusQueue, for any threads, phases, rows and bounds: the *)
(* types, that the view shows what is current once nothing is under way,   *)
(* that a sync leaves no row behind, and the minimum time of a row.        *)
(***************************************************************************)
EXTENDS StatusQueue, TLAPS

-----------------------------------------------------------------------------
(* The inductive invariant.                                                *)

\* Rows that are posted, and calls that are dispatched.
Posted == [key : Keys, count : 0..1, total : 0..1, error : BOOLEAN]
Calls == [call : {"status"}, row : Posted] \cup [call : {"finish"}, result : 0..2]
Queues == [cur : Posted \cup {NoRow}, queue : Seq(Posted), age : 0..Dwell,
           timer : NoTimer..Dwell]

\* No row waits behind an empty screen.
QInv ==
  /\ q \in Queues /\ (q.cur = NoRow => q.queue = <<>>)
  /\ mainq \in Seq(Calls)
  /\ \A t \in Posters : pc[t] # Idle => pc[t] \in Posted /\ pc[t].key \notin SyncKeys

\* Only the steady text of an empty screen may be out of date, and then a post
\* is on its way.
Drawn == painted = Snapshot(state, q.cur, attach) \/ (q.cur = NoRow /\ ~Quiet)

\* Every row of a sync is dispatched before its end.
SyncRow(c) == c.call = "status" /\ c.row.key \in SyncKeys
SyncOrder ==
  /\ sync.pc = "idle" => state # "Syncing" /\ \A i \in 1..Len(mainq) : ~SyncRow(mainq[i])
  /\ sync.pc # "finishing" => \A i \in 1..Len(mainq) : mainq[i].call # "finish"
  /\ sync.pc = "finishing" =>
       \E i \in 1..Len(mainq) :
          /\ mainq[i].call = "finish"
          /\ \A j \in 1..Len(mainq) : j # i => mainq[j].call # "finish"
          /\ \A j \in i..Len(mainq) : ~SyncRow(mainq[j])

\* While the engine has not left Syncing during a sync.
NoneStale ==
  budget.mid = MaxMid =>
    /\ sync.pc # "idle" => state = "Syncing"
    /\ sync.pc = "idle" => \A r \in {q.cur} \cup Range(q.queue) : r.key \notin SyncKeys

IInv == TypeOK /\ QInv /\ Drawn /\ SyncOrder /\ NoneStale

-----------------------------------------------------------------------------
(* Sequences and rows.                                                     *)

LEMMA TailFacts ==
  ASSUME NEW S, NEW s \in Seq(S), s # <<>>
  PROVE  /\ Head(s) \in S /\ Head(s) = s[1] /\ Tail(s) \in Seq(S)
         /\ Len(Tail(s)) = Len(s) - 1 /\ Len(s) \in Nat \ {0}
         /\ \A i \in 1..Len(Tail(s)) : Tail(s)[i] = s[i + 1]
OBVIOUS

LEMMA AppendFacts ==
  ASSUME NEW S, NEW s \in Seq(S), NEW x \in S
  PROVE  /\ Append(s, x) \in Seq(S) /\ Append(s, x) # <<>>
         /\ Len(Append(s, x)) = Len(s) + 1 /\ Len(s) \in Nat
         /\ \A i \in 1..Len(s) : Append(s, x)[i] = s[i]
         /\ Append(s, x)[Len(s) + 1] = x
         /\ Append(s, x) # s
OBVIOUS

LEMMA RowFacts ==
  /\ NoRow \in Rows /\ NoRow \notin Posted /\ NoRow.error = FALSE /\ NoRow.key = "none"
  /\ NoRow.key \notin SyncKeys
  /\ Posted \subseteq Rows /\ Idle = NoRow
  /\ \A g \in Gates : /\ ErrorRow(g) \in Posted /\ Reconnecting(g) \in Posted
                      /\ ErrorRow(g).key \notin SyncKeys /\ Reconnecting(g).key \notin SyncKeys
<1>1. /\ NoRow \in Rows /\ NoRow \notin Posted /\ NoRow.error = FALSE /\ NoRow.key = "none"
      /\ Posted \subseteq Rows /\ Idle = NoRow /\ NoRow.key \notin SyncKeys
  BY KeysAssumption DEF NoRow, Row, Rows, Posted, Idle, Keys
<1>2. \A g \in Gates : GateKey[g] \in Keys /\ GateKey[g] \notin SyncKeys
  BY KeysAssumption DEF Keys
<1> QED BY <1>1, <1>2 DEF ErrorRow, Reconnecting, Row, Posted

\* Where a change of the queue may come from: the rows it had, or none.
RowsOf(d) == {d.cur} \cup Range(d.queue)

LEMMA ScheduleFits ==
  ASSUME NEW d \in Queues
  PROVE  /\ Schedule(d) \in Queues /\ Schedule(d).cur = d.cur /\ Schedule(d).queue = d.queue
         /\ Schedule(d).age = d.age
<1>1. d.age \in 0..Dwell /\ Dwell \in Nat /\ Dwell - d.age \in NoTimer..Dwell
  BY BoundsAssumption DEF Queues, NoTimer
<1> QED BY <1>1 DEF Schedule, Queues

\* What promote keeps, changes and when.
LEMMA PromoteFacts ==
  ASSUME NEW d \in Queues, NEW s
  PROVE  LET p == Promote(d, s) IN
         /\ p \in Queues
         /\ d.queue # <<>> /\ d.cur = NoRow => p.cur # NoRow
         /\ p.cur = NoRow => p.queue = <<>>
         /\ RowsOf(p) \subseteq RowsOf(d) \cup {NoRow}
         /\ ~Redraws(d, s) => p.cur = d.cur
         /\ p.cur # d.cur /\ d.cur # NoRow => ~d.cur.error /\ (d.age = Dwell \/ Complete(d.cur))
<1> DEFINE p == Promote(d, s)
<1>1. /\ d.cur \in Posted \cup {NoRow} /\ d.queue \in Seq(Posted) /\ d.age \in 0..Dwell
      /\ d.timer \in NoTimer..Dwell /\ Dwell \in Nat /\ d.cur.error \in BOOLEAN
  BY BoundsAssumption, RowFacts DEF Queues, Posted
<1>2. CASE d.cur.error
  <2>1. p = d /\ d.cur # NoRow
    BY <1>2, RowFacts DEF Promote
  <2> QED BY <2>1
<1>3. CASE ~d.cur.error /\ Dwelling(d)
  <2>1. p = Schedule(d) /\ d.cur # NoRow
    BY <1>3 DEF Promote, Dwelling
  <2>2. RowsOf(p) = RowsOf(d)
    BY <2>1, ScheduleFits DEF RowsOf
  <2> QED BY <2>1, <2>2, ScheduleFits
<1>4. ~Dwelling(d) /\ d.cur # NoRow => d.age = Dwell \/ Complete(d.cur)
  BY <1>1 DEF Dwelling
<1>5. CASE ~d.cur.error /\ ~Dwelling(d) /\ d.queue = <<>>
  <2>1. p = IF s = "Syncing" THEN d ELSE [d EXCEPT !.cur = NoRow, !.age = 0]
    BY <1>5 DEF Promote
  <2>2. CASE p = d
    BY <1>4, <1>5, <2>2
  <2>3. CASE p = [d EXCEPT !.cur = NoRow, !.age = 0] /\ s # "Syncing"
    <3>1. p \in Queues /\ p.cur = NoRow /\ p.queue = d.queue
      <4>1. 0 \in 0..Dwell /\ NoRow \in Posted \cup {NoRow}
        BY <1>1
      <4> HIDE DEF p
      <4> QED BY <4>1, <2>3 DEF Queues
    <3>2. Redraws(d, s)
      BY <1>5, <2>3 DEF Redraws
    <3> QED BY <1>4, <1>5, <3>1, <3>2 DEF RowsOf
  <2> QED BY <2>1, <2>2, <2>3, <1>5
<1>6. CASE ~d.cur.error /\ ~Dwelling(d) /\ d.queue # <<>>
  <2> DEFINE e == [d EXCEPT !.cur = Head(d.queue), !.queue = Tail(d.queue), !.age = 0]
  <2>1. p = Schedule(e)
    BY <1>6 DEF Promote
  <2>2. /\ Head(d.queue) \in Posted /\ Tail(d.queue) \in Seq(Posted)
        /\ Head(d.queue) \in Range(d.queue) /\ Range(Tail(d.queue)) \subseteq Range(d.queue)
    <3>1. /\ Head(d.queue) \in Posted /\ Head(d.queue) = d.queue[1] /\ Tail(d.queue) \in Seq(Posted)
          /\ Len(Tail(d.queue)) = Len(d.queue) - 1 /\ Len(d.queue) \in Nat \ {0}
          /\ \A i \in 1..Len(Tail(d.queue)) : Tail(d.queue)[i] = d.queue[i + 1]
      BY <1>1, <1>6, TailFacts
    <3>2. DOMAIN d.queue = 1..Len(d.queue) /\ DOMAIN Tail(d.queue) = 1..Len(Tail(d.queue))
      BY <1>1, <3>1
    <3> QED BY <3>1, <3>2 DEF Range
  <2>3. e \in Queues /\ e.cur = Head(d.queue) /\ e.queue = Tail(d.queue)
    <3> PICK h, tl : h = Head(d.queue) /\ tl = Tail(d.queue)
      OBVIOUS
    <3>1. 0 \in 0..Dwell /\ h \in Posted \cup {NoRow} /\ tl \in Seq(Posted)
      BY <1>1, <2>2
    <3>2. e = [d EXCEPT !.cur = h, !.queue = tl, !.age = 0]
      OBVIOUS
    <3> HIDE DEF e
    <3> QED BY <3>1, <3>2 DEF Queues
  <2> HIDE DEF e
  <2>4. p \in Queues /\ p.cur = Head(d.queue) /\ p.queue = Tail(d.queue)
    BY <2>1, <2>3, ScheduleFits
  <2>5. p.cur # NoRow
    BY <2>2, <2>4, RowFacts
  <2>6. RowsOf(p) \subseteq RowsOf(d)
    BY <2>2, <2>4 DEF RowsOf
  <2>7. Redraws(d, s)
    BY <1>6 DEF Redraws
  <2> QED BY <1>4, <1>6, <2>4, <2>5, <2>6, <2>7
<1> QED BY <1>1, <1>2, <1>3, <1>5, <1>6

-----------------------------------------------------------------------------
(* Types and drawing.                                                      *)

Syncs == [pc : {"idle", "worker", "line", "work", "done", "end", "finishing"},
          phase : 1..Len(Phases), unit : 0..1, result : 0..2]
Budgets == [event : 0..MaxEvents, fail : 0..MaxFails, clear : 0..MaxClears,
            sync : 0..MaxSyncs, mid : 0..MaxMid]
Views == [bar : BOOLEAN, row : Rows, red : BOOLEAN, text : Texts]

\* The threads' and the main queue's part of the types.
Moves ==
  /\ mainq' \in Seq(Calls)
  /\ pc' \in [Posters -> Rows]
  /\ \A t \in Posters : pc'[t] # Idle => pc'[t] \in Posted /\ pc'[t].key \notin SyncKeys
  /\ gate' \in [Gates -> BOOLEAN] /\ sync' \in Syncs /\ budget' \in Budgets

LEMMA TypesFit ==
  ASSUME state' \in States, attach' \in 0..1, painted' \in Views, Moves,
         q' \in Queues, q'.cur = NoRow => q'.queue = <<>>
  PROVE  TypeOK' /\ QInv'
<1>1. QInv'
  BY DEF QInv, Moves
<1>2. q' \in [cur : Rows, queue : Seq(Rows), age : 0..Dwell, timer : NoTimer..Dwell]
  BY RowFacts DEF Queues
<1>3. \A i \in 1..Len(mainq') :
        mainq'[i] \in [call : {"status"}, row : Rows] \cup [call : {"finish"}, result : 0..2]
  <2> SUFFICES ASSUME NEW i \in 1..Len(mainq')
               PROVE  mainq'[i] \in [call : {"status"}, row : Rows] \cup [call : {"finish"}, result : 0..2]
    OBVIOUS
  <2>1. mainq'[i] \in Calls
    BY DEF Moves
  <2> QED BY <2>1, RowFacts DEF Calls
<1> QED BY <1>1, <1>2, <1>3 DEF TypeOK, Moves, Syncs, Budgets, Views

LEMMA Facts ==
  ASSUME IInv
  PROVE  /\ state \in States /\ attach \in 0..1 /\ painted \in Views
         /\ mainq \in Seq(Calls) /\ pc \in [Posters -> Rows]
         /\ \A t \in Posters : pc[t] # Idle => pc[t] \in Posted /\ pc[t].key \notin SyncKeys
         /\ gate \in [Gates -> BOOLEAN] /\ sync \in Syncs /\ budget \in Budgets
         /\ q \in Queues /\ (q.cur = NoRow => q.queue = <<>>) /\ q.cur \in Rows
         /\ Drawn /\ SyncOrder /\ NoneStale
<1>1. q.cur \in Rows
  BY RowFacts DEF IInv, QInv, Queues
<1> QED BY <1>1 DEF IInv, TypeOK, QInv, Syncs, Budgets, Views

LEMMA SnapshotFits ==
  ASSUME NEW s \in States, NEW r \in Rows, NEW n
  PROVE  Snapshot(s, r, n) \in Views
<1>1. SteadyText(s, n) \in Texts
  BY DEF SteadyText, Texts, States
<1>2. (s # "Syncing" /\ \E g \in Gates : FailedOnMain(g)) \in BOOLEAN /\ r.error \in BOOLEAN
  BY DEF Rows
<1>3. (s = "Syncing") \in BOOLEAN
  OBVIOUS
<1> DEFINE text == IF r = NoRow THEN SteadyText(s, n) ELSE ""
           red == IF r # NoRow THEN r.error
                  ELSE s # "Syncing" /\ \E g \in Gates : FailedOnMain(g)
<1>4. text \in Texts
  BY <1>1 DEF Texts
<1>5. red \in BOOLEAN
  BY <1>2, Zenon
<1>6. Snapshot(s, r, n) = [bar |-> s = "Syncing", row |-> r, text |-> text, red |-> red]
  BY DEF Snapshot
<1> HIDE DEF text, red
<1> QED BY <1>3, <1>4, <1>5, <1>6 DEF Views

\* A row on the screen does not depend on the gates.
LEMMA SnapshotOfRow ==
  ASSUME q.cur # NoRow, UNCHANGED <<state, q, attach>>
  PROVE  Snapshot(state, q.cur, attach)' = Snapshot(state, q.cur, attach)
BY DEF Snapshot

\* Nobody redraws; what was drawn stays right, or a post is on its way.
LEMMA DrawnKept ==
  ASSUME Drawn, UNCHANGED <<state, q, attach, painted>>, ~Quiet'
  PROVE  Drawn'
<1>1. CASE q.cur = NoRow
  BY <1>1 DEF Drawn
<1>2. CASE q.cur # NoRow
  BY <1>2, SnapshotOfRow DEF Drawn
<1> QED BY <1>1, <1>2

LEMMA NoneStaleKept ==
  ASSUME NoneStale, UNCHANGED <<state, q>>, sync.pc = "idle" <=> sync'.pc = "idle",
         budget'.mid = budget.mid
  PROVE  NoneStale'
BY DEF NoneStale

\* A thread changes a gate, posts, or goes on with the sync.
LEMMA PostingMove ==
  ASSUME IInv, UNCHANGED <<state, q, attach, painted>>, ~Quiet' \/ UNCHANGED <<gate, pc, mainq>>,
         Moves, SyncOrder', sync.pc = "idle" <=> sync'.pc = "idle", budget'.mid = budget.mid
  PROVE  IInv'
<1>1. TypeOK' /\ QInv'
  BY Facts, TypesFit
<1>2. Drawn'
  <2>1. CASE ~Quiet'
    BY <2>1, Facts, DrawnKept
  <2>2. CASE UNCHANGED <<gate, pc, mainq>>
    <3>1. Snapshot(state, q.cur, attach)' = Snapshot(state, q.cur, attach)
      BY <2>2 DEF Snapshot, SteadyText, FailedOnMain
    <3>2. Quiet' <=> Quiet
      BY <2>2 DEF Quiet
    <3> QED BY <3>1, <3>2, Facts DEF Drawn
  <2> QED BY <2>1, <2>2
<1>3. NoneStale'
  BY Facts, NoneStaleKept
<1> QED BY <1>1, <1>2, <1>3 DEF IInv

\* A call goes to the end of the main queue.
LEMMA OrderAppend ==
  ASSUME mainq \in Seq(Calls), SyncOrder, NEW c \in Calls, mainq' = Append(mainq, c),
         UNCHANGED state,
         \/ c.call = "status" /\ ~SyncRow(c) /\ UNCHANGED sync
         \/ c.call = "status" /\ sync.pc \notin {"idle", "finishing"}
                              /\ sync'.pc \notin {"idle", "finishing"}
         \/ c.call = "finish" /\ sync.pc \notin {"idle", "finishing"} /\ sync'.pc = "finishing"
  PROVE  SyncOrder'
<1>1. /\ mainq' \in Seq(Calls) /\ mainq' # <<>>
      /\ Len(mainq') = Len(mainq) + 1 /\ Len(mainq) \in Nat
      /\ \A i \in 1..Len(mainq) : mainq'[i] = mainq[i]
      /\ mainq'[Len(mainq) + 1] = c
  BY AppendFacts
<1>2. \A i \in 1..Len(mainq') : i \in 1..Len(mainq) \/ i = Len(mainq) + 1
  BY <1>1
<1>3. CASE c.call = "status" /\ ~SyncRow(c) /\ UNCHANGED sync /\ sync.pc # "finishing"
  <2>1. sync'.pc = sync.pc /\ sync'.pc # "finishing"
    BY <1>3
  <2>2. sync.pc = "idle" => state' # "Syncing" /\ \A i \in 1..Len(mainq') : ~SyncRow(mainq'[i])
    BY <1>1, <1>2, <1>3 DEF SyncOrder
  <2>3. \A i \in 1..Len(mainq') : mainq'[i].call # "finish"
    BY <1>1, <1>2, <1>3 DEF SyncOrder
  <2> QED BY <2>1, <2>2, <2>3 DEF SyncOrder, SyncRow
<1>4. CASE c.call = "status" /\ ~SyncRow(c) /\ UNCHANGED sync /\ sync.pc = "finishing"
  <2>1. PICK i \in 1..Len(mainq) :
          /\ mainq[i].call = "finish"
          /\ \A j \in 1..Len(mainq) : j # i => mainq[j].call # "finish"
          /\ \A j \in i..Len(mainq) : ~SyncRow(mainq[j])
    BY <1>4 DEF SyncOrder
  <2>2. /\ i \in 1..Len(mainq') /\ mainq'[i].call = "finish"
        /\ \A j \in 1..Len(mainq') : j # i => mainq'[j].call # "finish"
    BY <1>1, <1>2, <1>4, <2>1
  <2>3. \A j \in i..Len(mainq') : ~SyncRow(mainq'[j])
    <3>1. \A j \in i..Len(mainq') :
            (j \in i..Len(mainq) /\ j \in 1..Len(mainq)) \/ j = Len(mainq) + 1
      BY <1>1, <2>1
    <3> QED BY <1>1, <1>4, <2>1, <3>1
  <2>4. sync'.pc = "finishing"
    BY <1>4
  <2> QED BY <2>2, <2>3, <2>4 DEF SyncOrder
<1>5. CASE c.call = "status" /\ sync.pc \notin {"idle", "finishing"}
                            /\ sync'.pc \notin {"idle", "finishing"}
  BY <1>1, <1>2, <1>5 DEF SyncOrder
<1>6. CASE c.call = "finish" /\ sync.pc \notin {"idle", "finishing"} /\ sync'.pc = "finishing"
  <2> DEFINE i == Len(mainq) + 1
  <2>1. /\ i \in 1..Len(mainq') /\ mainq'[i].call = "finish"
        /\ \A j \in 1..Len(mainq') : j # i => mainq'[j].call # "finish"
    BY <1>1, <1>2, <1>6 DEF SyncOrder
  <2>2. \A j \in i..Len(mainq') : ~SyncRow(mainq'[j])
    <3>1. \A j \in i..Len(mainq') : j = i
      BY <1>1
    <3> QED BY <1>1, <1>6, <3>1 DEF SyncRow
  <2> HIDE DEF i
  <2> QED BY <1>6, <2>1, <2>2 DEF SyncOrder
<1> QED BY <1>3, <1>4, <1>5, <1>6

-----------------------------------------------------------------------------
(* The threads.                                                            *)

LEMMA BudgetSpent ==
  ASSUME IInv, NEW f \in {"event", "fail", "clear", "sync"}, budget[f] > 0,
         budget' = [budget EXCEPT ![f] = @ - 1]
  PROVE  budget' \in Budgets /\ budget'.mid = budget.mid
<1>1. budget \in Budgets /\ BoundsAssumption
  BY Facts, BoundsAssumption
<1>2. {MaxEvents, MaxFails, MaxClears, MaxSyncs, MaxMid} \subseteq Nat
  BY BoundsAssumption
<1>3. CASE f = "event"
  <2>1. budget.event \in 0..MaxEvents /\ budget.event > 0
    BY <1>1, <1>3 DEF Budgets
  <2>2. PICK k : k = budget.event - 1
    OBVIOUS
  <2>3. k \in 0..MaxEvents
    BY <1>2, <2>1, <2>2
  <2>4. budget' = [budget EXCEPT !.event = k]
    BY <1>3, <2>2
  <2> QED BY <1>1, <2>3, <2>4 DEF Budgets
<1>4. CASE f = "fail"
  <2>1. budget.fail \in 0..MaxFails /\ budget.fail > 0
    BY <1>1, <1>4 DEF Budgets
  <2>2. PICK k : k = budget.fail - 1
    OBVIOUS
  <2>3. k \in 0..MaxFails
    BY <1>2, <2>1, <2>2
  <2>4. budget' = [budget EXCEPT !.fail = k]
    BY <1>4, <2>2
  <2> QED BY <1>1, <2>3, <2>4 DEF Budgets
<1>5. CASE f = "clear"
  <2>1. budget.clear \in 0..MaxClears /\ budget.clear > 0
    BY <1>1, <1>5 DEF Budgets
  <2>2. PICK k : k = budget.clear - 1
    OBVIOUS
  <2>3. k \in 0..MaxClears
    BY <1>2, <2>1, <2>2
  <2>4. budget' = [budget EXCEPT !.clear = k]
    BY <1>5, <2>2
  <2> QED BY <1>1, <2>3, <2>4 DEF Budgets
<1>6. CASE f = "sync"
  <2>1. budget.sync \in 0..MaxSyncs /\ budget.sync > 0
    BY <1>1, <1>6 DEF Budgets
  <2>2. PICK k : k = budget.sync - 1
    OBVIOUS
  <2>3. k \in 0..MaxSyncs
    BY <1>2, <2>1, <2>2
  <2>4. budget' = [budget EXCEPT !.sync = k]
    BY <1>6, <2>2
  <2> QED BY <1>1, <2>3, <2>4 DEF Budgets
<1> QED BY <1>3, <1>4, <1>5, <1>6

LEMMA DispatchMove ==
  ASSUME IInv, UNCHANGED <<state, q, attach, painted, gate>>, NEW c \in Calls,
         mainq' = Append(mainq, c),
         pc' = pc \/ \E t \in Posters : pc' = [pc EXCEPT ![t] = Idle],
         sync' \in Syncs, budget' \in Budgets, budget'.mid = budget.mid,
         \/ c.call = "status" /\ ~SyncRow(c) /\ UNCHANGED sync
         \/ c.call = "status" /\ sync.pc \notin {"idle", "finishing"}
                              /\ sync'.pc \notin {"idle", "finishing"}
         \/ c.call = "finish" /\ sync.pc \notin {"idle", "finishing"} /\ sync'.pc = "finishing"
  PROVE  IInv'
<1>1. mainq' \in Seq(Calls) /\ mainq' # <<>>
  BY Facts, AppendFacts
<1>2. /\ pc' \in [Posters -> Rows]
      /\ \A t \in Posters : pc'[t] # Idle => pc'[t] \in Posted /\ pc'[t].key \notin SyncKeys
  BY Facts, RowFacts
<1>3. Moves
  BY <1>1, <1>2, Facts DEF Moves
<1>4. SyncOrder'
  BY Facts, OrderAppend
<1>5. ~Quiet'
  BY <1>1 DEF Quiet
<1>6. sync.pc = "idle" <=> sync'.pc = "idle"
  OBVIOUS
<1> QED BY <1>3, <1>4, <1>5, <1>6, PostingMove

LEMMA PostActivityInv ==
  ASSUME IInv, NEW key \in Activities, PostActivity(key)
  PROVE  IInv'
<1> DEFINE c == [call |-> "status", row |-> Row(key, 0, 0, FALSE)]
<1>1. /\ key \in Keys /\ key \notin SyncKeys
  BY KeysAssumption DEF Keys
<1>2. c \in Calls /\ c.call = "status" /\ ~SyncRow(c)
  BY <1>1 DEF Calls, Posted, Row, SyncRow
<1>3. /\ UNCHANGED <<state, q, attach, painted, gate, pc, sync>> /\ mainq' = Append(mainq, c)
      /\ budget.event > 0 /\ budget' = [budget EXCEPT !["event"] = @ - 1]
  BY DEF PostActivity, Dispatch
<1>4. budget' \in Budgets /\ budget'.mid = budget.mid
  BY <1>3, BudgetSpent
<1>5. sync' \in Syncs
  BY <1>3, Facts
<1> HIDE DEF c
<1> QED BY <1>2, <1>3, <1>4, <1>5, DispatchMove

\* A closed gate is followed by its post.
LEMMA GateMove ==
  ASSUME IInv, UNCHANGED <<state, q, attach, painted, mainq>>, NEW t \in Posters,
         gate' \in [Gates -> BOOLEAN], NEW r \in Posted, r.key \notin SyncKeys,
         pc' = [pc EXCEPT ![t] = r],
         sync' \in Syncs, sync.pc \notin {"idle", "finishing"} \/ UNCHANGED sync,
         sync'.pc \notin {"idle", "finishing"} \/ UNCHANGED sync,
         budget' \in Budgets, budget'.mid = budget.mid
  PROVE  IInv'
<1>1. r # Idle /\ r \in Rows
  BY RowFacts
<1>2. /\ pc' \in [Posters -> Rows] /\ pc'[t] # Idle
      /\ \A u \in Posters : pc'[u] # Idle => pc'[u] \in Posted /\ pc'[u].key \notin SyncKeys
  BY <1>1, Facts
<1>3. Moves
  BY <1>2, Facts DEF Moves
<1>4. ~Quiet'
  BY <1>2 DEF Quiet
<1>5. SyncOrder' /\ (sync.pc = "idle" <=> sync'.pc = "idle")
  BY Facts DEF SyncOrder, SyncRow
<1> QED BY <1>3, <1>4, <1>5, PostingMove

LEMMA SetFailureInv ==
  ASSUME IInv, NEW t \in Threads, NEW g \in Gates, SetFailure(t, g)
  PROVE  IInv'
<1>1. /\ UNCHANGED <<state, q, attach, painted, mainq, sync>>
      /\ gate' = [gate EXCEPT ![g] = TRUE] /\ pc' = [pc EXCEPT ![t] = ErrorRow(g)]
      /\ budget.fail > 0 /\ budget' = [budget EXCEPT !["fail"] = @ - 1]
      /\ t \in Posters
  BY DEF SetFailure, Posters
<1>2. budget' \in Budgets /\ budget'.mid = budget.mid
  BY <1>1, BudgetSpent
<1>3. ErrorRow(g) \in Posted /\ ErrorRow(g).key \notin SyncKeys
  BY RowFacts
<1>4. gate' \in [Gates -> BOOLEAN] /\ sync' \in Syncs
  BY <1>1, Facts
<1> QED BY <1>1, <1>2, <1>3, <1>4, GateMove

LEMMA ClearFailureInv ==
  ASSUME IInv, ClearFailure
  PROVE  IInv'
<1>1. /\ UNCHANGED <<state, q, attach, painted, mainq, sync>>
      /\ gate' = [gate EXCEPT !["worker"] = FALSE]
      /\ pc' = [pc EXCEPT !["user"] = Reconnecting("worker")]
      /\ budget.clear > 0 /\ budget' = [budget EXCEPT !["clear"] = @ - 1]
      /\ "user" \in Posters /\ "worker" \in Gates
  BY DEF ClearFailure, ClearedBy, Posters, Gates
<1>2. budget' \in Budgets /\ budget'.mid = budget.mid
  BY <1>1, BudgetSpent
<1>3. Reconnecting("worker") \in Posted /\ Reconnecting("worker").key \notin SyncKeys
  BY <1>1, RowFacts
<1>4. gate' \in [Gates -> BOOLEAN] /\ sync' \in Syncs
  BY <1>1, Facts
<1> QED BY <1>1, <1>2, <1>3, <1>4, GateMove

LEMMA PostGateInv ==
  ASSUME IInv, NEW t \in Posters, PostGate(t)
  PROVE  IInv'
<1> DEFINE c == [call |-> "status", row |-> pc[t]]
<1>1. /\ UNCHANGED <<state, q, attach, painted, gate, sync, budget>>
      /\ mainq' = Append(mainq, c) /\ pc' = [pc EXCEPT ![t] = Idle] /\ pc[t] # Idle
  BY DEF PostGate, Dispatch
<1>2. c \in Calls /\ c.call = "status" /\ ~SyncRow(c)
  BY <1>1, Facts DEF Calls, SyncRow
<1>3. sync' \in Syncs /\ budget' \in Budgets /\ budget'.mid = budget.mid
  BY <1>1, Facts
<1> HIDE DEF c
<1> QED BY <1>1, <1>2, <1>3, DispatchMove

-----------------------------------------------------------------------------
(* The sync's thread.                                                      *)

LEMMA RetryClearsInv ==
  ASSUME IInv, RetryClears
  PROVE  IInv'
<1> DEFINE g == sync.pc
<1>1. /\ g \in Gates /\ UNCHANGED <<state, q, attach, painted, mainq, budget>>
      /\ gate' = [gate EXCEPT ![g] = FALSE]
      /\ pc' = IF gate[g] THEN [pc EXCEPT !["sync"] = Reconnecting(g)] ELSE pc
      /\ sync' = [sync EXCEPT !.pc = IF @ = "worker" THEN "line" ELSE "work"]
  BY DEF RetryClears, ClearedBy
<1>2. /\ sync' \in Syncs /\ budget' \in Budgets /\ budget'.mid = budget.mid
      /\ sync.pc \notin {"idle", "finishing"} /\ sync'.pc \notin {"idle", "finishing"}
      /\ gate' \in [Gates -> BOOLEAN] /\ "sync" \in Posters
  BY <1>1, Facts DEF Gates, Syncs, Posters
<1>3. CASE gate[g]
  <2>1. Reconnecting(g) \in Posted /\ Reconnecting(g).key \notin SyncKeys
    BY <1>1, RowFacts
  <2>2. pc' = [pc EXCEPT !["sync"] = Reconnecting(g)]
    BY <1>1, <1>3
  <2> HIDE DEF g
  <2> QED BY <1>1, <1>2, <2>1, <2>2, GateMove
<1>4. CASE ~gate[g]
  <2>1. UNCHANGED <<gate, pc, mainq>>
    <3>1. gate' = gate
      BY <1>1, <1>4, Facts
    <3> QED BY <1>1, <1>4, <3>1
  <2>2. Moves
    BY <1>2, <2>1, Facts DEF Moves
  <2>3. SyncOrder' /\ (sync.pc = "idle" <=> sync'.pc = "idle")
    BY <1>1, <1>2, Facts DEF SyncOrder, SyncRow
  <2> QED BY <1>1, <1>2, <2>1, <2>2, <2>3, PostingMove
<1> QED BY <1>3, <1>4

LEMMA PhaseFacts ==
  ASSUME IInv, NEW error \in BOOLEAN
  PROVE  [call |-> "status", row |-> Row(Phases[sync.phase], sync.unit, 1, error)] \in Calls
<1>1. sync.phase \in 1..Len(Phases) /\ sync.unit \in 0..1
  BY Facts DEF Syncs
<1>2. Phases[sync.phase] \in Keys
  BY <1>1, BoundsAssumption DEF Keys, SyncKeys, Range
<1> QED BY <1>1, <1>2 DEF Calls, Posted, Row

LEMMA ReportInv ==
  ASSUME IInv, Report \/ ReportError
  PROVE  IInv'
<1>1. PICK error \in BOOLEAN :
        mainq' = Append(mainq, [call |-> "status", row |-> Row(Phases[sync.phase], sync.unit, 1, error)])
  BY DEF Report, ReportError, Dispatch
<1> PICK c : c = [call |-> "status", row |-> Row(Phases[sync.phase], sync.unit, 1, error)]
  OBVIOUS
<1>2. c \in Calls /\ c.call = "status" /\ mainq' = Append(mainq, c)
  BY <1>1, PhaseFacts
<1>3. UNCHANGED <<state, q, attach, painted, gate, pc, budget>> /\ sync.pc = "work"
  BY DEF Report, ReportError
<1>4. sync' \in Syncs /\ sync'.pc \notin {"idle", "finishing"}
  <2>1. sync \in Syncs /\ Len(Phases) \in Nat
    BY Facts, BoundsAssumption
  <2>2. CASE ReportError
    <3>1. PICK r \in 0..2 : sync' = [sync EXCEPT !.pc = "end", !.result = r]
      BY <2>2 DEF ReportError
    <3> QED BY <3>1, Facts DEF Syncs
  <2>3. CASE Report
    <3>1. PICK u, p, n : /\ sync' = [sync EXCEPT !.unit = u, !.phase = p, !.pc = n]
                         /\ u = 1 - sync.unit
                         /\ p = IF sync.unit = 1 /\ sync.phase < Len(Phases) THEN sync.phase + 1
                                ELSE sync.phase
                         /\ n \in {"work", "done"}
      <4>1. sync' = [sync EXCEPT
                !.unit  = 1 - sync.unit,
                !.phase = IF sync.unit = 1 /\ sync.phase < Len(Phases) THEN sync.phase + 1
                          ELSE sync.phase,
                !.pc    = IF sync.unit = 1 /\ sync.phase = Len(Phases)
                          THEN "done" ELSE "work"]
        BY <1>3, <2>3 DEF Report
      <4> QED BY <4>1
    <3>2. u \in 0..1 /\ p \in 1..Len(Phases)
      BY <2>1, <3>1 DEF Syncs
    <3> QED BY <2>1, <3>1, <3>2 DEF Syncs
  <2> QED BY <2>2, <2>3
<1>5. budget' \in Budgets /\ budget'.mid = budget.mid
  BY <1>3, Facts
<1> QED BY <1>2, <1>3, <1>4, <1>5, DispatchMove

LEMMA FinishInv ==
  ASSUME IInv, Finish
  PROVE  IInv'
<1>1. PICK n \in 0..1, error \in BOOLEAN, key \in {"sync.done", "sync.attachments"}, r \in 0..2 :
        /\ mainq' = Append(mainq, [call |-> "status", row |-> Row(key, n, 0, error)])
        /\ sync' = [sync EXCEPT !.pc = "end", !.result = r]
  <2>1. CASE \E g \in Gates : gate[g]
    <3>1. /\ mainq' = Append(mainq, [call |-> "status", row |-> Row("sync.done", 0, 0, TRUE)])
          /\ sync' = [sync EXCEPT !.pc = "end", !.result = 0]
      BY <2>1 DEF Finish, Dispatch
    <3> WITNESS 0 \in 0..1, TRUE \in BOOLEAN, "sync.done" \in {"sync.done", "sync.attachments"},
                0 \in 0..2
    <3> QED BY <3>1
  <2>2. CASE ~(\E g \in Gates : gate[g])
    <3>1. PICK n \in 0..1 : Dispatch(CompletionRow(n))
                            /\ sync' = [sync EXCEPT !.pc = "end", !.result = n + 1]
      BY <2>2 DEF Finish
    <3> DEFINE key == IF n = 0 THEN "sync.done" ELSE "sync.attachments"
    <3>2. /\ mainq' = Append(mainq, [call |-> "status", row |-> Row(key, n, 0, FALSE)])
          /\ sync' = [sync EXCEPT !.pc = "end", !.result = n + 1]
      BY <3>1 DEF Dispatch, CompletionRow
    <3> WITNESS n \in 0..1, FALSE \in BOOLEAN, key \in {"sync.done", "sync.attachments"},
                n + 1 \in 0..2
    <3> QED BY <3>2
  <2> QED BY <2>1, <2>2
<1> PICK c : c = [call |-> "status", row |-> Row(key, n, 0, error)]
  OBVIOUS
<1>2. c \in Calls /\ c.call = "status" /\ mainq' = Append(mainq, c)
  <2>1. key \in Keys
    BY DEF Keys, SyncKeys
  <2> QED BY <1>1, <2>1 DEF Calls, Posted, Row
<1>3. UNCHANGED <<state, q, attach, painted, gate, pc, budget>> /\ sync.pc = "done"
  BY DEF Finish
<1>4. sync' \in Syncs /\ sync'.pc = "end"
  BY <1>1, Facts DEF Syncs
<1>5. budget' \in Budgets /\ budget'.mid = budget.mid
  BY <1>3, Facts
<1> QED BY <1>2, <1>3, <1>4, <1>5, DispatchMove

LEMMA SyncReturnsInv ==
  ASSUME IInv, SyncReturns
  PROVE  IInv'
<1> PICK c : c = [call |-> "finish", result |-> sync.result]
  OBVIOUS
<1>1. /\ mainq' = Append(mainq, c) /\ sync.pc = "end" /\ sync' = [sync EXCEPT !.pc = "finishing"]
      /\ UNCHANGED <<state, q, attach, painted, gate, pc, budget>>
  BY DEF SyncReturns
<1>2. /\ c \in Calls /\ c.call = "finish" /\ sync' \in Syncs /\ sync'.pc = "finishing"
      /\ budget' \in Budgets /\ budget'.mid = budget.mid
  BY <1>1, Facts DEF Calls, Syncs
<1> QED BY <1>1, <1>2, DispatchMove

-----------------------------------------------------------------------------
(* The main thread.                                                        *)

LEMMA OrderTail ==
  ASSUME mainq \in Seq(Calls), mainq # <<>>, SyncOrder, mainq' = Tail(mainq),
         UNCHANGED <<state, sync>>, Head(mainq).call = "status"
  PROVE  SyncOrder'
<1>1. /\ mainq' \in Seq(Calls) /\ Head(mainq) = mainq[1]
      /\ Len(mainq') = Len(mainq) - 1 /\ Len(mainq) \in Nat \ {0}
      /\ \A i \in 1..Len(mainq') : mainq'[i] = mainq[i + 1] /\ i + 1 \in 1..Len(mainq)
  BY TailFacts
<1>2. CASE sync.pc # "finishing"
  BY <1>1, <1>2 DEF SyncOrder, SyncRow
<1>3. CASE sync.pc = "finishing"
  <2>1. PICK i \in 1..Len(mainq) :
          /\ mainq[i].call = "finish"
          /\ \A j \in 1..Len(mainq) : j # i => mainq[j].call # "finish"
          /\ \A j \in i..Len(mainq) : ~SyncRow(mainq[j])
    BY <1>3 DEF SyncOrder
  <2>2. i # 1 /\ i - 1 \in 1..Len(mainq') /\ mainq'[i - 1] = mainq[i]
    BY <1>1, <2>1
  <2>3. \A j \in 1..Len(mainq') : j # i - 1 => mainq'[j].call # "finish"
    BY <1>1, <2>1
  <2>4. \A j \in (i - 1)..Len(mainq') : ~SyncRow(mainq'[j])
    <3> SUFFICES ASSUME NEW j \in (i - 1)..Len(mainq') PROVE ~SyncRow(mainq'[j])
      OBVIOUS
    <3>1. j \in 1..Len(mainq') /\ j + 1 \in i..Len(mainq)
      BY <1>1, <2>2
    <3> QED BY <1>1, <2>1, <3>1
  <2>5. sync'.pc = "finishing"
    BY <1>3
  <2> QED BY <2>1, <2>2, <2>3, <2>4, <2>5 DEF SyncOrder
<1> QED BY <1>2, <1>3

\* Nothing of the sync is dispatched after its end.
LEMMA FinishLast ==
  ASSUME mainq \in Seq(Calls), mainq # <<>>, SyncOrder, mainq' = Tail(mainq),
         Head(mainq).call = "finish"
  PROVE  /\ sync.pc = "finishing"
         /\ \A i \in 1..Len(mainq') : mainq'[i].call # "finish" /\ ~SyncRow(mainq'[i])
<1>1. /\ mainq' \in Seq(Calls) /\ Head(mainq) = mainq[1]
      /\ Len(mainq') = Len(mainq) - 1 /\ Len(mainq) \in Nat \ {0}
      /\ \A i \in 1..Len(mainq') : mainq'[i] = mainq[i + 1] /\ i + 1 \in 1..Len(mainq)
  BY TailFacts
<1>2. mainq[1].call = "finish" /\ 1 \in 1..Len(mainq)
  BY <1>1
<1>3. sync.pc = "finishing"
  BY <1>2 DEF SyncOrder
<1>4. PICK i \in 1..Len(mainq) :
        /\ mainq[i].call = "finish"
        /\ \A j \in 1..Len(mainq) : j # i => mainq[j].call # "finish"
        /\ \A j \in i..Len(mainq) : ~SyncRow(mainq[j])
  BY <1>3 DEF SyncOrder
<1>5. i = 1
  BY <1>2, <1>4
<1> QED BY <1>1, <1>3, <1>4, <1>5

LEMMA SetStateFacts ==
  ASSUME IInv, NEW new \in States, NEW n \in 0..1, SetState(new, n)
  PROVE  /\ q' \in Queues /\ (q'.cur = NoRow => q'.queue = <<>>)
         /\ ~LeavesSyncing => q' = q
         /\ LeavesSyncing => RowsOf(q') = {NoRow}
         /\ state' = new /\ painted' \in Views /\ painted' = Snapshot(new, q'.cur, n)
<1>1. state' = new /\ q' = AfterState(q, state, new) /\ painted' = Snapshot(new, q'.cur, n)
  BY DEF SetState, Notify
<1>2. CASE LeavesSyncing
  <2>1. q' = [cur |-> NoRow, queue |-> <<>>, age |-> 0, timer |-> NoTimer]
    BY <1>1, <1>2 DEF AfterState, LeavesSyncing
  <2>2. 0 \in 0..Dwell /\ NoTimer \in NoTimer..Dwell /\ <<>> \in Seq(Posted) /\ Range(<<>>) = {}
    BY BoundsAssumption DEF NoTimer, Range
  <2>3. q' \in Queues /\ RowsOf(q') = {NoRow}
    BY <2>1, <2>2 DEF Queues, RowsOf
  <2> QED BY <1>1, <1>2, <2>1, <2>3, SnapshotFits, RowFacts
<1>3. CASE ~LeavesSyncing
  <2>1. q' = q
    BY <1>1, <1>3 DEF AfterState, LeavesSyncing
  <2> QED BY <1>1, <1>3, <2>1, SnapshotFits, Facts
<1> QED BY <1>2, <1>3

\* The steps of the main thread that set the state.
LEMMA StateMove ==
  ASSUME IInv, NEW new \in States, NEW n \in 0..1, SetState(new, n), attach' = n,
         UNCHANGED gate, Moves, SyncOrder', NoneStale'
  PROVE  IInv'
<1>1. /\ q' \in Queues /\ (q'.cur = NoRow => q'.queue = <<>>)
      /\ state' = new /\ painted' \in Views /\ painted' = Snapshot(new, q'.cur, n)
  BY SetStateFacts
<1>2. TypeOK' /\ QInv'
  BY <1>1, TypesFit
<1>3. Snapshot(state, q.cur, attach)' = Snapshot(new, q'.cur, n)
  <2>1. SteadyText(state, attach)' = SteadyText(new, n)
    BY <1>1 DEF SteadyText, FailedOnMain
  <2>2. (\E g \in Gates : FailedOnMain(g))' <=> \E g \in Gates : FailedOnMain(g)
    BY DEF FailedOnMain
  <2> QED BY <1>1, <2>1, <2>2 DEF Snapshot
<1> QED BY <1>1, <1>2, <1>3 DEF IInv, Drawn

LEMMA StartSyncInv ==
  ASSUME IInv, NEW retry \in BOOLEAN, StartSync(retry)
  PROVE  IInv'
<1>1. /\ sync.pc = "idle" /\ budget.sync > 0 /\ (retry => budget.clear > 0)
      /\ sync' = [sync EXCEPT !.pc = IF retry THEN "worker" ELSE "work",
                              !.phase = 1, !.unit = 0, !.result = 0]
      /\ budget' = [budget EXCEPT !.sync = @ - 1, !.clear = IF retry THEN @ - 1 ELSE @]
      /\ SetState("Syncing", attach) /\ UNCHANGED <<attach, mainq, gate, pc>>
  BY DEF StartSync
<1>2. sync' \in Syncs /\ sync'.pc \in {"worker", "work"}
  <2>1. 1 \in 1..Len(Phases)
    BY BoundsAssumption
  <2>2. PICK p \in {"worker", "work"}, f \in 1..Len(Phases), u \in 0..1, r \in 0..2 :
          sync' = [sync EXCEPT !.pc = p, !.phase = f, !.unit = u, !.result = r]
    <3> PICK p : p = IF retry THEN "worker" ELSE "work"
      OBVIOUS
    <3>1. sync' = [sync EXCEPT !.pc = p, !.phase = 1, !.unit = 0, !.result = 0]
      BY <1>1
    <3>2. p \in {"worker", "work"} /\ 0 \in 0..1 /\ 0 \in 0..2
      OBVIOUS
    <3> QED BY <2>1, <3>1, <3>2, Zenon
  <2> QED BY <2>2, Facts DEF Syncs
<1>3. budget' \in Budgets /\ budget'.mid = budget.mid
  <2>1. {MaxEvents, MaxFails, MaxClears, MaxSyncs, MaxMid} \subseteq Nat
    BY BoundsAssumption
  <2>2. PICK b, c : /\ budget' = [budget EXCEPT !.sync = b, !.clear = c]
                    /\ b = budget.sync - 1
                    /\ c = IF retry THEN budget.clear - 1 ELSE budget.clear
    BY <1>1
  <2>3. b \in 0..MaxSyncs /\ c \in 0..MaxClears
    BY SMTT(30), <1>1, <2>1, <2>2, Facts DEF Budgets
  <2> QED BY <2>2, <2>3, Facts DEF Budgets
<1>4. Moves
  BY <1>1, <1>2, <1>3, Facts DEF Moves
<1>5. "Syncing" \in States /\ attach \in 0..1 /\ state' = "Syncing"
  BY <1>1, Facts DEF States, SetState
<1>6. SyncOrder'
  BY <1>1, <1>2, Facts DEF SyncOrder, SyncRow
<1>7. NoneStale'
  BY <1>2, <1>5 DEF NoneStale
<1> QED BY <1>1, <1>4, <1>5, <1>6, <1>7, StateMove

LEMMA SyncDidFinishInv ==
  ASSUME IInv, SyncDidFinish
  PROVE  IInv'
<1>1. /\ mainq # <<>> /\ Head(mainq).call = "finish" /\ mainq' = Tail(mainq)
      /\ sync' = [sync EXCEPT !.pc = "idle"] /\ UNCHANGED <<gate, pc, budget>>
  BY DEF SyncDidFinish
<1>2. /\ mainq' \in Seq(Calls) /\ Head(mainq) \in Calls
      /\ sync.pc = "finishing"
      /\ \A i \in 1..Len(mainq') : mainq'[i].call # "finish" /\ ~SyncRow(mainq'[i])
  BY <1>1, Facts, TailFacts, FinishLast
<1>3. PICK new \in EngineStates \cup {"Live", "Error"} : SetState(new, attach')
  BY DEF SyncDidFinish
<1>4. new \in States /\ new # "Syncing"
  BY BoundsAssumption DEF States
<1>5. attach' \in 0..1
  <2>1. Head(mainq).result \in 0..2
    BY <1>1, <1>2 DEF Calls
  <2>2. attach' = IF Head(mainq).result > 0 THEN Head(mainq).result - 1 ELSE attach
    BY DEF SyncDidFinish
  <2> QED BY <2>1, <2>2, Facts
<1>6. /\ sync' \in Syncs /\ sync'.pc = "idle" /\ state' = new
      /\ LeavesSyncing => RowsOf(q') = {NoRow}
  BY <1>1, <1>3, <1>4, <1>5, SetStateFacts, Facts DEF Syncs
<1>7. Moves
  BY <1>1, <1>2, <1>6, Facts DEF Moves
<1>8. SyncOrder'
  BY <1>2, <1>4, <1>6 DEF SyncOrder, SyncRow
<1>9. NoneStale'
  <2> SUFFICES ASSUME budget'.mid = MaxMid
               PROVE  \A r \in RowsOf(q') : r.key \notin SyncKeys
    BY <1>6 DEF NoneStale, RowsOf
  <2>1. state = "Syncing"
    BY <1>1, <1>2, Facts DEF NoneStale
  <2>2. RowsOf(q') = {NoRow}
    BY <1>4, <1>6, <2>1 DEF LeavesSyncing
  <2> QED BY <2>2, RowFacts
<1> QED BY <1>1, <1>3, <1>4, <1>5, <1>7, <1>8, <1>9, StateMove

LEMMA EngineStateInv ==
  ASSUME IInv, NEW new \in EngineStates, EngineState(new)
  PROVE  IInv'
<1>1. /\ budget.event > 0 /\ (sync.pc # "idle" => budget.mid > 0)
      /\ SetState(new, attach) /\ UNCHANGED <<attach, mainq, gate, pc, sync>>
      /\ budget' = [budget EXCEPT !.event = @ - 1,
                                  !.mid = IF sync.pc = "idle" THEN @ ELSE @ - 1]
  BY DEF EngineState
<1>2. new \in States /\ new # "Syncing" /\ attach \in 0..1
  BY BoundsAssumption, Facts
<1>3. /\ budget' \in Budgets
      /\ budget'.mid = IF sync.pc = "idle" THEN budget.mid ELSE budget.mid - 1
  <2>1. {MaxEvents, MaxFails, MaxClears, MaxSyncs, MaxMid} \subseteq Nat
    BY BoundsAssumption
  <2>2. PICK b, c : /\ budget' = [budget EXCEPT !.event = b, !.mid = c]
                    /\ b = budget.event - 1
                    /\ c = IF sync.pc = "idle" THEN budget.mid ELSE budget.mid - 1
    BY <1>1
  <2>3. b \in 0..MaxEvents /\ c \in 0..MaxMid
    BY SMTT(30), <1>1, <2>1, <2>2, Facts DEF Budgets
  <2> QED BY <2>2, <2>3, Facts DEF Budgets
<1>4. Moves
  BY <1>1, <1>3, Facts DEF Moves
<1>5. /\ state' = new /\ (~LeavesSyncing => q' = q)
  BY <1>1, <1>2, SetStateFacts
<1>6. SyncOrder'
  BY <1>1, <1>2, <1>5, Facts DEF SyncOrder, SyncRow
<1>7. NoneStale'
  <2> SUFFICES ASSUME budget'.mid = MaxMid PROVE NoneStale'
    BY DEF NoneStale
  <2>1. sync.pc = "idle"
    BY SMTT(30), <1>3, Facts, BoundsAssumption DEF Budgets
  <2>2. state # "Syncing" /\ q' = q
    BY <1>5, <2>1, Facts DEF SyncOrder, LeavesSyncing
  <2> QED BY <1>1, <1>3, <2>1, <2>2, Facts DEF NoneStale
<1> QED BY <1>1, <1>2, <1>4, <1>6, <1>7, StateMove

\* What a dispatched post does to the queue and the screen.
LEMMA NoteFacts ==
  ASSUME IInv, HandleStatusNote
  PROVE  LET row == Head(mainq).row
             now == IF row.key = q.cur.key THEN row ELSE q.cur
         IN
         /\ mainq # <<>> /\ Head(mainq).call = "status" /\ mainq' = Tail(mainq)
         /\ row \in Posted /\ row = mainq[1].row /\ mainq[1].call = "status"
         /\ q' \in Queues /\ (q'.cur = NoRow => q'.queue = <<>>)
         /\ RowsOf(q') \subseteq RowsOf(q) \cup {row, NoRow}
         /\ \/ painted' = Snapshot(state, q'.cur, attach)
            \/ painted' = painted /\ q'.cur = q.cur /\ q.cur # NoRow
         /\ q.cur # NoRow /\ q'.cur.key # q.cur.key =>
              ~now.error /\ (q.age = Dwell \/ Complete(now))
<1> DEFINE row == Head(mainq).row
           waiting == WaitingAt(q, row.key)
<1>1. /\ mainq # <<>> /\ Head(mainq).call = "status" /\ mainq' = Tail(mainq)
  BY DEF HandleStatusNote
<1>2. /\ row \in Posted /\ Head(mainq) = mainq[1]
  BY <1>1, TailFacts, Facts DEF Calls
<1>3. /\ q \in Queues /\ q.queue \in Seq(Posted) /\ q.cur \in Posted \cup {NoRow}
      /\ q.age \in 0..Dwell /\ (q.cur = NoRow => q.queue = <<>>) /\ row # NoRow
      /\ (q.cur # NoRow => q.cur \in Posted) /\ row.error \in BOOLEAN
  BY <1>2, Facts, RowFacts DEF Queues, Posted
<1>4. CASE q.cur.key = row.key /\ UpdateCurrent(row)
  <2> DEFINE updated == [q EXCEPT !.cur = row]
             once == Promote(updated, state)
  <2>1. /\ updated \in Queues /\ updated.cur = row /\ updated.queue = q.queue /\ updated.age = q.age
    BY <1>2, <1>3 DEF Queues
  <2>2. RowsOf(updated) \subseteq RowsOf(q) \cup {row, NoRow}
    BY <2>1 DEF RowsOf
  <2>3. q.cur # NoRow
    <3>1. row.key # "none"
      BY <1>2, KeysAssumption DEF Posted
    <3> QED BY <1>4, <3>1, RowFacts
  <2> HIDE DEF updated
  <2>4. /\ once \in Queues /\ (once.cur = NoRow => once.queue = <<>>)
        /\ RowsOf(once) \subseteq RowsOf(updated) \cup {NoRow}
    BY <2>1, PromoteFacts
  <2> HIDE DEF once
  <2>5. PICK d \in {updated, once, Promote(once, state)} :
          /\ q' = d /\ painted' = Snapshot(state, q'.cur, attach)
          /\ d = updated \/ (~row.error /\ Complete(row))
    BY <1>4, <2>1 DEF UpdateCurrent, Notify, updated, once
  <2>6. /\ d \in Queues /\ (d.cur = NoRow => d.queue = <<>>)
        /\ RowsOf(d) \subseteq RowsOf(updated) \cup {NoRow}
    <3>1. CASE d = updated
      BY <1>3, <2>1, <3>1
    <3>2. CASE d = once
      BY <2>4, <3>2
    <3>3. CASE d = Promote(once, state)
      BY <2>4, <3>3, PromoteFacts
    <3> QED BY <3>1, <3>2, <3>3
  <2>7. d = updated => d.cur.key = q.cur.key
    BY <1>4, <2>1
  <2> HIDE DEF row
  <2>8. q.cur # NoRow /\ q'.cur.key # q.cur.key => ~row.error /\ (q.age = Dwell \/ Complete(row))
    BY <2>5, <2>7
  <2>9. RowsOf(q') \subseteq RowsOf(q) \cup {row, NoRow}
    BY <2>2, <2>5, <2>6
  <2> QED BY <1>1, <1>2, <1>4, <2>5, <2>6, <2>8, <2>9 DEF row
<1>5. ASSUME q.cur.key # row.key, NEW i \in waiting, UpdateWaiting(row, i)
      PROVE  /\ q' \in Queues /\ q'.cur = q.cur /\ q.cur # NoRow /\ painted' = painted
             /\ RowsOf(q') \subseteq RowsOf(q) \cup {row, NoRow}
  <2> HIDE DEF row
  <2>1. i \in 1..Len(q.queue) /\ q.queue # <<>> /\ DOMAIN q.queue = 1..Len(q.queue)
    BY <1>3, <1>5 DEF WaitingAt
  <2>2. /\ q'.queue = [q.queue EXCEPT ![i] = row] /\ q'.cur = q.cur /\ painted' = painted
        /\ q'.queue \in Seq(Posted) /\ q' = [q EXCEPT !.queue = [q.queue EXCEPT ![i] = row]]
    BY <1>2, <1>3, <1>5, <2>1 DEF UpdateWaiting, Queues, row
  <2>3. q' \in Queues
    <3> PICK sq : sq = [q.queue EXCEPT ![i] = row]
      OBVIOUS
    <3>1. sq \in Seq(Posted) /\ q' = [q EXCEPT !.queue = sq]
      BY <2>2
    <3> QED BY <1>3, <3>1 DEF Queues
  <2>4. RowsOf(q') \subseteq RowsOf(q) \cup {row, NoRow}
    BY <1>3, <2>1, <2>2 DEF RowsOf, Range
  <2> QED BY <1>3, <2>1, <2>2, <2>3, <2>4
<1>6. CASE q.cur.key # row.key /\ Enqueue(row)
  <2> DEFINE queued == [q EXCEPT !.queue = Append(@, row)]
  <2> HIDE DEF row
  <2>1. /\ queued.cur = q.cur /\ queued.age = q.age /\ queued.queue = Append(q.queue, row)
        /\ Append(q.queue, row) \in Seq(Posted) /\ Append(q.queue, row) # <<>>
    BY <1>2, <1>3, AppendFacts DEF Queues, row
  <2>2. queued \in Queues
    <3> PICK sq : sq = Append(q.queue, row)
      OBVIOUS
    <3>1. sq \in Seq(Posted) /\ queued = [q EXCEPT !.queue = sq]
      BY <2>1
    <3> HIDE DEF queued
    <3> QED BY <1>3, <3>1 DEF Queues
  <2>3. RowsOf(queued) \subseteq RowsOf(q) \cup {row, NoRow}
    <3>1. Range(Append(q.queue, row)) \subseteq Range(q.queue) \cup {row}
      <4>1. /\ Len(Append(q.queue, row)) = Len(q.queue) + 1 /\ Len(q.queue) \in Nat
            /\ \A i \in 1..Len(q.queue) : Append(q.queue, row)[i] = q.queue[i]
            /\ Append(q.queue, row)[Len(q.queue) + 1] = row
        BY <1>2, <1>3, AppendFacts DEF row
      <4>2. /\ DOMAIN Append(q.queue, row) = 1..(Len(q.queue) + 1)
            /\ DOMAIN q.queue = 1..Len(q.queue)
        BY <1>3, <2>1, <4>1
      <4>3. \A i \in 1..(Len(q.queue) + 1) : i \in 1..Len(q.queue) \/ i = Len(q.queue) + 1
        BY <4>1
      <4> QED BY <4>1, <4>2, <4>3 DEF Range
    <3> QED BY <2>1, <3>1 DEF RowsOf
  <2>4. /\ q' = Promote(queued, state)
        /\ painted' = IF Redraws(queued, state) THEN Snapshot(state, q'.cur, attach) ELSE painted
    BY <1>6 DEF Enqueue, Notify
  <2>5. queued.cur # NoRow \/ Redraws(queued, state)
    BY <2>1, RowFacts DEF Redraws, Dwelling
  <2> HIDE DEF queued
  <2>6. /\ q' \in Queues /\ (q'.cur = NoRow => q'.queue = <<>>)
        /\ RowsOf(q') \subseteq RowsOf(queued) \cup {NoRow}
        /\ (~Redraws(queued, state) => q'.cur = queued.cur)
        /\ q'.cur # queued.cur /\ queued.cur # NoRow =>
              ~queued.cur.error /\ (queued.age = Dwell \/ Complete(queued.cur))
    BY <2>2, <2>4, PromoteFacts
  <2>7. q.cur # NoRow /\ q'.cur.key # q.cur.key =>
              ~q.cur.error /\ (q.age = Dwell \/ Complete(q.cur))
    BY <2>1, <2>6
  <2>8. \/ painted' = Snapshot(state, q'.cur, attach)
        \/ painted' = painted /\ q'.cur = q.cur /\ q.cur # NoRow
    BY <2>1, <2>4, <2>5, <2>6
  <2>9. RowsOf(q') \subseteq RowsOf(q) \cup {row, NoRow}
    BY <2>3, <2>6
  <2> QED BY <1>1, <1>2, <1>6, <2>6, <2>7, <2>8, <2>9 DEF row
<1>7. \/ q.cur.key = row.key /\ UpdateCurrent(row)
      \/ q.cur.key # row.key /\ \E i \in waiting : UpdateWaiting(row, i)
      \/ q.cur.key # row.key /\ Enqueue(row)
  BY DEF HandleStatusNote
<1>8. CASE q.cur.key # row.key /\ \E i \in waiting : UpdateWaiting(row, i)
  BY <1>1, <1>2, <1>5, <1>8
<1> QED BY <1>4, <1>6, <1>7, <1>8

LEMMA HandleStatusNoteInv ==
  ASSUME IInv, HandleStatusNote
  PROVE  IInv'
<1> DEFINE row == Head(mainq).row
<1>1. /\ mainq # <<>> /\ Head(mainq).call = "status" /\ mainq' = Tail(mainq)
      /\ row \in Posted /\ row = mainq[1].row /\ mainq[1].call = "status"
      /\ q' \in Queues /\ (q'.cur = NoRow => q'.queue = <<>>)
      /\ RowsOf(q') \subseteq RowsOf(q) \cup {row, NoRow}
      /\ \/ painted' = Snapshot(state, q'.cur, attach)
         \/ painted' = painted /\ q'.cur = q.cur /\ q.cur # NoRow
  BY NoteFacts
<1>2. UNCHANGED <<state, attach, gate, pc, sync, budget>>
  BY DEF HandleStatusNote
<1>3. Moves
  BY <1>1, <1>2, Facts, TailFacts DEF Moves
<1>4. q'.cur \in Rows /\ state \in States
  BY <1>1, RowFacts, Facts DEF Queues
<1>5. painted' \in Views
  BY <1>1, <1>4, Facts, SnapshotFits
<1>6. TypeOK' /\ QInv'
  BY <1>1, <1>2, <1>3, <1>5, Facts, TypesFit
<1>7. Snapshot(state, q.cur, attach)' = Snapshot(state, q'.cur, attach)
  BY <1>2 DEF Snapshot, SteadyText, FailedOnMain
<1>8. Drawn'
  <2>1. CASE painted' = Snapshot(state, q'.cur, attach)
    BY <1>7, <2>1 DEF Drawn
  <2>2. CASE painted' = painted /\ q'.cur = q.cur /\ q.cur # NoRow
    BY <1>7, <2>2, Facts DEF Drawn
  <2> QED BY <1>1, <2>1, <2>2
<1>9. SyncOrder'
  BY <1>1, <1>2, Facts, OrderTail
<1>10. NoneStale'
  <2>1. ASSUME sync.pc = "idle" PROVE row.key \notin SyncKeys
    <3>1. 1 \in 1..Len(mainq)
      BY <1>1, Facts, TailFacts
    <3>2. ~SyncRow(mainq[1])
      BY <2>1, <3>1, Facts DEF SyncOrder
    <3> QED BY <1>1, <3>2 DEF SyncRow
  <2> HIDE DEF row
  <2>2. ASSUME budget'.mid = MaxMid, sync'.pc = "idle"
        PROVE  \A r \in RowsOf(q') : r.key \notin SyncKeys
    <3>1. \A r \in RowsOf(q) : r.key \notin SyncKeys
      BY <1>2, <2>2, Facts DEF NoneStale, RowsOf
    <3> QED BY <1>1, <1>2, <2>1, <2>2, <3>1, RowFacts
  <2> QED BY <1>2, <2>2, Facts DEF NoneStale, RowsOf
<1> QED BY <1>6, <1>8, <1>9, <1>10 DEF IInv

\* The timer, or time itself.
LEMMA TimerFacts ==
  ASSUME IInv, PromoteTimerFired
  PROVE  /\ q' \in Queues /\ (q'.cur = NoRow => q'.queue = <<>>)
         /\ RowsOf(q') \subseteq RowsOf(q) \cup {NoRow}
         /\ \/ painted' = Snapshot(state, q'.cur, attach)
            \/ painted' = painted /\ q'.cur = q.cur
         /\ q'.cur # q.cur /\ q.cur # NoRow => ~q.cur.error /\ (q.age = Dwell \/ Complete(q.cur))
<1> DEFINE fired == [q EXCEPT !.timer = NoTimer]
<1>1. /\ q' = Promote(fired, state)
      /\ painted' = IF Redraws(fired, state) THEN Snapshot(state, q'.cur, attach) ELSE painted
  BY DEF PromoteTimerFired, Notify
<1>2. /\ fired \in Queues /\ fired.cur = q.cur /\ fired.queue = q.queue /\ fired.age = q.age
  <2>1. NoTimer \in NoTimer..Dwell
    BY BoundsAssumption DEF NoTimer
  <2> QED BY <2>1, Facts DEF Queues
<1>3. RowsOf(fired) = RowsOf(q)
  BY <1>2 DEF RowsOf
<1> HIDE DEF fired
<1>4. /\ q' \in Queues /\ (q'.cur = NoRow => q'.queue = <<>>)
      /\ RowsOf(q') \subseteq RowsOf(fired) \cup {NoRow}
      /\ (~Redraws(fired, state) => q'.cur = fired.cur)
      /\ q'.cur # fired.cur /\ fired.cur # NoRow =>
            ~fired.cur.error /\ (fired.age = Dwell \/ Complete(fired.cur))
  BY <1>1, <1>2, PromoteFacts
<1> QED BY <1>1, <1>2, <1>3, <1>4

LEMMA TickFacts ==
  ASSUME IInv, Tick
  PROVE  q' \in Queues /\ q'.cur = q.cur /\ q'.queue = q.queue
<1>1. PICK a, t : /\ q' = [q EXCEPT !.age = a, !.timer = t]
                  /\ a = IF q.cur # NoRow /\ q.age < Dwell THEN q.age + 1 ELSE q.age
                  /\ t = IF q.timer > 0 THEN q.timer - 1 ELSE q.timer
  BY DEF Tick
<1>2. a \in 0..Dwell /\ t \in NoTimer..Dwell
  BY SMTT(30), <1>1, Facts, BoundsAssumption DEF Queues, NoTimer
<1> QED BY <1>1, <1>2, Facts DEF Queues

LEMMA ClockInv ==
  ASSUME IInv, PromoteTimerFired \/ Tick
  PROVE  IInv'
<1>1. UNCHANGED <<state, attach, mainq, gate, pc, sync, budget>>
  BY DEF PromoteTimerFired, Tick
<1>2. /\ q' \in Queues /\ (q'.cur = NoRow => q'.queue = <<>>)
      /\ RowsOf(q') \subseteq RowsOf(q) \cup {NoRow}
      /\ \/ painted' = Snapshot(state, q'.cur, attach)
         \/ painted' = painted /\ q'.cur = q.cur
  <2>1. CASE PromoteTimerFired
    BY <2>1, TimerFacts
  <2>2. CASE Tick
    BY <2>2, TickFacts, Facts DEF RowsOf, Tick
  <2> QED BY <2>1, <2>2
<1>3. Moves
  BY <1>1, Facts DEF Moves
<1>4. q'.cur \in Rows /\ state \in States
  BY <1>2, RowFacts, Facts DEF Queues
<1>5. painted' \in Views
  BY <1>2, <1>4, Facts, SnapshotFits
<1>6. TypeOK' /\ QInv'
  BY <1>1, <1>2, <1>3, <1>5, Facts, TypesFit
<1>7. Snapshot(state, q.cur, attach)' = Snapshot(state, q'.cur, attach)
  BY <1>1 DEF Snapshot, SteadyText, FailedOnMain
<1>8. Drawn'
  <2>1. CASE painted' = Snapshot(state, q'.cur, attach)
    BY <1>7, <2>1 DEF Drawn
  <2>2. CASE painted' = painted /\ q'.cur = q.cur
    <3>1. Quiet' <=> Quiet
      BY <1>1 DEF Quiet
    <3> QED BY <1>7, <2>2, <3>1, Facts DEF Drawn
  <2> QED BY <1>2, <2>1, <2>2
<1>9. SyncOrder'
  BY <1>1, Facts DEF SyncOrder, SyncRow
<1>10. NoneStale'
  BY <1>1, <1>2, Facts, RowFacts DEF NoneStale, RowsOf
<1> QED BY <1>6, <1>8, <1>9, <1>10 DEF IInv

-----------------------------------------------------------------------------
(* The specification.                                                      *)

LEMMA StutterInv ==
  ASSUME IInv, UNCHANGED vars
  PROVE  IInv'
BY ZenonT(40) DEF IInv, TypeOK, QInv, Drawn, Quiet, Snapshot, SteadyText, FailedOnMain, SyncOrder,
       SyncRow, NoneStale, vars

LEMMA NextInv ==
  ASSUME IInv, [Next]_vars
  PROVE  IInv'
<1>1. CASE HandleStatusNote
  BY <1>1, HandleStatusNoteInv
<1>2. CASE SyncDidFinish
  BY <1>2, SyncDidFinishInv
<1>3. CASE PromoteTimerFired \/ Tick
  BY <1>3, ClockInv
<1>4. CASE \E key \in Activities : PostActivity(key)
  BY <1>4, PostActivityInv
<1>5. CASE \E t \in Threads, g \in Gates : SetFailure(t, g)
  BY <1>5, SetFailureInv
<1>6. CASE ClearFailure
  BY <1>6, ClearFailureInv
<1>7. CASE \E t \in Posters : PostGate(t)
  BY <1>7, PostGateInv
<1>8. CASE \E retry \in BOOLEAN : StartSync(retry)
  BY <1>8, StartSyncInv
<1>9. CASE RetryClears
  BY <1>9, RetryClearsInv
<1>10. CASE Report \/ ReportError
  BY <1>10, ReportInv
<1>11. CASE Finish
  BY <1>11, FinishInv
<1>12. CASE SyncReturns
  BY <1>12, SyncReturnsInv
<1>13. CASE \E new \in EngineStates : EngineState(new)
  BY <1>13, EngineStateInv
<1>14. CASE UNCHANGED vars
  BY <1>14, StutterInv
<1> QED BY <1>1, <1>2, <1>3, <1>4, <1>5, <1>6, <1>7, <1>8, <1>9, <1>10, <1>11, <1>12, <1>13,
           <1>14 DEF Next, Main, Working

LEMMA InitInv ==
  ASSUME Init
  PROVE  IInv
<1>1. /\ 1 \in 1..Len(Phases) /\ Dwell \in Nat \ {0} /\ Range(<<>>) = {} /\ <<>> \in Seq(Posted)
      /\ <<>> \in Seq(Rows) /\ <<>> \in Seq(Calls)
      /\ {MaxEvents, MaxFails, MaxClears, MaxSyncs, MaxMid} \subseteq Nat
  <2>1. Len(Phases) \in Nat /\ Len(Phases) # 0
    BY BoundsAssumption
  <2> QED BY <2>1, BoundsAssumption DEF Range
<1>2. q \in Queues /\ q \in [cur : Rows, queue : Seq(Rows), age : 0..Dwell, timer : NoTimer..Dwell]
  BY <1>1, RowFacts DEF Init, Queues, NoTimer
<1>3. budget \in Budgets
  BY <1>1 DEF Init, Budgets
<1>4. sync \in Syncs
  BY <1>1 DEF Init, Syncs
<1>5. painted \in Views
  BY RowFacts DEF Init, Views, Texts, States
<1>6. pc \in [Posters -> Rows] /\ gate \in [Gates -> BOOLEAN] /\ \A t \in Posters : pc[t] = Idle
  BY RowFacts DEF Init
<1>7. TypeOK
  BY <1>2, <1>3, <1>4, <1>5, <1>6 DEF TypeOK, Budgets, Syncs, Views, Init, States
<1>8. QInv
  BY <1>1, <1>2, <1>6 DEF QInv, Init
<1>9. Drawn
  BY <1>6 DEF Drawn, Snapshot, SteadyText, FailedOnMain, Init, Gates
<1>10. SyncOrder /\ NoneStale
  BY <1>1, RowFacts DEF SyncOrder, NoneStale, Init
<1> QED BY <1>7, <1>8, <1>9, <1>10 DEF IInv

\* The row on the screen is replaced by promote, or dropped with the state.
LEMMA DwellStep ==
  ASSUME IInv, [Next]_vars, q.cur # NoRow, q'.cur.key # q.cur.key, ~LeavesSyncing
  PROVE  ~RowNow.error /\ (q.age = Dwell \/ Complete(RowNow))
<1>1. CASE HandleStatusNote
  <2> PICK row : row = Head(mainq).row
    OBVIOUS
  <2> PICK now : now = IF row.key = q.cur.key THEN row ELSE q.cur
    OBVIOUS
  <2>1. /\ mainq # <<>> /\ Head(mainq).call = "status" /\ mainq' = Tail(mainq)
        /\ ~now.error /\ (q.age = Dwell \/ Complete(now))
    BY <1>1, NoteFacts
  <2>2. RowNow = now
    BY <2>1 DEF RowNow
  <2> QED BY <2>1, <2>2
<1>2. CASE PromoteTimerFired
  <2>1. mainq' = mainq
    BY <1>2 DEF PromoteTimerFired
  <2>2. ~(mainq # <<>> /\ mainq' = Tail(mainq))
    BY <2>1, Facts, TailFacts
  <2>3. RowNow = q.cur
    BY <2>2 DEF RowNow
  <2> QED BY <1>2, <2>3, TimerFacts
<1>3. CASE Tick
  BY <1>3, TickFacts
<1>4. CASE \E new \in States, n \in 0..1 : SetState(new, n)
  BY <1>4, SetStateFacts
<1>5. CASE SyncDidFinish
  <2>1. PICK new \in EngineStates \cup {"Live", "Error"} : SetState(new, attach')
    BY <1>5 DEF SyncDidFinish
  <2>2. new \in States
    BY BoundsAssumption DEF States
  <2>3. attach' \in 0..1
    BY <1>5, SyncDidFinishInv, Facts DEF IInv, TypeOK
  <2> QED BY <1>4, <2>1, <2>2, <2>3
<1>6. CASE \E retry \in BOOLEAN : StartSync(retry)
  <2>1. SetState("Syncing", attach) /\ "Syncing" \in States /\ attach \in 0..1
    BY <1>6, Facts DEF StartSync, States
  <2> QED BY <1>4, <2>1
<1>7. CASE \E new \in EngineStates : EngineState(new)
  <2>1. PICK new \in EngineStates : SetState(new, attach)
    BY <1>7 DEF EngineState
  <2>2. new \in States /\ attach \in 0..1
    BY BoundsAssumption, Facts
  <2> QED BY <1>4, <2>1, <2>2
<1>8. ~(UNCHANGED q)
  OBVIOUS
<1> QED BY <1>1, <1>2, <1>3, <1>5, <1>6, <1>7, <1>8
        DEF Next, Main, Working, PostActivity, SetFailure, ClearFailure, PostGate, RetryClears,
            Report, ReportError, Finish, SyncReturns, vars

\* The invariant holds of every reachable state: a post, a sync's end, the timer
\* and the state changes of the engine all keep it, whatever their order.
THEOREM Inductive == Spec => []IInv
<1>1. Init => IInv
  BY InitInv
<1>2. IInv /\ [Next]_vars => IInv'
  BY NextInv
<1> QED BY <1>1, <1>2, PTL DEF Spec

\* Every row, gate, dispatched call and timer stays within its type: the age of
\* the current row and the time left to the timer never exceed the minimum time.
THEOREM TypeCorrect == Spec => []TypeOK
<1>1. IInv => TypeOK
  BY DEF IInv
<1> QED BY <1>1, Inductive, PTL

\* Once no post is under way, the view shows the current row, bar, text and
\* colour, although it draws only when notifyChange asks it to.
THEOREM ShowsCurrent == Spec => []PaintedCurrent
<1>1. IInv => PaintedCurrent
  BY DEF IInv, Drawn, PaintedCurrent
<1> QED BY <1>1, Inductive, PTL

\* A sync that the engine did not leave early takes all of its rows with it
\* (updateForState), those still dispatched to the main thread included.
THEOREM NoRowLeftBehind == Spec => []StaleRowsGone
<1>1. IInv => StaleRowsGone
  BY DEF IInv, NoneStale, StaleRowsGone
<1> QED BY <1>1, Inductive, PTL

\* A row is replaced only when it is no error and has had its minimum time or is
\* complete (promote), or when a sync ends.
THEOREM MinimumTime == Spec => DwellKept
<1>1. IInv /\ [Next]_vars =>
        [q.cur # NoRow /\ q'.cur.key # q.cur.key /\ ~LeavesSyncing =>
           ~RowNow.error /\ (q.age = Dwell \/ Complete(RowNow))]_vars
  BY DwellStep
<1> QED BY <1>1, Inductive, PTL DEF Spec, DwellKept
=============================================================================
