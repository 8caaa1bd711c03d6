---------------------------- MODULE StatusQueue ----------------------------
(***************************************************************************)
(* The status row of one account's window: ENILSyncStatusQueue, the view   *)
(* that paints it, and what feeds it.                                      *)
(*                                                                         *)
(* Background threads set and clear the health gates and post rows; every  *)
(* post is dispatched to the main thread, first in, first out, and so is   *)
(* the end of a sync.  The queue shows one row at a time: a post with the  *)
(* key of a shown or waiting row updates that row, a new row waits until   *)
(* the shown one has been up for the minimum time or is complete, and an   *)
(* error row stays until a post of its own key supersedes it.              *)
(*                                                                         *)
(* A row is its key, its progress and whether it is an error; the text     *)
(* follows from them.  Time is counted in ticks of the row's minimum time. *)
(***************************************************************************)
EXTENDS Integers, Sequences, FiniteSets, SequencesExt

CONSTANTS Threads,       \* stream, send and refresh threads of the account
          Dwell,         \* kENILSyncMiniMinDisplaySec in ticks
          Activities,    \* keys of the transient rows (send, received message)
          Phases,        \* keys of the sync's phases, in order
          EngineStates,  \* states the engine sets besides a sync's own
          MaxEvents,     \* bound on transient rows and the engine's own state changes
          MaxFails,      \* bound on failures that set a gate
          MaxClears,     \* bound on gates cleared by the user
          MaxSyncs,      \* bound on syncs
          MaxMid         \* bound on state changes made while a sync runs

States == {"NeverSynced", "Live", "SyncNeeded", "Error", "ReauthNeeded",
           "Syncing", "Reconnecting", "Offline"}
Gates == {"worker", "line"}
GateKey == [worker |-> "error.worker", line |-> "error.line"]

ASSUME BoundsAssumption ==
  /\ Dwell \in Nat \ {0}
  /\ {MaxEvents, MaxFails, MaxClears, MaxSyncs, MaxMid} \subseteq Nat
  /\ EngineStates \subseteq States \ {"Syncing"}
  /\ Phases \in Seq(STRING) /\ Phases # <<>> /\ Activities \subseteq STRING

VARIABLES
  state,     \* syncState_, the account's and the queue's: set in one step
  q,         \* the queue: current row, waiting rows, its age, promoteTimer_
  attach,    \* unavailableAttachments_
  painted,   \* what the view drew at the last syncStatusQueueDidChange
  mainq,     \* performSelectorOnMainThread
  gate,      \* the failure gates: the worker's, and LINE's of this account
  pc,        \* the post a thread has still to make after it changed a gate
  sync,      \* the sync thread
  budget     \* what is left of the bounds

vars == <<state, q, attach, painted, mainq, gate, pc, sync, budget>>

\* The post of enil_progress_post and post_status; `determinate' follows
\* from the total.
Row(key, count, total, error) ==
  [key |-> key, count |-> count, total |-> total, error |-> error]
NoRow == Row("none", 0, 0, FALSE)

\* What displayLabel shows when there is no row.
Texts == States \cup {"", "Reauthenticate", "attachments unavailable", "Link Off",
                      "Worker Error", "LINE Error"}
Idle == NoRow
NoTimer == -1

Posters == Threads \cup {"user", "sync"}
SyncKeys == Range(Phases) \cup {"sync.done", "sync.attachments"}
Keys == SyncKeys \cup Activities \cup {GateKey[g] : g \in Gates}
Rows == [key : Keys \cup {"none"}, count : 0..1, total : 0..1, error : BOOLEAN]

\* The keys are string literals of the program: a phase, a transient row and a
\* gate never share one, and no row has none.
ASSUME KeysAssumption ==
  /\ "none" \notin Keys
  /\ SyncKeys \cap (Activities \cup {GateKey[g] : g \in Gates}) = {}

ErrorRow(g) == Row(GateKey[g], 0, 0, TRUE)
Reconnecting(g) == Row(GateKey[g], 0, 0, FALSE)

\* What each variable holds; a row's age stops at its minimum time, and at most
\* one timer is armed (schedulePromoteTimer).
TypeOK ==
  /\ state \in States
  /\ q \in [cur : Rows, queue : Seq(Rows), age : 0..Dwell, timer : NoTimer..Dwell]
  /\ attach \in 0..1
  /\ painted \in [bar : BOOLEAN, row : Rows, red : BOOLEAN, text : Texts]
  /\ \A i \in 1..Len(mainq) :
       mainq[i] \in [call : {"status"}, row : Rows] \cup [call : {"finish"}, result : 0..2]
  /\ gate \in [Gates -> BOOLEAN]
  /\ pc \in [Posters -> Rows]
  /\ sync \in [pc : {"idle", "worker", "line", "work", "done", "end", "finishing"},
               phase : 1..Len(Phases), unit : 0..1, result : 0..2]
  /\ budget \in [event : 0..MaxEvents, fail : 0..MaxFails, clear : 0..MaxClears,
                 sync : 0..MaxSyncs, mid : 0..MaxMid]

-----------------------------------------------------------------------------
(* The render snapshot. *)

FailedNever(g) == FALSE
\* enil_health_is_failed as the main thread calls it: no function that runs
\* there binds an account's health, so LINE's gate reads as open.
FailedOnMain(g) == g = "worker" /\ gate[g]

SteadyText(s, n) ==
  CASE s = "Syncing" -> "Syncing"
    [] s = "ReauthNeeded" -> "Reauthenticate"
    [] s \in {"Live", "Offline"} /\ n > 0 -> "attachments unavailable"
    [] s = "Offline" /\ n = 0 -> "Link Off"
    [] OTHER -> IF FailedOnMain("worker") THEN "Worker Error"
                ELSE IF FailedOnMain("line") THEN "LINE Error" ELSE s

\* displayMode, displayLabel and displayIsError for row r in state s.
Snapshot(s, r, n) ==
  [bar  |-> s = "Syncing",
   row  |-> r,
   text |-> IF r = NoRow THEN SteadyText(s, n) ELSE "",
   red  |-> IF r # NoRow THEN r.error
            ELSE s # "Syncing" /\ \E g \in Gates : FailedOnMain(g)]

\* notifyChange: the view reads the snapshot and draws it.
Notify(s, r, n) == painted' = Snapshot(s, r, n)

-----------------------------------------------------------------------------
(* The queue. *)

Complete(r) == r.total > 0 /\ r.count >= r.total

\* schedulePromoteTimer: one timer at a time, for the end of the minimum time.
Schedule(d) ==
  IF d.cur = NoRow \/ d.timer # NoTimer THEN d
  ELSE [d EXCEPT !.timer = Dwell - d.age]

DwellingUntilTimer(d) == d.cur # NoRow /\ d.timer # NoTimer /\ ~Complete(d.cur)
Dwelling(d) == d.cur # NoRow /\ d.age < Dwell /\ ~Complete(d.cur)

PromoteNoTimer(d, s) ==
  CASE d.cur.error -> d
    [] ~d.cur.error /\ Dwelling(d) -> Schedule(d)
    [] ~d.cur.error /\ ~Dwelling(d) /\ d.queue = <<>> ->
         IF s = "Syncing" THEN d ELSE [d EXCEPT !.cur = NoRow, !.age = 0]
    [] OTHER -> [d EXCEPT !.cur = Head(d.queue), !.queue = Tail(d.queue), !.age = 0]

\* promote, as a function of the queue and of syncState_.
Promote(d, s) ==
  CASE d.cur.error -> d
    [] ~d.cur.error /\ Dwelling(d) -> Schedule(d)
    [] ~d.cur.error /\ ~Dwelling(d) /\ d.queue = <<>> ->
         IF s = "Syncing" THEN d ELSE [d EXCEPT !.cur = NoRow, !.age = 0]
    [] OTHER -> Schedule([d EXCEPT !.cur = Head(d.queue), !.queue = Tail(d.queue),
                                   !.age = 0])

\* Whether that call of promote redraws the view.
Redraws(d, s) ==
  ~d.cur.error /\ ~Dwelling(d) /\ (d.queue # <<>> \/ s # "Syncing")

\* Plausible bugs: the flush forgets the waiting rows; promote treats its timer
\* as the end of the minimum time of whatever row is up; the timer is not
\* armed for a row that takes over; a state change is not drawn; the worker's
\* gate is not asked for.
AfterStateKeepsQueue(d, s, new) ==
  IF s = "Syncing" /\ new # "Syncing"
  THEN [d EXCEPT !.cur = NoRow, !.age = 0, !.timer = NoTimer] ELSE d

\* updateForState: leaving Syncing drops the rows and the timer.
AfterState(d, s, new) ==
  IF s = "Syncing" /\ new # "Syncing"
  THEN [cur |-> NoRow, queue |-> <<>>, age |-> 0, timer |-> NoTimer]
  ELSE d

SetStateNoDraw(new, n) ==
  /\ state' = new
  /\ q' = AfterState(q, state, new)
  /\ UNCHANGED painted

SetState(new, n) ==
  /\ state' = new
  /\ q' = AfterState(q, state, new)
  /\ Notify(new, q'.cur, n)

WaitingAt(d, key) == {i \in 1..Len(d.queue) : d.queue[i].key = key}

\* A post for the row on screen: updated in place.  Only completion promotes:
\* the second test of the code reads isError after it was overwritten, so an
\* error that is superseded promotes nothing; when the first promote has
\* released the row, that test reads freed memory and may go either way.
UpdateCurrent(row) ==
  LET updated == [q EXCEPT !.cur = row]
      once    == Promote(updated, state)
  IN  IF ~row.error /\ Complete(row)
      THEN /\ q' \in {once} \cup
                     (IF once.cur # row THEN {Promote(once, state)} ELSE {})
           /\ Notify(state, q'.cur, attach)
      ELSE /\ q' = updated
           /\ Notify(state, row, attach)

UpdateWaiting(row, i) ==
  /\ q' = [q EXCEPT !.queue[i] = row]
  /\ UNCHANGED painted

Enqueue(row) ==
  LET queued == [q EXCEPT !.queue = Append(@, row)]
  IN  /\ q' = Promote(queued, state)
      /\ IF Redraws(queued, state) THEN Notify(state, q'.cur, attach)
         ELSE UNCHANGED painted

\* handleStatusNote:
HandleStatusNote ==
  /\ mainq # <<>> /\ Head(mainq).call = "status"
  /\ mainq' = Tail(mainq)
  /\ LET row == Head(mainq).row
         waiting == WaitingAt(q, row.key)
     IN  \/ q.cur.key = row.key /\ UpdateCurrent(row)
         \/ /\ q.cur.key # row.key
            /\ \E i \in waiting : UpdateWaiting(row, i)
         \/ q.cur.key # row.key /\ waiting = {} /\ Enqueue(row)
  /\ UNCHANGED <<state, attach, gate, pc, sync, budget>>

PromoteTimerFired ==
  /\ q.timer = 0
  /\ LET fired == [q EXCEPT !.timer = NoTimer]
     IN  /\ q' = Promote(fired, state)
         /\ IF Redraws(fired, state) THEN Notify(state, q'.cur, attach)
            ELSE UNCHANGED painted
  /\ UNCHANGED <<state, attach, mainq, gate, pc, sync, budget>>

Tick ==
  /\ q.timer > 0 \/ (q.cur # NoRow /\ q.age < Dwell)
  /\ q' = [q EXCEPT !.age = IF q.cur # NoRow /\ @ < Dwell THEN @ + 1 ELSE @,
                    !.timer = IF @ > 0 THEN @ - 1 ELSE @]
  /\ UNCHANGED <<state, attach, painted, mainq, gate, pc, sync, budget>>

-----------------------------------------------------------------------------
(* The threads that post. *)

Dispatch(row) == mainq' = Append(mainq, [call |-> "status", row |-> row])

\* enil_status_post for a send or a received message.
PostActivity(key) ==
  /\ budget.event > 0
  /\ budget' = [budget EXCEPT !.event = @ - 1]
  /\ Dispatch(Row(key, 0, 0, FALSE))
  /\ UNCHANGED <<state, q, attach, painted, gate, pc, sync>>

\* worker_set_failure, line_set_failure: the gate first, the post after it.
SetFailure(t, g) ==
  /\ pc[t] = Idle /\ budget.fail > 0
  /\ gate' = [gate EXCEPT ![g] = TRUE]
  /\ pc' = [pc EXCEPT ![t] = ErrorRow(g)]
  /\ budget' = [budget EXCEPT !.fail = @ - 1]
  /\ UNCHANGED <<state, q, attach, painted, mainq, sync>>

\* worker_clear_failure, line_clear_failure: nothing for an open gate.
ClearedBy(t, g) ==
  /\ gate' = [gate EXCEPT ![g] = FALSE]
  /\ pc' = IF gate[g] THEN [pc EXCEPT ![t] = Reconnecting(g)] ELSE pc

\* New worker credentials, or a login.
ClearFailure ==
  /\ pc["user"] = Idle /\ gate.worker /\ budget.clear > 0
  /\ ClearedBy("user", "worker")
  /\ budget' = [budget EXCEPT !.clear = @ - 1]
  /\ UNCHANGED <<state, q, attach, painted, mainq, sync>>

\* The post that follows.
PostGate(t) ==
  /\ pc[t] # Idle
  /\ Dispatch(pc[t])
  /\ pc' = [pc EXCEPT ![t] = Idle]
  /\ UNCHANGED <<state, q, attach, painted, gate, sync, budget>>

-----------------------------------------------------------------------------
(* The sync. *)

\* startSync and retrySync; a retry clears both gates on the sync's thread.
StartSync(retry) ==
  /\ sync.pc = "idle" /\ budget.sync > 0
  /\ state \notin {"Syncing", "ReauthNeeded"}
  /\ retry => budget.clear > 0
  /\ sync' = [sync EXCEPT !.pc = IF retry THEN "worker" ELSE "work",
                          !.phase = 1, !.unit = 0, !.result = 0]
  /\ budget' = [budget EXCEPT !.sync = @ - 1, !.clear = IF retry THEN @ - 1 ELSE @]
  /\ SetState("Syncing", attach)
  /\ UNCHANGED <<attach, mainq, gate, pc>>

RetryClears ==
  /\ pc["sync"] = Idle /\ sync.pc \in Gates
  /\ ClearedBy("sync", sync.pc)
  /\ sync' = [sync EXCEPT !.pc = IF @ = "worker" THEN "line" ELSE "work"]
  /\ UNCHANGED <<state, q, attach, painted, mainq, budget>>

\* report: 0 of 1 and 1 of 1 of each phase.
Report ==
  /\ pc["sync"] = Idle /\ sync.pc = "work"
  /\ Dispatch(Row(Phases[sync.phase], sync.unit, 1, FALSE))
  /\ sync' = [sync EXCEPT
                !.unit  = 1 - @,
                !.phase = IF sync.unit = 1 /\ @ < Len(Phases) THEN @ + 1 ELSE @,
                !.pc    = IF sync.unit = 1 /\ sync.phase = Len(Phases)
                          THEN "done" ELSE @]
  /\ UNCHANGED <<state, q, attach, painted, gate, pc, budget>>

\* A phase that fails reports its error and ends the sync.
ReportError ==
  /\ pc["sync"] = Idle /\ sync.pc = "work"
  /\ Dispatch(Row(Phases[sync.phase], sync.unit, 1, TRUE))
  /\ sync' = [sync EXCEPT !.pc = "end", !.result = 0]
  /\ UNCHANGED <<state, q, attach, painted, gate, pc, budget>>

\* report_attachment_completion
CompletionRow(n) ==
  Row(IF n = 0 THEN "sync.done" ELSE "sync.attachments", n, 0, FALSE)

\* sync_phase_finish: the gates decide; then Done, or the attachments' row.
Finish ==
  /\ sync.pc = "done"
  /\ IF \E g \in Gates : gate[g]
     THEN /\ Dispatch(Row("sync.done", 0, 0, TRUE))
          /\ sync' = [sync EXCEPT !.pc = "end", !.result = 0]
     ELSE \E n \in 0..1 :
          /\ Dispatch(CompletionRow(n))
          /\ sync' = [sync EXCEPT !.pc = "end", !.result = n + 1]
  /\ UNCHANGED <<state, q, attach, painted, gate, pc, budget>>

\* syncInBackground returns.
SyncReturns ==
  /\ sync.pc = "end"
  /\ mainq' = Append(mainq, [call |-> "finish", result |-> sync.result])
  /\ sync' = [sync EXCEPT !.pc = "finishing"]
  /\ UNCHANGED <<state, q, attach, painted, gate, pc, budget>>

\* syncDidFinish: handleAttachmentNote, then the state startSSE or a failure sets.
SyncDidFinish ==
  /\ mainq # <<>> /\ Head(mainq).call = "finish"
  /\ LET result == Head(mainq).result
     IN  /\ attach' = IF result > 0 THEN result - 1 ELSE attach
         /\ \E new \in IF result > 0 THEN EngineStates \cup {"Live"} ELSE {"Error"} :
              SetState(new, attach')
  /\ mainq' = Tail(mainq)
  /\ sync' = [sync EXCEPT !.pc = "idle"]
  /\ UNCHANGED <<gate, pc, budget>>

\* The engine's other state changes: an exception on the stream, a token
\* refresh that ends, the link toggle.  startSSE does nothing during a sync.
EngineState(new) ==
  /\ budget.event > 0 /\ new # state
  /\ sync.pc # "idle" => budget.mid > 0 /\ new # "Live"
  /\ SetState(new, attach)
  /\ budget' = [budget EXCEPT !.event = @ - 1,
                             !.mid = IF sync.pc = "idle" THEN @ ELSE @ - 1]
  /\ UNCHANGED <<attach, mainq, gate, pc, sync>>

-----------------------------------------------------------------------------
Init ==
  /\ state = "NeverSynced"
  /\ q = [cur |-> NoRow, queue |-> <<>>, age |-> 0, timer |-> NoTimer]
  /\ attach = 0
  /\ gate = [g \in Gates |-> FALSE]
  /\ painted = [bar |-> FALSE, row |-> NoRow, text |-> "NeverSynced", red |-> FALSE]
  /\ mainq = <<>>
  /\ pc = [t \in Posters |-> Idle]
  /\ sync = [pc |-> "idle", phase |-> 1, unit |-> 0, result |-> 0]
  /\ budget = [event |-> MaxEvents, fail |-> MaxFails, clear |-> MaxClears,
               sync |-> MaxSyncs, mid |-> MaxMid]

Main == HandleStatusNote \/ SyncDidFinish
Working == RetryClears \/ Report \/ ReportError \/ Finish \/ SyncReturns

Next ==
  \/ Main \/ PromoteTimerFired \/ Tick
  \/ \E key \in Activities : PostActivity(key)
  \/ \E t \in Threads, g \in Gates : SetFailure(t, g)
  \/ ClearFailure
  \/ \E t \in Posters : PostGate(t)
  \/ \E retry \in BOOLEAN : StartSync(retry)
  \/ Working
  \/ \E new \in EngineStates : EngineState(new)

Spec == Init /\ [][Next]_vars

\* The run loop serves dispatched calls and timers, time passes, and a thread
\* that changed a gate or runs a sync goes on.
Fairness ==
  /\ WF_vars(Main) /\ WF_vars(PromoteTimerFired) /\ WF_vars(Tick) /\ WF_vars(Working)
  /\ \A t \in Posters : WF_vars(PostGate(t))

FairSpec == Spec /\ Fairness

-----------------------------------------------------------------------------
(* Properties. *)

Quiet == mainq = <<>> /\ \A t \in Posters : pc[t] = Idle

\* The view never asks on its own: it draws when the queue notifies it.  Once
\* nothing is under way, what it drew last is what the queue, the state, the
\* gates and the attachment count call for (notifyChange and its callers).
PaintedCurrent == Quiet => painted = Snapshot(state, q.cur, attach)

\* "a sync that ended with stale per-phase posts shouldn't leave them
\* displayed once the bar is gone" (updateForState): unless the engine left
\* Syncing while a sync still ran, no row of a sync is shown or waits after it.
StaleRowsGone ==
  budget.mid = MaxMid /\ sync.pc = "idle" /\ state # "Syncing" =>
    \A r \in {q.cur} \cup Range(q.queue) : r.key \notin SyncKeys

\* A row gives way to another only when a sync ends, or when it is no error
\* and either has had its minimum time or is complete, whichever timer fired
\* and whatever was posted meanwhile (promote, schedulePromoteTimer).
LeavesSyncing == state = "Syncing" /\ state' # "Syncing"
RowNow ==
  IF mainq # <<>> /\ mainq' = Tail(mainq) /\ Head(mainq).call = "status"
     /\ Head(mainq).row.key = q.cur.key
  THEN Head(mainq).row ELSE q.cur
DwellKept ==
  [][q.cur # NoRow /\ q'.cur.key # q.cur.key /\ ~LeavesSyncing =>
       ~RowNow.error /\ (q.age = Dwell \/ Complete(RowNow))]_vars

\* While no gate is cleared, so that no error row is superseded, no row waits
\* for ever behind one that is no error, and outside a sync a row that is no
\* error leaves the screen: something always calls promote again (promote,
\* schedulePromoteTimer, promoteTimerFired).
RowsAdvance ==
  [](budget.clear = MaxClears) =>
    /\ []<>(q.queue = <<>> \/ q.cur.error)
    /\ []<>(q.cur = NoRow \/ q.cur.error \/ state = "Syncing")

\* A gate was closed anew while the clear before it has yet to post: that post
\* will supersede the row of the new failure, and no row says it any more.
Overtaken == gate.worker /\ \E t \in Posters : pc[t] = Reconnecting("worker")

\* "set_failure also posts a sticky red row ... so the failure is visible to
\* the user" (enil_health.h): unless a clear's late post overtakes a failure, a
\* worker gate that stays closed ends as red, however often it was cleared and
\* closed before, and also when the end of a sync drops the row.
WorkerFailureSeen == []~Overtaken /\ <>[]gate.worker => <>[]painted.red

=============================================================================
