---------------------------- MODULE AccountEngine ----------------------------
(***************************************************************************)
(* The live engine of one account: ENILAccount.m's main-thread lifecycle,  *)
(* the event stream (enil_sse.c, enil_native_poll.c), the event callback   *)
(* (enil_account.c) and the full sync (enil_sync.c), as they share the     *)
(* operation cursor localRev of the database and the partial-full-sync     *)
(* maps of session.json.                                                   *)
(*                                                                         *)
(* LINE keeps a log of operations 1..head, of which it still holds those   *)
(* above floor, and a category timestamp `want' that it asks the client to *)
(* resynchronise.  Threads talk to the main thread only by posting         *)
(* selectors to its run loop, a FIFO queue.                                *)
(***************************************************************************)
EXTENDS Naturals, Sequences, FiniteSets

CONSTANTS
  MaxHead,     \* bound: operations in LINE's log
  MaxWant,     \* bound: partial-full-sync requests
  MaxFaults,   \* bound: failures of the network, the disk or LINE
  MaxActs,     \* bound: user actions and timer firings
  MaxSaves,    \* bound: worker credentials saved in Preferences
  MaxCrashes,  \* bound: process exits
  Gates        \* health gates that a failure may latch

ASSUME EngineAssumption ==
  /\ {MaxHead, MaxWant, MaxFaults, MaxActs, MaxSaves, MaxCrashes} \subseteq Nat
  /\ MaxHead > 0
  /\ Gates \subseteq {"worker", "line"}

VARIABLES
  head, floor, want,        \* LINE: last operation, last purged one, category timestamp
  applied,                  \* database: operations whose effect it holds
  localRev,                 \* database: the saved cursor, 0 when missing
  dbCat,                    \* database: the category timestamp it reflects
  pending, completed,       \* session.json: pending/lastPartialFullSyncs, 0 when absent
  reauth,                   \* session.json: needsReauth
  m,                        \* ENILAccount's lifecycle fields (main thread only)
  mainq,                    \* selectors posted to the main thread
  stream,                   \* the SSE clients that exist, by slot
  joining,                  \* slots whose stopSSEInBackground waits for the thread
  sync,                     \* the syncInBackground thread
  refreshing,               \* tokenRefreshInBackground threads
  failed,                   \* latched health gates
  faults, acts, saves, crashes

line   == <<head, floor, want>>
disk   == <<applied, localRev, dbCat, pending, completed, reauth>>
bounds == <<faults, acts, saves, crashes>>
vars   == <<line, disk, m, mainq, stream, joining, sync, refreshing, failed, bounds>>

\* Correct code uses one slot at a time; the second makes an overlap visible.
Slots == {1, 2}

Talks     == {"reauth", "refresh", "syncNeeded", "error"}
Selectors == {"startSSE", "stopSSE", "startSync", "sseDidStop", "syncOk", "syncFailed",
              "refreshOk", "refreshFailed", "refreshDead"} \union Talks
States    == {"neverSynced", "syncing", "syncNeeded", "live", "error", "reauth",
              "offline", "reconnecting"}

\* A client's thread was "exited" by a stop, a gate or a request it posted;
\* it "quit" when it ended by itself, with nothing latched or posted.
Client == [pc : {"free", "connect", "open", "save", "exited", "quit"}, rev : Nat, ev : Nat,
           asked : Nat, stop : BOOLEAN]
Main   == [client : Slots \union {0}, stopping : BOOLEAN, startPending : BOOLEAN,
           syncRunning : BOOLEAN, waiting : BOOLEAN, attach : BOOLEAN,
           retry : BOOLEAN, enabled : BOOLEAN, timer : BOOLEAN, state : States]
Syncer == [pc : {"none", "begin", "capture", "account", "messages", "media", "finish",
                 "ack", "attach"},
           rev : Nat, cat : Nat, snap : Nat]

\* What each variable holds (the types of the states the code keeps).
TypeOK ==
  /\ {head, floor, want, localRev, dbCat, pending, completed} \subseteq Nat
  /\ applied \subseteq 1 .. head
  /\ reauth \in BOOLEAN
  /\ m \in Main
  /\ mainq \in Seq(Selectors)
  /\ stream \in [Slots -> Client]
  /\ joining \subseteq Slots
  /\ sync \in Syncer
  /\ refreshing \in Nat
  /\ failed \subseteq Gates
  /\ {faults, acts, saves, crashes} \subseteq Nat

NoClient == [pc |-> "free", rev |-> 0, ev |-> 0, asked |-> 0, stop |-> FALSE]
NoSync   == [pc |-> "none", rev |-> 0, cat |-> 0, snap |-> 0]

\* startWithError arms the refresh timer; the window then calls startSSE.
Launched(on) ==
  [client |-> 0, stopping |-> FALSE, startPending |-> FALSE, syncRunning |-> FALSE,
   waiting |-> FALSE, attach |-> FALSE, retry |-> FALSE, enabled |-> on,
   timer |-> TRUE, state |-> "neverSynced"]

\* An account is new (no cursor, empty database) or was synced before.
Init ==
  /\ head = 1 /\ floor = 0 /\ want = 0
  /\ \E known \in BOOLEAN :
       /\ applied = IF known THEN {1} ELSE {}
       /\ localRev = IF known THEN 1 ELSE 0
  /\ dbCat = 0 /\ pending = 0 /\ completed = 0 /\ reauth = FALSE
  /\ m = Launched(TRUE)
  /\ mainq = <<"startSSE">>
  /\ stream = [i \in Slots |-> NoClient]
  /\ joining = {}
  /\ sync = NoSync
  /\ refreshing = 0
  /\ failed = {}
  /\ faults = 0 /\ acts = 0 /\ saves = 0 /\ crashes = 0

MaxOf(a, b) == IF a > b THEN a ELSE b
Fault == faults < MaxFaults /\ faults' = faults + 1
Act   == acts < MaxActs /\ acts' = acts + 1
Gated == failed # {}

-----------------------------------------------------------------------------
(* LINE.                                                                   *)

\* A new operation (a message, a receipt, ...) enters the log.
NewOp ==
  /\ head < MaxHead
  /\ head' = head + 1
  /\ UNCHANGED <<floor, want, disk, m, mainq, stream, joining, sync, refreshing, failed,
                 bounds>>

\* LINE forgets the oldest operation it still holds.
Purge ==
  /\ floor < head
  /\ floor' = floor + 1
  /\ UNCHANGED <<head, want, disk, m, mainq, stream, joining, sync, refreshing, failed,
                 bounds>>

\* A category must be fetched again by clients that last did so earlier.
AskPartial ==
  /\ want < MaxWant
  /\ want' = want + 1
  /\ UNCHANGED <<head, floor, disk, m, mainq, stream, joining, sync, refreshing, failed,
                 bounds>>

-----------------------------------------------------------------------------
(* The lifecycle methods of ENILAccount, as functions of its fields.       *)

StopSSE(r) ==
  LET q == [r EXCEPT !.startPending = FALSE]
  IN  IF r.client = 0 THEN q ELSE [q EXCEPT !.client = 0, !.stopping = TRUE]

FreeSlot ==
  CHOOSE i \in Slots : /\ stream[i].pc = "free"
                       /\ \A j \in Slots : stream[j].pc = "free" => i <= j

\* The state startSSE comes to once no stream is in its way.  up is what
\* enil_sse_create and enil_sse_start come to: "live", or "syncNeeded" (no
\* client) or "error" (no thread).
StartState(r, up) ==
  IF ~r.enabled THEN "offline"
  ELSE IF reauth THEN "reauth"
  ELSE IF localRev = 0 THEN "neverSynced" ELSE up

Started(r, up) ==
  [r EXCEPT !.state = StartState(r, up),
            !.client = IF StartState(r, up) = "live" THEN FreeSlot ELSE 0]

\* Mutant: a start requested while the old stream stops is forgotten.
StartSSEForgotten(r, up) ==
  LET q == StopSSE(r)
  IN  IF r.syncRunning THEN r ELSE IF q.stopping THEN q ELSE Started(r, up)

StartSSE(r, up) ==
  LET q == IF r.client # 0 THEN StopSSE(r) ELSE r
  IN  IF r.syncRunning THEN r
      ELSE IF q.stopping THEN [q EXCEPT !.startPending = TRUE,
                                        !.state = IF q.enabled THEN "reconnecting" ELSE @]
      ELSE Started(q, up)

\* Mutant: the sync does not wait for the stream's thread.
StartSyncAtOnce(r) ==
  IF r.syncRunning THEN r
  ELSE [StopSSE([r EXCEPT !.syncRunning = TRUE]) EXCEPT !.state = "syncing"]

StartSync(r) ==
  IF r.syncRunning THEN r
  ELSE LET q == StopSSE([r EXCEPT !.syncRunning = TRUE])
       IN  [q EXCEPT !.state = "syncing", !.waiting = q.stopping]

SseDidStop(r, up) ==
  LET q == [r EXCEPT !.stopping = FALSE, !.startPending = FALSE]
  IN  CASE r.waiting      -> [q EXCEPT !.waiting = FALSE]
        [] r.startPending /\ ~r.waiting -> StartSSE(q, up)
        [] OTHER          -> q

SyncDidFinish(r, ok, up) ==
  LET q == [r EXCEPT !.syncRunning = FALSE, !.retry = FALSE, !.attach = FALSE]
  IN  IF ok THEN [StartSSE(q, up) EXCEPT !.timer = TRUE]
      ELSE [q EXCEPT !.state = "error"]

HandleSSETalkException(r, kind) ==
  CASE kind = "reauth"  -> [r EXCEPT !.state = "reauth"]
    [] kind = "refresh" -> [r EXCEPT !.state = "reconnecting", !.timer = FALSE]
    [] OTHER            -> [r EXCEPT !.state = kind, !.timer = FALSE]

\* Mutant: the renewed token is kept for the next launch only.
RefreshDidFinishNoRestart(r, how, up) ==
  CASE how = "refreshDead"   -> [r EXCEPT !.timer = FALSE, !.state = "reauth"]
    [] how = "refreshFailed" -> [r EXCEPT !.timer = TRUE, !.state = "error"]
    [] OTHER                 -> [StopSSE(r) EXCEPT !.timer = TRUE]

\* 10201 (the refresh token is dead), a failure to retry later, or success.
TokenRefreshDidFinish(r, how, up) ==
  CASE how = "refreshDead"   -> [r EXCEPT !.timer = FALSE, !.state = "reauth"]
    [] how = "refreshFailed" -> [r EXCEPT !.timer = TRUE, !.state = "error"]
    [] OTHER                 -> [StartSSE(StopSSE(r), up) EXCEPT !.timer = TRUE]

-----------------------------------------------------------------------------
(* The main thread.                                                        *)

SyncThread(r) == r.syncRunning /\ ~r.waiting

\* What a method's effect on the fields starts and stops: enil_sse_start,
\* enil_sse_request_stop with its joining thread, and the sync thread.
Become(r) ==
  /\ m' = r
  /\ stream' = [i \in Slots |->
       CASE i = r.client /\ i # m.client -> [NoClient EXCEPT !.pc = "connect", !.rev = localRev]
         [] i = m.client /\ i # r.client -> [stream[i] EXCEPT !.stop = TRUE]
         [] OTHER -> stream[i]]
  /\ joining' = joining \union ({m.client} \ {0, r.client})
  /\ sync' = IF SyncThread(r) /\ ~SyncThread(m) THEN [NoSync EXCEPT !.pc = "begin"]
             ELSE sync

\* The method a posted selector names.
Handled(sel, r, up) ==
  CASE sel = "startSSE"   -> StartSSE(r, up)
    [] sel = "stopSSE"    -> StopSSE(r)
    [] sel = "startSync"  -> StartSync(r)
    [] sel = "sseDidStop" -> SseDidStop(r, up)
    [] sel = "syncOk"     -> SyncDidFinish(r, TRUE, up)
    [] sel = "syncFailed" -> SyncDidFinish(r, FALSE, up)
    [] sel \in Talks      -> HandleSSETalkException(r, sel)
    [] OTHER              -> TokenRefreshDidFinish(r, sel, up)

\* The run loop performs the oldest selector.  needsReauth may fail to be
\* saved (unnoticed).
MainStep ==
  /\ mainq # <<>>
  /\ mainq' = Tail(mainq)
  /\ \E up \in {"live", "syncNeeded", "error"} :
       /\ up # "live" =>
            /\ faults < MaxFaults
            /\ Handled(Head(mainq), m, up) # Handled(Head(mainq), m, "live")
       /\ Become(Handled(Head(mainq), m, up))
       /\ faults' = IF up # "live" THEN faults + 1 ELSE faults
  /\ refreshing' = IF Head(mainq) = "refresh" THEN refreshing + 1 ELSE refreshing
  /\ \/ UNCHANGED reauth
     \/ Head(mainq) = "refreshDead" /\ reauth' = TRUE
  /\ UNCHANGED <<line, applied, localRev, dbCat, pending, completed, failed, acts,
                 saves, crashes>>

UserSteps(r) ==
  /\ Act
  /\ Become(r)
  /\ UNCHANGED <<line, disk, mainq, refreshing, failed, faults, saves, crashes>>

\* The buttons of the window: both retries ignore a running sync.
RetrySync ==
  /\ ~m.syncRunning
  /\ UserSteps(StartSync([m EXCEPT !.retry = TRUE]))

RetryAttachments ==
  /\ ~m.syncRunning
  /\ UserSteps(StartSync([m EXCEPT !.attach = TRUE]))

SetSSEEnabled ==
  LET r == [m EXCEPT !.enabled = ~@]
  IN  UserSteps(IF r.enabled THEN StartSSE(r, "live")
                ELSE [StopSSE(r) EXCEPT !.state = "offline"])

\* forceReconnectSSE without a client; with one, the kick is StreamDrop.
ForceReconnectSSE ==
  /\ m.client = 0
  /\ UserSteps(StartSSE(m, "live"))

TokenRefreshTimerFired ==
  /\ m.timer
  /\ Act
  /\ m' = [m EXCEPT !.timer = FALSE]
  /\ refreshing' = refreshing + 1
  /\ UNCHANGED <<line, disk, mainq, stream, joining, sync, failed, faults, saves, crashes>>

\* enil_line_token_refresh (module TokenRefresh) returns; every request of a
\* gated account fails.
TokenRefreshInBackground ==
  /\ refreshing > 0
  /\ refreshing' = refreshing - 1
  /\ \/ /\ ~Gated
        /\ mainq' = Append(mainq, "refreshOk")
        /\ UNCHANGED faults
     \/ /\ Gated
        /\ mainq' = Append(mainq, "refreshFailed")
        /\ UNCHANGED faults
     \/ /\ ~Gated
        /\ Fault
        /\ \E how \in {"refreshFailed", "refreshDead"} : mainq' = Append(mainq, how)
  /\ UNCHANGED <<line, disk, m, stream, joining, sync, failed, acts, saves, crashes>>

-----------------------------------------------------------------------------
(* The stream's thread.                                                    *)

SetStream(i, c) == stream' = [stream EXCEPT ![i] = c]
Goto(i, pc)     == SetStream(i, [stream[i] EXCEPT !.pc = pc])

\* After the callback: a gate or a stop makes the delivery fail.
Delivered(i) == ~Gated /\ ~stream[i].stop

\* Top of the loop: stop flag and health gate.
StreamExit(i) ==
  /\ stream[i].pc = "connect"
  /\ Gated \/ stream[i].stop
  /\ Goto(i, "exited")
  /\ UNCHANGED <<line, disk, m, mainq, joining, sync, refreshing, failed, bounds>>

StreamConnect(i) ==
  /\ stream[i].pc = "connect"
  /\ ~Gated /\ ~stream[i].stop
  /\ SetStream(i, [stream[i] EXCEPT !.pc = "open", !.asked = completed])
  /\ UNCHANGED <<line, disk, m, mainq, joining, sync, refreshing, failed, bounds>>

\* The thread ends before its request: session.json cannot be read.  sse_thread
\* latches the LINE gate; the native poller leaves its loop in silence, as it
\* does without a token.
StreamUnread(i) ==
  /\ stream[i].pc = "connect"
  /\ ~Gated /\ ~stream[i].stop
  /\ Fault
  /\ \/ Goto(i, "quit") /\ UNCHANGED failed
     \/ "line" \in Gates /\ failed' = failed \union {"line"} /\ Goto(i, "exited")
  /\ UNCHANGED <<line, disk, m, mainq, joining, sync, refreshing, acts, saves, crashes>>

\* write_cb and progress_cb abort a transfer once stop is set.
StreamStopped(i) ==
  /\ stream[i].pc = "open" /\ stream[i].stop
  /\ Goto(i, "exited")
  /\ UNCHANGED <<line, disk, m, mainq, joining, sync, refreshing, failed, bounds>>

\* The connection drops, idles out, or is kicked: reconnect from c->local_rev.
StreamDrop(i) ==
  /\ stream[i].pc = "open"
  /\ Fault
  /\ Goto(i, "connect")
  /\ UNCHANGED <<line, disk, m, mainq, joining, sync, refreshing, failed, acts, saves,
                 crashes>>

\* The selectors the event callback posts, in its order.
Posts(stop, talk, start) ==
  mainq' = mainq \o (IF stop THEN <<"stopSSE">> ELSE <<>>) \o talk
                 \o (IF start THEN <<"startSync">> ELSE <<>>)

\* Operations LINE sends on this connection: the next one, or (at the cost of
\* a fault) one it sent before.
Sends(i, k) ==
  /\ stream[i].pc = "open"
  /\ k \in floor + 1 .. head
  /\ k <= stream[i].rev + 1
  /\ stream[i].rev >= floor

\* A message event: the callback commits the operation to the database.  The
\* network work it does may latch a gate, which also requests a stop.
StreamOp(i, k) ==
  /\ Sends(i, k)
  /\ \/ /\ k = stream[i].rev + 1
        /\ UNCHANGED <<failed, faults>>
     \/ /\ k <= stream[i].rev
        /\ Fault
        /\ UNCHANGED failed
     \/ /\ k = stream[i].rev + 1
        /\ Fault
        /\ \E g \in Gates : failed' = failed \union {g}
  /\ applied' = applied \union {k}
  /\ SetStream(i, [stream[i] EXCEPT !.pc = "save", !.ev = k])
  /\ Posts(Gated', <<>>, FALSE)
  /\ UNCHANGED <<line, localRev, dbCat, pending, completed, reauth, m, joining, sync,
                 refreshing, acts, saves, crashes>>

\* The callback fails and the event is not counted as delivered; a gate may
\* be latched by it (the native poller also latches one after five failures).
StreamOpFails(i) ==
  /\ Sends(i, stream[i].rev + 1)
  /\ Fault
  /\ \E g \in {failed} \union {failed \union {x} : x \in Gates} : failed' = g
  /\ Goto(i, "connect")
  /\ UNCHANGED <<line, disk, m, mainq, joining, sync, refreshing, acts, saves, crashes>>

\* Mutant: an old event moves the cursor back.
SaveLocalRevAlways(i) ==
  /\ stream[i].pc = "save"
  /\ localRev' = stream[i].ev
  /\ SetStream(i, [stream[i] EXCEPT !.pc = "open", !.rev = stream[i].ev])
  /\ UNCHANGED <<line, applied, dbCat, pending, completed, reauth, m, mainq, joining,
                 sync, refreshing, failed, bounds>>

\* dispatch_event after the callback: the checks, then enil_sse_save_local_rev.
SaveLocalRev(i) ==
  /\ stream[i].pc = "save"
  /\ \/ /\ ~Delivered(i)
        /\ Goto(i, "connect")
        /\ UNCHANGED <<localRev, faults>>
     \/ /\ Delivered(i) /\ stream[i].ev <= stream[i].rev
        /\ Goto(i, "open")
        /\ UNCHANGED <<localRev, faults>>
     \/ /\ Delivered(i) /\ stream[i].ev > stream[i].rev
        /\ localRev' = stream[i].ev
        /\ SetStream(i, [stream[i] EXCEPT !.pc = "open", !.rev = stream[i].ev])
        /\ UNCHANGED faults
     \/ /\ Delivered(i) /\ stream[i].ev > stream[i].rev
        /\ Fault
        /\ Goto(i, "connect")
        /\ UNCHANGED localRev
  /\ UNCHANGED <<line, applied, dbCat, pending, completed, reauth, m, mainq, joining,
                 sync, refreshing, failed, acts, saves, crashes>>

\* A fullSync event: LINE cannot continue from this cursor.  The partial map
\* is reset (its save may fail, unnoticed) and a sync is requested; the
\* thread ends, with the cursor left as it was.
\* The native poller ends whatever its callback returned (StreamIgnored); for
\* sse_thread a callback that fails is a StreamDrop.
StreamFullSync(i) ==
  /\ stream[i].pc = "open" /\ stream[i].rev < floor
  /\ \/ completed' = 0 /\ UNCHANGED faults
     \/ completed > 0 /\ Fault /\ UNCHANGED completed
  /\ UNCHANGED failed
  /\ Posts(TRUE, <<>>, TRUE)
  /\ \/ Goto(i, "exited")
     \/ ~Delivered(i) /\ Goto(i, "connect")
  /\ UNCHANGED <<line, applied, localRev, dbCat, pending, reauth, m, joining, sync,
                 refreshing, acts, saves, crashes>>

\* Mutant: the request is acknowledged when it arrives.
AckAtReceipt(i) ==
  /\ stream[i].pc = "open" /\ want > stream[i].asked
  /\ completed' = MaxOf(completed, want)
  /\ SetStream(i, [stream[i] EXCEPT !.asked = want])
  /\ UNCHANGED <<line, applied, localRev, dbCat, pending, reauth, m, mainq, joining,
                 sync, refreshing, failed, bounds>>

\* A partialFullSync event: remember the request, ask for a sync.
StreamPartial(i) ==
  /\ stream[i].pc = "open" /\ want > stream[i].asked
  /\ UNCHANGED failed
  /\ LET needed == want > completed
         next   == IF Delivered(i) THEN "open" ELSE "connect"
     IN \/ /\ pending' = IF needed THEN MaxOf(pending, want) ELSE pending
           /\ SetStream(i, [stream[i] EXCEPT !.asked = want, !.pc = next])
           /\ Posts(Gated, <<>>, needed)
           /\ UNCHANGED faults
        \/ /\ needed /\ want > pending
           /\ Fault
           /\ Goto(i, "connect")
           /\ UNCHANGED <<pending, mainq>>
  /\ UNCHANGED <<line, applied, localRev, dbCat, completed, reauth, m, joining, sync,
                 refreshing, acts, saves, crashes>>

\* A talkException: LINE refuses the session.  needsReauth is saved first
\* (the save may fail, unnoticed); the native poller then ends its loop.
StreamTalk(i, kind) ==
  /\ stream[i].pc = "open"
  /\ Fault
  /\ IF kind = "reauth" THEN reauth' \in {reauth, TRUE} ELSE UNCHANGED reauth
  /\ UNCHANGED failed
  /\ Posts(TRUE, <<kind>>, FALSE)
  /\ \/ Goto(i, "exited")
     \/ Goto(i, IF Delivered(i) THEN "open" ELSE "connect")
  /\ UNCHANGED <<line, applied, localRev, dbCat, pending, completed, m, joining, sync,
                 refreshing, acts, saves, crashes>>

\* The native poller ends on a fullSync or a refusal also when the callback
\* failed before it posted anything, or the refusal could not be parsed.
StreamIgnored(i) ==
  /\ stream[i].pc = "open"
  /\ Fault
  /\ Goto(i, "quit")
  /\ UNCHANGED <<line, disk, m, mainq, joining, sync, refreshing, failed, acts, saves,
                 crashes>>

\* stopSSEInBackground: the thread is joined and the client freed.
StopSSEInBackground(i) ==
  /\ i \in joining
  /\ stream[i].pc \in {"exited", "quit"}
  /\ SetStream(i, NoClient)
  /\ joining' = joining \ {i}
  /\ mainq' = Append(mainq, "sseDidStop")
  /\ UNCHANGED <<line, disk, m, sync, refreshing, failed, bounds>>

StreamStep(i) ==
  \/ StreamExit(i) \/ StreamConnect(i) \/ StreamUnread(i) \/ StreamStopped(i)
  \/ StreamDrop(i) \/ StreamIgnored(i)
  \/ \E k \in 1 .. MaxHead : StreamOp(i, k)
  \/ StreamOpFails(i) \/ SaveLocalRev(i)
  \/ StreamFullSync(i) \/ StreamPartial(i)
  \/ \E kind \in Talks : StreamTalk(i, kind)

-----------------------------------------------------------------------------
(* The sync's thread.                                                      *)

SyncGoto(pc) == sync' = [sync EXCEPT !.pc = pc]
SyncEnds(ok) ==
  /\ sync' = NoSync
  /\ mainq' = Append(mainq, IF ok THEN "syncOk" ELSE "syncFailed")

\* Phases that end the sync when one of their requests fails: at a latched
\* gate, or by a fault that may latch one.  The others only end it when the
\* database fails; requests they lose are counted or retried later.
Requesting == sync.pc \in {"capture", "account", "messages", "finish"}

SyncFails ==
  /\ \/ Requesting /\ Gated /\ UNCHANGED <<failed, faults>>
     \/ /\ Requesting /\ ~Gated
        /\ Fault
        /\ \E g \in {{}} \union {{x} : x \in Gates} : failed' = g
     \/ sync.pc \in {"media", "attach"} /\ Fault /\ UNCHANGED failed
  /\ SyncEnds(FALSE)
  /\ UNCHANGED <<line, disk, m, stream, joining, refreshing, acts, saves, crashes>>

\* A user's retry clears the gates; attachments have a sync of their own.
SyncBegin ==
  /\ sync.pc = "begin"
  /\ failed' = IF m.attach \/ m.retry THEN {} ELSE failed
  /\ SyncGoto(IF m.attach THEN "attach" ELSE "capture")
  /\ UNCHANGED <<line, disk, m, mainq, stream, joining, refreshing, bounds>>

\* The pending requests and LINE's last revision, before any data is fetched.
SyncCapture ==
  /\ sync.pc = "capture" /\ "line" \notin failed
  /\ sync' = [pc |-> "account", rev |-> head, cat |-> want, snap |-> pending]
  /\ UNCHANGED <<line, disk, m, mainq, stream, joining, refreshing, failed, bounds>>

\* Profile, friends, chats and message boxes, each in its own transaction:
\* the categories are at least as new as the capture.  A gate latched behind
\* the last request of a phase is left to a later one.
SyncAccount ==
  /\ sync.pc = "account"
  /\ dbCat' = MaxOf(dbCat, sync.cat)
  /\ SyncGoto("messages")
  /\ UNCHANGED <<line, applied, localRev, pending, completed, reauth, m, mainq, stream,
                 joining, refreshing, failed, bounds>>

\* Mutant: the stored messages count for an operation LINE has not logged.
SyncMessagesOneMore ==
  /\ sync.pc = "messages"
  /\ applied' = applied \union 1 .. sync.rev + 1
  /\ SyncGoto("media")
  /\ UNCHANGED <<line, localRev, dbCat, pending, completed, reauth, m, mainq, stream,
                 joining, refreshing, failed, bounds>>

\* The recent messages of every box.
SyncMessages ==
  /\ sync.pc = "messages"
  /\ applied' = applied \union 1 .. sync.rev
  /\ SyncGoto("media")
  /\ UNCHANGED <<line, localRev, dbCat, pending, completed, reauth, m, mainq, stream,
                 joining, refreshing, failed, bounds>>

\* Read receipts, decryption, the sticker catalogue and the downloads: their
\* requests may fail, and latch a gate for sync_phase_finish to notice.
SyncMedia ==
  /\ sync.pc = "media"
  /\ \/ UNCHANGED <<failed, faults>>
     \/ Fault /\ \E g \in Gates : failed' = failed \union {g}
  /\ SyncGoto("finish")
  /\ UNCHANGED <<line, disk, m, mainq, stream, joining, refreshing, acts, saves, crashes>>

\* Mutant: the revision is asked for after the fetch.
SyncFinishAtHead ==
  /\ sync.pc = "finish" /\ ~Gated
  /\ localRev' = head
  /\ SyncGoto("ack")
  /\ UNCHANGED <<line, applied, dbCat, pending, completed, reauth, m, mainq, stream,
                 joining, refreshing, failed, bounds>>

\* sync_phase_finish commits the captured revision.
SyncFinish ==
  /\ sync.pc = "finish" /\ ~Gated
  /\ localRev' = sync.rev
  /\ SyncGoto("ack")
  /\ UNCHANGED <<line, applied, dbCat, pending, completed, reauth, m, mainq, stream,
                 joining, refreshing, failed, bounds>>

\* enil_session_complete_partial_full_syncs, then the end of the sync.
SyncAck ==
  /\ sync.pc = "ack"
  /\ \/ /\ completed' = MaxOf(completed, sync.snap)
        /\ pending' = IF pending <= sync.snap THEN 0 ELSE pending
        /\ SyncEnds(TRUE)
        /\ UNCHANGED faults
     \/ /\ sync.snap > 0
        /\ Fault
        /\ SyncEnds(FALSE)
        /\ UNCHANGED <<completed, pending>>
  /\ UNCHANGED <<line, applied, localRev, dbCat, reauth, m, stream, joining, refreshing,
                 failed, acts, saves, crashes>>

\* enil_sync_attachments: no history, no cursor, no acknowledgement.  Files
\* that cannot be fetched are counted, not an error.
SyncAttachments ==
  /\ sync.pc = "attach"
  /\ SyncEnds(TRUE)
  /\ UNCHANGED <<line, disk, m, stream, joining, refreshing, failed, bounds>>

SyncStep ==
  SyncFails \/ SyncBegin \/ SyncCapture \/ SyncAccount \/ SyncMessages \/ SyncMedia
  \/ SyncFinish \/ SyncAck \/ SyncAttachments

-----------------------------------------------------------------------------
(* The rest of the process.                                                *)

\* A send, a read receipt or another account's worker call latches a gate.
OtherFails ==
  /\ Fault
  /\ \E g \in Gates : failed' = failed \union {g}
  /\ UNCHANGED <<line, disk, m, mainq, stream, joining, sync, refreshing, acts, saves,
                 crashes>>

\* enil_worker_set_credentials: clears the worker gate and nothing else.
SaveCredentials ==
  /\ saves < MaxSaves
  /\ "worker" \in failed
  /\ saves' = saves + 1
  /\ failed' = failed \ {"worker"}
  /\ UNCHANGED <<line, disk, m, mainq, stream, joining, sync, refreshing, faults, acts,
                 crashes>>

\* The process ends at any point and is launched again.
Crash ==
  /\ crashes < MaxCrashes
  /\ crashes' = crashes + 1
  /\ m' = Launched(m.enabled)
  /\ mainq' = <<"startSSE">>
  /\ stream' = [i \in Slots |-> NoClient]
  /\ joining' = {}
  /\ sync' = NoSync
  /\ refreshing' = 0
  /\ failed' = {}
  /\ UNCHANGED <<line, disk, faults, acts, saves>>

Next ==
  \/ NewOp \/ Purge \/ AskPartial
  \/ MainStep \/ RetrySync \/ RetryAttachments \/ SetSSEEnabled \/ ForceReconnectSSE
  \/ TokenRefreshTimerFired \/ TokenRefreshInBackground
  \/ \E i \in Slots : StreamStep(i) \/ StopSSEInBackground(i)
  \/ SyncStep
  \/ OtherFails \/ SaveCredentials \/ Crash

Spec == Init /\ [][Next]_vars

\* Every thread is scheduled, and LINE delivers what it holds.
Fairness ==
  /\ WF_vars(MainStep)
  /\ WF_vars(TokenRefreshInBackground)
  /\ WF_vars(SyncStep)
  /\ \A i \in Slots : WF_vars(StreamStep(i)) /\ WF_vars(StopSSEInBackground(i))

FairSpec == Spec /\ Fairness

-----------------------------------------------------------------------------
(* Properties.                                                             *)

Alive(i) == stream[i].pc \notin {"free", "exited", "quit"}

\* No gap: every operation up to the saved cursor has its effect in the
\* database, whatever events failed, were redelivered or were overtaken by a
\* sync, and wherever the process stopped (enil_sse_save_local_rev and
\* sync_phase_finish are the two writers of localRev).  A message older than
\* the MESSAGES_PER_CHAT last ones of its box is no effect to a sync.
NoGap == 1 .. localRev \subseteq applied

\* A partial-full-sync request is acknowledged to LINE (lastPartialFullSyncs)
\* only for data the database holds: enil_session_complete_partial_full_syncs
\* runs after the fetch, and never for a request that came during it.
AckAfterData == completed <= dbCat

\* One writer: at most one event stream is alive, and none while a sync runs,
\* across token refreshes, link toggles, retries and LINE's own requests
\* (startSSE and startSync wait for sseDidStop).
OneWriter ==
  /\ \A i, j \in Slots : Alive(i) /\ Alive(j) => i = j
  /\ sync.pc # "none" => \A i \in Slots : ~Alive(i)

Delivery == INSTANCE OrderedDelivery WITH log <- head, done <- applied, cursor <- localRev

\* The engine implements in-order, at-least-once delivery with a durable
\* cursor: operations take effect in LINE's order, and the cursor only moves
\* forward, over operations that took effect.
ImplementsDelivery == Delivery!Spec

\* The user has been told: a red health row, or a state other than "live",
\* "syncing" and "reconnecting".
Told == Gated \/ m.state \in {"neverSynced", "syncNeeded", "error", "reauth", "offline"}

\* The database reflects everything LINE has, and LINE knows it.
UpToDate == localRev = head /\ completed >= want

\* The native poller has ended by itself, with nothing latched or posted.
Quit == \E i \in Slots : stream[i].pc = "quit"

\* In the end the account is up to date or the user has been told why not,
\* unless the native poller has quit in silence: no request for a sync or a
\* restart is lost between the stream's thread, the joining thread, the sync
\* and the main thread's handlers.  A poller that quits (enil_native_poll.c's
\* breaks) is noticed by nobody until a refresh, the link or a sync joins it.
CaughtUp == <>[](UpToDate \/ Told \/ Quit)

\* "Live" is not shown for good over a stream that ended: when the state is
\* live, no health row is red and no poller has quit in silence, a stream runs
\* or the state changes (startSSE posts Live; enil_sse.c's thread ends by
\* itself on a gate, and stopSSE takes the state to a new one).
LiveIsStreaming ==
  LET Claimed == m.state = "live" /\ ~Gated /\ ~Quit /\ \A i \in Slots : ~Alive(i)
  IN  Claimed ~> ~Claimed

=============================================================================
