--------------------------- MODULE OptimisticSend ---------------------------
(***************************************************************************)
(* The sends of one chat and the page that shows it.                       *)
(*                                                                         *)
(* ENILAccount draws a temporary bubble, queues its id and starts a        *)
(* background thread; the thread loads the session, posts to LINE, saves   *)
(* the advanced sequence numbers, stores the message and confirms the id.  *)
(* LINE echoes every message of the account on the event stream, and the   *)
(* stream's callback decides which temporary bubble an echo replaces: the  *)
(* one confirmed under the message's id or else the FIRST one still queued *)
(* for the chat.  What the callback draws is handed to the main thread,    *)
(* buffered there and flushed by a timer; a finished sync or a click on    *)
(* the chat renders the page anew from the database.                       *)
(*                                                                         *)
(* A temporary id ("local-<ms>") is the number of its send, and a message  *)
(* id is its position in LINE's operation log: both grow.                  *)
(***************************************************************************)
EXTENDS Integers, Sequences, FiniteSets, SequencesExt

CONSTANTS MaxSends,      \* sends of the user
          Cases,         \* the bounds a behaviour may have, see CaseType
          FirstReqSeq, ReqSeqs,  \* session.reqSeq at the start, and its modulus
          Clock          \* the time next_req_seq starts from

(* A case says what the chat is, what is sent and by whom, and bounds what   *)
(* goes wrong:                                                               *)
(*   group     the chat is a group                                           *)
(*   sends     how many sends the user makes                                 *)
(*   contents  what the user sends                                           *)
(*   senders   who else writes, the user's telephone or another member       *)
(*   others    bound on their messages                                       *)
(*   overlap   sends the user lets run at a time                             *)
(*   lost      bound on failures after LINE took a message                   *)
(*   retries   bound on events the callback fails to store                   *)
(*   replays   bound on stored events delivered again                        *)
(*   reloads   bound on renderings of the whole page                         *)
CaseType ==
  [group : BOOLEAN, sends : 0..MaxSends,
   contents : (SUBSET {"text", "sticon", "sticker", "image"}) \ {{}},
   senders : SUBSET {"phone", "peer"},
   others : 0..3, overlap : 1..3, lost : 0..3, retries : 0..3, replays : 0..3,
   reloads : 0..3]

ASSUME BoundsAssumption ==
  /\ {MaxSends, FirstReqSeq, Clock} \subseteq Nat
  /\ ReqSeqs \in Nat \ {0} /\ FirstReqSeq < ReqSeqs /\ Clock < ReqSeqs
  /\ Cases \subseteq CaseType /\ Cases # {}

Sends == 1..MaxSends
None == 0

VARIABLES
  pc,        \* the background thread of each send
  content,   \* what each send carries
  sealed,    \* whether it is end-to-end encrypted
  snap,      \* the sequence numbers its thread loaded from session.json
  msgOf,     \* the id LINE gave its message
  session,   \* reqSeq and e2eeSequenceNumber in session.json
  order,     \* pendingSendOrderByChat_[chat]
  pending,   \* pendingSends_: message id -> temporary id
  log,       \* LINE: the account's operations for this chat
  seenRpc,   \* markChatSeenInBackground threads, by message id
  next,      \* the operation the stream delivers next
  cb,        \* sse_event_cb
  db, seen,  \* messages_v2 rows; lastSeenMessageId of the box
  mainq,     \* performSelectorOnMainThread
  buf,       \* coalescedJS_
  page,      \* the WebView: its bubbles and the row above the Seen line
  budget     \* the case of this behaviour and what is left of its bounds

sendVars == <<pc, content, sealed, snap, msgOf, session>>
matchVars == <<order, pending>>
lineVars == <<log, seenRpc>>
streamVars == <<next, cb>>
dbVars == <<db, seen>>
uiVars == <<mainq, buf, page>>
vars == <<sendVars, matchVars, lineVars, streamVars, dbVars, uiVars, budget>>

bound == budget.case
IsGroup == bound.group
Spend(b) == budget.left[b] > 0 /\ budget' = [budget EXCEPT !.left[b] = @ - 1]

-----------------------------------------------------------------------------
(* The page.  A bubble has the id of a temporary or of a stored message;   *)
(* the JavaScript finds a bubble by its id and does nothing when there is  *)
(* none, except that setSeenMarker removes the old Seen line first.        *)

Temp(s) == [temp |-> s, id |-> None, err |-> FALSE]
Shown(m) == [temp |-> None, id |-> m, err |-> FALSE]
JS(fn, s, m) == [fn |-> fn, temp |-> s, id |-> m]

RowOf(rows, s) == {i \in DOMAIN rows : rows[i].temp = s}
HasRow(rows, m) == \E i \in DOMAIN rows : rows[i].id = m

AppendMessage(pg, js) == [pg EXCEPT !.rows = Append(@, Shown(js.id))]
UpdateMessage(pg, js) ==
  [pg EXCEPT !.rows = [i \in DOMAIN @ |->
                         IF i \in RowOf(@, js.temp) THEN Shown(js.id) ELSE @[i]]]
FailMessage(pg, js) ==
  [pg EXCEPT !.rows = [i \in DOMAIN @ |->
                         IF i \in RowOf(@, js.temp) THEN [@[i] EXCEPT !.err = TRUE]
                                                    ELSE @[i]]]
SetSeenMarker(pg, js) ==
  [pg EXCEPT !.marker = IF HasRow(pg.rows, js.id) THEN js.id ELSE None]

Eval(pg, js) == CASE js.fn = "append" -> AppendMessage(pg, js)
                  [] js.fn = "update" -> UpdateMessage(pg, js)
                  [] js.fn = "fail"   -> FailMessage(pg, js)
                  [] js.fn = "seen"   -> SetSeenMarker(pg, js)

\* htmlPageForChatId: the rows of the database in order, and the Seen line.
Nth(S, i) == CHOOSE m \in S : Cardinality({n \in S : n <= m}) = i
Rendered == LET rows == [i \in 1..Cardinality(db) |-> Shown(Nth(db, i))]
            IN  [rows |-> rows, marker |-> IF HasRow(rows, seen) THEN seen ELSE None]

\* postMessageJS runs at once; coalesceMessageJS buffers.
Direct(js) == [direct |-> TRUE, js |-> js]
Coalesced(js) == [direct |-> FALSE, js |-> js]

-----------------------------------------------------------------------------
(* The pending-send tables, one lock around each use. *)

NoPending == [m \in {} |-> None]
QueuePendingTemp(q, s) == Append(q, s)
RemovePendingTemp(q, s) == RemoveFirst(q, s)
FirstPendingTempForChat(q) == IF q = <<>> THEN None ELSE Head(q)

FromMe(op) == op.type = "message" /\ op.from # "peer"

PendingTempId(m) ==
  IF log[m].type # "message" THEN None
  ELSE IF m \in DOMAIN pending THEN pending[m]
  ELSE IF FromMe(log[m]) THEN FirstPendingTempForChat(order)
  ELSE None

-----------------------------------------------------------------------------
(* The send on its background thread. *)

InFlight == {s \in Sends : pc[s] \notin {"idle", "done", "failed"}}

\* The common part of the four sends: the main thread draws the bubble, queues
\* its id and detaches the thread.
UserSend(s, c) ==
  /\ c \in bound.contents /\ s <= bound.sends
  /\ pc[s] = "idle" /\ \A t \in 1..(s - 1) : pc[t] # "idle"
  /\ Cardinality(InFlight) < bound.overlap
  /\ content' = [content EXCEPT ![s] = c]
  /\ page' = [page EXCEPT !.rows = Append(@, Temp(s))]
  /\ order' = QueuePendingTemp(order, s)
  /\ pc' = [pc EXCEPT ![s] = IF c = "image" THEN "flow" ELSE "load"]
  /\ UNCHANGED <<sealed, snap, msgOf, session, pending, lineVars, streamVars,
                 dbVars, mainq, buf, budget>>

SendText(s) == UserSend(s, "text")
SendInlineSticons(s) == UserSend(s, "sticon")
SendSticker(s) == UserSend(s, "sticker")
\* A picture that cannot be prepared is refused before anything is drawn.
SendImageAtPath(s) == UserSend(s, "image")

\* next_req_seq: a stored 0 counts as "none yet"; the clock then gives a
\* number.
NextReqSeqUnbounded(r) == r + 1   \* mistake: the modulus is forgotten
NextReqSeq(r) == IF r = 0 THEN Clock ELSE (r + 1) % ReqSeqs

\* A step of the thread that either goes on to `to' or gives the send up.
OrFail(s, to) == pc' \in {[pc EXCEPT ![s] = to], [pc EXCEPT ![s] = "fail"]}

\* enil_line_send_image: LINE names the flow of the chat; without an answer,
\* or without a session, it is the plain one.
DetermineFlow(s) ==
  /\ pc[s] = "flow"
  /\ sealed' \in {[sealed EXCEPT ![s] = e] : e \in BOOLEAN}
  /\ pc' = [pc EXCEPT ![s] = "load"]
  /\ UNCHANGED <<content, snap, msgOf, session, matchVars, lineVars, streamVars,
                 dbVars, uiVars, budget>>

\* Every enil_line_send_* loads the session once, at the start, and takes all it
\* needs from that copy.
LoadSession(s, to) ==
  /\ pc[s] = "load"
  /\ OrFail(s, to)
  /\ snap' = [snap EXCEPT ![s] = session]
  /\ UNCHANGED <<content, sealed, msgOf, session, matchVars, lineVars, streamVars,
                 dbVars, uiVars, budget>>

LineSendText(s) == content[s] = "text" /\ LoadSession(s, "post")
LineSendInlineSticon(s) == content[s] = "sticon" /\ LoadSession(s, "post")
LineSendSticker(s) == content[s] = "sticker" /\ LoadSession(s, "post")
LineSendImagePlain(s) == content[s] = "image" /\ ~sealed[s] /\ LoadSession(s, "post")
LineSendImageE2EE(s) == content[s] = "image" /\ sealed[s] /\ LoadSession(s, "upload")

\* The encrypted picture is in OBS before the message that names it is posted;
\* its preview may be missing.
UploadE2EE(s) ==
  /\ pc[s] = "upload"
  /\ OrFail(s, "post")
  /\ UNCHANGED <<content, sealed, snap, msgOf, session, matchVars, lineVars,
                 streamVars, dbVars, uiVars, budget>>

\* LINE takes the message, or does not.
Post(s, e) ==
  /\ pc[s] = "post"
  /\ sealed' = [sealed EXCEPT ![s] = e]
  /\ \/ /\ log' = Append(log, [type |-> "message", from |-> "here", of |-> s,
                               sealed |-> e, req |-> NextReqSeq(snap[s].req),
                               seq |-> snap[s].seq])
        /\ msgOf' = [msgOf EXCEPT ![s] = Len(log) + 1]
        /\ pc' = [pc EXCEPT ![s] = "reply"]
     \/ pc' = [pc EXCEPT ![s] = "fail"] /\ UNCHANGED <<log, msgOf>>
  /\ UNCHANGED <<content, snap, session, matchVars, seenRpc, streamVars, dbVars,
                 uiVars, budget>>

HasText(s) == content[s] \in {"text", "sticon"}
Encrypts(s) == HasText(s) \/ (content[s] = "image" /\ sealed[s])

PostPlain(s) == ~Encrypts(s) /\ Post(s, FALSE)
SendOneToOne(s) == Encrypts(s) /\ ~IsGroup /\ Post(s, TRUE)
\* fetch_group_key, else create_and_register_group_key: a key, or none.
GroupKeys == BOOLEAN

\* Without a group key, its own included, a text goes out in plaintext and a
\* picture not at all.
SendGroup(s) == Encrypts(s) /\ IsGroup /\ \E key \in GroupKeys :
                  IF key \/ HasText(s) THEN Post(s, key)
                  ELSE /\ pc[s] = "post" /\ pc' = [pc EXCEPT ![s] = "fail"]
                       /\ UNCHANGED <<content, sealed, snap, msgOf, session, matchVars,
                                      lineVars, streamVars, dbVars, uiVars, budget>>

\* Only send_1on1 advances the E2EE sequence number.
UsesSequence(op) == op.sealed /\ ~IsGroup

\* Mistake: the E2EE sequence number is not advanced.
UpdateSendStateReqOnly(s) == [req |-> NextReqSeq(snap[s].req), seq |-> session.seq]

\* update_send_state and enil_session_save's merge: a number this send changed
\* replaces the one in the file, one it left alone does not.
UpdateSendState(s) ==
  [req |-> NextReqSeq(snap[s].req),
   seq |-> IF UsesSequence(log[msgOf[s]]) THEN snap[s].seq + 1 ELSE session.seq]

SendReply(s) ==
  /\ pc[s] = "reply"
  /\ \/ /\ session' = UpdateSendState(s)
        /\ pc' = [pc EXCEPT ![s] = IF content[s] = "image" /\ ~sealed[s]
                                   THEN "media" ELSE "store"]
        /\ UNCHANGED budget
     \/ /\ Spend("lost")
        /\ pc' = [pc EXCEPT ![s] = "fail"]
        /\ UNCHANGED session
  /\ UNCHANGED <<content, sealed, snap, msgOf, matchVars, lineVars, streamVars, dbVars, uiVars>>

\* The plain picture is uploaded under the message's id; a failed upload does
\* not fail the send.
UploadPlain(s) ==
  /\ pc[s] = "media"
  /\ pc' = [pc EXCEPT ![s] = "store"]
  /\ UNCHANGED <<content, sealed, snap, msgOf, session, matchVars, lineVars,
                 streamVars, dbVars, uiVars, budget>>

\* enil_account_finish_send: upsert of the accepted message.
FinishSend(s) ==
  /\ pc[s] = "store"
  /\ \/ /\ db' = db \cup {msgOf[s]}
        /\ pc' = [pc EXCEPT ![s] = "confirm"]
        /\ UNCHANGED budget
     \/ /\ Spend("lost")
        /\ pc' = [pc EXCEPT ![s] = "fail"]
        /\ UNCHANGED db
  /\ UNCHANGED <<content, sealed, snap, msgOf, session, matchVars, lineVars, streamVars,
                 seen, uiVars>>

\* confirmTempId, then markChatSeen: move the Seen line and start the RPC.
ConfirmTempId(s) ==
  /\ pc[s] = "confirm"
  /\ pending' = [m \in DOMAIN pending \cup {msgOf[s]} |->
                   IF m = msgOf[s] THEN s ELSE pending[m]]
  /\ mainq' = Append(mainq, Direct(JS("seen", None, msgOf[s])))
  /\ seenRpc' = seenRpc \cup {msgOf[s]}
  /\ pc' = [pc EXCEPT ![s] = "done"]
  /\ UNCHANGED <<content, sealed, snap, msgOf, session, order, log, streamVars, dbVars,
                 buf, page, budget>>

\* Mistake: the failed send stays queued.
FailTempIdQueued(s) ==
  /\ pc[s] = "fail"
  /\ mainq' = Append(mainq, Direct(JS("fail", s, None)))
  /\ pc' = [pc EXCEPT ![s] = "failed"]
  /\ UNCHANGED <<content, sealed, snap, msgOf, session, matchVars, lineVars, streamVars,
                 dbVars, buf, page, budget>>

FailTempId(s) ==
  /\ pc[s] = "fail"
  /\ order' = RemovePendingTemp(order, s)
  /\ mainq' = Append(mainq, Direct(JS("fail", s, None)))
  /\ pc' = [pc EXCEPT ![s] = "failed"]
  /\ UNCHANGED <<content, sealed, snap, msgOf, session, pending, lineVars, streamVars,
                 dbVars, buf, page, budget>>

\* markChatSeenInBackground: the RPC makes LINE push SEND_CHAT_CHECKED, or fails.
MarkChatSeen(m) ==
  /\ m \in seenRpc
  /\ seenRpc' = seenRpc \ {m}
  /\ \/ log' = Append(log, [type |-> "seen", of |-> m])
     \/ UNCHANGED log
  /\ UNCHANGED <<sendVars, matchVars, streamVars, dbVars, uiVars, budget>>

\* A message of the user's telephone or of the peer.
OtherMessage(o) ==
  /\ Spend("others")
  /\ log' = Append(log, [type |-> "message", from |-> o, of |-> None, sealed |-> TRUE,
                         req |-> None, seq |-> None])
  /\ UNCHANGED <<sendVars, matchVars, seenRpc, streamVars, dbVars, uiVars>>

-----------------------------------------------------------------------------
(* The event callback. *)

IdleCb == [pc |-> "idle", temp |-> None]

MatchEvent ==
  /\ cb.pc = "idle" /\ next <= Len(log)
  /\ cb' = [pc |-> "process", temp |-> PendingTempId(next)]
  /\ UNCHANGED <<sendVars, matchVars, lineVars, next, dbVars, uiVars, budget>>

\* Mistake: the match is consumed although the event could not be stored.
ProcessEventConsumes ==
  /\ cb.pc = "process"
  /\ \/ /\ cb' = [cb EXCEPT !.pc = "consume"]
        /\ IF log[next].type = "message"
           THEN db' = db \cup {next} /\ UNCHANGED seen
           ELSE seen' = log[next].of /\ UNCHANGED db
        /\ UNCHANGED <<order, budget>>
     \/ /\ Spend("retries")
        /\ cb' = IdleCb
        /\ order' = RemovePendingTemp(order, cb.temp)
        /\ UNCHANGED dbVars
  /\ UNCHANGED <<sendVars, pending, lineVars, next, uiVars>>

\* Mistake: a peer's message drawn but not stored is taken for handled.
ProcessEventDrawn ==
  /\ cb.pc = "process"
  /\ cb' = [cb EXCEPT !.pc = "consume"]
  /\ \/ /\ IF log[next].type = "message"
           THEN db' = db \cup {next} /\ UNCHANGED seen
           ELSE seen' = log[next].of /\ UNCHANGED db
        /\ UNCHANGED budget
     \/ Spend("retries") /\ UNCHANGED dbVars
  /\ UNCHANGED <<sendVars, matchVars, lineVars, next, uiVars>>

\* enil_account_process_sse_event: on failure the callback returns 0 and the
\* same event comes again.
ProcessEvent ==
  /\ cb.pc = "process"
  /\ \/ /\ cb' = [cb EXCEPT !.pc = "consume"]
        /\ IF log[next].type = "message"
           THEN db' = db \cup {next} /\ UNCHANGED seen
           ELSE seen' = log[next].of /\ UNCHANGED db
        /\ UNCHANGED budget
     \/ /\ Spend("retries")
        /\ cb' = IdleCb
        /\ UNCHANGED dbVars
  /\ UNCHANGED <<sendVars, matchVars, lineVars, next, uiVars>>

\* The JavaScript enil_account_sse_build_message_updates makes for an event.
MessageUpdates(m, temp) ==
  IF log[m].type = "seen" THEN <<JS("seen", None, seen)>>
  ELSE IF temp # None THEN <<JS("update", temp, m)>>
  ELSE IF log[m].from = "peer" THEN <<JS("append", None, m), JS("seen", None, seen)>>
  ELSE <<JS("append", None, m)>>

\* The rest of sse_event_cb; the cursor then moves, or its save fails and the
\* event is delivered again.
ConsumeEvent ==
  LET temp == cb.temp
      js == MessageUpdates(next, temp)
  IN
  /\ cb.pc = "consume"
  /\ cb' = IdleCb
  /\ pending' = IF temp # None /\ next \in DOMAIN pending /\ pending[next] = temp
                THEN [m \in DOMAIN pending \ {next} |-> pending[m]]
                ELSE pending
  /\ order' = IF temp # None THEN RemovePendingTemp(order, temp) ELSE order
  /\ mainq' = mainq \o [i \in DOMAIN js |-> Coalesced(js[i])]
  /\ \/ next' = next + 1 /\ UNCHANGED budget
     \/ Spend("replays") /\ UNCHANGED next
  /\ UNCHANGED <<sendVars, lineVars, dbVars, buf, page>>

-----------------------------------------------------------------------------
(* The main thread. *)

RunMain ==
  /\ mainq # <<>>
  /\ mainq' = Tail(mainq)
  /\ IF Head(mainq).direct
     THEN page' = Eval(page, Head(mainq).js) /\ UNCHANGED buf
     ELSE buf' = Append(buf, Head(mainq).js) /\ UNCHANGED page
  /\ UNCHANGED <<sendVars, matchVars, lineVars, streamVars, dbVars, budget>>

\* Mistake: the first entry does not arm the timer.
FlushCoalescedUnarmed ==
  /\ Len(buf) > 1
  /\ page' = FoldLeft(Eval, page, buf)
  /\ buf' = <<>>
  /\ UNCHANGED <<sendVars, matchVars, lineVars, streamVars, dbVars, mainq, budget>>

\* flushCoalescedUI: the debounce timer, one second idle or eight at most.
FlushCoalesced ==
  /\ buf # <<>>
  /\ page' = FoldLeft(Eval, page, buf)
  /\ buf' = <<>>
  /\ UNCHANGED <<sendVars, matchVars, lineVars, streamVars, dbVars, mainq, budget>>

\* reloadContent: a finished sync, or a click on the chat.
Reload ==
  /\ Spend("reloads")
  /\ page' = Rendered
  /\ UNCHANGED <<sendVars, matchVars, lineVars, streamVars, dbVars, mainq, buf>>

-----------------------------------------------------------------------------

Init ==
  /\ pc = [s \in Sends |-> "idle"]
  /\ content = [s \in Sends |-> "text"] /\ sealed = [s \in Sends |-> FALSE]
  /\ session = [req |-> FirstReqSeq, seq |-> 0]
  /\ snap = [s \in Sends |-> session]
  /\ msgOf = [s \in Sends |-> None]
  /\ order = <<>> /\ pending = NoPending
  /\ log = <<>> /\ seenRpc = {}
  /\ next = 1 /\ cb = IdleCb
  /\ db = {} /\ seen = None
  /\ mainq = <<>> /\ buf = <<>>
  /\ page = [rows |-> <<>>, marker |-> None]
  /\ budget \in {[case |-> c,
                  left |-> [b \in {"others", "lost", "retries", "replays", "reloads"}
                              |-> c[b]]] : c \in Cases}

UserStep(s) == SendText(s) \/ SendInlineSticons(s) \/ SendSticker(s) \/ SendImageAtPath(s)
LoadStep(s) == \/ LineSendText(s) \/ LineSendInlineSticon(s) \/ LineSendSticker(s)
               \/ LineSendImagePlain(s) \/ LineSendImageE2EE(s)
SendStep(s) == \/ DetermineFlow(s) \/ LoadStep(s) \/ UploadE2EE(s)
               \/ PostPlain(s) \/ SendOneToOne(s) \/ SendGroup(s)
               \/ SendReply(s) \/ UploadPlain(s) \/ FinishSend(s)
               \/ ConfirmTempId(s) \/ FailTempId(s)
StreamStep == MatchEvent \/ ProcessEvent \/ ConsumeEvent
MainStep == RunMain \/ FlushCoalesced

Next == \/ \E s \in Sends : UserStep(s) \/ SendStep(s)
        \/ \E m \in seenRpc : MarkChatSeen(m)
        \/ \E o \in bound.senders : OtherMessage(o)
        \/ StreamStep \/ MainStep \/ Reload

\* Every request ends (curl's timeouts), the stream reconnects and delivers,
\* and the main thread drains its queue and fires its timer.
Fairness == /\ \A s \in Sends : WF_vars(SendStep(s))
            /\ WF_vars(StreamStep) /\ WF_vars(RunMain) /\ WF_vars(FlushCoalesced)

Spec == Init /\ [][Next]_vars
FairSpec == Spec /\ Fairness

-----------------------------------------------------------------------------
(* Properties *)

Messages == {m \in DOMAIN log : log[m].type = "message"}
Rows == page.rows

\* The ids in every table belong to sends and messages that exist; the queue of
\* temporary ids holds a send once, and only one whose bubble was drawn.
TypeOK ==
  /\ \A s \in Sends : pc[s] \in {"idle", "flow", "load", "upload", "post", "reply",
                                 "media", "store", "confirm",
                                 "fail", "done", "failed"}
  /\ \A s \in Sends : msgOf[s] # None => log[msgOf[s]].of = s
  /\ session.req \in 0..(ReqSeqs - 1) /\ session.seq \in 0..MaxSends
  /\ IsInjective(order) /\ \A i \in DOMAIN order : pc[order[i]] # "idle"
  /\ DOMAIN pending \subseteq Messages /\ db \subseteq Messages
  /\ next \in 1..(Len(log) + 1) /\ cb.temp \in {None} \cup Sends
  /\ page.marker \in {None} \cup Messages

\* One send at a time, each answered and each event drawn once, and nobody else
\* writing as the user: what the matching of echoes relies on.
Undisturbed == /\ bound.overlap = 1 /\ bound.lost = 0 /\ bound.replays = 0
               /\ "phone" \notin bound.senders

\* Undisturbed, an echo only ever replaces the bubble of the send it echoes,
\* also when it comes before the reply or after a refused send
\* (pending_temp_id_for_sse_message).
SwapsOwnBubble == Undisturbed /\ cb.temp # None => log[next].of = cb.temp

Quiet == /\ InFlight = {} /\ next > Len(log) /\ cb = IdleCb
         /\ mainq = <<>> /\ buf = <<>>

SeenAnswered == seenRpc = {} /\ \A s \in Sends : pc[s] = "done" =>
                  \E i \in DOMAIN log : log[i] = [type |-> "seen", of |-> msgOf[s]]

\* Once every send has ended and every event is drawn, no bubble of sends that
\* did not overlap still looks as if it were being sent, whatever was lost,
\* replayed or rendered meanwhile; undisturbed and not rendered anew, the page
\* shows each message of the database once, and the Seen line stands where the
\* database has it if LINE answered every mark (sse_event_cb, failTempId,
\* markChatSeen).
PageConverges ==
  Quiet => /\ bound.overlap = 1 =>
                \A i \in DOMAIN Rows : Rows[i].temp = None \/ Rows[i].err
           /\ Undisturbed /\ bound.reloads = 0 =>
                /\ \A m \in db : Cardinality({i \in DOMAIN Rows : Rows[i].id = m}) = 1
                /\ SeenAnswered => page.marker = seen

\* Whatever overlaps, fails or is replayed: when the stream has caught up every
\* message LINE took is stored, and every message of the peer is on the page
\* even if the page was rendered while its bubble was still buffered.
NothingLost ==
  Quiet => /\ db = Messages
           /\ \A m \in Messages : log[m].from = "peer" => HasRow(Rows, m)

\* Of the messages of this device that LINE took no two carry one request
\* number, and no two encrypted for the same peer key one E2EE sequence number,
\* while sends do not overlap and none is lost (update_send_state).
FreshSequence ==
  bound.overlap = 1 /\ bound.lost = 0 =>
  \A s, t \in Sends : s < t /\ msgOf[s] # None /\ msgOf[t] # None =>
    LET a == log[msgOf[s]]  b == log[msgOf[t]]
    IN  a.req # b.req /\ (UsesSequence(a) /\ UsesSequence(b) => a.seq # b.seq)

\* A bubble drawn for a send is in the end replaced by a message or marked as
\* failed; it does not stay pending.  Sends that overlap are left out: the echo
\* of one may use up the bubble of the other.
BubbleSettles ==
  \A s \in Sends : (bound.overlap = 1 /\ \E i \in DOMAIN Rows : Rows[i] = Temp(s))
                     ~> (\A i \in DOMAIN Rows : Rows[i] # Temp(s))

=============================================================================
