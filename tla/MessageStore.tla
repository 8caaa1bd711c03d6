---------------------------- MODULE MessageStore ----------------------------
(***************************************************************************)
(* One chat in the account's database (messages_v2, message_boxes_v2,      *)
(* message_box_readers_v2, chats_v2) and everything that writes it: the    *)
(* stream's handler enil_sync_process_sse_event, the phases of a full      *)
(* sync, the threads of sends and the removal of the chat.  All of them    *)
(* use ONE sqlite connection, so a statement of one thread can fall inside *)
(* the savepoint of another, and sqlite3_changes can speak of a statement  *)
(* that is not the caller's own.  Module AccountEngine shows that a sync and   *)
(* the stream never overlap, and how the cursor moves; here the cursor is  *)
(* only saved (or lost) after a handler is done.                           *)
(*                                                                         *)
(* LINE is external: a log of operations, and the answers its fetches give *)
(* from the log.  Message ids, operation revisions and receipt times are   *)
(* positions in LINE's sequences, so later means greater.  An e2ee message *)
(* carries no text; the worker's answer is a choice.                       *)
(***************************************************************************)
EXTENDS Naturals, Sequences, FiniteSets

CONSTANTS
  People,     \* whoever may be another member of the chat
  Setups      \* the chats and bounds a behaviour may have, see SetupType

(* A setup is a chat and the bounds of a behaviour:                         *)
(*   members   the other members; one when the chat is no group             *)
(*   group     a group or room, or a one-to-one chat                        *)
(*   kinds     message kinds LINE delivers                                  *)
(*   types     operation types LINE delivers                                *)
(*   window    MESSAGES_PER_CHAT                                            *)
(*   msgs, ops, syncs, faults, removals    bounds                           *)
SetupType ==
  [members : (SUBSET People) \ {{}}, group : BOOLEAN,
   kinds : SUBSET {"clear", "e2ee", "other"},
   types : SUBSET {"message", "seen", "read", "react", "destroy", "chat"},
   window : Nat \ {0}, msgs : Nat, ops : Nat, syncs : Nat, faults : Nat, removals : Nat]

ASSUME StoreAssumption ==
  /\ Setups \subseteq SetupType /\ Setups # {}
  /\ \A c \in Setups : ~c.group => Cardinality(c.members) = 1

VARIABLES
  msgs,     \* LINE: the messages of the chat, in order
  ops,      \* LINE: the operation log
  hidden,   \* LINE: messages before the last sendChatRemoved
  rows,     \* messages_v2: the cached messages, by id
  box,      \* message_boxes_v2
  readAt,   \* peerLastReadTime or message_box_readers_v2.readTime; 0: none
  name,     \* version of the chat's (or peer's) metadata row; 0: no row
  rev,      \* settings.local_rev
  stream,   \* the stream's handler
  sync,     \* the sync thread
  removing, \* removeChatInBackground is between the RPC and the delete
  sent,     \* ids of messages whose sending thread has stored them
  torn,     \* a sync failed after it wrote the boxes (history, for CountedOnce)
  raced,    \* rows whose reactions a sync left as they were because another
            \* thread wrote between its insert and sqlite3_changes (history,
            \* for Converges)
  setup,    \* the chat and the bounds of this behaviour
  syncs, faults, removals   \* used up of the bounds

line   == <<msgs, ops, hidden>>
db     == <<rows, box, readAt, name>>
bounds == <<setup, syncs, faults, removals>>
vars   == <<line, db, rev, stream, sync, removing, sent, torn, raced, bounds>>

Members == setup.members

Statuses == {"pending", "plain", "success", "failed", "notText"}
Row  == [text : BOOLEAN, status : Statuses, deleted : BOOLEAN, react : SUBSET Members]
Box  == [in : BOOLEAN, seen : Nat, unread : Nat, delivered : Nat]
NoBox == [in |-> FALSE, seen |-> 0, unread |-> 0, delivered |-> 0]

\* What the tables, the log and the threads may hold; rows, marks and cursors
\* stay within what LINE has sent.
TypeOK ==
  /\ msgs \in Seq([mine : BOOLEAN, kind : setup.kinds])
  /\ ops \in Seq([type : setup.types, msg : Nat, who : Members, on : BOOLEAN])
  /\ hidden \in 0 .. Len(msgs)
  /\ DOMAIN rows \subseteq 1 .. Len(msgs) /\ \A i \in DOMAIN rows : rows[i] \in Row
  /\ box \in Box
  /\ readAt \in [Members -> 0 .. Len(ops)]
  /\ name \in Nat /\ rev \in 0 .. Len(ops)
  /\ stream.pc \in {"idle", "saved", "stored", "decrypt", "done"}
  /\ sync \in [pc : {"idle", "account", "messages", "ranges", "list", "decrypt"},
               rev : 0 .. Len(ops), has : BOOLEAN, batch : SUBSET (1 .. Len(msgs))]
  /\ removing \in BOOLEAN /\ torn \in BOOLEAN
  /\ sent \subseteq 1 .. Len(msgs) /\ raced \subseteq 1 .. Len(msgs)
  /\ {syncs, faults, removals} \subseteq Nat

Idle   == [pc |-> "idle"]
NoSync == [pc |-> "idle", rev |-> 0, has |-> FALSE, batch |-> {}]

\* The account was synced when the chat had no message yet.
Init ==
  /\ msgs = <<>> /\ ops = <<>> /\ hidden = 0
  /\ setup \in Setups
  /\ rows = <<>> /\ box = NoBox /\ readAt = [w \in Members |-> 0] /\ name = 0
  /\ rev = 0 /\ stream = Idle /\ sync = NoSync
  /\ removing = FALSE /\ sent = {} /\ torn = FALSE /\ raced = {}
  /\ syncs = 0 /\ faults = 0 /\ removals = 0

MaxOf(a, b) == IF a > b THEN a ELSE b
Fault == faults < setup.faults /\ faults' = faults + 1

-----------------------------------------------------------------------------
(* LINE.                                                                   *)

OpsOf(type, upto) == {i \in 1 .. upto : ops[i].type = type}
LastOf(S) == IF S = {} THEN 0 ELSE CHOOSE i \in S : \A j \in S : j <= i

Now == Len(ops)
SrvSeen == LET i == LastOf(OpsOf("seen", Now)) IN IF i = 0 THEN 0 ELSE ops[i].msg
SrvUnread == Cardinality({i \in 1 .. Len(msgs) : ~msgs[i].mine /\ i > SrvSeen})
SrvRead(w) == LastOf({i \in OpsOf("read", Now) : ops[i].who = w})
SrvReact(i) ==
  {w \in Members : LET k == LastOf({j \in OpsOf("react", Now) : ops[j].msg = i /\ ops[j].who = w})
                   IN  k # 0 /\ ops[k].on}
SrvName == 1 + Cardinality(OpsOf("chat", Now))
Destroyed(i) == \E j \in OpsOf("destroy", Now) : ops[j].msg = i

\* getRecentMessages: the last `window' messages still there.
Recent == {i \in 1 .. Len(msgs) : i > hidden /\ i + setup.window > Len(msgs) /\ ~Destroyed(i)}

Log(type, i, w, on) ==
  /\ type \in setup.types /\ Len(ops) < setup.ops
  /\ ops' = Append(ops, [type |-> type, msg |-> i, who |-> w, on |-> on])
  /\ UNCHANGED <<hidden, db, rev, stream, sync, removing, sent, torn, raced, bounds>>

AnyMember == CHOOSE w \in Members : TRUE

NewMessage(mine, kind) ==
  /\ Len(msgs) < setup.msgs
  /\ msgs' = Append(msgs, [mine |-> mine, kind |-> kind])
  /\ Log("message", Len(msgs) + 1, AnyMember, mine)

\* Some client of the account marks the chat seen up to its newest message.
NewSeen == msgs # <<>> /\ Log("seen", Len(msgs), AnyMember, TRUE) /\ UNCHANGED msgs
NewRead(w) == msgs # <<>> /\ Log("read", Len(msgs), w, TRUE) /\ UNCHANGED msgs
NewReact(i, w, on) == Log("react", i, w, on) /\ UNCHANGED msgs
NewDestroy(i) == ~Destroyed(i) /\ Log("destroy", i, AnyMember, TRUE) /\ UNCHANGED msgs
NewChat == Log("chat", 0, AnyMember, TRUE) /\ UNCHANGED msgs

-----------------------------------------------------------------------------
(* The statements of enil_db.c.                                            *)

With(rs, i, r) == [k \in DOMAIN rs \union {i} |-> IF k = i THEN r ELSE rs[k]]

NewRow(text, reacts) ==
  [text |-> text, status |-> IF text THEN "plain" ELSE "pending", deleted |-> FALSE,
   react |-> reacts]

\* The two tests of sqlite3_changes(db) after the insert, each named for the
\* update it guards.  The count is the connection's: after an insert that was
\* ignored a test reads zero, unless another thread's write came in between.
Tests == {"reactions", "fill"}

\* Mistake: an existing row is written anew, but for its reactions.
MessageReplace(rs, i, text, field, reacts, zero) ==
  With(rs, i, IF i \in DOMAIN rs /\ ~field THEN NewRow(text, rs[i].react)
              ELSE NewRow(text, reacts))

\* enil_db_message_upsert: insert or ignore; a reactions field of the wire
\* replaces the stored one; text fills a row without it.  zero are the tests
\* that read zero; a new row needs neither update.
MessageUpsert(rs, i, text, field, reacts, zero) ==
  IF i \notin DOMAIN rs THEN With(rs, i, NewRow(text, reacts))
  ELSE LET over == field /\ "reactions" \in zero
           fill == text /\ ~rs[i].text /\ "fill" \in zero
       IN  [rs EXCEPT ![i].react = IF over THEN reacts ELSE @,
                      ![i].text = IF fill THEN TRUE ELSE @,
                      ![i].status = IF fill THEN "plain" ELSE @]

\* enil_db_message_box_upsert: what getMessageBoxes says, except that no seen
\* position leaves the stored one.
MessageBoxUpsert(b) ==
  [in |-> TRUE, seen |-> IF SrvSeen = 0 THEN b.seen ELSE SrvSeen,
   unread |-> SrvUnread, delivered |-> Len(msgs)]

\* Mistake: the count only ever returns to zero.
LiveMessageUncounted(b, i) ==
  [b EXCEPT !.in = TRUE, !.delivered = i,
            !.unread = IF i \in DOMAIN rows THEN @ ELSE 0]

\* enil_db_message_box_upsert_live_message.
LiveMessage(b, i) ==
  [b EXCEPT !.in = TRUE, !.delivered = i,
            !.unread = IF i \in DOMAIN rows THEN @
                       ELSE IF msgs[i].mine THEN 0 ELSE @ + 1]

MarkSeen(b, i) == IF b.in THEN [b EXCEPT !.unread = 0, !.seen = i] ELSE b

\* enil_db_message_box_set_peer_read: needs the box's row.
SetPeerRead(ra, w, t) == IF box.in /\ ra[w] <= t THEN [ra EXCEPT ![w] = t] ELSE ra

\* Mistake: a late receipt moves the reader back.
SetGroupReaderLast(ra, w, t) == [ra EXCEPT ![w] = t]

\* enil_db_message_box_set_group_reader: a table of its own.
SetGroupReader(ra, w, t) == IF ra[w] <= t THEN [ra EXCEPT ![w] = t] ELSE ra

\* The routing by the first letter of the chat's id, live and in the sync.
SetRead(ra, w, t) == IF setup.group THEN SetGroupReader(ra, w, t) ELSE SetPeerRead(ra, w, t)

\* enil_db_message_reactions_update: one reaction per reactor; a message that
\* is not cached is skipped.
ReactionsUpdate(rs, i, w, on) ==
  IF i \notin DOMAIN rs THEN rs
  ELSE [rs EXCEPT ![i].react = IF on THEN @ \union {w} ELSE @ \ {w}]

MarkDeleted(rs, i) == IF i \in DOMAIN rs THEN [rs EXCEPT ![i].deleted = TRUE] ELSE rs

\* enil_db_set_message_text, unconditional on the row as it is now.
SetText(rs, i, text, status) ==
  IF i \in DOMAIN rs THEN [rs EXCEPT ![i].text = text, ![i].status = status] ELSE rs

\* What decrypt_one_message and sync_phase_decrypting write for a message.
\* ok is whether the worker decrypts it.
DecryptWrite(rs, i, ok) ==
  IF msgs[i].kind # "e2ee" THEN SetText(rs, i, FALSE, "notText")
  ELSE SetText(rs, i, ok, IF ok THEN "success" ELSE "failed")

-----------------------------------------------------------------------------
(* The stream's handler.                                                   *)

HandlerVars == <<setup, line, sync, removing, sent, torn, raced, syncs, removals>>

Op == ops[rev + 1]
HasOp(type) == sync.pc = "idle" /\ rev < Now /\ Op.type = type

\* After the handler returns the cursor is saved, or is not (a stop, a crash).
Saved(pc) ==
  /\ stream' = [pc |-> pc]
  /\ \/ rev' = rev + 1 /\ UNCHANGED faults
     \/ UNCHANGED rev /\ Fault

\* The operations that are one statement.
StreamRead ==
  /\ stream.pc = "idle" /\ HasOp("read")
  /\ readAt' = SetRead(readAt, Op.who, rev + 1)
  /\ Saved("idle")
  /\ UNCHANGED <<HandlerVars, rows, box, name>>

StreamSeen ==
  /\ stream.pc = "idle" /\ HasOp("seen")
  /\ box' = MarkSeen(box, Op.msg)
  /\ Saved("idle")
  /\ UNCHANGED <<HandlerVars, rows, readAt, name>>

StreamDestroy ==
  /\ stream.pc = "idle" /\ HasOp("destroy")
  /\ rows' = MarkDeleted(rows, Op.msg)
  /\ Saved("idle")
  /\ UNCHANGED <<HandlerVars, box, readAt, name>>

StreamReaction ==
  /\ stream.pc = "idle" /\ HasOp("react")
  /\ rows' = ReactionsUpdate(rows, Op.msg, Op.who, Op.on)
  /\ Saved("idle")
  /\ UNCHANGED <<HandlerVars, box, readAt, name>>

\* apply_op_chat_update and apply_op_contact_update fetch the current version;
\* a failed fetch is an error and the operation comes again.
StreamChatUpdate ==
  /\ stream.pc = "idle" /\ HasOp("chat")
  /\ \/ name' = SrvName /\ Saved("idle")
     \/ UNCHANGED <<name, rev, stream>> /\ Fault
  /\ UNCHANGED <<HandlerVars, rows, box, readAt>>

\* Mistake: the box is written outside any savepoint.
StreamSaveNoSavepoint ==
  /\ stream.pc = "idle" /\ HasOp("message")
  /\ box' = LiveMessage(box, Op.msg)
  /\ stream' = [pc |-> "saved", undo |-> <<rows, box', readAt, name>>]
  /\ UNCHANGED <<HandlerVars, rows, readAt, name, rev, faults>>

\* A message: the savepoint and the box.
StreamSave ==
  /\ stream.pc = "idle" /\ HasOp("message")
  /\ box' = LiveMessage(box, Op.msg)
  /\ stream' = [pc |-> "saved", undo |-> db]
  /\ UNCHANGED <<HandlerVars, rows, readAt, name, rev, faults>>

\* enil_db_message_upsert (no reactions field) and the release.
StreamInsert ==
  /\ stream.pc = "saved"
  /\ \E zero \in SUBSET Tests :
       rows' = MessageUpsert(rows, Op.msg, msgs[Op.msg].kind = "clear", FALSE, {}, zero)
  /\ stream' = [pc |-> "stored"]
  /\ UNCHANGED <<HandlerVars, box, readAt, name, rev, faults>>

\* Mistake: the failed insert is acknowledged.
StreamRollbackAcked ==
  /\ stream.pc = "saved" /\ Fault
  /\ rows' = stream.undo[1] /\ box' = stream.undo[2]
  /\ readAt' = stream.undo[3] /\ name' = stream.undo[4]
  /\ rev' = rev + 1
  /\ stream' = Idle
  /\ UNCHANGED HandlerVars

\* The insert fails, or the process dies: everything the connection wrote
\* since the savepoint is undone.
StreamRollback ==
  /\ stream.pc = "saved" /\ Fault
  /\ rows' = stream.undo[1] /\ box' = stream.undo[2]
  /\ readAt' = stream.undo[3] /\ name' = stream.undo[4]
  /\ stream' = Idle
  /\ UNCHANGED <<HandlerVars, rev>>

\* backfill_chat_metadata: best effort, only without a row.
Backfill ==
  \/ name # 0 /\ UNCHANGED <<name, faults>>
  \/ name = 0 /\ name' = SrvName /\ UNCHANGED faults
  \/ name = 0 /\ Fault /\ UNCHANGED name

HasPlaintext(i) == i \in DOMAIN rows /\ rows[i].text

\* The plaintext is looked up before the decryption, which may take long.
StreamCheck ==
  /\ stream.pc = "stored"
  /\ Backfill
  /\ stream' = [pc |-> IF HasPlaintext(Op.msg) THEN "done" ELSE "decrypt"]
  /\ UNCHANGED <<HandlerVars, rows, box, readAt, rev>>

StreamDecrypt ==
  /\ stream.pc = "decrypt"
  /\ \/ rows' = DecryptWrite(rows, Op.msg, TRUE) /\ UNCHANGED faults
     \/ rows' = DecryptWrite(rows, Op.msg, FALSE) /\ Fault
  /\ stream' = [pc |-> "done"]
  /\ UNCHANGED <<HandlerVars, box, readAt, name, rev>>

\* The assets are fetched; a failure (or a crash) has the operation again.
StreamDone ==
  /\ stream.pc = "done"
  /\ Saved("idle")
  /\ UNCHANGED <<HandlerVars, db>>

-----------------------------------------------------------------------------
(* A full sync.                                                            *)

SyncVars == <<setup, line, stream, removing, sent, removals>>
SyncStep == <<SyncVars, torn, raced>>

\* The stream has stopped; the cursor is LINE's revision before any fetch.
SyncBegin ==
  /\ stream.pc = "idle" /\ sync.pc = "idle" /\ syncs < setup.syncs
  /\ syncs' = syncs + 1
  /\ sync' = [NoSync EXCEPT !.pc = "account", !.rev = Now]
  /\ UNCHANGED <<SyncStep, db, rev, faults>>

\* sync_phase_account: chats, then boxes.  A removed chat has no box.
SyncAccount ==
  /\ sync.pc = "account"
  /\ name' = SrvName
  /\ box' = IF Len(msgs) > hidden THEN MessageBoxUpsert(box) ELSE box
  /\ sync' = [sync EXCEPT !.pc = "messages", !.has = Len(msgs) > hidden]
  /\ UNCHANGED <<SyncStep, rows, readAt, rev, syncs, faults>>

\* reactions_extract_for_storage: the field is always there in a fetch.
SyncReacts(rs, i, zero) ==
  MessageUpsert(rs, i, msgs[i].kind = "clear", TRUE, SrvReact(i), zero)[i]

\* The rows whose stale reactions are not overwritten.
Missed(zero) ==
  {i \in Recent \intersect DOMAIN rows :
     "reactions" \notin zero[i] /\ rows[i].react # SrvReact(i)}

\* sync_phase_messages: the recent messages of each box of this sync.
SyncMessages ==
  /\ sync.pc = "messages"
  /\ \/ ~sync.has /\ UNCHANGED <<rows, raced>>
     \/ /\ sync.has
        /\ \E zero \in [Recent -> SUBSET Tests] :
             /\ rows' = [i \in DOMAIN rows \union Recent |->
                           IF i \in Recent THEN SyncReacts(rows, i, zero[i]) ELSE rows[i]]
             /\ raced' = (raced \ Recent) \union Missed(zero)
  /\ sync' = [sync EXCEPT !.pc = "ranges"]
  /\ UNCHANGED <<SyncVars, torn, box, readAt, name, rev, syncs, faults>>

\* read_range_apply_data: readers without a segment are left alone.
ReadRange(w) == IF SrvRead(w) = 0 THEN readAt[w] ELSE SetRead(readAt, w, SrvRead(w))[w]

\* sync_phase_read_range: a batch that cannot be fetched is skipped.
SyncReadRange ==
  /\ sync.pc = "ranges"
  /\ \/ /\ readAt' = IF sync.has THEN [w \in Members |-> ReadRange(w)] ELSE readAt
        /\ UNCHANGED faults
     \/ sync.has /\ Fault /\ UNCHANGED readAt
  /\ sync' = [sync EXCEPT !.pc = "list"]
  /\ UNCHANGED <<SyncStep, rows, box, name, rev, syncs>>

\* enil_db_get_messages_needing_decrypt.
SyncList ==
  /\ sync.pc = "list"
  /\ sync' = [sync EXCEPT !.pc = "decrypt",
                !.batch = {i \in DOMAIN rows : rows[i].status \in {"pending", "failed"}}]
  /\ UNCHANGED <<SyncStep, db, rev, syncs, faults>>

SyncDecrypt(i) ==
  /\ sync.pc = "decrypt" /\ i \in sync.batch
  /\ \A j \in sync.batch : i <= j
  /\ \/ rows' = DecryptWrite(rows, i, TRUE) /\ UNCHANGED faults
     \/ rows' = DecryptWrite(rows, i, FALSE) /\ Fault
  /\ sync' = [sync EXCEPT !.batch = @ \ {i}]
  /\ UNCHANGED <<SyncStep, box, readAt, name, rev, syncs>>

\* Mistake: the cursor moves past the captured revision.
SyncFinishPast ==
  /\ sync.pc = "decrypt" /\ sync.batch = {}
  /\ rev' = sync.rev + 1
  /\ sync' = NoSync
  /\ UNCHANGED <<SyncStep, db, syncs, faults>>

\* The cursor jumps to the captured revision.
SyncFinish ==
  /\ sync.pc = "decrypt" /\ sync.batch = {}
  /\ rev' = sync.rev
  /\ sync' = NoSync
  /\ UNCHANGED <<SyncStep, db, syncs, faults>>

\* A fetch or a write fails: the cursor stays, what was written stays.
SyncFails ==
  /\ sync.pc # "idle" /\ Fault
  /\ sync' = NoSync
  /\ torn' = (torn \/ sync.pc # "account")
  /\ UNCHANGED <<SyncVars, raced, db, rev, syncs>>

-----------------------------------------------------------------------------
(* The other threads on the connection.                                    *)

\* enil_account_finish_send: LINE has answered the send of message i; the
\* local copy has the text and no reactions.
StoreSent(i) ==
  /\ msgs[i].mine /\ msgs[i].kind # "other" /\ i \notin sent
  /\ \E zero \in SUBSET Tests : rows' = MessageUpsert(rows, i, TRUE, FALSE, {}, zero)
  /\ sent' = sent \union {i}
  /\ UNCHANGED <<line, box, readAt, name, rev, stream, sync, removing, torn, raced,
                 bounds>>

\* enil_line_send_chat_removed.
RemoveChat ==
  /\ ~removing /\ removals < setup.removals /\ Len(msgs) > hidden
  /\ removing' = TRUE /\ removals' = removals + 1
  /\ hidden' = Len(msgs)
  /\ UNCHANGED <<msgs, ops, db, rev, stream, sync, sent, torn, raced, setup, syncs,
                 faults>>

\* enil_db_chat_delete: BEGIN fails inside the stream's savepoint, and the
\* caller ignores it.  message_box_readers_v2 and contacts_v2 are not touched.
ChatDelete ==
  /\ removing /\ removing' = FALSE
  /\ IF stream.pc = "saved" THEN UNCHANGED db
     ELSE /\ rows' = <<>> /\ box' = NoBox
          /\ readAt' = IF setup.group THEN readAt ELSE [w \in Members |-> 0]
          /\ name' = IF setup.group THEN 0 ELSE name
  /\ UNCHANGED <<line, rev, stream, sync, sent, torn, raced, bounds>>

-----------------------------------------------------------------------------
Line ==
  \/ \E mine \in BOOLEAN, kind \in setup.kinds : NewMessage(mine, kind)
  \/ NewSeen \/ NewChat
  \/ \E w \in Members : NewRead(w)
  \/ \E i \in 1 .. Len(msgs), w \in Members, on \in BOOLEAN : NewReact(i, w, on)
  \/ \E i \in 1 .. Len(msgs) : NewDestroy(i)

Handler == StreamRead \/ StreamSeen \/ StreamDestroy \/ StreamReaction
           \/ StreamChatUpdate \/ StreamSave \/ StreamInsert
           \/ StreamRollback \/ StreamCheck \/ StreamDecrypt \/ StreamDone

Syncing == SyncBegin \/ SyncAccount \/ SyncMessages \/ SyncReadRange \/ SyncList
           \/ (\E i \in 1 .. Len(msgs) : SyncDecrypt(i)) \/ SyncFinish \/ SyncFails

Next == Line \/ Handler \/ Syncing \/ (\E i \in 1 .. Len(msgs) : StoreSent(i))
        \/ RemoveChat \/ ChatDelete

Spec == Init /\ [][Next]_vars

-----------------------------------------------------------------------------
(* Properties.                                                             *)

Incoming(from) == {i \in 1 .. Len(msgs) : ~msgs[i].mine /\ i > from}
Settled == sync.pc = "idle" /\ stream.pc = "idle"
CaughtUp == Settled /\ rev = Now

\* However often an operation is delivered again (a failed insert, a lost
\* cursor, a replay after a sync), no incoming message is counted twice: the
\* unread count never exceeds the messages after the stored seen position.
\* Cases left out, besides a removal in the middle of a sync: a counted message
\* outside the fetch window is not cached, nor are the counted messages of a
\* sync that failed after its boxes, nor a message unsent between the boxes and
\* the messages of a sync; their replay counts them again.
CountedOnce ==
  (setup.window >= setup.msgs /\ ~torn /\ removals = 0) =>
    box.unread <= Cardinality(Incoming(box.seen))
                  + Cardinality({i \in Incoming(0) : Destroyed(i)})

\* Until a sync or a removal interferes, the stream alone never loses count:
\* every cached incoming message after the last own and the last seen one is
\* still counted.
StreamCounts ==
  (syncs = 0 /\ removals = 0 /\ Settled) =>
    LET zero == LastOf({i \in DOMAIN rows : msgs[i].mine} \union {box.seen})
    IN  Cardinality(Incoming(zero) \intersect DOMAIN rows) <= box.unread

\* An unsent message stays unsent: no replay, fetch or send brings a row that
\* carries is_deleted back (only the removal of the chat drops the row).
DeletedSticky ==
  [][\A i \in DOMAIN rows \intersect DOMAIN rows' :
       rows[i].deleted => rows'[i].deleted]_vars

\* A reader's mark never moves back, whichever of the live receipts and the
\* sync's read ranges is older (one-to-one marks go with the box).
ReadNeverBack ==
  [][\A w \in Members : readAt'[w] >= readAt[w] \/ ~box'.in]_vars

\* Once the replay has caught up, the database agrees with LINE, though the sync
\* read each part at some moment between its cursor and its end and the replay
\* starts at the cursor: a metadata row that exists is LINE's current version
\* and, unless the chat was removed, the newest messages of the window are all
\* stored, also those the cursor skipped, and show exactly LINE's reactions.
\* Left out are the reactions of the rows another thread's write kept the last
\* sync from overwriting, though enil_db_message_upsert calls the fetch "the
\* source of truth".
Converges ==
  CaughtUp =>
    /\ name # 0 => name = SrvName
    /\ removals = 0 =>
         /\ Recent \subseteq DOMAIN rows
         /\ \A i \in Recent \ raced : rows[i].react = SrvReact(i)

=============================================================================
