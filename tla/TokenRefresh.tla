---------------------------- MODULE TokenRefresh ----------------------------
(***************************************************************************)
(* session.json and its refresh journal (enil_session.c, enil_line.c).     *)
(*                                                                         *)
(* One account directory holds session.json and, while a token refresh is  *)
(* in flight, session.json.refresh-pending.  Several threads of the        *)
(* process change them: the refresher (one at a time, behind a process     *)
(* wide mutex), API calls that receive an inline x-line-next-access token, *)
(* operations that load a snapshot and save one field much later, the      *)
(* native poller, and a QR login that replaces the whole file.  Every file *)
(* replacement is atomic; the process may stop between any two of them.    *)
(*                                                                         *)
(* A LINE login is a number 1..MaxLogins, which is also its loginId.  A    *)
(* token is <<login it was issued to, serial>>, kept as a record.          *)
(***************************************************************************)
EXTENDS Naturals

CONSTANTS
  None,        \* an absent file or field
  Mixes,       \* the sets of threads that may run beside the refresher
  MaxLogins,   \* bound: QR logins of this account
  MaxIssue,    \* bound: access tokens issued to one login
  MaxIds,      \* bound: refresh ids drawn by enil_session_new_id
  MaxSeq,      \* bound: saved send sequence number
  MaxFaults,   \* bound: file operations that report failure
  MaxCrashes   \* bound: process exits

ASSUME MixesAssumption == Mixes \subseteq SUBSET {"call", "send", "obs", "poll"}

ASSUME BoundsAssumption ==
  /\ MaxLogins \in Nat \ {0}
  /\ {MaxIssue, MaxIds, MaxSeq, MaxFaults, MaxCrashes} \subseteq Nat

Logins  == 1 .. MaxLogins
\* 0 stands for "absent": a legacy journal's loginId, no OBS token yet, ...
Owners  == 0 .. MaxLogins
Token   == [login : Owners, n : Nat]
Session == [id : Logins, access : Token, refresh : Token, journalId : Nat,
            obs : Owners, native : Owners, seq : Nat]
\* A 200 reply may lack its accessToken (malformed), and lacks a refreshToken
\* when LINE leaves the refresh token as it was.
Reply   == [access : Token \union {None}, refresh : Token \union {None}]
Journal == [login : Owners, id : Nat, prev : Token, reply : Reply]

ASSUME NoneAssumption == None \notin Token \union Journal

VARIABLES
  threads,   \* the threads of this behaviour, one of Mixes
  session,   \* contents of session.json
  journal,   \* contents of session.json.refresh-pending, or None
  server,    \* LINE: per login, the last serials issued
  pc,        \* the thread holding the refresh mutex
  engine,    \* login of the engine whose thread that is (its health gate)
  snap,      \* its session_t snapshot
  rid,       \* its refresh id
  reply,     \* its reply body
  fresh,     \* the reply came from the network, not from the journal
  call,      \* an API call whose reply carries a next access token
  saver,     \* an operation between its load and its enil_session_save
  poll,      \* login whose revisions the native poller is about to patch
  gated,     \* logins whose engine has its LINE health gate set
  boot,      \* login of the first engine of this process
  nextId,    \* ids drawn so far
  faults, crashes,
  lost,      \* history: why the live refresh token may be gone
  replaced   \* history: access tokens session.json held and gave up

refresher == <<pc, engine, snap, rid, reply, fresh>>
others    == <<call, saver, poll>>
bounds    == <<faults, crashes>>
vars == <<threads, session, journal, server, refresher, others, gated, boot, nextId, bounds,
          lost, replaced>>

CallType  == [busy : BOOLEAN, id : Logins, prev : Token, next : Token]
SaverType == [pc : {"idle", "obsLoad", "save"}, snap : Session,
              next : Session, obs : Owners]

\* What each variable of the code holds (threads never changes).
TypeOK ==
  /\ session \in Session
  /\ journal \in Journal \union {None}
  /\ server \in [Logins -> [access : Nat, refresh : Nat]]
  /\ pc \in {"idle", "load", "recover", "post", "journal", "save", "unlink"}
  /\ engine \in Logins
  /\ snap \in Session
  /\ rid \in Nat
  /\ reply \in Reply
  /\ fresh \in BOOLEAN
  /\ call \in CallType
  /\ saver \in SaverType
  /\ poll \in Owners
  /\ gated \subseteq Logins
  /\ boot \in Logins
  /\ nextId \in Nat
  /\ faults \in Nat /\ crashes \in Nat
  /\ lost \in {"none", "excused", "disk"}
  /\ replaced \subseteq Token

Tok(g, n) == [login |-> g, n |-> n]

\* The session a QR login stages and enil_session_activate installs.
Staged(g) == [id |-> g, access |-> Tok(g, 0), refresh |-> Tok(g, 0),
              journalId |-> 0, obs |-> 0, native |-> 0, seq |-> 0]

NoCall  == [busy |-> FALSE, id |-> 1, prev |-> Tok(0, 0), next |-> Tok(0, 0)]
NoSaver == [pc |-> "idle", snap |-> Staged(1), next |-> Staged(1), obs |-> 0]
NoReply == [access |-> None, refresh |-> None]

\* Journals that an older build may have left: without loginId and refreshId.
LegacyJournal(prev, issued) ==
  [login |-> 0, id |-> 0, prev |-> prev,
   reply |-> [access |-> issued, refresh |-> issued]]

Init ==
  /\ threads \in Mixes
  /\ \E k \in {"clean", "pending", "committed", "stale"} :
       LET issued == IF k \in {"clean", "stale"} THEN 0 ELSE 1
           held   == IF k = "committed" THEN 1 ELSE 0
       IN /\ session = [Staged(1) EXCEPT !.access = Tok(1, held),
                                         !.refresh = Tok(1, held)]
          /\ journal = CASE k = "clean" -> None
                         [] k = "stale" -> LegacyJournal(Tok(0, 0), Tok(0, 1))
                         [] OTHER -> LegacyJournal(Tok(1, 0), Tok(1, 1))
          /\ server = [g \in Logins |-> [access |-> IF g = 1 THEN issued ELSE 0,
                                         refresh |-> IF g = 1 THEN issued ELSE 0]]
  /\ pc = "idle" /\ engine = 1 /\ snap = Staged(1) /\ rid = 0 /\ reply = NoReply
  /\ fresh = FALSE
  /\ call = NoCall /\ saver = NoSaver
  /\ poll = 0
  /\ gated = {} /\ boot = 1 /\ nextId = 0 /\ faults = 0 /\ crashes = 0
  /\ lost = "none" /\ replaced = {}

-----------------------------------------------------------------------------
(* Primitives of the store.                                                *)

\* Mutant: the saver's whole snapshot is written back.
MergedWhole(cur, base, next) == next

\* The three-way merge of enil_session_save: only the fields that the saver
\* changed since its snapshot reach the current file.
Merged(cur, base, next) ==
  [cur EXCEPT
     !.access    = IF next.access # base.access THEN next.access ELSE @,
     !.refresh   = IF next.refresh # base.refresh THEN next.refresh ELSE @,
     !.journalId = IF next.journalId # base.journalId THEN next.journalId ELSE @,
     !.obs       = IF next.obs # base.obs THEN next.obs ELSE @,
     !.native    = IF next.native # base.native THEN next.native ELSE @,
     !.seq       = IF next.seq # base.seq THEN next.seq ELSE @]

\* Mutant: no comparison of loginIds.
SaveAlways(cur, base) == TRUE

\* enil_session_save discards an update whose snapshot has another loginId.
SaveAllowed(cur, base) == cur.id = base.id

\* Every replacement of session.json; history of the access tokens given up.
Install(new) ==
  /\ session' = new
  /\ replaced' = IF new.access # session.access
                 THEN replaced \union {session.access} ELSE replaced

\* Mutant: an absent refreshToken overwrites the saved one.
AppliedNull == [snap EXCEPT !.access = reply.access, !.refresh = reply.refresh,
                            !.journalId = rid]

\* session_apply_token_v3 and the commit mark on the refresher's snapshot.
Applied == [snap EXCEPT !.access = reply.access,
                        !.refresh = IF reply.refresh # None THEN reply.refresh ELSE @,
                        !.journalId = rid]

\* The refresher returns: its snapshot, id and reply are freed.
Return == /\ pc' = "idle" /\ engine' = 1 /\ snap' = Staged(1)
          /\ rid' = 0 /\ reply' = NoReply /\ fresh' = FALSE

\* A failed request or write may set the gate of the engine it ran for.
MayGate(g) == gated' \in {gated, gated \union {g}}

\* One file operation reports failure.
Fault == faults < MaxFaults /\ faults' = faults + 1
NoFault == UNCHANGED faults

\* enil_session_retire_file(journal): a failure leaves the journal in place,
\* or has renamed it without making the rename durable.
RetireOk == NoFault /\ journal' = None
RetireFails == Fault /\ journal' \in {journal, None}

-----------------------------------------------------------------------------
(* token_refresh_locked, one step per point at which another thread or the *)
(* end of the process can intervene.                                       *)

\* A thread of a torn down engine of this process may get the mutex late.
RefreshBegin ==
  /\ pc = "idle"
  /\ pc' = "load"
  /\ engine' \in boot .. session.id
  /\ UNCHANGED <<session, journal, server, snap, rid, reply, fresh, others,
                 gated, boot, nextId, bounds, lost, replaced>>

RefreshLoad ==
  /\ pc = "load"
  /\ snap' = session
  /\ pc' = "recover"
  /\ UNCHANGED <<session, journal, server, engine, rid, reply, fresh, others,
                 gated, boot, nextId, bounds, lost, replaced>>

\* recover_refresh, results -1 and 2: nothing is sent, nothing is saved.
Finish == Return /\ UNCHANGED nextId

\* enil_session_new_id
NewId == nextId < MaxIds /\ nextId' = nextId + 1 /\ rid' = nextId'

\* recover_refresh, result 0: draw an id and ask LINE; give up without an id.
AskLine ==
  \/ NewId /\ pc' = "post" /\ UNCHANGED <<engine, snap, reply, fresh>>
  \/ Finish

\* Mutant: the commit mark is not compared.
NeverCommitted == FALSE

Superseded == journal.login # 0 /\ journal.login # snap.id
Committed  == journal.id # 0 /\ journal.id = snap.journalId
Replayable == journal.prev = snap.refresh

RecoverNone ==
  /\ pc = "recover" /\ journal = None
  /\ AskLine
  /\ UNCHANGED <<session, journal, server, others, gated, boot, bounds, lost, replaced>>

RecoverSuperseded ==
  /\ pc = "recover" /\ journal # None
  /\ Superseded
  /\ \/ RetireOk /\ AskLine
     \/ RetireFails /\ Finish
  /\ UNCHANGED <<session, server, others, gated, boot, crashes, lost, replaced>>

RecoverCommitted ==
  /\ pc = "recover" /\ journal # None
  /\ ~Superseded /\ Committed
  /\ RetireOk \/ RetireFails
  /\ Finish
  /\ UNCHANGED <<session, server, others, gated, boot, crashes, lost, replaced>>

RecoverReplay ==
  /\ pc = "recover" /\ journal # None
  /\ ~Superseded /\ ~Committed /\ Replayable
  /\ \/ /\ reply' = journal.reply
        /\ IF journal.id # 0 THEN rid' = journal.id /\ UNCHANGED nextId ELSE NewId
        /\ pc' = "journal"
        /\ UNCHANGED <<engine, snap, fresh>>
     \/ journal.id = 0 /\ Finish
  /\ UNCHANGED <<session, journal, server, others, gated, boot, bounds, lost, replaced>>

\* A changed refresh token: the journal is a committed reply (result 2) or
\* belongs to credentials that are gone (result 0).
RecoverLegacy ==
  /\ pc = "recover" /\ journal # None
  /\ ~Superseded /\ ~Committed /\ ~Replayable
  /\ \/ /\ RetireOk
        /\ IF \/ journal.reply.access = snap.access
              \/ journal.reply.refresh = snap.refresh
           THEN Finish ELSE AskLine
     \/ RetireFails /\ Finish
  /\ UNCHANGED <<session, server, others, gated, boot, crashes, lost, replaced>>

Live(g) == Tok(g, server[g].refresh)

\* The request fails, is refused (a spent or superseded token), or is not
\* sent: the gate is set, or the bound login has been replaced.
RefreshPostFails ==
  /\ pc = "post"
  /\ Return
  /\ MayGate(engine)
  /\ UNCHANGED <<session, journal, server, others, boot, nextId, bounds, lost, replaced>>

Received == pc' = "journal" /\ fresh' = TRUE /\ UNCHANGED <<engine, snap, rid, gated>>

\* LINE accepts the refresh token, issues an access token and usually
\* replaces the refresh token.  The reply may be malformed or get lost.  The
\* login may have been replaced since the check that precedes the request.
RefreshPost ==
  LET g == snap.id IN
  /\ pc = "post"
  /\ engine \notin gated
  /\ snap.refresh = Live(g)
  /\ server[g].access < MaxIssue
  /\ \E rotates \in BOOLEAN :
       LET a == server[g].access + 1
           r == server[g].refresh + IF rotates THEN 1 ELSE 0
       IN /\ server' = [server EXCEPT ![g] = [access |-> a, refresh |-> r]]
          /\ \/ /\ reply' = [access |-> Tok(g, a),
                             refresh |-> IF rotates THEN Tok(g, r) ELSE None]
                /\ UNCHANGED lost
                /\ Received
             \/ /\ reply' = [access |-> None, refresh |-> None]
                /\ lost' = IF session.id = g THEN "excused" ELSE lost
                /\ Received
             \/ /\ Return
                /\ MayGate(engine)
                /\ lost' = IF session.id = g THEN "excused" ELSE lost
  /\ UNCHANGED <<session, journal, others, boot, nextId, bounds, replaced>>

Entry == [login |-> snap.id, id |-> rid, prev |-> snap.refresh, reply |-> reply]

\* Mutant: the reply is committed without having been journalled.
RefreshNoJournal ==
  /\ pc = "journal"
  /\ pc' = "save"
  /\ UNCHANGED <<session, journal, server, engine, snap, rid, reply, fresh, others, gated,
                 boot, nextId, bounds, lost, replaced>>

RefreshJournal ==
  /\ pc = "journal"
  /\ journal' = Entry
  /\ pc' = "save"
  /\ UNCHANGED <<session, server, engine, snap, rid, reply, fresh, others, gated,
                 boot, nextId, bounds, lost, replaced>>

\* Mutant: the gate stays open after a failed journal write.
RefreshJournalFailsOpen ==
  /\ pc = "journal"
  /\ Fault
  /\ UNCHANGED journal
  /\ lost' = IF fresh /\ session.id = snap.id /\ lost = "none"
             THEN IF engine = snap.id THEN "disk" ELSE "excused"
             ELSE lost
  /\ Return
  /\ UNCHANGED <<session, server, others, gated, boot, nextId, crashes, replaced>>

\* A failed write leaves the old journal, or the new one not yet durable.
\* Either way the gate stops this engine before another refresh; a late
\* thread of an older engine cannot stop the current one.
RefreshJournalFails ==
  /\ pc = "journal"
  /\ Fault
  /\ \/ /\ journal' = Entry
        /\ UNCHANGED lost
     \/ /\ UNCHANGED journal
        /\ lost' = IF fresh /\ session.id = snap.id /\ lost = "none"
                   THEN IF engine = snap.id THEN "disk" ELSE "excused"
                   ELSE lost
  /\ gated' = gated \union {engine}
  /\ Return
  /\ UNCHANGED <<session, server, others, boot, nextId,
                 crashes, replaced>>

\* The saved reply does not parse: it is kept.
RefreshUnparsed ==
  /\ pc = "save" /\ reply.access = None
  /\ Return
  /\ UNCHANGED <<session, journal, server, others,
                 gated, boot, nextId, bounds, lost, replaced>>

RefreshSave ==
  /\ pc = "save" /\ reply.access # None
  /\ SaveAllowed(session, snap)
  /\ Install(Merged(session, snap, Applied))
  /\ pc' = "unlink"
  /\ UNCHANGED <<journal, server, engine, snap, rid, reply, fresh, others, gated,
                 boot, nextId, bounds, lost>>

\* The login was superseded, or the write reports failure (whether or not
\* the replacement is visible).
RefreshSaveFails ==
  /\ pc = "save" /\ reply.access # None
  /\ \/ /\ ~SaveAllowed(session, snap)
        /\ NoFault
        /\ UNCHANGED <<session, replaced>>
     \/ /\ SaveAllowed(session, snap)
        /\ Fault
        /\ \/ UNCHANGED <<session, replaced>>
           \/ Install(Merged(session, snap, Applied))
  /\ gated' = gated \union {engine}
  /\ Return
  /\ UNCHANGED <<journal, server, others, boot, nextId,
                 crashes, lost>>

\* unlink's result is not looked at.
RefreshUnlink ==
  /\ pc = "unlink"
  /\ \/ NoFault /\ journal' = None
     \/ Fault /\ UNCHANGED journal
  /\ Return
  /\ UNCHANGED <<session, server, others, gated, boot, nextId,
                 crashes, lost, replaced>>

-----------------------------------------------------------------------------
(* The other threads of the process.                                       *)

\* enil_native_post reads the bound token, and LINE answers with the next one.
CallReply ==
  LET g == session.id IN
  /\ "call" \in threads /\ ~call.busy
  /\ g \notin gated
  /\ server[g].access < MaxIssue
  /\ server' = [server EXCEPT ![g].access = @ + 1]
  /\ call' = [busy |-> TRUE, id |-> g, prev |-> session.access,
              next |-> Tok(g, server[g].access + 1)]
  /\ UNCHANGED <<session, journal, refresher, saver, poll, gated, boot, nextId, bounds,
                 lost, replaced>>

\* enil_session_accept_next_access: compare and swap under the session lock.
\* The caller sees a replaced login before (no gate) or during the swap.
CallAccept ==
  LET mine == session.id = call.id
      next == [session EXCEPT !.access = call.next]
  IN
  /\ call.busy
  /\ \/ mine /\ session.access = call.prev /\ Install(next) /\ UNCHANGED <<gated, faults>>
     \/ /\ mine /\ session.access = call.prev /\ Fault
        /\ Install(next) \/ UNCHANGED <<session, replaced>>
        /\ gated' = gated \union {call.id}
     \/ /\ mine /\ session.access # call.prev
        /\ UNCHANGED <<session, replaced, gated, faults>>
     \/ /\ ~mine
        /\ MayGate(call.id)
        /\ UNCHANGED <<session, replaced, faults>>
  /\ call' = NoCall
  /\ UNCHANGED <<journal, server, refresher, saver, poll, boot, nextId, crashes, lost>>

\* A send loads its snapshot before the network and saves its sequence number
\* after it (update_send_state).
SendLoad ==
  /\ "send" \in threads /\ saver.pc = "idle"
  /\ session.seq < MaxSeq
  /\ saver' = [saver EXCEPT !.pc = "save", !.snap = session,
                            !.next = [session EXCEPT !.seq = @ + 1]]
  /\ UNCHANGED <<session, journal, server, refresher, call, poll, gated, boot, nextId,
                 bounds, lost, replaced>>

\* enil_line_acquire_obs_token: the token is acquired under the bound login,
\* the snapshot it is stored into is loaded afterwards.
ObsAcquire ==
  /\ "obs" \in threads /\ saver.pc = "idle" /\ session.id \notin gated
  /\ saver' = [saver EXCEPT !.pc = "obsLoad", !.obs = session.id]
  /\ UNCHANGED <<session, journal, server, refresher, call, poll, gated, boot, nextId,
                 bounds, lost, replaced>>

ObsLoad ==
  /\ saver.pc = "obsLoad"
  /\ saver' = [saver EXCEPT !.pc = "save", !.snap = session, !.obs = 0,
                            !.next = [session EXCEPT !.obs = saver.obs]]
  /\ UNCHANGED <<session, journal, server, refresher, call, poll, gated, boot, nextId,
                 bounds, lost, replaced>>

\* The save; nothing is saved if the login was superseded, the write fails or
\* the request between the load and the save had failed.
SaverSave ==
  /\ saver.pc = "save"
  /\ \/ /\ SaveAllowed(session, saver.snap)
        /\ Install(Merged(session, saver.snap, saver.next))
        /\ NoFault \/ Fault
     \/ SaveAllowed(session, saver.snap) /\ Fault /\ UNCHANGED <<session, replaced>>
     \/ NoFault /\ UNCHANGED <<session, replaced>>
  /\ saver' = NoSaver
  /\ UNCHANGED <<journal, server, refresher, call, poll, gated, boot, nextId, crashes, lost>>

\* enil_native_poll: a reply accepted for the current login, then the patch.
PollReply ==
  /\ "poll" \in threads /\ poll = 0 /\ session.id \notin gated
  /\ poll' = session.id
  /\ UNCHANGED <<session, journal, server, refresher, call, saver, gated, boot, nextId,
                 bounds, lost, replaced>>

PollPatch ==
  /\ poll # 0
  /\ \/ Install([session EXCEPT !.native = poll]) /\ (NoFault \/ Fault)
     \/ Fault /\ UNCHANGED <<session, replaced>>
  /\ poll' = 0
  /\ UNCHANGED <<journal, server, refresher, call, saver, gated, boot, nextId, crashes, lost>>

-----------------------------------------------------------------------------
(* Reauthentication, the user's retry, and the end of the process.         *)

\* enil_session_activate: replace the session, then retire the old journal.
\* The second half may fail, or the process may stop before it.
Activate ==
  /\ session.id < MaxLogins
  /\ Install(Staged(session.id + 1))
  /\ \/ journal' = None /\ NoFault
     \/ journal' = journal /\ Fault
  /\ lost' = "none"
  /\ UNCHANGED <<server, refresher, others, gated, boot, nextId, crashes>>

\* enil_account_retry_sync_all clears the gate of the live engine.
Retry ==
  /\ session.id \in gated
  /\ gated' = gated \ {session.id}
  /\ lost' = IF lost = "disk" THEN "excused" ELSE lost
  /\ UNCHANGED <<session, journal, server, refresher, others, boot, nextId, bounds, replaced>>

Crash ==
  /\ crashes < MaxCrashes
  /\ crashes' = crashes + 1
  /\ Return
  /\ call' = NoCall
  /\ saver' = NoSaver
  /\ poll' = 0
  /\ gated' = {}
  /\ boot' = session.id
  /\ lost' = IF \/ lost = "disk"
                \/ pc = "journal" /\ fresh /\ snap.id = session.id
             THEN "excused" ELSE lost
  /\ UNCHANGED <<session, journal, server, nextId, faults, replaced>>

Recover == RecoverNone \/ RecoverSuperseded \/ RecoverCommitted \/ RecoverReplay
           \/ RecoverLegacy

Refresher == \/ RefreshBegin \/ RefreshLoad \/ Recover
             \/ RefreshPost \/ RefreshPostFails
             \/ RefreshJournal \/ RefreshJournalFails
             \/ RefreshUnparsed \/ RefreshSave \/ RefreshSaveFails \/ RefreshUnlink

Other == \/ CallReply \/ CallAccept
         \/ SendLoad \/ ObsAcquire \/ ObsLoad \/ SaverSave
         \/ PollReply \/ PollPatch

Next == /\ Refresher \/ Other \/ Activate \/ Retry \/ Crash
        /\ UNCHANGED threads

Spec == Init /\ [][Next]_vars

-----------------------------------------------------------------------------
(* Properties.                                                             *)

\* Credentials in session.json belong to the login that session.json names,
\* whichever thread of whichever earlier login wrote last: the generation
\* checks of enil_session_save and enil_session_accept_next_access.
CredentialIsolation ==
  /\ session.access.login = session.id
  /\ session.refresh.login = session.id

\* The refresh token LINE currently accepts for the active login can be
\* recovered after a crash at any point: it is in session.json, or in a
\* journal that recover_refresh will replay, or on its way there; unless the
\* reply never reached a file (lost on the network, at a crash or a failed
\* journal write before the journal was on disk).
HeldInSession == session.refresh = Live(session.id)
HeldInJournal ==
  /\ journal # None
  /\ journal.login \in {0, session.id}
  /\ journal.id = 0 \/ journal.id # session.journalId
  /\ journal.prev = session.refresh
  /\ journal.reply.access # None
  /\ journal.reply.refresh = Live(session.id)
HeldInFlight ==
  /\ pc = "journal"
  /\ snap.id = session.id
  /\ snap.refresh = session.refresh
  /\ reply.access # None
  /\ reply.refresh = Live(session.id)
Recoverable == lost # "none" \/ HeldInSession \/ HeldInJournal \/ HeldInFlight

\* No access token is ever reinstated: a reply that was committed, and then
\* superseded by an inline rotation, is not replayed from the journal, and no
\* saver writes back the token of its stale snapshot.
NoRollback == session.access \notin replaced

\* A refresh token that LINE has already replaced is sent again only if the
\* reply was lost outside the code's control, or after the user's retry: a
\* failed journal write closes the gate of the engine before another refresh.
\* (A thread that outlived its engine consults another gate.)
NoSpentReuse ==
  (/\ pc = "post" /\ snap.id = session.id
   /\ engine = snap.id /\ engine \notin gated
   /\ snap.refresh # Live(snap.id))
  => lost = "excused"

\* "A changed login must never inherit a previous login's refresh reply, keys,
\* or sync state" (enil_session_save), for the native poller's revisions.
SyncStateIsolation == session.native \in {0, session.id}

\* The same for the OBS access token.
ObsIsolation == session.obs \in {0, session.id}
=============================================================================
