-------------------------- MODULE TokenRefreshProofs --------------------------
(***************************************************************************)
(* Proofs about TokenRefresh, for every value of its constants: type       *)
(* correctness, the isolation of one login's credentials from another's,   *)
(* the recoverability of the live refresh token, and that neither an       *)
(* access token comes back nor a spent refresh token is sent again.        *)
(***************************************************************************)
EXTENDS TokenRefresh, TLAPS

-----------------------------------------------------------------------------
(* Inductive strengthening of CredentialIsolation: everything that can     *)
(* still reach session.json is owned by the login it is tagged with.       *)

Owned(s) == s.access.login = s.id /\ s.refresh.login = s.id

ReplyOwned(r, g) == /\ r.access # None => r.access.login = g
                    /\ r.refresh # None => r.refresh.login = g

\* A saver's new value differs from its snapshot in no credential.
SaverClean ==
  /\ saver.next.access = saver.snap.access
  /\ saver.next.refresh = saver.snap.refresh
  /\ saver.next.journalId = saver.snap.journalId

Ownership ==
  /\ Owned(session)
  /\ Owned(snap)
  /\ pc \in {"journal", "save"} => ReplyOwned(reply, snap.id)
  /\ journal # None => ReplyOwned(journal.reply, journal.prev.login)
  /\ call.busy => call.next.login = call.id
  /\ SaverClean

-----------------------------------------------------------------------------
(* Inductive strengthening of Recoverable.                                 *)

Working == {"recover", "post", "journal", "save", "unlink"}

\* Login numbers only grow, and an operation or a journal of an older login
\* is never mistaken for one of the current login.
Generations ==
  /\ snap.id <= session.id
  /\ journal # None => journal.prev.login <= session.id
  /\ (pc \in Working /\ snap.id # session.id /\ journal # None)
       => journal.prev.login # session.id
  /\ \A g \in Logins : g > session.id => server[g].refresh = 0

\* A reply holds the successor of the token it was requested with, and LINE
\* has issued it.
Successor(r, prev) ==
  r.refresh # None =>
    /\ r.refresh.n = prev.n + 1
    /\ prev.login \in Logins => r.refresh.n <= server[prev.login].refresh

Serials ==
  /\ session.refresh.n <= server[session.id].refresh
  /\ journal # None => Successor(journal.reply, journal.prev)
  /\ pc \in {"journal", "save"} => Successor(reply, snap.refresh)

\* What the holder of the refresh mutex knows of the files.
RefresherView ==
  /\ (pc \in Working \ {"unlink"} /\ snap.id = session.id)
       => snap.refresh = session.refresh /\ snap.journalId = session.journalId
  /\ fresh => pc \in {"journal", "save", "unlink"}
  /\ pc = "post" => journal = None
  /\ (pc = "journal" /\ fresh) => journal = None
  /\ (pc = "journal" /\ ~fresh /\ snap.id = session.id)
       => /\ journal # None
          /\ journal.reply = reply
          /\ journal.prev = snap.refresh
          /\ journal.login \in {0, snap.id}
          /\ journal.id = 0 \/ journal.id # snap.journalId
  /\ (pc = "save" /\ snap.id = session.id) => journal = Entry
  /\ (pc = "unlink" /\ snap.id = session.id /\ journal # None)
       => journal.id = session.journalId /\ journal.id # 0

\* Refresh ids are never drawn twice.
Ids ==
  /\ session.journalId <= nextId
  /\ journal # None => journal.id <= nextId
  /\ (pc \in {"post", "journal", "save"})
       => /\ rid # 0 /\ rid <= nextId
          /\ snap.id = session.id => rid # session.journalId
  /\ pc = "unlink" => rid # 0

RInv == TypeOK /\ Ownership /\ Generations /\ Serials /\ RefresherView /\ Ids
        /\ Recoverable

-----------------------------------------------------------------------------
(* Facts about the record types.                                           *)

LEMMA TokType == \A g \in Owners, n \in Nat : Tok(g, n) \in Token
BY DEF Tok, Token

LEMMA TokFields == \A t \in Token : t.login \in Owners /\ t.n \in Nat
BY DEF Token

LEMMA LoginsOwners == /\ 0 \in Owners /\ 1 \in Logins
                      /\ \A g \in Logins : g \in Owners /\ g \in Nat /\ g # 0
BY BoundsAssumption DEF Logins, Owners

LEMMA SessionFields ==
  \A s \in Session : /\ s.id \in Logins /\ s.access \in Token /\ s.refresh \in Token
                     /\ s.journalId \in Nat /\ s.obs \in Owners
                     /\ s.native \in Owners /\ s.seq \in Nat
BY DEF Session

LEMMA StagedType == \A g \in Logins : Staged(g) \in Session
BY TokType, LoginsOwners DEF Staged, Session

LEMMA MergedType ==
  ASSUME NEW c \in Session, NEW b \in Session, NEW n \in Session
  PROVE  Merged(c, b, n) \in Session
BY ZenonT(40) DEF Merged, Session

LEMMA AppliedType ==
  ASSUME snap \in Session, reply \in Reply, reply.access # None, rid \in Nat
  PROVE  Applied \in Session
BY DEF Applied, Session, Reply

LEMMA SessionExcept ==
  /\ \A s \in Session, t \in Token : [s EXCEPT !.access = t] \in Session
  /\ \A s \in Session, g \in Owners : [s EXCEPT !.obs = g] \in Session
  /\ \A s \in Session, g \in Owners : [s EXCEPT !.native = g] \in Session
  /\ \A s \in Session, n \in Nat : [s EXCEPT !.seq = n] \in Session
BY DEF Session

LEMMA MergedFields ==
  ASSUME NEW c \in Session, NEW b \in Session, NEW n \in Session
  PROVE  /\ Merged(c, b, n).id = c.id
         /\ Merged(c, b, n).access = IF n.access # b.access THEN n.access ELSE c.access
         /\ Merged(c, b, n).refresh = IF n.refresh # b.refresh THEN n.refresh ELSE c.refresh
         /\ Merged(c, b, n).journalId =
              IF n.journalId # b.journalId THEN n.journalId ELSE c.journalId
BY DEF Merged, Session

LEMMA AppliedFields ==
  ASSUME snap \in Session
  PROVE  /\ Applied.id = snap.id
         /\ Applied.access = reply.access
         /\ Applied.refresh = IF reply.refresh # None THEN reply.refresh ELSE snap.refresh
         /\ Applied.journalId = rid
BY DEF Applied, Session

LEMMA ReplyType ==
  /\ NoReply \in Reply
  /\ \A a, r \in Token \union {None} : [access |-> a, refresh |-> r] \in Reply
  /\ \A r \in Reply : r.access \in Token \union {None} /\ r.refresh \in Token \union {None}
BY DEF NoReply, Reply

LEMMA JournalType ==
  /\ \A g \in Owners, i \in Nat, p \in Token, r \in Reply :
       [login |-> g, id |-> i, prev |-> p, reply |-> r] \in Journal
  /\ \A j \in Journal : /\ j.login \in Owners /\ j.id \in Nat
                        /\ j.prev \in Token /\ j.reply \in Reply
BY DEF Journal

LEMMA EntryType ==
  ASSUME snap \in Session, reply \in Reply, rid \in Nat
  PROVE  /\ Entry \in Journal /\ Entry # None
         /\ Entry.login = snap.id /\ Entry.id = rid
         /\ Entry.prev = snap.refresh /\ Entry.reply = reply
<1>1. Entry \in Journal
  BY SessionFields, JournalType, LoginsOwners DEF Entry
<1> QED
  BY <1>1, NoneAssumption DEF Entry

LEMMA CallTypes ==
  /\ NoCall \in CallType
  /\ \A c \in CallType : c.id \in Logins /\ c.prev \in Token /\ c.next \in Token
                         /\ c.busy \in BOOLEAN
  /\ \A g \in Logins, p, n \in Token :
       [busy |-> TRUE, id |-> g, prev |-> p, next |-> n] \in CallType
BY TokType, LoginsOwners DEF NoCall, CallType

LEMMA SaverTypes ==
  /\ NoSaver \in SaverType
  /\ \A v \in SaverType : v.snap \in Session /\ v.next \in Session /\ v.obs \in Owners
BY StagedType, LoginsOwners DEF NoSaver, SaverType

LEMMA SaverExcept ==
  ASSUME NEW v \in SaverType, NEW s \in Session, NEW n \in Session, NEW g \in Owners
  PROVE  /\ [v EXCEPT !.pc = "save", !.snap = s, !.next = n] \in SaverType
         /\ [v EXCEPT !.pc = "save", !.snap = s, !.obs = 0, !.next = n] \in SaverType
         /\ [v EXCEPT !.pc = "obsLoad", !.obs = g] \in SaverType
BY LoginsOwners DEF SaverType

LEMMA ReturnType ==
  Return => /\ pc' = "idle" /\ engine' \in Logins /\ snap' \in Session /\ rid' \in Nat
            /\ reply' \in Reply /\ fresh' \in BOOLEAN
<1>1. Return => fresh' \in BOOLEAN
  BY Zenon DEF Return
<1>2. Staged(1) \in Session /\ NoReply \in Reply /\ 0 \in Nat /\ 1 \in Logins
  BY StagedType, ReplyType, LoginsOwners
<1> QED
  BY <1>1, <1>2, Zenon DEF Return

LEMMA FinishType ==
  nextId \in Nat /\ Finish => Return /\ nextId' \in Nat
BY DEF Finish

LEMMA AskLineType ==
  ASSUME nextId \in Nat, engine \in Logins, snap \in Session, reply \in Reply,
         fresh \in BOOLEAN, AskLine
  PROVE  /\ pc' \in {"idle", "post"} /\ engine' \in Logins /\ snap' \in Session /\ rid' \in Nat
         /\ reply' \in Reply /\ fresh' \in BOOLEAN /\ nextId' \in Nat
<1>1. CASE NewId /\ pc' = "post" /\ UNCHANGED <<engine, snap, reply, fresh>>
  BY <1>1 DEF NewId
<1>2. CASE Finish
  BY <1>2, ReturnType DEF Finish
<1> QED
  BY <1>1, <1>2 DEF AskLine

LEMMA MayGateType ==
  ASSUME gated \subseteq Logins, NEW g \in Logins, MayGate(g)
  PROVE  gated' \subseteq Logins
BY DEF MayGate

LEMMA FaultType == faults \in Nat /\ (Fault \/ NoFault) => faults' \in Nat
BY DEF Fault, NoFault

-----------------------------------------------------------------------------
(* Type correctness.                                                       *)

\* Every action of TokenRefresh keeps every variable in its type.
LEMMA TypeStep == TypeOK /\ [Next]_vars => TypeOK'
<1> SUFFICES ASSUME TypeOK, [Next]_vars PROVE TypeOK'
  OBVIOUS
<1>1. CASE RefreshBegin
  <2>1. boot .. session.id \subseteq Logins
    BY SessionFields, BoundsAssumption DEF TypeOK, Logins
  <2> QED
    BY <1>1, <2>1 DEF TypeOK, RefreshBegin, refresher, others, bounds
<1>2. CASE RefreshLoad
  BY <1>2
     DEF TypeOK, RefreshLoad, refresher, others, bounds
<1>3. CASE RecoverNone
  BY <1>3, AskLineType
     DEF TypeOK, RecoverNone, refresher, others, bounds
<1>4. CASE RecoverSuperseded
  BY <1>4, AskLineType, FinishType, ReturnType, FaultType
     DEF TypeOK, RecoverSuperseded, RetireOk, RetireFails, refresher, others, bounds
<1>5. CASE RecoverCommitted
  BY <1>5, FinishType, ReturnType, FaultType
     DEF TypeOK, RecoverCommitted, RetireOk, RetireFails, refresher, others, bounds
<1>6. CASE RecoverReplay
  <2>1. CASE reply' = journal.reply
    <3>1. reply' \in Reply
      BY <1>6, <2>1, JournalType DEF TypeOK, RecoverReplay
    <3>2. \/ Finish
          \/ pc' = "journal" /\ UNCHANGED <<engine, snap, fresh>> /\ nextId' \in Nat /\ rid' \in Nat
      BY <1>6, JournalType DEF TypeOK, RecoverReplay, NewId
    <3> QED
      BY <1>6, <3>1, <3>2, FinishType, ReturnType DEF TypeOK, RecoverReplay, others, bounds
  <2>2. CASE Finish
    BY <1>6, <2>2, FinishType, ReturnType DEF TypeOK, RecoverReplay, others, bounds
  <2> QED
    BY <1>6, <2>1, <2>2 DEF RecoverReplay
<1>7. CASE RecoverLegacy
  BY <1>7, AskLineType, FinishType, ReturnType, FaultType
     DEF TypeOK, RecoverLegacy, RetireOk, RetireFails, refresher, others, bounds
<1>8. CASE RefreshPost
  <2>1. /\ snap.id \in Logins /\ server[snap.id].access \in Nat
        /\ server[snap.id].refresh \in Nat
    BY SessionFields DEF TypeOK
  <2>2. \A a, r \in Nat : [server EXCEPT ![snap.id] = [access |-> a, refresh |-> r]]
                          \in [Logins -> [access : Nat, refresh : Nat]]
    BY <2>1 DEF TypeOK
  <2>3. \A n \in Nat : Tok(snap.id, n) \in Token
    BY <2>1, TokType, LoginsOwners
  <2>4. server' \in [Logins -> [access : Nat, refresh : Nat]] /\ reply' \in Reply
    BY <1>8, <2>1, <2>2, <2>3, ReplyType DEF RefreshPost, Received, Return
  <2>5. \/ Return
        \/ pc' = "journal" /\ fresh' \in BOOLEAN /\ UNCHANGED <<engine, snap, rid>>
    BY <1>8 DEF RefreshPost, Received
  <2>6. lost' \in {"none", "excused", "disk"}
    BY <1>8 DEF TypeOK, RefreshPost
  <2>7. gated' \subseteq Logins
    BY <1>8, MayGateType DEF TypeOK, RefreshPost, Received
  <2> QED
    BY <1>8, <2>4, <2>5, <2>6, <2>7, ReturnType DEF TypeOK, RefreshPost, others, bounds
<1>9. CASE RefreshPostFails
  BY <1>9, ReturnType, MayGateType
     DEF TypeOK, RefreshPostFails, refresher, others, bounds
<1>10. CASE RefreshJournal
  BY <1>10, EntryType
     DEF TypeOK, RefreshJournal, refresher, others, bounds
<1>11. CASE RefreshJournalFails
  BY <1>11, EntryType, SessionFields, ReturnType, FaultType
     DEF TypeOK, RefreshJournalFails, refresher, others, bounds
<1>12. CASE RefreshUnparsed
  BY <1>12, ReturnType
     DEF TypeOK, RefreshUnparsed, refresher, others, bounds
<1>13. CASE RefreshSave
  BY <1>13, MergedType, AppliedType, SessionFields
     DEF TypeOK, RefreshSave, Install, refresher, others, bounds
<1>14. CASE RefreshSaveFails
  BY <1>14, MergedType, AppliedType, SessionFields, ReturnType, FaultType
     DEF TypeOK, RefreshSaveFails, Install, refresher, others, bounds
<1>15. CASE RefreshUnlink
  BY <1>15, ReturnType, FaultType
     DEF TypeOK, RefreshUnlink, refresher, others, bounds
<1>16. CASE CallReply
  <2>1. /\ session.id \in Logins /\ server[session.id].access \in Nat
        /\ session.access \in Token
    BY SessionFields DEF TypeOK
  <2>2. server' \in [Logins -> [access : Nat, refresh : Nat]]
    BY <1>16, <2>1 DEF TypeOK, CallReply
  <2>3. call' \in CallType
    BY <1>16, <2>1, TokType, CallTypes, LoginsOwners DEF CallReply
  <2> QED
    BY <1>16, <2>2, <2>3 DEF TypeOK, CallReply, refresher, bounds
<1>17. CASE CallAccept
  <2>1. /\ call.id \in Logins /\ [session EXCEPT !.access = call.next] \in Session
        /\ session.access \in Token
    BY CallTypes, SessionExcept, SessionFields DEF TypeOK
  <2>2. gated' \subseteq Logins
    BY <1>17, <2>1, MayGateType DEF TypeOK, CallAccept
  <2>3. session' \in Session /\ replaced' \subseteq Token
    BY <1>17, <2>1 DEF TypeOK, CallAccept, Install
  <2>4. faults' \in Nat
    BY <1>17, FaultType DEF TypeOK, CallAccept, NoFault
  <2> QED
    BY <1>17, <2>2, <2>3, <2>4, CallTypes DEF TypeOK, CallAccept, refresher
<1>18. CASE SendLoad
  <2>1. [session EXCEPT !.seq = @ + 1] \in Session
    BY SessionExcept, SessionFields DEF TypeOK
  <2> QED
    BY <1>18, <2>1, SaverExcept, LoginsOwners DEF TypeOK, SendLoad, refresher, bounds
<1>19. CASE ObsAcquire
  BY <1>19, SaverExcept, SessionFields, LoginsOwners
     DEF TypeOK, ObsAcquire, refresher, others, bounds
<1>20. CASE ObsLoad
  <2>1. [session EXCEPT !.obs = saver.obs] \in Session
    BY SessionExcept, SaverTypes DEF TypeOK
  <2> QED
    BY <1>20, <2>1, SaverExcept, LoginsOwners DEF TypeOK, ObsLoad, refresher, bounds
<1>21. CASE SaverSave
  BY <1>21, SaverTypes, MergedType, SessionFields, FaultType
     DEF TypeOK, SaverSave, Install, refresher, others, bounds
<1>22. CASE PollReply
  BY <1>22, SessionFields, LoginsOwners
     DEF TypeOK, PollReply, refresher, others, bounds
<1>23. CASE PollPatch
  BY <1>23, SessionFields, SessionExcept, LoginsOwners, FaultType
     DEF TypeOK, PollPatch, Install, refresher, others, bounds
<1>24. CASE Activate
  <2>1. session.id + 1 \in Logins /\ session.access \in Token
    BY SMTT(30), <1>24, SessionFields, BoundsAssumption DEF TypeOK, Activate, Logins
  <2> QED
    BY <1>24, <2>1, StagedType DEF TypeOK, Activate, Install, Fault, NoFault,
       refresher, others
<1>25. CASE Retry
  BY <1>25
     DEF TypeOK, Retry, refresher, others, bounds
<1>26. CASE Crash
  <2>1. crashes' \in Nat /\ lost' \in {"none", "excused", "disk"} /\ boot' \in Logins
    BY <1>26, SessionFields DEF TypeOK, Crash
  <2> QED
    BY <1>26, <2>1, ReturnType, CallTypes, SaverTypes, LoginsOwners DEF TypeOK, Crash
<1>27. CASE UNCHANGED vars
  BY <1>27 DEF TypeOK, vars, refresher, others, bounds
<1> QED
  BY <1>1, <1>2, <1>3, <1>4, <1>5, <1>6, <1>7, <1>8, <1>9, <1>10, <1>11,
     <1>12, <1>13, <1>14, <1>15, <1>16, <1>17, <1>18, <1>19, <1>20, <1>21,
     <1>22, <1>23, <1>24, <1>25, <1>26, <1>27
     DEF Next, Refresher, Recover, Other

LEMMA TypeInit == Init => TypeOK
<1> SUFFICES ASSUME Init PROVE TypeOK
  OBVIOUS
<1>1. \A h \in {0, 1} : /\ Tok(1, h) \in Token /\ Tok(0, h) \in Token
                       /\ [Staged(1) EXCEPT !.access = Tok(1, h), !.refresh = Tok(1, h)]
                            \in Session
  BY TokType, LoginsOwners DEF Session, Staged
<1>2. \A p, i \in Token : LegacyJournal(p, i) \in Journal
  BY ReplyType, JournalType, LoginsOwners DEF LegacyJournal
<1>3. session \in Session
  BY <1>1 DEF Init
<1>4. journal \in Journal \union {None}
  BY <1>1, <1>2 DEF Init
<1>5. server \in [Logins -> [access : Nat, refresh : Nat]]
  BY DEF Init
<1> QED
  BY <1>3, <1>4, <1>5, StagedType, ReplyType, CallTypes, SaverTypes, LoginsOwners DEF Init, TypeOK

\* Every reachable state of session.json, its journal and the threads that
\* share them is well typed, for any number of logins, tokens and faults.
THEOREM TypeCorrect == Spec => []TypeOK
BY TypeInit, TypeStep, PTL DEF Spec

-----------------------------------------------------------------------------
(* Isolation of credentials.                                               *)

LEMMA StagedFields ==
  \A g \in Logins : /\ Staged(g).id = g /\ Staged(g).journalId = 0
                    /\ Staged(g).access = Tok(g, 0) /\ Staged(g).refresh = Tok(g, 0)
                    /\ Owned(Staged(g))
BY DEF Staged, Owned, Tok

LEMMA ExceptFields ==
  ASSUME NEW s \in Session, NEW x
  PROVE  /\ [s EXCEPT !.access = x].id = s.id
         /\ [s EXCEPT !.access = x].access = x
         /\ [s EXCEPT !.access = x].refresh = s.refresh
         /\ [s EXCEPT !.access = x].journalId = s.journalId
         /\ [s EXCEPT !.obs = x].id = s.id
         /\ [s EXCEPT !.obs = x].access = s.access
         /\ [s EXCEPT !.obs = x].refresh = s.refresh
         /\ [s EXCEPT !.obs = x].journalId = s.journalId
         /\ [s EXCEPT !.native = x].id = s.id
         /\ [s EXCEPT !.native = x].access = s.access
         /\ [s EXCEPT !.native = x].refresh = s.refresh
         /\ [s EXCEPT !.native = x].journalId = s.journalId
         /\ [s EXCEPT !.seq = x].id = s.id
         /\ [s EXCEPT !.seq = x].access = s.access
         /\ [s EXCEPT !.seq = x].refresh = s.refresh
         /\ [s EXCEPT !.seq = x].journalId = s.journalId
BY DEF Session

LEMMA SaverFields ==
  ASSUME NEW v \in SaverType, NEW s, NEW n
  PROVE  /\ [v EXCEPT !.pc = "save", !.snap = s, !.next = n].snap = s
         /\ [v EXCEPT !.pc = "save", !.snap = s, !.next = n].next = n
         /\ [v EXCEPT !.pc = "save", !.snap = s, !.obs = 0, !.next = n].snap = s
         /\ [v EXCEPT !.pc = "save", !.snap = s, !.obs = 0, !.next = n].next = n
BY DEF SaverType

\* What an operation other than the refresher, a call and a login changes in
\* session.json: no credential and no commit mark.
KeepsCredentials ==
  /\ session'.id = session.id /\ session'.access = session.access
  /\ session'.refresh = session.refresh /\ session'.journalId = session.journalId

LEMMA SaverKeeps == TypeOK /\ SaverClean /\ SaverSave => KeepsCredentials
<1> SUFFICES ASSUME TypeOK, SaverClean, SaverSave PROVE KeepsCredentials
  OBVIOUS
<1>1. session \in Session /\ saver.snap \in Session /\ saver.next \in Session
  BY SaverTypes DEF TypeOK
<1> QED
  BY <1>1, MergedFields DEF SaverClean, SaverSave, Install, KeepsCredentials

LEMMA PollKeeps == TypeOK /\ PollPatch => KeepsCredentials
<1> SUFFICES ASSUME TypeOK, PollPatch PROVE KeepsCredentials
  OBVIOUS
<1> DEFINE next == [session EXCEPT !.native = poll]
<1>1. /\ next.id = session.id /\ next.access = session.access
      /\ next.refresh = session.refresh /\ next.journalId = session.journalId
  BY ExceptFields DEF TypeOK
<1>2. session' = next \/ session' = session
  BY DEF PollPatch, Install
<1> HIDE DEF next
<1> QED
  BY <1>1, <1>2 DEF KeepsCredentials

LEMMA SaverCleanStep == TypeOK /\ SaverClean /\ [Next]_vars => SaverClean'
<1> SUFFICES ASSUME TypeOK, SaverClean, [Next]_vars PROVE SaverClean'
  OBVIOUS
<1>1. CASE SendLoad
  <2> DEFINE next == [session EXCEPT !.seq = session.seq + 1]
  <2>1. next.access = session.access /\ next.refresh = session.refresh
        /\ next.journalId = session.journalId
    BY ExceptFields DEF TypeOK
  <2>2. saver' = [saver EXCEPT !.pc = "save", !.snap = session, !.next = next]
    BY <1>1 DEF SendLoad
  <2> HIDE DEF next
  <2>3. saver'.snap = session /\ saver'.next = next
    BY <2>2, SaverFields DEF TypeOK
  <2> QED
    BY <2>1, <2>3 DEF SaverClean
<1>2. CASE ObsAcquire
  BY <1>2 DEF TypeOK, SaverType, SaverClean, ObsAcquire
<1>3. CASE ObsLoad
  <2> DEFINE next == [session EXCEPT !.obs = saver.obs]
  <2>1. next.access = session.access /\ next.refresh = session.refresh
        /\ next.journalId = session.journalId
    BY ExceptFields DEF TypeOK
  <2>2. saver' = [saver EXCEPT !.pc = "save", !.snap = session, !.obs = 0, !.next = next]
    BY <1>3 DEF ObsLoad
  <2> HIDE DEF next
  <2>3. saver'.snap = session /\ saver'.next = next
    BY <2>2, SaverFields DEF TypeOK
  <2> QED
    BY <2>1, <2>3 DEF SaverClean
<1>4. CASE SaverSave \/ Crash
  BY <1>4 DEF SaverClean, SaverSave, Crash, NoSaver
<1>5. CASE UNCHANGED saver
  BY <1>5 DEF SaverClean
<1> QED
  BY <1>1, <1>2, <1>3, <1>4, <1>5
     DEF Next, Refresher, Recover, Other, RefreshBegin, RefreshLoad, RecoverNone,
         RecoverSuperseded, RecoverCommitted, RecoverReplay, RecoverLegacy, RefreshPost,
         RefreshPostFails, RefreshJournal, RefreshJournalFails, RefreshUnparsed, RefreshSave,
         RefreshSaveFails, RefreshUnlink, CallReply, CallAccept, PollReply, PollPatch,
         Activate, Retry, vars, others

LEMMA ReturnOwned == Return => Owned(snap') /\ pc' = "idle"
BY StagedFields, LoginsOwners, Zenon DEF Return

LEMMA AskLineOwned ==
  AskLine /\ Owned(snap) => Owned(snap') /\ pc' \in {"idle", "post"}
BY ReturnOwned, Zenon DEF AskLine, Finish

\* Commit of a refresh: the merged session is owned when the snapshot of the
\* same login and the reply are.
LEMMA CommitOwned ==
  ASSUME TypeOK, Owned(session), Owned(snap), ReplyOwned(reply, snap.id),
         reply.access # None, session.id = snap.id
  PROVE  Owned(Merged(session, snap, Applied))
<1>1. /\ session \in Session /\ snap \in Session /\ Applied \in Session
  BY AppliedType DEF TypeOK
<1> QED
  BY <1>1, MergedFields, AppliedFields DEF Owned, ReplyOwned

LEMMA OwnershipStep == TypeOK /\ Ownership /\ [Next]_vars => Ownership'
<1> SUFFICES ASSUME TypeOK, Ownership, [Next]_vars PROVE Ownership'
  OBVIOUS
<1>a. SaverClean'
  BY SaverCleanStep DEF Ownership
<1>b. /\ session \in Session /\ snap \in Session /\ reply \in Reply /\ rid \in Nat
  BY DEF TypeOK
<1>1. CASE RefreshBegin
  BY <1>1, <1>a DEF Ownership, RefreshBegin, others
<1>2. CASE RefreshLoad
  BY <1>2, <1>a DEF Ownership, RefreshLoad, others
<1>3. CASE RecoverNone
  BY <1>3, <1>a, AskLineOwned DEF Ownership, RecoverNone, others
<1>4. CASE RecoverSuperseded
  BY <1>4, <1>a, AskLineOwned, ReturnOwned
     DEF Ownership, RecoverSuperseded, Finish, RetireOk, RetireFails, others
<1>5. CASE RecoverCommitted
  BY <1>5, <1>a, ReturnOwned
     DEF Ownership, RecoverCommitted, Finish, RetireOk, RetireFails, others
<1>6. CASE RecoverReplay
  <2>1. CASE Finish
    BY <1>6, <2>1, <1>a, ReturnOwned DEF Ownership, RecoverReplay, Finish, others
  <2>2. CASE reply' = journal.reply /\ UNCHANGED snap
    <3>1. ReplyOwned(reply', snap.id)
      BY <1>6, <2>2 DEF Ownership, RecoverReplay, Replayable, Owned
    <3> QED
      BY <1>6, <2>2, <3>1, <1>a DEF Ownership, RecoverReplay, others
  <2> QED
    BY <1>6, <2>1, <2>2 DEF RecoverReplay
<1>7. CASE RecoverLegacy
  BY <1>7, <1>a, AskLineOwned, ReturnOwned
     DEF Ownership, RecoverLegacy, Finish, RetireOk, RetireFails, others
<1>8. CASE RefreshPost
  <2>1. CASE Return
    BY <1>8, <2>1, <1>a, ReturnOwned DEF Ownership, RefreshPost, others
  <2>2. CASE Received
    <3>1. ReplyOwned(reply', snap.id)
      BY <1>8, <2>2 DEF RefreshPost, Received, ReplyOwned, Tok, Return, NoReply
    <3> QED
      BY <1>8, <2>2, <3>1, <1>a DEF Ownership, RefreshPost, Received, others
  <2> QED
    BY <1>8, <2>1, <2>2 DEF RefreshPost
<1>9. CASE RefreshPostFails
  BY <1>9, <1>a, ReturnOwned DEF Ownership, RefreshPostFails, others
<1>10. CASE RefreshJournal
  BY <1>10, <1>a, <1>b, EntryType DEF Ownership, Owned, RefreshJournal, others
<1>11. CASE RefreshJournalFails
  BY <1>11, <1>a, <1>b, EntryType, ReturnOwned
     DEF Ownership, Owned, RefreshJournalFails, others
<1>12. CASE RefreshUnparsed
  BY <1>12, <1>a, ReturnOwned DEF Ownership, RefreshUnparsed, others
<1>13. CASE RefreshSave
  BY <1>13, <1>a, CommitOwned DEF Ownership, RefreshSave, SaveAllowed, Install, others
<1>14. CASE RefreshSaveFails
  BY <1>14, <1>a, CommitOwned, ReturnOwned
     DEF Ownership, RefreshSaveFails, SaveAllowed, Install, others
<1>15. CASE RefreshUnlink
  BY <1>15, <1>a, ReturnOwned DEF Ownership, RefreshUnlink, others
<1>16. CASE CallReply
  BY <1>16, <1>a DEF Ownership, CallReply, Tok, refresher
<1>17. CASE CallAccept
  <2> DEFINE next == [session EXCEPT !.access = call.next]
  <2>0. next.id = session.id /\ next.access = call.next /\ next.refresh = session.refresh
    BY <1>b, ExceptFields
  <2> HIDE DEF next
  <2>1. Owned(session')
    <3>1. CASE session.id = call.id /\ session' = next
      BY <1>17, <2>0, <3>1 DEF Ownership, Owned, CallAccept
    <3>2. CASE UNCHANGED session
      BY <3>2 DEF Ownership, Owned
    <3> QED
      BY <1>17, <3>1, <3>2 DEF CallAccept, Install, next
  <2>2. call'.busy = FALSE
    BY <1>17 DEF CallAccept, NoCall
  <2> QED
    BY <1>17, <2>1, <2>2, <1>a DEF Ownership, CallAccept, refresher
<1>18. CASE SendLoad \/ ObsAcquire \/ ObsLoad \/ PollReply \/ Retry
  BY <1>18, <1>a
     DEF Ownership, SendLoad, ObsAcquire, ObsLoad, PollReply, Retry, refresher, others
<1>19. CASE SaverSave
  BY <1>19, <1>a, SaverKeeps DEF Ownership, Owned, KeepsCredentials, SaverSave, refresher
<1>20. CASE PollPatch
  BY <1>20, <1>a, PollKeeps DEF Ownership, Owned, KeepsCredentials, PollPatch, refresher
<1>21. CASE Activate
  <2>1. session.id + 1 \in Logins
    BY <1>21, <1>b, SessionFields, BoundsAssumption DEF Activate, Logins
  <2> QED
    BY <1>21, <2>1, <1>a, StagedFields DEF Ownership, Activate, Install, refresher, others
<1>22. CASE Crash
  <2>1. call'.busy = FALSE
    BY <1>22 DEF Crash, NoCall
  <2> QED
    BY <1>22, <2>1, <1>a, ReturnOwned DEF Ownership, Crash
<1>23. CASE UNCHANGED vars
  BY <1>23 DEF Ownership, Owned, ReplyOwned, SaverClean, vars, refresher, others
<1> QED
  BY <1>1, <1>2, <1>3, <1>4, <1>5, <1>6, <1>7, <1>8, <1>9, <1>10, <1>11, <1>12, <1>13,
     <1>14, <1>15, <1>16, <1>17, <1>18, <1>19, <1>20, <1>21, <1>22, <1>23
     DEF Next, Refresher, Recover, Other

LEMMA OwnershipInit == Init => Ownership
<1> SUFFICES ASSUME Init PROVE Ownership
  OBVIOUS
<1>1. Owned(session)
  BY DEF Init, Owned, Staged, Tok
<1>2. journal # None => ReplyOwned(journal.reply, journal.prev.login)
  BY DEF Init, LegacyJournal, ReplyOwned, Tok
<1> QED
  BY <1>1, <1>2, StagedFields, LoginsOwners
     DEF Init, Ownership, NoCall, NoSaver, SaverClean

\* No interleaving of refreshes, inline rotations, saves, patches, logins,
\* failed writes and crashes leaves session.json with a token of a login other
\* than its own: the loginId checks made under the session lock suffice.
THEOREM CredentialsIsolated == Spec => []CredentialIsolation
<1>1. Init => TypeOK /\ Ownership
  BY TypeInit, OwnershipInit
<1>2. TypeOK /\ Ownership /\ [Next]_vars => TypeOK' /\ Ownership'
  BY TypeStep, OwnershipStep
<1>3. Ownership => CredentialIsolation
  BY DEF Ownership, Owned, CredentialIsolation
<1> QED
  BY <1>1, <1>2, <1>3, PTL DEF Spec

-----------------------------------------------------------------------------
(* Recoverability of the live refresh token.  RInv is inductive; one lemma *)
(* per step of the refresher, one for all steps that leave alone what RInv *)
(* reads, and one each for a login and a crash.                            *)

View == <<journal, pc, snap, rid, reply, fresh, nextId>>

\* Steps that RInv cannot see, except that lost may become "excused".
Unseen ==
  /\ session'.id = session.id /\ session'.refresh = session.refresh
  /\ session'.journalId = session.journalId
  /\ \A g \in Logins : server'[g].refresh = server[g].refresh
  /\ UNCHANGED View
  /\ lost' = lost \/ lost' = "excused"

RParts == Generations /\ Serials /\ RefresherView /\ Ids /\ Recoverable

LEMMA CallUnseen == TypeOK /\ (CallReply \/ CallAccept) => Unseen
<1> SUFFICES ASSUME TypeOK, CallReply \/ CallAccept PROVE Unseen
  OBVIOUS
<1>1. CASE CallReply
  <2>1. session.id \in Logins
    BY SessionFields DEF TypeOK
  <2>2. \A g \in Logins : server'[g].refresh = server[g].refresh
    BY <1>1, <2>1 DEF TypeOK, CallReply
  <2> QED
    BY <1>1, <2>2 DEF CallReply, Unseen, View, refresher
<1>2. CASE CallAccept
  <2> DEFINE next == [session EXCEPT !.access = call.next]
  <2>1. next.id = session.id /\ next.refresh = session.refresh
        /\ next.journalId = session.journalId
    BY ExceptFields DEF TypeOK
  <2>2. session' = next \/ session' = session
    BY <1>2 DEF CallAccept, Install
  <2> HIDE DEF next
  <2> QED
    BY <1>2, <2>1, <2>2 DEF CallAccept, Unseen, View, refresher
<1> QED
  BY <1>1, <1>2

LEMMA OtherUnseen == TypeOK /\ SaverClean /\ (Other \/ Retry \/ UNCHANGED vars) => Unseen
<1> SUFFICES ASSUME TypeOK, SaverClean, Other \/ Retry \/ UNCHANGED vars PROVE Unseen
  OBVIOUS
<1>1. CASE CallReply \/ CallAccept
  BY <1>1, CallUnseen
<1>2. CASE SaverSave
  BY <1>2, SaverKeeps DEF SaverSave, KeepsCredentials, Unseen, View, refresher
<1>3. CASE PollPatch
  BY <1>3, PollKeeps DEF PollPatch, KeepsCredentials, Unseen, View, refresher
<1>4. CASE SendLoad \/ ObsAcquire \/ ObsLoad \/ PollReply
  BY <1>4 DEF SendLoad, ObsAcquire, ObsLoad, PollReply, Unseen, View, refresher
<1>5. CASE Retry
  BY <1>5 DEF Retry, Unseen, View, refresher
<1>6. CASE UNCHANGED vars
  BY <1>6 DEF vars, Unseen, View, refresher
<1> QED
  BY <1>1, <1>2, <1>3, <1>4, <1>5, <1>6 DEF Other

LEMMA UnseenStep == RInv /\ Unseen /\ TypeOK' => RParts'
<1> SUFFICES ASSUME RInv, Unseen, TypeOK' PROVE RParts'
  OBVIOUS
<1>0. session.id \in Logins /\ snap.id \in Logins
  BY SessionFields DEF RInv, TypeOK
<1>1. Generations'
  BY DEF RInv, Generations, Unseen, View
<1>2. Serials'
  BY <1>0 DEF RInv, Serials, Successor, Unseen, View
<1>3. RefresherView'
  BY DEF RInv, RefresherView, Entry, Unseen, View
<1>4. Ids'
  BY DEF RInv, Ids, Unseen, View
<1>5. Recoverable'
  BY <1>0 DEF RInv, Recoverable, HeldInSession, HeldInJournal, HeldInFlight, Live, Tok,
              Unseen, View
<1> QED
  BY <1>1, <1>2, <1>3, <1>4, <1>5 DEF RParts

\* The refresher gives up: only what the files say is left to show.
LEMMA ReturnStep ==
  ASSUME RInv, Return, UNCHANGED <<session, server, nextId>>,
         journal' \in {journal, None}, Recoverable'
  PROVE  RParts'
<1>0. /\ session.id \in Logins /\ session.id >= 1
      /\ snap'.id = 1 /\ pc' = "idle" /\ 1 \in Logins
  BY SessionFields, StagedFields, LoginsOwners DEF RInv, TypeOK, Return, Logins
<1>f. ~fresh'
  BY Zenon DEF Return
<1>1. Generations'
  BY <1>0 DEF RInv, Generations, Working
<1>2. Serials'
  BY <1>0 DEF RInv, Serials, Successor
<1>3. RefresherView'
  BY <1>0, <1>f DEF RefresherView, Working
<1>4. Ids'
  BY <1>0 DEF RInv, Ids
<1> QED
  BY <1>1, <1>2, <1>3, <1>4 DEF RParts

\* A journal that still holds the live token of the active login is one that
\* the refresher, if it works for that login, replays.
LEMMA HeldIsReplayable ==
  ASSUME RInv, HeldInJournal, pc \in Working \ {"unlink"}
  PROVE  snap.id = session.id /\ ~Superseded /\ ~Committed /\ Replayable
<1>1. snap.id = session.id
  BY DEF RInv, Generations, Ownership, Owned, HeldInJournal
<1> QED
  BY <1>1 DEF RInv, RefresherView, HeldInJournal, Superseded, Committed, Replayable

\* Retiring a journal that is not replayed loses nothing.
LEMMA RetireKeeps ==
  ASSUME RInv, pc \in {"recover"}, Superseded \/ Committed \/ ~Replayable,
         UNCHANGED <<session, server, lost>>
  PROVE  Recoverable'
<1>1. lost # "none" \/ HeldInSession
  BY HeldIsReplayable DEF RInv, Recoverable, HeldInFlight, Working
<1> QED
  BY <1>1 DEF Recoverable, HeldInSession, Live

LEMMA AskLineStep ==
  ASSUME RInv, pc = "recover", AskLine, UNCHANGED <<session, server, lost>>,
         journal' = None, Recoverable'
  PROVE  RParts'
<1>1. CASE Finish
  <2>1. nextId' = nextId /\ Return
    BY <1>1 DEF Finish
  <2> QED
    BY <2>1, ReturnStep
<1>2. CASE NewId /\ pc' = "post" /\ UNCHANGED <<engine, snap, reply, fresh>>
  <2>0. /\ session.journalId \in Nat /\ nextId \in Nat
    BY SessionFields DEF RInv, TypeOK
  <2>1. Generations'
    BY <1>2 DEF RInv, Generations, Working
  <2>2. Serials'
    BY <1>2 DEF RInv, Serials, Successor
  <2>3. RefresherView'
    BY <1>2 DEF RInv, RefresherView, Working
  <2>4. Ids'
    BY <1>2, <2>0 DEF RInv, Ids, NewId
  <2> QED
    BY <2>1, <2>2, <2>3, <2>4 DEF RParts
<1> QED
  BY <1>1, <1>2 DEF AskLine

LEMMA RecoverStep == RInv /\ Recover => RParts'
<1> SUFFICES ASSUME RInv, Recover PROVE RParts'
  OBVIOUS
<1>1. CASE RecoverNone
  <2>1. Recoverable'
    BY <1>1 DEF RInv, RecoverNone, Recoverable, HeldInSession, HeldInJournal,
                HeldInFlight, Live
  <2> QED
    BY <1>1, <2>1, AskLineStep DEF RecoverNone
<1>2. CASE RecoverSuperseded \/ RecoverLegacy
  <2>1. Recoverable'
    BY <1>2, RetireKeeps DEF RecoverSuperseded, RecoverLegacy
  <2>2. CASE Finish
    BY <1>2, <2>1, <2>2, ReturnStep
       DEF RecoverSuperseded, RecoverLegacy, Finish, RetireOk, RetireFails
  <2>3. CASE AskLine /\ RetireOk
    BY <1>2, <2>1, <2>3, AskLineStep
       DEF RecoverSuperseded, RecoverLegacy, RetireOk
  <2> QED
    BY <1>2, <2>2, <2>3 DEF RecoverSuperseded, RecoverLegacy
<1>3. CASE RecoverCommitted
  <2>1. Recoverable'
    BY <1>3, RetireKeeps DEF RecoverCommitted
  <2> QED
    BY <1>3, <2>1, ReturnStep DEF RecoverCommitted, Finish, RetireOk, RetireFails
<1>4. CASE RecoverReplay
  <2>1. Recoverable'
    BY <1>4 DEF RInv, RecoverReplay, Recoverable, HeldInSession, HeldInJournal,
                HeldInFlight, Live
  <2>2. CASE Finish
    BY <1>4, <2>1, <2>2, ReturnStep DEF RecoverReplay, Finish
  <2>3. CASE pc' = "journal"
    <3>0. /\ session.journalId \in Nat /\ nextId \in Nat
          /\ journal.id \in Nat
      BY <1>4, SessionFields, JournalType DEF RInv, TypeOK, RecoverReplay
    <3>1. /\ pc = "recover" /\ journal # None /\ reply' = journal.reply
          /\ ~Superseded /\ ~Committed /\ Replayable
          /\ UNCHANGED <<session, journal, server, snap, fresh>>
          /\ IF journal.id # 0 THEN rid' = journal.id /\ UNCHANGED nextId ELSE NewId
      BY <1>4, <2>3 DEF RecoverReplay, Finish, Return
    <3>2. Generations'
      BY <2>3, <3>1 DEF RInv, Generations, Working
    <3>3. Serials'
      BY <2>3, <3>1 DEF RInv, Serials, Successor, Replayable
    <3>4. RefresherView'
      BY <2>3, <3>1 DEF RInv, RefresherView, Working, Superseded, Committed, Replayable
    <3>5. Ids'
      BY <2>3, <3>0, <3>1 DEF RInv, Ids, NewId, RefresherView, Working, Committed
    <3> QED
      BY <2>1, <3>2, <3>3, <3>4, <3>5 DEF RParts
  <2> QED
    BY <1>4, <2>2, <2>3 DEF RecoverReplay
<1> QED
  BY <1>1, <1>2, <1>3, <1>4 DEF Recover

LEMMA BeginLoadStep == RInv /\ (RefreshBegin \/ RefreshLoad) => RParts'
<1> SUFFICES ASSUME RInv, RefreshBegin \/ RefreshLoad PROVE RParts'
  OBVIOUS
<1>0. session.id \in Nat /\ session.id \in Logins
  BY SessionFields, LoginsOwners DEF RInv, TypeOK
<1>1. Generations'
  BY <1>0 DEF RInv, Generations, Working, RefreshBegin, RefreshLoad
<1>2. Serials'
  BY DEF RInv, Serials, Successor, RefreshBegin, RefreshLoad
<1>3. RefresherView'
  BY DEF RInv, RefresherView, Working, RefreshBegin, RefreshLoad
<1>4. Ids'
  BY DEF RInv, Ids, RefreshBegin, RefreshLoad
<1>5. Recoverable'
  BY DEF RInv, Recoverable, HeldInSession, HeldInJournal, HeldInFlight, Live,
         RefreshBegin, RefreshLoad
<1> QED
  BY <1>1, <1>2, <1>3, <1>4, <1>5 DEF RParts

\* LINE replaces the refresh token only of the login that asked, and only from
\* the token that login holds.
LEMMA PostStep == RInv /\ TypeOK' /\ (RefreshPost \/ RefreshPostFails) => RParts'
<1> SUFFICES ASSUME RInv, TypeOK', RefreshPost \/ RefreshPostFails PROVE RParts'
  OBVIOUS
<1>0. /\ session.id \in Logins /\ snap.id \in Logins
      /\ session.id \in Nat /\ snap.id \in Nat
      /\ session.refresh \in Token /\ session.refresh.n \in Nat
      /\ server[snap.id].refresh \in Nat /\ server[session.id].refresh \in Nat
      /\ pc = "post" /\ journal = None /\ snap.id <= session.id
  BY SessionFields, TokFields, LoginsOwners
     DEF RInv, TypeOK, RefresherView, Generations, RefreshPost, RefreshPostFails
<1>1. CASE RefreshPostFails
  <2>1. Recoverable'
    BY <1>0, <1>1 DEF RInv, RefreshPostFails, Recoverable, HeldInSession, HeldInJournal,
                 HeldInFlight, Live
  <2> QED
    BY <1>1, <2>1, ReturnStep DEF RefreshPostFails
<1>2. CASE RefreshPost
  <2>1. PICK rotates \in BOOLEAN :
          LET a == server[snap.id].access + 1
              r == server[snap.id].refresh + IF rotates THEN 1 ELSE 0
          IN /\ server' = [server EXCEPT ![snap.id] = [access |-> a, refresh |-> r]]
             /\ \/ /\ reply' = [access |-> Tok(snap.id, a),
                                refresh |-> IF rotates THEN Tok(snap.id, r) ELSE None]
                   /\ UNCHANGED lost
                   /\ Received
                \/ /\ reply' = [access |-> None, refresh |-> None]
                   /\ lost' = IF session.id = snap.id THEN "excused" ELSE lost
                   /\ Received
                \/ /\ Return
                   /\ lost' = IF session.id = snap.id THEN "excused" ELSE lost
    BY <1>2 DEF RefreshPost
  <2> DEFINE r == server[snap.id].refresh + IF rotates THEN 1 ELSE 0
  <2>2. /\ r \in Nat /\ r >= server[snap.id].refresh
        /\ server'[snap.id].refresh = r
        /\ \A g \in Logins : g # snap.id => server'[g] = server[g]
        /\ ~rotates => r = server[snap.id].refresh
        /\ rotates => r = server[snap.id].refresh + 1
    BY <1>0, <2>1 DEF RInv, TypeOK
  <2>3. /\ snap.refresh = Tok(snap.id, server[snap.id].refresh)
        /\ UNCHANGED <<session, journal, nextId>>
    BY <1>2 DEF RefreshPost, Live
  <2>4. /\ Tok(snap.id, r).n = r /\ Tok(snap.id, r).login = snap.id
        /\ snap.refresh.n = server[snap.id].refresh
        /\ snap.refresh.login = snap.id
        /\ Tok(snap.id, r) # None /\ Tok(snap.id, server[snap.id].access + 1) # None
    BY <1>0, <2>2, <2>3, TokType, LoginsOwners, NoneAssumption DEF Tok, RInv, TypeOK
  <2>5. HeldInSession \/ lost # "none"
    BY <1>0 DEF RInv, Recoverable, HeldInJournal, HeldInFlight
  <2>6. ASSUME session.id # snap.id PROVE Recoverable'
    <3>1. lost' = lost
      BY <2>1, <2>6
    <3> QED
      BY <1>0, <2>2, <2>3, <2>5, <2>6, <3>1 DEF Recoverable, HeldInSession, Live
  <2>7. Recoverable'
    <3>1. CASE session.id = snap.id /\ lost' = "excused"
      BY <3>1 DEF Recoverable
    <3>2. CASE /\ session.id = snap.id /\ UNCHANGED lost /\ Received
               /\ reply' = [access |-> Tok(snap.id, server[snap.id].access + 1),
                            refresh |-> IF rotates THEN Tok(snap.id, r) ELSE None]
      <4>1. CASE rotates
        <5>1. snap.refresh = session.refresh
          BY <1>0, <3>2 DEF RInv, RefresherView, Working
        <5>2. reply'.refresh = Tok(snap.id, r) /\ reply'.access # None
          BY <3>2, <4>1, <2>4
        <5>3. HeldInFlight'
          BY <2>2, <2>3, <3>2, <5>1, <5>2 DEF HeldInFlight, Live, Received
        <5> QED
          BY <5>3 DEF Recoverable
      <4>2. CASE ~rotates
        BY <2>2, <2>3, <2>5, <3>2, <4>2 DEF Recoverable, HeldInSession, Live
      <4> QED
        BY <4>1, <4>2
    <3> QED
      BY <2>1, <2>6, <3>1, <3>2
  <2>8. Generations'
    <3>1. snap'.id <= session.id
      <4>1. CASE Received
        BY <1>0, <4>1 DEF Received
      <4>2. CASE Return
        BY <1>0, <4>2, StagedFields, LoginsOwners DEF Return, Logins
      <4> QED
        BY <2>1, <4>1, <4>2
    <3>2. \A g \in Logins : g > session.id => server'[g].refresh = 0
      BY <1>0, <2>2 DEF RInv, Generations
    <3> QED
      BY <1>0, <2>3, <3>1, <3>2 DEF Generations
  <2>9. Serials'
    <3>1. session.refresh.n <= server'[session.id].refresh
      BY <1>0, <2>2 DEF RInv, Serials
    <3>2. CASE Return
      BY <1>0, <2>3, <3>1, <3>2 DEF Serials, Return
    <3>3. CASE Received
      <4>1. \/ reply'.refresh = None
            \/ reply'.refresh = Tok(snap.id, r) /\ rotates
        BY <2>1, <3>3 DEF Return, Received, NoReply
      <4>2. Successor(reply, snap.refresh)'
        BY <1>0, <2>2, <2>4, <3>3, <4>1 DEF Successor, Received
      <4> QED
        BY <1>0, <2>3, <3>1, <4>2 DEF Serials
    <3> QED
      BY <2>1, <3>2, <3>3
  <2>10. RefresherView'
    <3>1. CASE Return
      <4>1. ~fresh' /\ pc' = "idle"
        BY <3>1, Zenon DEF Return
      <4> QED
        BY <4>1 DEF RefresherView, Working
    <3>2. CASE Received
      <4>1. fresh' /\ pc' = "journal" /\ snap' = snap
        BY <3>2, Zenon DEF Received
      <4> QED
        BY <1>0, <2>3, <4>1 DEF RInv, RefresherView, Working
    <3> QED
      BY <2>1, <3>1, <3>2
  <2>11. Ids'
    BY <1>0, <2>1, <2>3 DEF RInv, Ids, Received, Return
  <2> QED
    BY <2>7, <2>8, <2>9, <2>10, <2>11 DEF RParts
<1> QED
  BY <1>1, <1>2

\* Journalling the reply keeps the live token: it was in flight, or the
\* journal that is overwritten holds the same reply.
LEMMA EntryHolds ==
  ASSUME RInv, pc = "journal", lost = "none", journal' = Entry,
         UNCHANGED <<session, server>>
  PROVE  HeldInSession' \/ HeldInJournal'
<1>0. /\ snap \in Session /\ reply \in Reply /\ rid \in Nat
  BY DEF RInv, TypeOK
<1>1. CASE HeldInSession
  BY <1>1 DEF HeldInSession, Live
<1>2. CASE HeldInJournal \/ HeldInFlight
  <2>1. /\ snap.id = session.id /\ snap.refresh = session.refresh
        /\ reply.access # None /\ reply.refresh = Live(session.id)
    <3>1. CASE HeldInFlight
      BY <3>1 DEF HeldInFlight
    <3>2. CASE HeldInJournal
      <4>1. snap.id = session.id
        BY <3>2, HeldIsReplayable DEF Working
      <4>2. journal.reply = reply
        BY <3>2, <4>1 DEF RInv, RefresherView, HeldInJournal
      <4> QED
        BY <3>2, <4>1, <4>2 DEF RInv, RefresherView, Working, HeldInJournal
    <3> QED
      BY <1>2, <3>1, <3>2
  <2>2. rid # session.journalId
    BY <2>1 DEF RInv, Ids
  <2> QED
    BY <1>0, <2>1, <2>2, EntryType DEF HeldInJournal, Live
<1> QED
  BY <1>1, <1>2 DEF RInv, Recoverable

\* An entry written by a thread of an older login is not one of the current.
LEMMA EntryGenerations ==
  ASSUME RInv, pc = "journal"
  PROVE  /\ Entry.prev.login = snap.id /\ Entry # None /\ Entry.id <= nextId
         /\ Successor(Entry.reply, Entry.prev)
         /\ snap.id <= session.id
BY EntryType DEF RInv, TypeOK, Ownership, Owned, Generations, Ids, Serials

LEMMA JournalStep == RInv /\ RefreshJournal => RParts'
<1> SUFFICES ASSUME RInv, RefreshJournal PROVE RParts'
  OBVIOUS
<1>0. /\ pc = "journal" /\ pc' = "save" /\ journal' = Entry
      /\ UNCHANGED <<session, server, snap, rid, reply, fresh, nextId, lost>>
  BY DEF RefreshJournal
<1>1. Generations'
  BY <1>0, EntryGenerations DEF RInv, Generations, Working
<1>2. Serials'
  BY <1>0, EntryGenerations DEF RInv, Serials, Successor
<1>3. RefresherView'
  BY <1>0 DEF RInv, RefresherView, Working, Entry
<1>4. Ids'
  BY <1>0, EntryGenerations DEF RInv, Ids
<1>5. Recoverable'
  BY <1>0, EntryHolds DEF Recoverable
<1> QED
  BY <1>1, <1>2, <1>3, <1>4, <1>5 DEF RParts

LEMMA JournalFailsStep == RInv /\ RefreshJournalFails => RParts'
<1> SUFFICES ASSUME RInv, RefreshJournalFails PROVE RParts'
  OBVIOUS
<1>0. pc = "journal" /\ Return /\ UNCHANGED <<session, server, nextId>>
  BY DEF RefreshJournalFails
<1>1. CASE UNCHANGED journal
  <2>1. Recoverable'
    <3>1. ASSUME HeldInFlight, ~fresh PROVE HeldInJournal
      BY <3>1 DEF RInv, RefresherView, HeldInFlight, HeldInJournal, Working
    <3>2. ASSUME HeldInFlight, fresh, lost = "none", ~(journal' = Entry) PROVE lost' # "none"
      BY <3>2 DEF RefreshJournalFails, HeldInFlight
    <3>3. CASE journal' = Entry /\ UNCHANGED lost
      BY <1>0, <3>3, EntryHolds DEF Recoverable
    <3>4. CASE lost' # "none"
      BY <3>4 DEF Recoverable
    <3>5. CASE HeldInSession
      BY <1>0, <3>5 DEF Recoverable, HeldInSession, Live
    <3>6. CASE HeldInJournal
      BY <1>0, <1>1, <3>6 DEF Recoverable, HeldInJournal, Live
    <3>7. lost # "none" => lost' # "none"
      BY DEF RefreshJournalFails
    <3> QED
      BY <3>1, <3>2, <3>3, <3>4, <3>5, <3>6, <3>7 DEF RInv, Recoverable, RefreshJournalFails
  <2> QED
    BY <1>0, <1>1, <2>1, ReturnStep
<1>2. CASE journal' = Entry /\ UNCHANGED lost
  <2>0. /\ session.id \in Logins /\ session.id >= 1
        /\ snap'.id = 1 /\ pc' = "idle" /\ 1 \in Logins
    BY <1>0, SessionFields, StagedFields, LoginsOwners DEF RInv, TypeOK, Return, Logins
  <2>f. ~fresh'
    BY <1>0, Zenon DEF Return
  <2>1. Generations'
    BY <1>0, <1>2, <2>0, EntryGenerations DEF RInv, Generations, Working
  <2>2. Serials'
    BY <1>0, <1>2, <2>0, EntryGenerations DEF RInv, Serials, Successor
  <2>3. RefresherView'
    BY <2>0, <2>f DEF RefresherView, Working
  <2>4. Ids'
    BY <1>0, <1>2, <2>0, EntryGenerations DEF RInv, Ids
  <2>5. Recoverable'
    BY <1>0, <1>2, EntryHolds DEF Recoverable
  <2> QED
    BY <2>1, <2>2, <2>3, <2>4, <2>5 DEF RParts
<1> QED
  BY <1>1, <1>2 DEF RefreshJournalFails

\* What the commit of a reply leaves in session.json: the reply's refresh token
\* if LINE issued one, the commit mark, and a token LINE still accepts.
LEMMA CommitFields ==
  ASSUME RInv, pc = "save", reply.access # None, session.id = snap.id,
         NEW s, s = Merged(session, snap, Applied)
  PROVE  /\ s.id = session.id
         /\ s.journalId = rid
         /\ s.refresh = IF reply.refresh # None THEN reply.refresh ELSE session.refresh
         /\ s.refresh.n <= server[session.id].refresh
         /\ lost # "none" \/ s.refresh = Live(session.id)
         /\ journal = Entry
<1>0. /\ session \in Session /\ snap \in Session /\ Applied \in Session
      /\ reply \in Reply /\ rid \in Nat
  BY AppliedType DEF RInv, TypeOK
<1>1. /\ snap.refresh = session.refresh /\ snap.journalId = session.journalId
      /\ journal = Entry /\ rid # snap.journalId
  BY DEF RInv, RefresherView, Ids, Working
<1>2. /\ s.id = session.id /\ s.journalId = rid
      /\ s.refresh = IF reply.refresh # None THEN reply.refresh ELSE session.refresh
  BY <1>0, <1>1, MergedFields, AppliedFields
<1>3. /\ session.id \in Logins /\ server[session.id].refresh \in Nat
      /\ session.refresh.login = session.id /\ session.refresh.n \in Nat
  BY <1>0, SessionFields, TokFields DEF RInv, TypeOK, Ownership, Owned
<1>4. reply.refresh # None => /\ reply.refresh.n = session.refresh.n + 1
                              /\ reply.refresh.n <= server[session.id].refresh
  BY <1>1, <1>3 DEF RInv, Serials, Successor
<1>5. s.refresh.n <= server[session.id].refresh
  BY <1>2, <1>4 DEF RInv, Serials
<1>6. lost # "none" \/ s.refresh = Live(session.id)
  <2>1. CASE HeldInSession
    <3>1. session.refresh.n = server[session.id].refresh
      BY <2>1 DEF HeldInSession, Live, Tok
    <3>2. reply.refresh = None
      BY <1>3, <1>4, <3>1
    <3> QED
      BY <1>2, <2>1, <3>2 DEF HeldInSession
  <2>2. CASE HeldInJournal
    <3>1. reply.refresh = Live(session.id)
      BY <1>0, <1>1, <2>2, EntryType DEF HeldInJournal
    <3>2. Live(session.id) # None
      BY <1>3, TokType, LoginsOwners, NoneAssumption DEF Live
    <3> QED
      BY <1>2, <3>1, <3>2
  <2> QED
    BY <2>1, <2>2 DEF RInv, Recoverable, HeldInFlight
<1> QED
  BY <1>1, <1>2, <1>5, <1>6

LEMMA SaveStep == RInv /\ RefreshSave => RParts'
<1> SUFFICES ASSUME RInv, RefreshSave PROVE RParts'
  OBVIOUS
<1>0. /\ pc = "save" /\ pc' = "unlink" /\ reply.access # None /\ session.id = snap.id
      /\ session' = Merged(session, snap, Applied)
      /\ UNCHANGED <<journal, server, snap, rid, reply, fresh, nextId, lost>>
  BY DEF RefreshSave, SaveAllowed, Install
<1>1. /\ session'.id = session.id /\ session'.journalId = rid /\ journal = Entry
      /\ session'.refresh.n <= server[session.id].refresh
      /\ lost # "none" \/ session'.refresh = Live(session.id)
  BY <1>0, CommitFields
<1>2. Entry.id = rid
  BY EntryType DEF RInv, TypeOK
<1>3. Generations'
  BY <1>0, <1>1 DEF RInv, Generations, Working
<1>4. Serials'
  BY <1>0, <1>1 DEF RInv, Serials, Successor
<1>5. RefresherView'
  BY <1>0, <1>1, <1>2 DEF RInv, RefresherView, Working, Ids
<1>6. Ids'
  BY <1>0, <1>1 DEF RInv, Ids
<1>7. Recoverable'
  BY <1>0, <1>1 DEF Recoverable, HeldInSession, Live
<1> QED
  BY <1>3, <1>4, <1>5, <1>6, <1>7 DEF RParts

LEMMA SaveFailsStep == RInv /\ RefreshSaveFails => RParts'
<1> SUFFICES ASSUME RInv, RefreshSaveFails PROVE RParts'
  OBVIOUS
<1>0. /\ pc = "save" /\ reply.access # None /\ Return
      /\ UNCHANGED <<journal, server, nextId, lost>>
  BY DEF RefreshSaveFails
<1>1. CASE UNCHANGED session
  <2>1. Recoverable'
    BY <1>0, <1>1 DEF RInv, Recoverable, HeldInSession, HeldInJournal, HeldInFlight, Live
  <2> QED
    BY <1>0, <1>1, <2>1, ReturnStep
<1>2. CASE session.id = snap.id /\ session' = Merged(session, snap, Applied)
  <2>1. /\ session'.id = session.id /\ session'.journalId = rid
        /\ session'.refresh.n <= server[session.id].refresh
        /\ lost # "none" \/ session'.refresh = Live(session.id)
    BY <1>0, <1>2, CommitFields
  <2>2. /\ session.id \in Logins /\ session.id >= 1
        /\ snap'.id = 1 /\ pc' = "idle" /\ 1 \in Logins
    BY <1>0, SessionFields, StagedFields, LoginsOwners DEF RInv, TypeOK, Return, Logins
  <2>3. ~fresh'
    BY <1>0, Zenon DEF Return
  <2>4. Generations'
    BY <1>0, <2>1, <2>2 DEF RInv, Generations, Working
  <2>5. Serials'
    BY <1>0, <2>1, <2>2 DEF RInv, Serials, Successor
  <2>6. RefresherView'
    BY <2>2, <2>3 DEF RefresherView, Working
  <2>7. Ids'
    BY <1>0, <2>1, <2>2 DEF RInv, Ids
  <2>8. Recoverable'
    BY <1>0, <2>1 DEF Recoverable, HeldInSession, Live
  <2> QED
    BY <2>4, <2>5, <2>6, <2>7, <2>8 DEF RParts
<1> QED
  BY <1>1, <1>2 DEF RefreshSaveFails, SaveAllowed, Install

LEMMA UnparsedUnlinkStep == RInv /\ (RefreshUnparsed \/ RefreshUnlink) => RParts'
<1> SUFFICES ASSUME RInv, RefreshUnparsed \/ RefreshUnlink PROVE RParts'
  OBVIOUS
<1>1. CASE RefreshUnparsed
  <2>1. Recoverable'
    BY <1>1 DEF RInv, RefreshUnparsed, Recoverable, HeldInSession, HeldInJournal,
                HeldInFlight, Live
  <2> QED
    BY <1>1, <2>1, ReturnStep DEF RefreshUnparsed
<1>2. CASE RefreshUnlink
  <2>1. ~HeldInJournal
    BY <1>2 DEF RInv, RefreshUnlink, RefresherView, Generations, Ownership, Owned, Working,
                HeldInJournal
  <2>2. Recoverable'
    BY <1>2, <2>1 DEF RInv, RefreshUnlink, Recoverable, HeldInSession, HeldInFlight, Live
  <2> QED
    BY <1>2, <2>2, ReturnStep DEF RefreshUnlink
<1> QED
  BY <1>1, <1>2

\* A login starts with a token LINE has just issued, and everything in flight
\* is older than it.
LEMMA ActivateStep == RInv /\ Activate => RParts'
<1> SUFFICES ASSUME RInv, Activate PROVE RParts'
  OBVIOUS
<1>a. /\ session.id \in Logins /\ snap.id \in Nat /\ session.id \in Nat
  BY SessionFields, LoginsOwners DEF RInv, TypeOK
<1>b. session.id + 1 \in Logins
  BY <1>a, BoundsAssumption DEF Activate, Logins
<1>c. /\ session' = Staged(session.id + 1) /\ journal' \in {journal, None}
      /\ UNCHANGED <<server, pc, snap, rid, reply, fresh, nextId>>
  BY DEF Activate, Install, refresher
<1>0. /\ session.id \in Logins /\ snap.id \in Nat /\ session.id \in Nat
      /\ session.id + 1 \in Logins
      /\ session' = Staged(session.id + 1) /\ journal' \in {journal, None}
      /\ UNCHANGED <<server, pc, snap, rid, reply, fresh, nextId>>
  BY <1>a, <1>b, <1>c
<1>1. /\ session'.id = session.id + 1 /\ session'.journalId = 0
      /\ session'.refresh = Tok(session.id + 1, 0)
  BY <1>0, StagedFields
<1>2. server[session.id + 1].refresh = 0
  BY <1>0 DEF RInv, Generations
<1>3. journal # None => journal.prev.login \in Nat
  BY JournalType, TokFields, BoundsAssumption DEF RInv, TypeOK, Owners
<1>4. Generations'
  <2>1. snap'.id <= session'.id
    BY <1>0, <1>1 DEF RInv, Generations
  <2>2. journal' # None => journal'.prev.login <= session.id /\ journal'.prev.login \in Nat
    BY <1>0, <1>3 DEF RInv, Generations
  <2>3. \A g \in Logins : g > session.id + 1 => server'[g].refresh = 0
    BY <1>0, LoginsOwners DEF RInv, Generations
  <2> QED
    BY <1>0, <1>1, <2>1, <2>2, <2>3 DEF Generations
<1>5. Serials'
  <2>1. session'.refresh.n = 0
    BY <1>1 DEF Tok
  <2> QED
    BY <1>0, <1>1, <1>2, <2>1 DEF RInv, Serials, Successor
<1>6. RefresherView'
  <2>1. snap.id # session'.id
    BY <1>0, <1>1 DEF RInv, Generations
  <2> QED
    BY <1>0, <1>1, <2>1 DEF RInv, RefresherView
<1>7. Ids'
  <2>1. nextId \in Nat
    BY DEF RInv, TypeOK
  <2>2. snap.id # session'.id
    BY <1>0, <1>1 DEF RInv, Generations
  <2> QED
    BY <1>0, <1>1, <2>1, <2>2 DEF RInv, Ids
<1>8. Recoverable'
  BY <1>0, <1>1, <1>2 DEF Recoverable, HeldInSession, Live
<1> QED
  BY <1>4, <1>5, <1>6, <1>7, <1>8 DEF RParts

LEMMA CrashStep == RInv /\ Crash => RParts'
<1> SUFFICES ASSUME RInv, Crash PROVE RParts'
  OBVIOUS
<1>0. Return /\ UNCHANGED <<session, journal, server, nextId>>
  BY DEF Crash
<1>1. ASSUME HeldInFlight, ~fresh PROVE HeldInJournal
  BY <1>1 DEF RInv, RefresherView, HeldInFlight, HeldInJournal, Working
<1>2. ASSUME HeldInFlight, fresh PROVE lost' # "none"
  BY <1>2 DEF Crash, HeldInFlight
<1>3. lost # "none" => lost' # "none"
  BY DEF Crash
<1>4. Recoverable'
  BY <1>0, <1>1, <1>2, <1>3 DEF RInv, Recoverable, HeldInSession, HeldInJournal, Live
<1> QED
  BY <1>0, <1>4, ReturnStep

LEMMA RInvStep == RInv /\ [Next]_vars => RInv'
<1> SUFFICES ASSUME RInv, [Next]_vars PROVE RInv'
  OBVIOUS
<1>1. TypeOK' /\ Ownership'
  BY TypeStep, OwnershipStep DEF RInv
<1>2. ASSUME Other \/ Retry \/ UNCHANGED vars PROVE RParts'
  BY <1>1, <1>2, OtherUnseen, UnseenStep DEF RInv, Ownership
<1>3. ASSUME Refresher PROVE RParts'
  BY <1>1, <1>3, BeginLoadStep, RecoverStep, PostStep, JournalStep, JournalFailsStep,
     SaveStep, SaveFailsStep, UnparsedUnlinkStep DEF Refresher
<1>4. RParts'
  BY <1>2, <1>3, ActivateStep, CrashStep DEF Next
<1> QED
  BY <1>1, <1>4 DEF RInv, RParts

LEMMA RInvInit == Init => RInv
<1> SUFFICES ASSUME Init PROVE RInv
  OBVIOUS
<1>1. TypeOK /\ Ownership
  BY TypeInit, OwnershipInit
<1>2. PICK k \in {"clean", "pending", "committed", "stale"} :
        LET issued == IF k \in {"clean", "stale"} THEN 0 ELSE 1
            held   == IF k = "committed" THEN 1 ELSE 0
        IN /\ session = [Staged(1) EXCEPT !.access = Tok(1, held),
                                          !.refresh = Tok(1, held)]
           /\ journal = CASE k = "clean" -> None
                          [] k = "stale" -> LegacyJournal(Tok(0, 0), Tok(0, 1))
                          [] OTHER -> LegacyJournal(Tok(1, 0), Tok(1, 1))
           /\ server = [g \in Logins |-> [access |-> IF g = 1 THEN issued ELSE 0,
                                          refresh |-> IF g = 1 THEN issued ELSE 0]]
  BY DEF Init
<1> DEFINE issued == IF k \in {"clean", "stale"} THEN 0 ELSE 1
           held   == IF k = "committed" THEN 1 ELSE 0
<1>3. /\ session.id = 1 /\ session.refresh = Tok(1, held) /\ session.journalId = 0
      /\ 1 \in Logins /\ session.refresh.n = held
      /\ server[1].refresh = issued
      /\ \A g \in Logins : g # 1 => server[g].refresh = 0
  BY <1>2, LoginsOwners DEF Staged, Tok
<1>4. journal # None =>
        /\ k # "clean" /\ journal.id = 0 /\ journal.login = 0
        /\ journal.prev = IF k = "stale" THEN Tok(0, 0) ELSE Tok(1, 0)
        /\ journal.reply.refresh = IF k = "stale" THEN Tok(0, 1) ELSE Tok(1, 1)
        /\ journal.reply.access = IF k = "stale" THEN Tok(0, 1) ELSE Tok(1, 1)
        /\ journal.prev.login = IF k = "stale" THEN 0 ELSE 1
        /\ journal.prev.n = 0 /\ journal.reply.refresh.n = 1
  BY <1>2 DEF LegacyJournal, Tok
<1>5. pc = "idle" /\ snap.id = 1 /\ nextId = 0 /\ lost = "none"
  BY StagedFields, LoginsOwners DEF Init
<1>6. ~fresh
  BY Zenon DEF Init
<1>7. Generations
  BY <1>3, <1>4, <1>5 DEF Generations, Working
<1>8. Serials
  <2>1. journal # None => Successor(journal.reply, journal.prev)
    BY <1>3, <1>4 DEF Successor, Logins
  <2> QED
    BY <1>3, <1>5, <2>1 DEF Serials
<1>9. RefresherView
  BY <1>5, <1>6 DEF RefresherView, Working
<1>10. Ids
  BY <1>3, <1>4, <1>5 DEF Ids
<1>11. Recoverable
  <2>1. CASE k = "pending"
    <3>1. journal # None
      BY <1>2, <2>1, JournalType, NoneAssumption, TokType, ReplyType, LoginsOwners DEF LegacyJournal
    <3>2. Tok(1, 1) # None
      BY NoneAssumption, TokType, LoginsOwners
    <3>3. HeldInJournal
      BY <1>3, <1>4, <2>1, <3>1, <3>2 DEF HeldInJournal, Live
    <3> QED
      BY <3>3 DEF Recoverable
  <2>2. CASE k # "pending"
    BY <1>2, <1>3, <2>2 DEF Recoverable, HeldInSession, Live
  <2> QED
    BY <2>1, <2>2
<1> QED
  BY <1>1, <1>7, <1>8, <1>9, <1>10, <1>11 DEF RInv

\* Whatever step the process stops at, and however its threads interleave, the
\* refresh token that LINE accepts for the active login stays in session.json,
\* in a journal that recover_refresh replays, or on its way into one, unless
\* its reply was lost before any file could hold it.
THEOREM TokenRecoverable == Spec => []Recoverable
<1>1. RInv => Recoverable
  BY DEF RInv
<1> QED
  BY <1>1, RInvInit, RInvStep, PTL DEF Spec

-----------------------------------------------------------------------------
(* Access tokens are not reinstated.                                       *)

\* LINE has issued token t, to a login that session.json has had.
Given(t) ==
  t \in Token /\ t.login <= session.id /\ (t.login \in Logins => t.n <= server[t.login].access)

\* The access tokens that session.json has or had.
Held == replaced \union {session.access}

\* The tokens still on their way into session.json: of a call's reply, of a
\* refresh and of a journal that recover_refresh would replay.
PendingCall   == call.busy /\ call.id = session.id
PendingReply  == pc \in {"journal", "save"} /\ snap.id = session.id /\ reply.access # None
PendingReplay ==
  /\ journal # None /\ journal.login \in {0, session.id}
  /\ journal.id = 0 \/ journal.id # session.journalId
  /\ journal.prev = session.refresh
  /\ journal.reply.access # None

\* Token t may still be saved: it never was, and is not the one of the call.
Untried(t) == Given(t) /\ t \notin Held /\ (PendingCall => t # call.next)

Rotation ==
  /\ session.access \notin replaced
  /\ \A t \in Held : Given(t)
  /\ call.busy => call.id <= session.id /\ Given(call.next)
  /\ PendingCall => call.next \notin Held
  /\ PendingReply => Untried(reply.access)
  /\ PendingReplay => Untried(journal.reply.access)

\* The gate that a failed journal write closed stays closed until the user
\* retries.
GateHeld == lost = "disk" => session.id \in gated

\* A step that saves no access token and issues none.
Saveless ==
  /\ KeepsCredentials /\ UNCHANGED <<replaced, server>>
  /\ call' = call \/ ~call'.busy

LEMMA SavelessStep ==
  ASSUME Rotation, Saveless,
         PendingReply' => \/ PendingReply /\ reply'.access = reply.access
                          \/ PendingReplay /\ reply'.access = journal.reply.access,
         PendingReplay' => \/ PendingReply /\ journal'.reply.access = reply.access
                           \/ PendingReplay /\ journal'.reply.access = journal.reply.access
  PROVE  Rotation'
<1>1. Held' = Held /\ session'.access = session.access /\ session'.id = session.id
      /\ server' = server
  BY DEF Held, Saveless, KeepsCredentials
<1>2. \A t : Given(t)' <=> Given(t)
  BY <1>1 DEF Given
<1>3. (PendingCall' => PendingCall /\ call' = call) /\ (call'.busy => call' = call)
  BY <1>1 DEF Saveless, PendingCall
<1>4. \A t : Untried(t) => Untried(t)'
  BY <1>1, <1>2, <1>3 DEF Untried
<1>5. session'.access \notin replaced'
  BY <1>1 DEF Rotation, Saveless
<1>6. \A t \in Held' : Given(t)'
  BY <1>1, <1>2 DEF Rotation
<1>7. (call.busy => call.id <= session.id /\ Given(call.next))'
  BY <1>1, <1>2, <1>3 DEF Rotation, Given
<1>8. (PendingCall => call.next \notin Held)'
  BY <1>1, <1>3 DEF Rotation
<1>9. (PendingReply => Untried(reply.access))'
  BY <1>4 DEF Rotation
<1>10. (PendingReplay => Untried(journal.reply.access))'
  BY <1>4 DEF Rotation
<1> QED BY <1>5, <1>6, <1>7, <1>8, <1>9, <1>10 DEF Rotation

\* The same when the refresher and the journal stay as they are.
LEMMA ElsewhereStep ==
  ASSUME Rotation, Saveless, UNCHANGED <<pc, snap, reply, journal>>
  PROVE  Rotation'
<1>1. (PendingReply' <=> PendingReply) /\ (PendingReplay' <=> PendingReplay)
  BY DEF PendingReply, PendingReplay, Saveless, KeepsCredentials
<1> QED BY <1>1, SavelessStep

\* The same when the refresher returns.
LEMMA ReturnSaveless ==
  ASSUME Rotation, Saveless, Return, journal' \in {journal, None}
  PROVE  Rotation'
<1>1. ~PendingReply' /\ (PendingReplay' => PendingReplay /\ journal' = journal)
  BY DEF PendingReply, PendingReplay, Saveless, KeepsCredentials, Return
<1> QED BY <1>1, SavelessStep

LEMMA OtherRotation ==
  ASSUME RInv, Rotation, SendLoad \/ ObsAcquire \/ ObsLoad \/ SaverSave \/ PollReply
                         \/ PollPatch \/ Retry \/ UNCHANGED vars
  PROVE  Rotation'
<1>1. UNCHANGED <<pc, snap, reply, journal, server, call>>
  BY DEF SendLoad, ObsAcquire, ObsLoad, SaverSave, PollReply, PollPatch, Retry, vars,
         refresher, others
<1>2. KeepsCredentials /\ (UNCHANGED <<session, replaced>> \/ Install(session'))
  <2>1. CASE SaverSave
    BY <2>1, SaverKeeps DEF SaverSave, RInv, Ownership, Install
  <2>2. CASE PollPatch
    BY <2>2, PollKeeps DEF PollPatch, RInv, Install
  <2> QED
    BY <2>1, <2>2 DEF SendLoad, ObsAcquire, ObsLoad, PollReply, Retry, vars, KeepsCredentials
<1>3. replaced' = replaced
  BY <1>2 DEF Install, KeepsCredentials
<1> QED BY <1>1, <1>2, <1>3, ElsewhereStep DEF Saveless

\* A recovery replays a journal only if its token is still untried.
LEMMA RecoverRotation == RInv /\ Rotation /\ Recover => Rotation'
<1> SUFFICES ASSUME RInv, Rotation, Recover PROVE Rotation'
  OBVIOUS
<1>1. pc = "recover" /\ Saveless /\ journal' \in {journal, None}
  BY DEF Recover, RecoverNone, RecoverSuperseded, RecoverCommitted, RecoverReplay,
         RecoverLegacy, RetireOk, RetireFails, Saveless, KeepsCredentials, others
<1>2. ASSUME PendingReplay' PROVE PendingReplay /\ journal' = journal
  BY <1>1, <1>2 DEF PendingReplay, Saveless, KeepsCredentials
<1>3. ASSUME PendingReply' PROVE PendingReplay /\ reply' = journal.reply
  <2>1. RecoverReplay /\ pc' = "journal" /\ reply' = journal.reply /\ snap' = snap
    <3>1. Return => pc' = "idle"
      BY DEF Return
    <3>2. pc' = "journal"
      BY <1>3, <3>1 DEF PendingReply, Recover, RecoverNone, RecoverSuperseded, RecoverCommitted,
             RecoverReplay, RecoverLegacy, AskLine, Finish
    <3> QED
      BY <3>1, <3>2 DEF Recover, RecoverNone, RecoverSuperseded, RecoverCommitted,
             RecoverReplay, RecoverLegacy, AskLine, Finish
  <2>2. snap.id = session.id /\ reply'.access # None
    BY <1>1, <1>3, <2>1 DEF PendingReply, Saveless, KeepsCredentials
  <2>3. snap.refresh = session.refresh /\ snap.journalId = session.journalId
    BY <1>1, <2>2 DEF RInv, RefresherView, Working
  <2> QED
    BY <2>1, <2>2, <2>3 DEF RecoverReplay, Superseded, Committed, Replayable, PendingReplay
<1> QED BY <1>1, <1>2, <1>3, SavelessStep

\* The refresher's steps that save no token.
LEMMA RefresherRotation ==
  ASSUME RInv, Rotation, RefreshBegin \/ RefreshLoad \/ RefreshPostFails \/ RefreshJournal
                         \/ RefreshJournalFails \/ RefreshUnparsed \/ RefreshUnlink
  PROVE  Rotation'
<1>1. Saveless
  BY DEF RefreshBegin, RefreshLoad, RefreshPostFails, RefreshJournal, RefreshJournalFails,
         RefreshUnparsed, RefreshUnlink, Saveless, KeepsCredentials, others
<1>2. CASE RefreshBegin \/ RefreshLoad
  <2>1. ~PendingReply' /\ (PendingReplay' => PendingReplay /\ journal' = journal)
    BY <1>1, <1>2 DEF RefreshBegin, RefreshLoad, PendingReply, PendingReplay, Saveless,
                      KeepsCredentials
  <2> QED BY <1>1, <2>1, SavelessStep
<1>3. CASE RefreshPostFails \/ RefreshUnparsed \/ RefreshUnlink
  BY <1>1, <1>3, ReturnSaveless DEF RefreshPostFails, RefreshUnparsed, RefreshUnlink
<1>4. ASSUME pc = "journal", journal' = Entry, PendingReplay'
      PROVE  PendingReply /\ journal'.reply = reply
  <2>1. Entry.login = snap.id /\ Entry.reply = reply /\ snap.id # 0
    BY EntryType, SessionFields, LoginsOwners DEF RInv, TypeOK
  <2> QED
    BY <1>1, <1>4, <2>1 DEF PendingReply, PendingReplay, Saveless, KeepsCredentials
<1>5. CASE RefreshJournal
  <2>1. PendingReply' => PendingReply /\ reply' = reply
    BY <1>1, <1>5 DEF RefreshJournal, PendingReply, Saveless, KeepsCredentials
  <2> QED BY <1>1, <1>4, <1>5, <2>1, SavelessStep DEF RefreshJournal
<1>6. CASE RefreshJournalFails
  <2>1. CASE UNCHANGED journal
    BY <1>1, <1>6, <2>1, ReturnSaveless DEF RefreshJournalFails
  <2>2. CASE journal' = Entry
    <3>1. ~PendingReply'
      BY <1>6 DEF RefreshJournalFails, PendingReply, Return
    <3> QED BY <1>1, <1>4, <1>6, <2>2, <3>1, SavelessStep DEF RefreshJournalFails
  <2> QED BY <1>6, <2>1, <2>2 DEF RefreshJournalFails
<1> QED BY <1>2, <1>3, <1>5, <1>6

\* Where a step leaves session.json or replaces its access token by x, and no
\* other pending token is x.
LEMMA SavesToken ==
  ASSUME Rotation, NEW x, x \notin Held, Given(x),
         session'.id = session.id, server' = server,
         session'.access = session.access \/ session'.access = x,
         replaced' = IF session'.access # session.access
                     THEN replaced \union {session.access} ELSE replaced,
         (call' = call /\ (PendingCall => call.next # x)) \/ ~call'.busy,
         PendingReply' => PendingReply /\ reply' = reply /\ reply.access # x,
         PendingReplay' => PendingReplay /\ journal' = journal /\ journal.reply.access # x
  PROVE  Rotation'
<1>1. \A t : Given(t)' <=> Given(t)
  BY DEF Given
<1>2. Held' \subseteq Held \union {x} /\ session'.access \notin replaced'
  BY DEF Held, Rotation
<1>3. \A t : t # x /\ Untried(t) /\ (call'.busy => call' = call) => Untried(t)'
  BY <1>1, <1>2 DEF Untried, PendingCall
<1>4. (PendingReply => Untried(reply.access))'
  BY <1>3 DEF Rotation
<1>5. (PendingReplay => Untried(journal.reply.access))'
  BY <1>3 DEF Rotation
<1>6. (call.busy => call.id <= session.id /\ Given(call.next))'
  BY <1>1 DEF Rotation, Given
<1>7. (PendingCall => call.next \notin Held)'
  BY <1>2 DEF Rotation, PendingCall
<1>8. \A t \in Held' : Given(t)'
  BY <1>1, <1>2 DEF Rotation
<1> QED BY <1>2, <1>4, <1>5, <1>6, <1>7, <1>8 DEF Rotation

LEMMA CommitRotation ==
  ASSUME RInv, Rotation, pc = "save", reply.access # None, SaveAllowed(session, snap),
         Install(Merged(session, snap, Applied)), UNCHANGED <<journal, server, call>>,
         pc' # "journal" /\ pc' # "save"
  PROVE  Rotation'
<1>1. PendingReply
  BY DEF PendingReply, SaveAllowed
<1>2. /\ session'.id = session.id /\ session'.journalId = rid /\ journal = Entry
      /\ session' = Merged(session, snap, Applied)
  BY CommitFields DEF Install, SaveAllowed
<1>3. /\ session \in Session /\ snap \in Session /\ Applied \in Session
      /\ Applied.access = reply.access
  BY AppliedType, AppliedFields DEF RInv, TypeOK
<1>4. session'.access = session.access \/ session'.access = reply.access
  BY <1>2, <1>3, MergedFields
<1>5. ~PendingReplay'
  BY <1>2, EntryType DEF PendingReplay, RInv, Ids, TypeOK
<1>6. ~PendingReply'
  BY DEF PendingReply
<1>7. /\ reply.access \notin Held /\ Given(reply.access)
      /\ PendingCall => reply.access # call.next
  BY <1>1 DEF Rotation, Untried
<1>8. replaced' = IF session'.access # session.access
                  THEN replaced \union {session.access} ELSE replaced
  BY <1>2 DEF Install
<1> QED BY <1>2, <1>4, <1>5, <1>6, <1>7, <1>8, SavesToken

LEMMA SaveRotation == RInv /\ Rotation /\ (RefreshSave \/ RefreshSaveFails) => Rotation'
<1> SUFFICES ASSUME RInv, Rotation, RefreshSave \/ RefreshSaveFails PROVE Rotation'
  OBVIOUS
<1>1. pc = "save" /\ reply.access # None /\ UNCHANGED <<journal, server, call>>
      /\ pc' # "journal" /\ pc' # "save"
  BY DEF RefreshSave, RefreshSaveFails, others, Return
<1>2. CASE SaveAllowed(session, snap) /\ Install(Merged(session, snap, Applied))
  BY <1>1, <1>2, CommitRotation
<1>3. CASE RefreshSaveFails /\ UNCHANGED <<session, replaced>>
  BY <1>1, <1>3, ReturnSaveless DEF RefreshSaveFails, Saveless, KeepsCredentials
<1> QED BY <1>2, <1>3 DEF RefreshSave, RefreshSaveFails

LEMMA AcceptRotation == RInv /\ Rotation /\ CallAccept => Rotation'
<1> SUFFICES ASSUME RInv, Rotation, CallAccept PROVE Rotation'
  OBVIOUS
<1>1. call.busy /\ ~call'.busy /\ UNCHANGED <<pc, snap, reply, journal, server>>
  BY Zenon DEF CallAccept, refresher, NoCall
<1>2. CASE UNCHANGED <<session, replaced>>
  BY <1>1, <1>2, ElsewhereStep DEF Saveless, KeepsCredentials
<1>3. CASE session.id = call.id /\ Install([session EXCEPT !.access = call.next])
  <2>1. PendingCall
    BY <1>1, <1>3 DEF PendingCall
  <2>2. /\ session'.id = session.id /\ session'.access = call.next
        /\ session'.refresh = session.refresh /\ session'.journalId = session.journalId
    BY <1>3, ExceptFields DEF Install, RInv, TypeOK
  <2>3. PendingReply' => PendingReply /\ reply' = reply /\ reply.access # call.next
    BY <1>1, <2>1, <2>2 DEF PendingReply, Rotation, Untried
  <2>4. PendingReplay' => PendingReplay /\ journal' = journal /\ journal.reply.access # call.next
    BY <1>1, <2>1, <2>2 DEF PendingReplay, Rotation, Untried
  <2>5. call.next \notin Held /\ Given(call.next)
    BY <1>1, <2>1 DEF Rotation
  <2>6. replaced' = IF session'.access # session.access
                    THEN replaced \union {session.access} ELSE replaced
    BY <1>3 DEF Install
  <2> QED BY <1>1, <2>2, <2>3, <2>4, <2>5, <2>6, SavesToken
<1> QED BY <1>2, <1>3 DEF CallAccept

\* LINE issues one more token x to login g: it is not among the earlier ones.
LEMMA NewToken ==
  ASSUME TypeOK, NEW g \in Logins, g <= session.id,
         NEW x, x = Tok(g, server[g].access + 1),
         \A h \in Logins : h # g => server'[h] = server[h],
         server'[g].access = server[g].access + 1, session' = session
  PROVE  Given(x)' /\ \A t : Given(t) => Given(t)' /\ t # x
<1>1. server[g].access \in Nat
  BY DEF TypeOK
<1>2. x \in Token /\ x.login = g /\ x.n = server[g].access + 1
  BY <1>1, TokType, LoginsOwners DEF Tok
<1>3. Given(x)'
  BY <1>1, <1>2, SessionFields DEF Given, TypeOK
<1>4. ASSUME NEW t, Given(t)
      PROVE  Given(t)' /\ t # x
  <2>1. t \in Token /\ t.login <= session.id /\ t.n \in Nat
    BY <1>4, TokFields DEF Given
  <2>2. t.login \in Logins => t.n <= server[t.login].access
    BY <1>4 DEF Given
  <2>3. t # x
    BY <1>1, <1>2, <2>1, <2>2
  <2>4. t.login \in Logins => t.n <= server'[t.login].access
    <3>1. CASE t.login = g
      BY <1>1, <2>1, <2>2, <3>1
    <3>2. CASE t.login # g
      BY <1>1, <2>2, <3>2
    <3> QED BY <3>1, <3>2
  <2> QED BY <2>1, <2>3, <2>4 DEF Given
<1> QED BY <1>3, <1>4

\* A step that issues the token x, for the call or for the refresher.
LEMMA IssueStep ==
  ASSUME TypeOK, Rotation, NEW x, Given(x)', \A t : Given(t) => Given(t)' /\ t # x,
         UNCHANGED <<session, replaced>>,
         call' = call \/ (call'.busy /\ call'.next = x /\ call'.id = session.id
                          /\ (PendingReply' => PendingReply /\ reply' = reply)),
         PendingReply' => \/ PendingReply /\ reply' = reply
                          \/ reply'.access = x /\ call' = call,
         PendingReplay' => PendingReplay /\ journal' = journal
  PROVE  Rotation'
<1>1. Held' = Held /\ x \notin Held
  BY DEF Held, Rotation
<1>2. call.busy => call.next # x
  BY DEF Rotation
<1>3. (call.busy => call.id <= session.id /\ Given(call.next))'
  <2>1. session.id <= session.id
    BY SessionFields DEF TypeOK, Logins
  <2>2. CASE call' = call
    BY <2>2 DEF Rotation, Given
  <2>3. CASE call'.next = x /\ call'.id = session.id
    BY <2>1, <2>3 DEF Given
  <2> QED BY <2>2, <2>3
<1>4. (PendingCall => call.next \notin Held)'
  BY <1>1 DEF Rotation, PendingCall
<1>5. \A t : Untried(t) => Untried(t)'
  BY <1>1 DEF Untried, PendingCall
<1>6. call' = call => Untried(x)'
  BY <1>1, <1>2 DEF Untried, PendingCall
<1>7. (PendingReply => Untried(reply.access))'
  BY <1>5, <1>6 DEF Rotation
<1>8. (PendingReplay => Untried(journal.reply.access))'
  BY <1>5 DEF Rotation
<1>9. (session.access \notin replaced)' /\ \A t \in Held' : Given(t)'
  BY <1>1 DEF Rotation
<1> QED BY <1>3, <1>4, <1>7, <1>8, <1>9 DEF Rotation

LEMMA CallRotation == RInv /\ Rotation /\ CallReply => Rotation'
<1> SUFFICES ASSUME RInv, Rotation, CallReply PROVE Rotation'
  OBVIOUS
<1> DEFINE g == session.id
<1>1. g \in Logins /\ g <= session.id /\ server[g].access \in Nat
  BY SessionFields DEF RInv, TypeOK, Logins
<1>2. PICK x : x = Tok(g, server[g].access + 1)
  OBVIOUS
<1>3. /\ call' = [busy |-> TRUE, id |-> g, prev |-> session.access, next |-> x]
      /\ server' = [server EXCEPT ![g].access = @ + 1]
      /\ UNCHANGED <<session, replaced, journal, pc, snap, reply>>
  BY <1>2, Zenon DEF CallReply, refresher
<1>4. /\ \A h \in Logins : h # g => server'[h] = server[h]
      /\ server'[g].access = server[g].access + 1
  BY <1>1, <1>3 DEF RInv, TypeOK
<1>5. Given(x)' /\ \A t : Given(t) => Given(t)' /\ t # x
  BY <1>1, <1>2, <1>3, <1>4, NewToken DEF RInv
<1>6. /\ PendingReply' => PendingReply /\ reply' = reply
      /\ PendingReplay' => PendingReplay /\ journal' = journal
  BY <1>3 DEF PendingReply, PendingReplay
<1>7. call'.busy /\ call'.next = x /\ call'.id = session.id
  BY <1>3
<1> HIDE DEF g
<1> QED BY <1>3, <1>5, <1>6, <1>7, IssueStep DEF RInv

LEMMA PostRotation == RInv /\ Rotation /\ RefreshPost => Rotation'
<1> SUFFICES ASSUME RInv, Rotation, RefreshPost PROVE Rotation'
  OBVIOUS
<1> DEFINE g == snap.id
<1>1. g \in Logins /\ g <= session.id /\ server[g].access \in Nat
  BY SessionFields DEF RInv, TypeOK, Generations
<1>2. PICK x : x = Tok(g, server[g].access + 1)
  OBVIOUS
<1>3. /\ UNCHANGED <<session, replaced, journal, call>> /\ journal = None
  BY DEF RefreshPost, others, RInv, RefresherView
<1>4. PICK r \in Nat : server' = [server EXCEPT ![g] = [access |-> server[g].access + 1, refresh |-> r]]
  <2>1. PICK rotates \in BOOLEAN :
          server' = [server EXCEPT ![g] = [access |-> server[g].access + 1,
                       refresh |-> server[g].refresh + IF rotates THEN 1 ELSE 0]]
    BY DEF RefreshPost
  <2>2. server[g].refresh + (IF rotates THEN 1 ELSE 0) \in Nat
    BY <1>1 DEF RInv, TypeOK
  <2> QED BY <2>1, <2>2
<1>5. /\ \A h \in Logins : h # g => server'[h] = server[h]
      /\ server'[g].access = server[g].access + 1
  BY <1>1, <1>4 DEF RInv, TypeOK
<1>6. Given(x)' /\ \A t : Given(t) => Given(t)' /\ t # x
  BY <1>1, <1>2, <1>3, <1>5, NewToken DEF RInv
<1>7. PendingReply' => reply'.access = x
  <2>1. Return => ~PendingReply'
    BY DEF Return, PendingReply
  <2>2. ~Return => reply'.access = x \/ reply'.access = None
    BY <1>2 DEF RefreshPost
  <2> QED BY <2>1, <2>2 DEF PendingReply
<1>8. ~PendingReplay'
  BY <1>3 DEF PendingReplay
<1> HIDE DEF g
<1> QED BY <1>3, <1>6, <1>7, <1>8, IssueStep DEF RInv

\* A new login's first token was never held, and nothing pending is its own.
LEMMA ActivateRotation == RInv /\ Rotation /\ Activate => Rotation'
<1> SUFFICES ASSUME RInv, Rotation, Activate PROVE Rotation'
  OBVIOUS
<1>1. /\ session.id \in Logins /\ session.id + 1 \in Logins /\ session.id \in Nat
      /\ session' = Staged(session.id + 1) /\ journal' \in {journal, None}
      /\ UNCHANGED <<server, call, pc, snap, reply>>
  <2>1. session.id \in Logins /\ session.id < MaxLogins
    BY SessionFields DEF Activate, RInv, TypeOK
  <2>2. session.id + 1 \in Logins /\ session.id \in Nat
    BY <2>1, BoundsAssumption DEF Logins
  <2> QED BY <2>1, <2>2 DEF Activate, Install, refresher, others
<1>2. /\ session'.id = session.id + 1 /\ session'.access = Tok(session.id + 1, 0)
      /\ session'.refresh = Tok(session.id + 1, 0)
  BY <1>1, StagedFields
<1>3. PICK x : x = Tok(session.id + 1, 0)
  OBVIOUS
<1>4. x \in Token /\ x.login = session.id + 1 /\ x.n = 0 /\ x = session'.access
  BY <1>1, <1>2, <1>3, TokType, LoginsOwners DEF Tok
<1>5. Given(x)'
  BY <1>1, <1>2, <1>4 DEF Given, RInv, TypeOK
<1>6. \A t : Given(t) => Given(t)' /\ t # x
  <2>1. \A t \in Token : t.login \in Nat
    BY TokFields DEF Owners
  <2> QED BY <1>1, <1>2, <1>4, <2>1 DEF Given
<1>7. Held' \subseteq Held \union {x} /\ replaced' \subseteq Held /\ x \notin Held
  BY <1>4, <1>6 DEF Held, Activate, Install, Rotation
<1>8. (session.access \notin replaced)' /\ \A t \in Held' : Given(t)'
  BY <1>4, <1>5, <1>6, <1>7 DEF Rotation
<1>9. (call.busy => call.id <= session.id /\ Given(call.next))'
  BY <1>1, <1>2, <1>6 DEF Rotation, Given, RInv, TypeOK, CallType, Logins
<1>10. ~PendingCall' /\ ~PendingReply'
  BY <1>1, <1>2 DEF PendingCall, PendingReply, Rotation, RInv, Generations
<1>11. ~PendingReplay'
  BY <1>1, <1>2, <1>3, <1>4 DEF PendingReplay, RInv, Generations
<1> QED BY <1>8, <1>9, <1>10, <1>11 DEF Rotation

LEMMA CrashRotation == RInv /\ Rotation /\ Crash => Rotation'
<1> SUFFICES ASSUME RInv, Rotation, Crash PROVE Rotation'
  OBVIOUS
<1>1. ~call'.busy
  BY Zenon DEF Crash, NoCall
<1>2. Saveless /\ Return /\ journal' = journal
  BY <1>1 DEF Crash, Saveless, KeepsCredentials
<1> QED BY <1>2, ReturnSaveless

LEMMA RotationStep == RInv /\ Rotation /\ [Next]_vars => Rotation'
<1> SUFFICES ASSUME RInv, Rotation, [Next]_vars PROVE Rotation'
  OBVIOUS
<1>1. CASE Refresher
  BY <1>1, RecoverRotation, RefresherRotation, PostRotation, SaveRotation DEF Refresher
<1>2. CASE Other \/ Retry \/ UNCHANGED vars
  BY <1>2, OtherRotation, CallRotation, AcceptRotation DEF Other
<1> QED BY <1>1, <1>2, ActivateRotation, CrashRotation DEF Next

LEMMA RotationInit == Init => Rotation
<1> SUFFICES ASSUME Init PROVE Rotation
  OBVIOUS
<1>1. TypeOK /\ Ownership /\ 1 \in Logins
  BY TypeInit, OwnershipInit, LoginsOwners
<1>2. PICK k \in {"clean", "pending", "committed", "stale"} :
        LET issued == IF k \in {"clean", "stale"} THEN 0 ELSE 1
            held   == IF k = "committed" THEN 1 ELSE 0
        IN /\ session = [Staged(1) EXCEPT !.access = Tok(1, held),
                                          !.refresh = Tok(1, held)]
           /\ journal = CASE k = "clean" -> None
                          [] k = "stale" -> LegacyJournal(Tok(0, 0), Tok(0, 1))
                          [] OTHER -> LegacyJournal(Tok(1, 0), Tok(1, 1))
           /\ server = [g \in Logins |-> [access |-> IF g = 1 THEN issued ELSE 0,
                                          refresh |-> IF g = 1 THEN issued ELSE 0]]
  BY DEF Init
<1> DEFINE issued == IF k \in {"clean", "stale"} THEN 0 ELSE 1
           held   == IF k = "committed" THEN 1 ELSE 0
<1>3. /\ session.id = 1 /\ session.access = Tok(1, held) /\ session.refresh = Tok(1, held)
      /\ server[1].access = issued
  BY <1>1, <1>2 DEF Staged
<1>4. replaced = {} /\ Held = {Tok(1, held)}
  BY <1>3 DEF Init, Held
<1>5. \A n \in {0, 1} : /\ Tok(1, n) \in Token /\ Tok(1, n).login = 1 /\ Tok(1, n).n = n
  BY <1>1, TokType, LoginsOwners DEF Tok
<1>6. \A n \in {0, 1} : n <= issued => Given(Tok(1, n))
  BY <1>3, <1>5 DEF Given
<1>7. ~call.busy /\ pc = "idle"
  BY Zenon DEF Init, NoCall
<1>8. ASSUME PendingReplay PROVE journal.reply.access = Tok(1, 1) /\ issued = 1 /\ held = 0
  <2>1. journal # None /\ journal.prev = Tok(1, held)
    BY <1>3, <1>8 DEF PendingReplay
  <2>2. k # "clean"
    BY <1>2, <2>1
  <2>3. k # "stale"
    <3>1. k = "stale" => journal.prev = Tok(0, 0)
      BY <1>2 DEF LegacyJournal
    <3>2. Tok(0, 0).login = 0 /\ Tok(1, held).login = 1
      BY DEF Tok
    <3> QED BY <2>1, <3>1, <3>2
  <2>4. journal = LegacyJournal(Tok(1, 0), Tok(1, 1))
    BY <1>2, <2>2, <2>3
  <2>5. journal.prev = Tok(1, 0) /\ journal.reply.access = Tok(1, 1)
    BY <2>4 DEF LegacyJournal
  <2>6. k # "committed"
    <3>1. Tok(1, 1) # Tok(1, 0)
      BY <1>5
    <3> QED BY <2>1, <2>5, <3>1
  <2> QED BY <2>2, <2>3, <2>5, <2>6
<1>9. PendingReplay => Untried(journal.reply.access)
  <2>1. Tok(1, 1) # Tok(1, 0)
    BY <1>5
  <2> QED BY <1>4, <1>6, <1>7, <1>8, <2>1 DEF Untried, PendingCall
<1>10. \A t \in Held : Given(t)
  BY <1>4, <1>6
<1> QED BY <1>4, <1>7, <1>9, <1>10 DEF Rotation, PendingCall, PendingReply

\* No access token that session.json gave up comes back: not from a journal
\* whose reply was committed and overtaken by an inline rotation, not from the
\* snapshot of a send or an OBS save, and not from a call that answers late.
THEOREM NeverRolledBack == Spec => []NoRollback
<1>1. Rotation => NoRollback
  BY DEF Rotation, NoRollback
<1>2. Init => RInv /\ Rotation
  BY RInvInit, RotationInit
<1>3. RInv /\ Rotation /\ [Next]_vars => (RInv /\ Rotation)'
  BY RInvStep, RotationStep
<1> QED
  BY <1>1, <1>2, <1>3, PTL DEF Spec

-----------------------------------------------------------------------------
(* Spent refresh tokens.                                                   *)

LEMMA GateStep == TypeOK /\ SaverClean /\ GateHeld /\ [Next]_vars => GateHeld'
<1> SUFFICES ASSUME TypeOK, SaverClean, GateHeld, [Next]_vars, lost' = "disk"
             PROVE  session'.id \in gated'
  BY DEF GateHeld
<1>1. ASSUME lost = "disk", session'.id = session.id, gated \subseteq gated'
      PROVE  session'.id \in gated'
  BY <1>1 DEF GateHeld
<1>2. CASE Retry \/ Activate \/ Crash \/ UNCHANGED vars
  BY <1>1, <1>2 DEF Retry, Activate, Crash, vars
<1>3. CASE Other
  <2>1. lost = "disk"
    BY <1>3 DEF Other, CallReply, CallAccept, SendLoad, ObsAcquire, ObsLoad, SaverSave,
                PollReply, PollPatch
  <2>2. gated \subseteq gated'
    BY <1>3 DEF Other, CallReply, CallAccept, SendLoad, ObsAcquire, ObsLoad, SaverSave,
                PollReply, PollPatch, MayGate
  <2>3. session'.id = session.id
    BY <1>3, OtherUnseen DEF Unseen
  <2> QED BY <1>1, <2>1, <2>2, <2>3
<1>4. CASE RefreshJournalFails
  <2>1. session' = session /\ gated \subseteq gated'
    BY <1>4 DEF RefreshJournalFails
  <2>2. lost = "disk" \/ (session.id = snap.id /\ engine = snap.id)
    BY <1>4 DEF RefreshJournalFails
  <2>3. engine \in gated'
    BY <1>4 DEF RefreshJournalFails
  <2> QED BY <1>1, <2>1, <2>2, <2>3
<1>5. CASE RefreshSave \/ RefreshSaveFails
  <2>1. lost = "disk" /\ gated \subseteq gated'
    BY <1>5 DEF RefreshSave, RefreshSaveFails
  <2>2. session' = session \/ session' = Merged(session, snap, Applied)
    BY <1>5 DEF RefreshSave, RefreshSaveFails, Install
  <2>3. session'.id = session.id
    BY <1>5, <2>2, MergedFields, AppliedType DEF RefreshSave, RefreshSaveFails, TypeOK
  <2> QED BY <1>1, <2>1, <2>3
<1>6. CASE RefreshBegin \/ RefreshLoad \/ Recover \/ RefreshPost \/ RefreshPostFails
           \/ RefreshJournal \/ RefreshUnparsed \/ RefreshUnlink
  <2>1. lost = "disk" /\ session' = session
    BY <1>6 DEF RefreshBegin, RefreshLoad, Recover, RecoverNone, RecoverSuperseded,
                RecoverCommitted, RecoverReplay, RecoverLegacy, RefreshPost, RefreshPostFails,
                RefreshJournal, RefreshUnparsed, RefreshUnlink
  <2>2. gated \subseteq gated'
    BY <1>6 DEF RefreshBegin, RefreshLoad, Recover, RecoverNone, RecoverSuperseded,
                RecoverCommitted, RecoverReplay, RecoverLegacy, RefreshPost, RefreshPostFails,
                RefreshJournal, RefreshUnparsed, RefreshUnlink, Received, MayGate
  <2> QED BY <1>1, <2>1, <2>2
<1> QED BY <1>2, <1>3, <1>4, <1>5, <1>6 DEF Next, Refresher

LEMMA GateInit == Init => GateHeld
BY DEF Init, GateHeld

\* A refresh token that LINE has replaced is sent again only when its reply was
\* lost outside the code's control: what the snapshot holds is what session.json
\* holds, and a failed journal write leaves the gate of the engine closed.
THEOREM SpentNeverResent == Spec => []NoSpentReuse
<1>1. RInv /\ GateHeld => NoSpentReuse
  <2> SUFFICES ASSUME RInv, GateHeld, pc = "post", snap.id = session.id, engine = snap.id,
                      engine \notin gated, snap.refresh # Live(snap.id)
               PROVE  lost = "excused"
    BY DEF NoSpentReuse
  <2>1. snap.refresh = session.refresh /\ journal = None
    BY DEF RInv, RefresherView, Working
  <2>2. lost # "none"
    BY <2>1 DEF RInv, Recoverable, HeldInSession, HeldInJournal, HeldInFlight
  <2>3. lost # "disk"
    BY DEF GateHeld
  <2> QED BY <2>2, <2>3 DEF RInv, TypeOK
<1>2. Init => RInv /\ GateHeld
  BY RInvInit, GateInit
<1>3. RInv /\ GateHeld /\ [Next]_vars => (RInv /\ GateHeld)'
  BY RInvStep, GateStep DEF RInv, Ownership
<1> QED
  BY <1>1, <1>2, <1>3, PTL DEF Spec

=============================================================================
