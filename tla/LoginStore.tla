------------------------------ MODULE LoginStore ------------------------------
(***************************************************************************)
(* QR login from the login window to the active account:                   *)
(* enil_login_store.c, enil_native_login.c, enil_qrlogin.c, the login      *)
(* window and the application delegate.                                    *)
(*                                                                         *)
(* A login window owns a staging directory and runs one login thread at a  *)
(* time.  The native flow keeps its attempt in a durable directory beside  *)
(* it, under that directory's lock, so that a crash, a lost reply or a     *)
(* closed window never makes the program ask LINE for the same tokens      *)
(* twice and never loses tokens it has.  The Chrome flow has staging only. *)
(* A window may be closed while its thread is still inside a request; the  *)
(* thread then runs on beside the next window's.                           *)
(*                                                                         *)
(* Tokens are numbered in the order LINE issues them: issued[k] is the     *)
(* account token k belongs to.                                             *)
(***************************************************************************)
EXTENDS Naturals, Sequences, FiniteSets

CONSTANTS
    Accounts,    \* LINE accounts (mids)
    Windows,     \* login windows, each with its staging directory and thread
    Pendings,    \* durable directories .native-login-XXXXXX
    None,        \* no account, no directory, no window
    Absent,      \* no session.json
    Setups       \* where a behaviour may start and its bounds, see SetupType

(* A setup has the accounts that may scan the QR code, those signed in when *)
(* the program starts (as native clients), the clients the user may choose, *)
(* and bounds on login ids, failed file writes and exits of the program.    *)
SetupType ==
    [accounts : (SUBSET Accounts) \ {{}}, installed : SUBSET Accounts,
     clients : SUBSET {"native", "chrome"},
     logins : Nat, faults : Nat, crashes : Nat]

\* Accounts that are signed in have used up a login id each.
ASSUME LoginConstants ==
    /\ Setups \subseteq SetupType /\ Setups # {}
    /\ \A s \in Setups : Cardinality(s.installed) <= s.logins
    /\ None \notin Accounts \cup Pendings \cup Windows
    /\ IsFiniteSet(Accounts)

VARIABLES
    window,    \* the login window: page, expected account, Back pressed
    cancel,    \* its cancellation flag
    thread,    \* its login thread: step, durable directory, result, reply
    staging,   \* session.json of its staging directory
    pending,   \* session.json of the durable directories
    retired,   \* durable directories that hold retired.json
    lock,      \* holder of a durable directory's session.lock
    active,    \* session.json of each account's directory
    issued,    \* account of each token LINE has issued
    asked,     \* token requests LINE received for a durable directory
    handed,    \* native tokens whose activation reported a failure, and not success since
    consumed,  \* tokens that have been some account's active login
    unretired, \* tokens activated while another thread had their directory's lock
    setup,     \* where this behaviour started and its bounds
    logins, crashes, faults  \* used up of the bounds

vars == <<window, cancel, thread, staging, pending, retired, lock, active,
          issued, asked, handed, consumed, unretired, setup, logins, crashes, faults>>

disk == <<staging, pending, retired, active, consumed>>
net  == <<issued, asked>>
life == <<setup, crashes, unretired>>
lim  == <<logins, life, faults>>

-----------------------------------------------------------------------------
(* The fields of session.json that the login reads or writes.  token 0 is  *)
(* no accessToken; raw is the saved reply to the token request.            *)
Session == [client : {"native", "chrome"}, login : 1..setup.logins,
            expected : Accounts \cup {None}, baseline : 0..setup.logins,
            source : Pendings \cup {None}, fresh : BOOLEAN,
            qr : {"none", "shown", "scanned", "verified"}, started : BOOLEAN,
            raw : 0..Len(issued), token : 0..Len(issued),
            mid : BOOLEAN, keys : BOOLEAN]

\* A missing file is not a session.
Sessions == [client : {"native", "chrome"}, login : Nat, expected : Accounts \cup {None},
             baseline : Nat, source : Pendings \cup {None}, fresh : BOOLEAN,
             qr : {"none", "shown", "scanned", "verified"}, started : BOOLEAN,
             raw : Nat, token : Nat, mid : BOOLEAN, keys : BOOLEAN]

ASSUME AbsentIsNoSession == Absent \notin Sessions

NewSession(c, id, e, b) ==
    [client |-> c, login |-> id, expected |-> e, baseline |-> b,
     source |-> None, fresh |-> FALSE, qr |-> "none", started |-> FALSE,
     raw |-> 0, token |-> 0, mid |-> FALSE, keys |-> FALSE]

Idle == [pc |-> "idle", dir |-> None, ok |-> FALSE, reply |-> 0]

\* What each file, lock, window and thread may hold; every token a file names
\* was issued.
TypeOK ==
    /\ window \in [Windows -> [page : {"closed", "client", "login", "recovery",
                     "unsaved", "activated", "failed"},
                   expected : Accounts \cup {None}, back : BOOLEAN]]
    /\ cancel \in [Windows -> BOOLEAN]
    /\ thread \in [Windows -> [pc : {"idle", "attempt", "check", "lock", "locked", "qr",
                     "start", "call", "wire", "raw", "result", "unwrap", "recover", "stage",
                     "scan", "issue", "profile", "finish"},
                   dir : Pendings \cup {None}, ok : BOOLEAN, reply : 0..Len(issued)]]
    /\ staging \in [Windows -> Session \cup {Absent}]
    /\ pending \in [Pendings -> Session \cup {Absent}]
    /\ retired \subseteq Pendings
    /\ lock \in [Pendings -> Windows \cup {None}]
    /\ active \in [Accounts -> Session \cup {Absent}]
    /\ issued \in Seq(Accounts)
    /\ asked \in [Pendings -> Nat]
    /\ handed \subseteq 1..Len(issued) /\ consumed \subseteq 1..Len(issued)
    /\ unretired \subseteq 0..Len(issued)
    /\ logins \in 0..setup.logins /\ crashes \in 0..setup.crashes /\ faults \in 0..setup.faults

InOrder(S) == CHOOSE s \in [1..Cardinality(S) -> S] : \A a \in S : \E i \in DOMAIN s : s[i] = a

Init ==
    /\ window = [w \in Windows |-> [page |-> "closed", expected |-> None, back |-> FALSE]]
    /\ cancel = [w \in Windows |-> FALSE]
    /\ thread = [w \in Windows |-> Idle]
    /\ staging = [w \in Windows |-> Absent]
    /\ pending = [p \in Pendings |-> Absent]
    /\ retired = {}
    /\ lock = [p \in Pendings |-> None]
    /\ setup \in Setups /\ issued = InOrder(setup.installed)
    /\ active = [a \in Accounts |->
         IF a \notin setup.installed THEN Absent
         ELSE LET k == CHOOSE i \in DOMAIN issued : issued[i] = a
              IN  [NewSession("native", k, None, 0) EXCEPT !.token = k, !.mid = TRUE,
                                                           !.keys = TRUE]]
    /\ asked = [p \in Pendings |-> 0]
    /\ handed = {}
    /\ consumed = DOMAIN issued
    /\ unretired = {}
    /\ logins = Cardinality(setup.installed)
    /\ crashes = 0 /\ faults = 0

-----------------------------------------------------------------------------
(* Files.  A write either succeeds, or fails with the old file in place or *)
(* with the new one visible and its directory not flushed.                 *)
WriteFaults == faults < setup.faults /\ faults' = faults + 1

Running(w) == thread[w].pc # "idle"
Goto(w, pc) == thread' = [thread EXCEPT ![w].pc = pc]
Finish(w, ok) == thread' = [thread EXCEPT ![w].pc = "finish", ![w].ok = ok]

MutRetirable(p) == TRUE

\* session.lock is taken with LOCK_NB: a holder makes retire fail.
Retirable(p) == lock[p] = None

-----------------------------------------------------------------------------
(* The login window, on the main thread.                                   *)

\* Mistake: a second window opens beside the first.
MutOpenWindow(w, e) ==
    /\ window[w].page = "closed" /\ ~Running(w)
    /\ e # None => active[e] # Absent
    /\ window' = [window EXCEPT ![w] = [page |-> "client", expected |-> e, back |-> FALSE]]
    /\ UNCHANGED <<cancel, thread, disk, lock, net, handed, lim>>

\* One at a time; the window before may have left its thread behind.
OpenWindow(w, e) ==
    /\ \A v \in Windows : window[v].page = "closed"
    /\ ~Running(w)
    /\ e # None => active[e] # Absent
    /\ window' = [window EXCEPT ![w] = [page |-> "client", expected |-> e, back |-> FALSE]]
    /\ UNCHANGED <<cancel, thread, disk, lock, net, handed, lim>>

\* retrySavedLogin: clear the flag and detach the login thread.
StartThread(w) ==
    /\ ~Running(w)
    /\ cancel' = [cancel EXCEPT ![w] = FALSE]
    /\ window' = [window EXCEPT ![w].page = "login"]
    /\ thread' = [thread EXCEPT ![w] = [Idle EXCEPT !.pc = "attempt"]]

\* Staging is prepared once; reauthentication records the login it replaces.
StagedFor(e, c) ==
    IF e = None THEN NewSession(c, logins + 1, None, 0)
    ELSE NewSession(active[e].client, logins + 1, e, active[e].login)

PrepareStaging(w, c) ==
    /\ window[w].expected # None => active[window[w].expected] # Absent
    /\ logins < setup.logins
    /\ logins' = logins + 1
    /\ staging' = [staging EXCEPT ![w] = StagedFor(window[w].expected, c)]

BeginLogin(w, c) ==
    /\ window[w].page = "client"
    /\ IF staging[w] = Absent THEN PrepareStaging(w, c)
       ELSE (window[w].expected = None => c = staging[w].client) /\ UNCHANGED <<staging, logins>>
    /\ StartThread(w)
    /\ UNCHANGED <<pending, retired, lock, active, consumed, net, handed, life, faults>>

\* A staging file without its baseline is never used: preparing refuses it.
PrepareFails(w) ==
    /\ window[w].page = "client" /\ staging[w] = Absent /\ ~Running(w)
    /\ WriteFaults
    /\ \/ UNCHANGED window
       \/ window' = [window EXCEPT ![w].page = "unsaved"]
    /\ UNCHANGED <<cancel, thread, disk, lock, net, handed, logins, life>>

Retry(w) ==
    /\ window[w].page = "recovery"
    /\ StartThread(w)
    /\ UNCHANGED <<disk, lock, net, handed, lim>>

\* Retire the attempt, then write a fresh staging file under a new login id.
StartNewQR(w) ==
    LET s == staging[w] IN
    /\ window[w].page = "recovery" /\ ~Running(w)
    /\ Retirable(s.source)
    /\ retired' = retired \cup {s.source}
    /\ handed' = handed \ {pending[s.source].raw}
    /\ \/ /\ logins < setup.logins
          /\ logins' = logins + 1
          /\ staging' = [staging EXCEPT ![w] =
               [NewSession(s.client, logins + 1, s.expected, s.baseline) EXCEPT !.fresh = TRUE]]
          /\ StartThread(w)
          /\ UNCHANGED faults
       \/ WriteFaults /\ UNCHANGED <<staging, logins, cancel, window, thread>>
    /\ UNCHANGED <<pending, active, consumed, lock, net, life>>

\* A running thread is cancelled first; the page changes when it has ended.
GoBack(w) ==
    /\ \/ /\ window[w].page = "login" /\ Running(w) /\ ~window[w].back
          /\ window' = [window EXCEPT ![w].back = TRUE]
          /\ cancel' = [cancel EXCEPT ![w] = TRUE]
       \/ /\ window[w].page = "recovery"
          /\ window' = [window EXCEPT ![w].page = "client"]
          /\ UNCHANGED cancel
    /\ UNCHANGED <<thread, disk, lock, net, handed, lim>>

\* windowWillClose, and Dismiss of the failure alert: staging is removed.
CloseWindow(w) ==
    /\ window[w].page \in {"client", "login", "recovery", "unsaved", "failed"}
    /\ window' = [window EXCEPT ![w].page = "closed", ![w].back = FALSE]
    /\ cancel' = [cancel EXCEPT ![w] = @ \/ window[w].page # "failed"]
    /\ staging' = [staging EXCEPT ![w] = Absent]
    /\ UNCHANGED <<thread, pending, retired, active, consumed, lock, net, handed, lim>>

\* finishWithResult without a login to hand over.
FinishFailed(w) ==
    LET show == IF window[w].back THEN "client"
                ELSE IF staging[w].source # None THEN "recovery" ELSE "failed"
    IN
    /\ thread[w].pc = "finish"
    /\ thread[w].ok => window[w].page = "closed"
    /\ thread' = [thread EXCEPT ![w] = Idle]
    /\ IF window[w].page = "closed" THEN UNCHANGED <<window, cancel>>
       ELSE /\ window' = [window EXCEPT ![w].page = show, ![w].back = FALSE]
            /\ cancel' = [cancel EXCEPT ![w] = @ /\ ~window[w].back]
    /\ UNCHANGED <<disk, lock, net, handed, lim>>

ScannedMid(s) == issued[s.token]

\* A session without a mid, or another account's that the user declines.
HandoverRejected(w) ==
    LET s == staging[w] IN
    /\ thread[w].pc = "finish" /\ thread[w].ok /\ window[w].page = "login"
    /\ \/ /\ ~s.mid
          /\ window' = [window EXCEPT ![w].page = "failed", ![w].back = FALSE]
       \/ /\ s.mid /\ window[w].expected \notin {None, ScannedMid(s)}
          /\ window' = [window EXCEPT ![w].page = "closed", ![w].back = FALSE]
    /\ staging' = [staging EXCEPT ![w] = Absent]
    /\ thread' = [thread EXCEPT ![w] = Idle]
    /\ UNCHANGED <<cancel, pending, retired, active, consumed, lock, net, handed, lim>>

MutActivate(w) ==
    LET s == staging[w]
        install == /\ active' = [active EXCEPT ![ScannedMid(s)] = s]
                   /\ consumed' = consumed \cup {s.token}
    IN
    /\ thread[w].pc = "finish" /\ thread[w].ok /\ window[w].page = "login"
    /\ s.mid
    /\ retired' = retired \cup ({s.source} \ {None})
    /\ \/ /\ install
          /\ handed' = handed \ {s.token}
          /\ window' = [window EXCEPT ![w].page = "activated", ![w].back = FALSE]
          /\ UNCHANGED faults
       \/ /\ WriteFaults
          /\ install \/ UNCHANGED <<active, consumed>>
          /\ handed' = handed \cup {k \in {s.token} : s.client = "native"}
          /\ window' = [window EXCEPT ![w].page = "failed", ![w].back = FALSE]
    /\ thread' = [thread EXCEPT ![w] = Idle]
    /\ UNCHANGED <<cancel, staging, pending, lock, net, logins, life>>

\* enil_login_store_activate: install the staged session for its account.
Activate(w) ==
    LET s == staging[w]
        install == /\ active' = [active EXCEPT ![ScannedMid(s)] = s]
                   /\ consumed' = consumed \cup {s.token}
    IN
    /\ thread[w].pc = "finish" /\ thread[w].ok /\ window[w].page = "login"
    /\ s.mid
    /\ \/ /\ install
          /\ handed' = handed \ {s.token}
          /\ window' = [window EXCEPT ![w].page = "activated", ![w].back = FALSE]
          /\ UNCHANGED faults
       \/ /\ WriteFaults
          /\ install \/ UNCHANGED <<active, consumed>>
          /\ handed' = handed \cup {k \in {s.token} : s.client = "native"}
          /\ window' = [window EXCEPT ![w].page = "failed", ![w].back = FALSE]
    /\ thread' = [thread EXCEPT ![w] = Idle]
    /\ UNCHANGED <<cancel, staging, pending, retired, lock, net, logins, life>>

MutRetireConsumed(w) ==
    /\ window[w].page = "activated"
    /\ staging' = [staging EXCEPT ![w] = Absent]
    /\ window' = [window EXCEPT ![w].page = "closed"]
    /\ UNCHANGED <<cancel, thread, pending, retired, active, consumed, lock, net, handed, lim>>

\* ... and retire the attempt it came from, best effort: not while the thread of
\* an earlier window has its lock; then drop staging.
RetireConsumed(w) ==
    LET p == staging[w].source IN
    /\ window[w].page = "activated"
    /\ \/ /\ p # None /\ Retirable(p)
          /\ retired' = retired \cup {p}
          /\ UNCHANGED <<faults, unretired>>
       \/ /\ p # None /\ ~Retirable(p)
          /\ unretired' = unretired \cup {staging[w].token}
          /\ UNCHANGED <<retired, faults>>
       \/ p = None /\ UNCHANGED <<retired, faults, unretired>>
       \/ p # None /\ WriteFaults /\ UNCHANGED <<retired, unretired>>
    /\ staging' = [staging EXCEPT ![w] = Absent]
    /\ window' = [window EXCEPT ![w].page = "closed"]
    /\ UNCHANGED <<cancel, thread, pending, active, consumed, lock, net, handed, logins,
                   setup, crashes>>

-----------------------------------------------------------------------------
(* The login thread: the attempt and the choice of its durable directory.  *)

MutMatchesStarted(s, p) ==
    LET prior == pending[p] IN
    /\ prior # Absent /\ p \notin retired
    /\ prior.client = s.client /\ prior.expected = s.expected
    /\ s.expected # None => prior.baseline = s.baseline
    /\ prior.mid => active[ScannedMid(prior)] = Absent
    /\ prior.token # 0

\* Which saved attempt a newly staged login may take up again.
Matches(s, p) ==
    LET prior == pending[p] IN
    /\ prior # Absent /\ p \notin retired
    /\ prior.client = s.client /\ prior.expected = s.expected
    /\ s.expected # None => prior.baseline = s.baseline
    /\ prior.mid =>
         LET now == active[ScannedMid(prior)] IN
         now # Absent =>
             /\ s.expected # None
             /\ now.source # p /\ now.login # prior.login
             /\ s.expected = ScannedMid(prior) => now.login = prior.baseline
    /\ prior.token # 0 \/ prior.started

\* enil_login_store_select: own source, else a match, else a new directory.
Candidates(s) ==
    IF s.source # None /\ s.source \notin retired THEN {s.source}
    ELSE IF s.fresh THEN {} ELSE {p \in Pendings : Matches(s, p)}

Chosen(s, p) ==
    \/ p \in Candidates(s) /\ UNCHANGED pending
    \/ /\ Candidates(s) = {} /\ pending[p] = Absent
       /\ pending' = [pending EXCEPT ![p] = s]

Select(w) ==
    \E p \in Pendings :
        /\ Chosen(staging[w], p)
        /\ staging' = [staging EXCEPT ![w].source = p]
        /\ thread' = [thread EXCEPT ![w].pc = "check", ![w].dir = p]

\* A write that fails may have put the choice into staging.  A new directory that
\* staging does not name is left out: without token and not started, no login
\* ever matches it.
SelectFails(w) ==
    /\ WriteFaults /\ Finish(w, FALSE)
    /\ \/ UNCHANGED <<pending, staging>>
       \/ \E p \in Pendings :
            Chosen(staging[w], p) /\ staging' = [staging EXCEPT ![w].source = p]

\* enil_qrlogin_run_user_attempt up to the flow of the client it is bound to.
Attempt(w) ==
    LET s == staging[w] IN
    /\ thread[w].pc = "attempt"
    /\ \/ /\ cancel[w] \/ s = Absent
          /\ Finish(w, FALSE) /\ UNCHANGED <<pending, staging, faults>>
       \/ /\ ~cancel[w] /\ s # Absent /\ s.client = "native"
          /\ (Select(w) /\ UNCHANGED faults) \/ SelectFails(w)
       \/ /\ ~cancel[w] /\ s # Absent /\ s.client = "chrome"
          /\ IF s.token # 0 THEN Finish(w, TRUE) ELSE Goto(w, "scan")
          /\ UNCHANGED <<pending, staging, faults>>
    /\ UNCHANGED <<window, cancel, retired, active, consumed, lock, net, handed, logins, life>>

-----------------------------------------------------------------------------
(* The login thread: the native flow, under the durable directory's lock.  *)

\* Mistake: an exit that fails keeps the lock.
MutLeave(w, ok) ==
    /\ lock' = IF ok THEN [lock EXCEPT ![thread[w].dir] = None] ELSE lock
    /\ IF ok THEN Goto(w, "recover") ELSE Finish(w, FALSE)

\* Every exit from the locked part releases the lock; TRUE goes on to stage.
Leave(w, ok) ==
    /\ lock' = [lock EXCEPT ![thread[w].dir] = None]
    /\ IF ok THEN Goto(w, "recover") ELSE Finish(w, FALSE)

Save(p, s) == pending' = [pending EXCEPT ![p] = s]

\* save(): go on with the new state on disk, or fail with either state there.
SaveOr(w, s, next) ==
    \/ Save(thread[w].dir, s) /\ next /\ UNCHANGED faults
    \/ WriteFaults /\ (Save(thread[w].dir, s) \/ UNCHANGED pending) /\ Leave(w, FALSE)

LockedStep == UNCHANGED <<window, cancel, staging, retired, active, consumed, handed, logins, life>>

\* retired.json is looked at before the lock is tried ...
NativeCheck(w) ==
    /\ thread[w].pc = "check"
    /\ IF cancel[w] \/ thread[w].dir \in retired THEN Finish(w, FALSE) ELSE Goto(w, "lock")
    /\ UNCHANGED <<window, cancel, disk, lock, net, handed, lim>>

\* ... and then the lock, before the saved attempt is read.
NativeLock(w) ==
    LET p == thread[w].dir IN
    /\ thread[w].pc = "lock"
    /\ \/ lock[p] # None /\ Finish(w, FALSE) /\ UNCHANGED lock
       \/ lock[p] = None /\ lock' = [lock EXCEPT ![p] = w] /\ Goto(w, "locked")
    /\ UNCHANGED <<pending, faults, net>> /\ LockedStep

\* Mistake: the request that was started is not looked at.
MutReadAttempt(w) ==
    LET p == thread[w].dir
        s == pending[p]
    IN
    /\ thread[w].pc = "locked"
    /\ IF p \in retired THEN Leave(w, FALSE)
       ELSE IF s.token # 0 THEN Leave(w, TRUE)
       ELSE UNCHANGED lock /\ Goto(w, IF s.raw # 0 THEN "result"
                                      ELSE IF s.qr = "verified" THEN "start" ELSE "qr")
    /\ UNCHANGED <<pending, faults, net>> /\ LockedStep

\* Under the lock: retired once more, and what the saved attempt leaves to do.
ReadAttempt(w) ==
    LET p == thread[w].dir
        s == pending[p]
    IN
    /\ thread[w].pc = "locked"
    /\ \/ p \in retired /\ Leave(w, FALSE) /\ UNCHANGED <<pending, faults>>
       \/ /\ p \notin retired
          /\ \/ /\ s.token # 0
                /\ Leave(w, TRUE) /\ UNCHANGED <<pending, faults>>
             \/ /\ s.token = 0 /\ s.started /\ s.raw = 0
                /\ Leave(w, FALSE) /\ UNCHANGED <<pending, faults>>
             \/ /\ s.token = 0 /\ s.started /\ s.raw # 0
                /\ SaveOr(w, [s EXCEPT !.token = s.raw, !.mid = TRUE], Leave(w, TRUE))
             \/ /\ s.token = 0 /\ ~s.started
                /\ IF cancel[w] THEN Leave(w, FALSE)
                   ELSE Goto(w, IF s.qr = "verified" THEN "start" ELSE "qr") /\ UNCHANGED lock
                /\ UNCHANGED <<pending, faults>>
    /\ UNCHANGED net /\ LockedStep

\* Key, QR session, scan and certificate or PIN, each saved as it is reached.
MutNextQr(q) == IF q = "shown" THEN "pin" ELSE "shown"

NextQr(q) == CASE q = "none" -> "shown" [] q = "shown" -> "scanned" [] OTHER -> "verified"

Handshake(w) ==
    LET s == pending[thread[w].dir]
        q == NextQr(s.qr)
    IN
    /\ thread[w].pc = "qr"
    /\ \/ Leave(w, FALSE) /\ UNCHANGED <<pending, faults>>  \* cancelled, refused, timed out
       \/ /\ ~cancel[w]
          /\ SaveOr(w, [s EXCEPT !.qr = q],
                    (IF q = "verified" THEN Goto(w, "start") ELSE UNCHANGED thread)
                    /\ UNCHANGED lock)
    /\ UNCHANGED net /\ LockedStep

\* nativeTokenRequestStarted is on disk before the request is made.
MarkStarted(w) ==
    LET s == pending[thread[w].dir] IN
    /\ thread[w].pc = "start"
    /\ \/ cancel[w] /\ Leave(w, FALSE) /\ UNCHANGED <<pending, faults>>
       \/ ~cancel[w] /\ SaveOr(w, [s EXCEPT !.started = TRUE], Goto(w, "call") /\ UNCHANGED lock)
    /\ UNCHANGED net /\ LockedStep

\* call() looks at the flag once more before the transfer starts.
SendRequest(w) ==
    /\ thread[w].pc = "call"
    /\ IF cancel[w] THEN Leave(w, FALSE) ELSE Goto(w, "wire") /\ UNCHANGED lock
    /\ UNCHANGED <<pending, faults, net>> /\ LockedStep

\* LINE issues tokens for the account that scanned; the reply may be lost.
TokenReply(w) ==
    /\ thread[w].pc = "wire"
    /\ \/ /\ \E a \in setup.accounts : issued' = Append(issued, a)
          /\ asked' = [asked EXCEPT ![thread[w].dir] = @ + 1]
          /\ \/ /\ thread' = [thread EXCEPT ![w].pc = "raw", ![w].reply = Len(issued) + 1]
                /\ UNCHANGED lock
             \/ Leave(w, FALSE)
       \/ Leave(w, FALSE) /\ UNCHANGED net
    /\ UNCHANGED <<pending, faults>> /\ LockedStep

\* The raw reply is saved before it is decoded.
SaveReply(w) ==
    LET s == pending[thread[w].dir] IN
    /\ thread[w].pc = "raw"
    /\ SaveOr(w, [s EXCEPT !.raw = thread[w].reply], Goto(w, "result") /\ UNCHANGED lock)
    /\ UNCHANGED net /\ LockedStep

\* save_login_result: tokens, mid and key material into their fields.
SaveResult(w) ==
    LET s == pending[thread[w].dir] IN
    /\ thread[w].pc = "result"
    /\ SaveOr(w, [s EXCEPT !.token = s.raw, !.mid = TRUE], Goto(w, "unwrap") /\ UNCHANGED lock)
    /\ UNCHANGED net /\ LockedStep

\* The worker opened the key chain that came with the tokens.
UnwrapAndStore(s) == [s EXCEPT !.keys = TRUE]

\* The keychain is unwrapped if the worker can; without it the login stands.
Unwrap(w) ==
    LET s == pending[thread[w].dir] IN
    /\ thread[w].pc = "unwrap"
    /\ \/ Leave(w, TRUE) /\ UNCHANGED <<pending, faults>>
       \/ ~cancel[w] /\ SaveOr(w, UnwrapAndStore(s), Leave(w, TRUE))
    /\ UNCHANGED net /\ LockedStep

\* enil_qrlogin_recover_e2ee, after the lock is gone: keys are required here.
RecoverKeys(w) ==
    LET p == thread[w].dir IN
    /\ thread[w].pc = "recover"
    /\ \/ Finish(w, FALSE) /\ (cancel[w] \/ ~pending[p].keys) /\ UNCHANGED pending
       \/ /\ ~cancel[w]
          /\ Save(p, UnwrapAndStore(pending[p]))
          /\ Goto(w, "stage")
    /\ UNCHANGED <<lock, faults, net>> /\ LockedStep

\* enil_login_store_stage: copy the finished attempt over the staging file.
Stage(w) ==
    LET p == thread[w].dir
        gone == p \in retired \/ window[w].page = "closed"
    IN
    /\ thread[w].pc = "stage"
    /\ \/ /\ ~gone
          /\ staging' = [staging EXCEPT ![w] = [pending[p] EXCEPT !.source = p]]
          /\ Finish(w, TRUE) /\ UNCHANGED faults
       \/ gone /\ Finish(w, FALSE) /\ UNCHANGED <<staging, faults>>
       \/ WriteFaults /\ Finish(w, FALSE) /\ UNCHANGED staging
    /\ UNCHANGED <<window, cancel, pending, retired, active, consumed, lock, net, handed,
                   logins, life>>

-----------------------------------------------------------------------------
(* The login thread: the Chrome flow, in the staging directory only.       *)
ChromeStep == UNCHANGED <<window, cancel, pending, retired, active, consumed, lock, asked, handed,
                          logins, life>>

\* The session into staging; a closed window has removed it (Absent).
StageWrite(w, s) == staging' = [staging EXCEPT ![w] = s]

\* QR session, key, scan, certificate or PIN: saved once before the poll.
ChromeScan(w) ==
    /\ thread[w].pc = "scan"
    /\ \/ cancel[w] /\ Finish(w, FALSE) /\ UNCHANGED staging
       \/ /\ ~cancel[w] /\ staging[w] # Absent
          /\ StageWrite(w, [staging[w] EXCEPT !.qr = "shown"])
          /\ Goto(w, "issue") \/ Finish(w, FALSE)
    /\ UNCHANGED <<issued, faults>> /\ ChromeStep

\* qrCodeLoginV2; the tokens stay in memory until the flow ends.
ChromeIssue(w) ==
    /\ thread[w].pc = "issue"
    /\ \/ Finish(w, FALSE) /\ UNCHANGED issued
       \/ /\ ~cancel[w]
          /\ \E a \in setup.accounts : issued' = Append(issued, a)
          /\ thread' = [thread EXCEPT ![w].pc = "profile", ![w].reply = Len(issued) + 1]
    /\ UNCHANGED <<staging, faults>> /\ ChromeStep

\* Best effort: without the keys the login stands, with the material saved.
CaptureKeys(s) == {s, UnwrapAndStore(s)}

\* The profile gives the mid; the end of a flow that fails writes what it has,
\* also after the write of a login that succeeded has failed.
ChromeProfile(w) ==
    /\ thread[w].pc = "profile"
    /\ \/ /\ staging[w] = Absent
          /\ Finish(w, FALSE) /\ UNCHANGED <<staging, faults>>
       \/ /\ staging[w] # Absent
          /\ \E s \in CaptureKeys([staging[w] EXCEPT !.token = thread[w].reply]) :
                \/ StageWrite(w, [s EXCEPT !.mid = TRUE]) /\ Finish(w, TRUE)
                \/ StageWrite(w, s) /\ Finish(w, FALSE)
          /\ UNCHANGED faults
       \/ /\ staging[w] # Absent
          /\ WriteFaults /\ Finish(w, FALSE)
          /\ \/ UNCHANGED staging
             \/ \E s \in CaptureKeys([staging[w] EXCEPT !.token = thread[w].reply]) :
                  StageWrite(w, [s EXCEPT !.mid = TRUE])
    /\ UNCHANGED issued /\ ChromeStep

-----------------------------------------------------------------------------
\* Log Out: the account's directory goes; durable directories stay.
LogOut(a) ==
    /\ active[a] # Absent
    /\ \A w \in Windows : window[w].page # "activated"
    /\ active' = [active EXCEPT ![a] = Absent]
    /\ UNCHANGED <<window, cancel, thread, staging, pending, retired, consumed, lock, net,
                   handed, lim>>

\* Opening an account retries the keys its login could not capture.
OpenAccount(a) ==
    /\ active[a] # Absent /\ ~active[a].keys
    /\ active' = [active EXCEPT ![a] = UnwrapAndStore(active[a])]
    /\ UNCHANGED <<window, cancel, thread, staging, pending, retired, consumed, lock, net,
                   handed, lim>>

\* The program exits: windows, threads and locks go; staging is not reused.
Crash ==
    /\ crashes < setup.crashes /\ crashes' = crashes + 1
    /\ window' = [w \in Windows |-> [page |-> "closed", expected |-> None, back |-> FALSE]]
    /\ cancel' = [w \in Windows |-> FALSE]
    /\ thread' = [w \in Windows |-> Idle]
    /\ staging' = [w \in Windows |-> Absent]
    /\ lock' = [p \in Pendings |-> None]
    /\ UNCHANGED <<pending, retired, active, consumed, unretired, net, handed, setup, logins, faults>>

ThreadStep(w) ==
    \/ Attempt(w) \/ NativeCheck(w) \/ NativeLock(w) \/ ReadAttempt(w) \/ Handshake(w)
    \/ MarkStarted(w) \/ SendRequest(w) \/ TokenReply(w) \/ SaveReply(w) \/ SaveResult(w) \/ Unwrap(w)
    \/ RecoverKeys(w) \/ Stage(w) \/ ChromeScan(w) \/ ChromeIssue(w) \/ ChromeProfile(w)

MainStep(w) ==
    \/ FinishFailed(w) \/ HandoverRejected(w) \/ Activate(w) \/ RetireConsumed(w)

UserStep(w) ==
    \/ \E e \in Accounts \cup {None} : OpenWindow(w, e)
    \/ \E c \in setup.clients : BeginLogin(w, c)
    \/ PrepareFails(w) \/ Retry(w) \/ StartNewQR(w) \/ GoBack(w) \/ CloseWindow(w)

Next ==
    \/ Crash
    \/ \E a \in Accounts : LogOut(a) \/ OpenAccount(a)
    \/ \E w \in Windows : ThreadStep(w) \/ MainStep(w) \/ UserStep(w)

Spec == Init /\ [][Next]_vars

-----------------------------------------------------------------------------
(* Properties.                                                             *)

\* LINE is asked for the tokens of a saved attempt at most once, whatever is
\* lost, retried or interrupted: nativeTokenRequestStarted (enil_native_login.c).
AskedOnce == \A p \in Pendings : asked[p] <= 1

\* A retired attempt never issues credentials: restart and activation retire
\* it under the lock the handshake holds, also when a closed window's thread
\* is still inside its request (retire, enil_login_store.c).
RetiredSilent == [][\A p \in Pendings : asked'[p] > asked[p] => p \notin retired]_vars

\* Activation never puts an older login over a newer one of the same account,
\* when the account was asked for or the login is Chrome's.  A scan adopted for
\* another account may, and so may a native Add Account whose saved reply was not
\* yet decoded when it was resumed (matches and activate, enil_login_store.c).
GenerationForward ==
    [][\A a \in Accounts : Absent \notin {active[a], active'[a]}
                               /\ (active'[a].expected = a \/ active'[a].client = "chrome")
                               => active'[a].token >= active[a].token]_vars

\* "A removed account must not be silently resurrected from consumed tokens"
\* (tests/login_recovery.c): what is activated after Log Out was never active.
NeverResurrected ==
    [][\A a \in Accounts : active[a] = Absent /\ active'[a] # Absent
                               => active'[a].token \notin consumed]_vars

\* The same while the program neither exits nor fails to write, but for the one
\* token whose directory another thread had locked just when it was to be
\* retired: that thread belongs to an earlier window and finds the tokens saved
\* (enil_login_store_activate; the flock of enil_native_login_run).
LoggedOutStays ==
    [][\A a \in Accounts : active[a] = Absent /\ active'[a] # Absent
                               /\ crashes = 0 /\ faults = 0
                               => active'[a].token \notin consumed \ unretired]_vars

\* The account of token k has a login that makes a saved attempt s obsolete:
\* a newer one, any one if s was an Add Account, or its baseline is replaced.
Superseded(s, k) ==
    \/ active[issued[k]] # Absent /\ (s.expected = None \/ active[issued[k]].token >= k)
    \/ /\ s.expected # None
       /\ active[s.expected] = Absent \/ active[s.expected].login # s.baseline

\* Some window the user may open now takes up attempt p again.
Resumes(p) == \E e \in Accounts \cup {None} :
    (e # None => active[e] # Absent) /\ Matches(StagedFor(e, "native"), p)

\* A token reply that reached the disk is taken up by the next login of that
\* kind after any crash, cancellation or failed write, unless the user started
\* a new QR or a later login replaced it (select, recover_login_reply).
SavedReplyResumes ==
    \A p \in Pendings : pending[p] # Absent /\ p \notin retired /\ pending[p].raw # 0
        => Resumes(p) \/ Superseded(pending[p], pending[p].raw)

\* A native login whose activation failed keeps its durable directory, with the
\* tokens, until the same login is activated after all or the user starts a new QR:
\* no close, exit, Log Out or other login retires it (didFinishWithAccountDir,
\* AppDelegate.m).
KeptForRecovery ==
    \A k \in handed : \E p \in Pendings \ retired : pending[p] # Absent /\ pending[p].raw = k

\* Whatever ends a login thread (a result, a refusal, Back, a closed window, a
\* failed write, an exit), it leaves no durable directory locked: a lock's holder
\* is a thread inside that directory's handshake (enil_native_login_run).
LocksReleased ==
    \A p \in Pendings : lock[p] # None =>
        /\ thread[lock[p]].dir = p
        /\ thread[lock[p]].pc \in {"locked", "qr", "start", "call", "wire", "raw", "result", "unwrap"}
=============================================================================
