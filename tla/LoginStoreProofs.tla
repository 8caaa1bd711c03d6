--------------------------- MODULE LoginStoreProofs ---------------------------
(***************************************************************************)
(* Proofs about LoginStore, for every set of accounts, windows and durable *)
(* directories and every bound: type correctness, one token request per    *)
(* saved attempt, no lock left behind, silence of retired attempts; saved  *)
(* replies that are found again, failed activations that are kept, and the *)
(* order of an account's logins.                                           *)
(***************************************************************************)
EXTENDS LoginStore, FiniteSetTheorems, TLAPS

-----------------------------------------------------------------------------
(* The inductive invariant.  A thread is bound to its durable directory by *)
(* the directory's lock; what the directory says of the token request is   *)
(* what the holder of the lock has done.                                   *)

Handshaking == {"locked", "qr", "start", "call", "wire", "raw", "result", "unwrap"}
NativeSteps == Handshaking \cup {"check", "lock", "recover", "stage"}

\* A session with a mid has tokens; a directory it names exists.
Sound(s) ==
    /\ s.mid => s.token # 0
    /\ s.source # None => pending[s.source] # Absent

Pages ==
    \A w \in Windows :
        /\ Running(w) => window[w].page \in {"login", "closed"}
        /\ window[w].page \in {"login", "recovery", "activated"} => staging[w] # Absent
        /\ window[w].page = "recovery" => staging[w].source # None

Files ==
    /\ \A w \in Windows : staging[w] # Absent => Sound(staging[w])
    /\ \A p \in Pendings : pending[p] # Absent => Sound(pending[p])
    /\ \A p \in Pendings : asked[p] > 0 => pending[p] # Absent /\ pending[p].started

\* What a thread at step t has behind it in its directory.
ThreadSound(w) ==
    LET t == thread[w]
        s == pending[t.dir]
    IN
    /\ t.pc \in NativeSteps => t.dir \in Pendings /\ s # Absent
    /\ t.pc \in Handshaking => lock[t.dir] = w /\ (t.pc = "locked" \/ t.dir \notin retired)
    /\ t.pc \in {"qr", "start"} => ~s.started
    /\ t.pc \in {"call", "wire"} => s.started
    /\ t.pc \in {"qr", "start", "call", "wire"} => asked[t.dir] = 0
    /\ t.pc \in {"raw", "profile"} => t.reply # 0
    /\ t.pc = "result" => s.raw # 0

IInv ==
    /\ TypeOK /\ setup \in Setups
    /\ Pages /\ Files
    /\ \A w \in Windows : ThreadSound(w)
    /\ AskedOnce /\ LocksReleased

-----------------------------------------------------------------------------
(* Sessions.                                                               *)

LEMMA SetupFacts ==
  ASSUME NEW s \in Setups
  PROVE  /\ s \in SetupType /\ s.accounts \subseteq Accounts /\ s.accounts # {}
         /\ s.installed \subseteq Accounts /\ s.clients \subseteq {"native", "chrome"}
         /\ s.logins \in Nat /\ s.faults \in Nat /\ s.crashes \in Nat
BY LoginConstants DEF SetupType

LEMMA SessionPresent ==
  ASSUME setup \in Setups, issued \in Seq(Accounts), NEW s \in Session
  PROVE  s # Absent
<1>1. setup.logins \in Nat /\ Len(issued) \in Nat
  BY SetupFacts
<1>2. s \in Sessions
  BY <1>1 DEF Session, Sessions
<1> QED BY <1>2, AbsentIsNoSession

LEMMA SessionPresentNext ==
  ASSUME setup \in Setups, setup' = setup, issued' \in Seq(Accounts), NEW s \in Session'
  PROVE  s # Absent
<1>1. setup.logins \in Nat /\ Len(issued') \in Nat
  BY SetupFacts
<1>2. s \in Sessions
  BY <1>1 DEF Session, Sessions
<1> QED BY <1>2, AbsentIsNoSession

LEMMA SessionGrows ==
  ASSUME setup \in Setups, setup' = setup, issued \in Seq(Accounts), issued' \in Seq(Accounts),
         Len(issued') >= Len(issued), NEW s \in Session
  PROVE  s \in Session'
<1>1. Len(issued) \in Nat /\ Len(issued') \in Nat
  OBVIOUS
<1>2. 0..Len(issued) \subseteq 0..Len(issued')
  BY <1>1
<1> QED BY <1>2 DEF Session

LEMMA NewSessionFits ==
  ASSUME setup \in Setups, issued \in Seq(Accounts), NEW c \in {"native", "chrome"},
         NEW id \in 1..setup.logins, NEW e \in Accounts \cup {None}, NEW b \in 0..setup.logins,
         NEW f \in BOOLEAN
  PROVE  /\ [NewSession(c, id, e, b) EXCEPT !.fresh = f] \in Session
         /\ NewSession(c, id, e, b) \in Session
         /\ Sound([NewSession(c, id, e, b) EXCEPT !.fresh = f])
         /\ Sound(NewSession(c, id, e, b))
<1> DEFINE n == NewSession(c, id, e, b)
<1>1. Len(issued) \in Nat
  OBVIOUS
<1>2. n \in Session /\ n.source = None /\ n.mid = FALSE
  BY <1>1 DEF NewSession, Session
<1> HIDE DEF n
<1>3. /\ [n EXCEPT !.fresh = f] \in Session /\ [n EXCEPT !.fresh = f].source = None
      /\ [n EXCEPT !.fresh = f].mid = FALSE
  BY <1>2 DEF Session
<1>4. Sound(n) /\ Sound([n EXCEPT !.fresh = f])
  BY <1>2, <1>3 DEF Sound
<1> QED BY <1>2, <1>3, <1>4 DEF n

-----------------------------------------------------------------------------
(* Steps inside a directory's lock.                                        *)

Threads ==
    [pc : {"idle", "attempt", "check", "lock", "locked", "qr", "start", "call", "wire", "raw", "result",
           "unwrap", "recover", "stage", "scan", "issue", "profile", "finish"},
     dir : Pendings \cup {None}, ok : BOOLEAN, reply : 0..Len(issued)]

LEMMA ThreadsGrow ==
  ASSUME issued \in Seq(Accounts), issued' \in Seq(Accounts), Len(issued') >= Len(issued),
         NEW t \in Threads
  PROVE  t \in Threads'
<1>1. Len(issued) \in Nat /\ Len(issued') \in Nat
  OBVIOUS
<1>2. 0..Len(issued) \subseteq 0..Len(issued')
  BY <1>1
<1> QED BY <1>2 DEF Threads

\* Everything that a native thread's step leaves alone keeps its type, though
\* LINE may have issued another token.
LEMMA LockedTypes ==
  ASSUME TypeOK, setup \in Setups, LockedStep, NEW w \in Windows,
         issued' \in Seq(Accounts), Len(issued') >= Len(issued),
         asked' \in [Pendings -> Nat], faults' \in 0..setup.faults,
         NEW t \in Threads', thread' = [thread EXCEPT ![w] = t],
         pending' \in [Pendings -> Session' \cup {Absent}],
         lock' \in [Pendings -> Windows \cup {None}]
  PROVE  TypeOK'
<1>1. UNCHANGED <<window, cancel, staging, retired, active, consumed, handed, logins, setup,
                  crashes, unretired>>
  BY DEF LockedStep, life
<1>2. /\ \A x \in Session : x \in Session'
      /\ \A x \in Threads : x \in Threads'
  BY <1>1, SessionGrows, ThreadsGrow DEF TypeOK
<1>3. /\ staging' \in [Windows -> Session' \cup {Absent}]
      /\ active' \in [Accounts -> Session' \cup {Absent}]
  BY <1>1, <1>2 DEF TypeOK
<1>4. thread' \in [Windows -> Threads']
  BY <1>2 DEF TypeOK, Threads
<1>5. 1..Len(issued) \subseteq 1..Len(issued') /\ Len(issued) \in Nat
  BY DEF TypeOK
<1>6. /\ handed' \subseteq 1..Len(issued') /\ consumed' \subseteq 1..Len(issued')
      /\ unretired' \subseteq 0..Len(issued')
  BY <1>1, <1>5 DEF TypeOK
<1> QED BY <1>1, <1>3, <1>4, <1>6 DEF TypeOK, Threads

\* What the thread of window w may do to the directory p it has, or may take,
\* the lock of: come to step t, with the saved session s, the lock held by h
\* and n requests made.
LockedEffect(w, p, t, s, h, n) ==
    /\ thread' = [thread EXCEPT ![w] = t]
    /\ pending' = [pending EXCEPT ![p] = s]
    /\ lock' = [lock EXCEPT ![p] = h]
    /\ asked' = [asked EXCEPT ![p] = n]

LockedAllowed(w, t, s, h, n) ==
    LET p == thread[w].dir IN
    /\ s.mid => s.token # 0
    /\ s.source = pending[p].source
    /\ n \in {0, 1} /\ (n = 1 => s.started)
    /\ t.pc \in NativeSteps => t.dir = p
    /\ IF t.pc \in Handshaking THEN h = w /\ t.dir = p /\ (t.pc = "locked" \/ p \notin retired)
       ELSE h = None
    /\ t.pc \in {"qr", "start"} => ~s.started
    /\ t.pc \in {"call", "wire"} => s.started
    /\ t.pc \in {"qr", "start", "call", "wire"} => n = 0
    /\ t.pc \in {"raw", "profile"} => t.reply # 0
    /\ t.pc = "result" => s.raw # 0

LEMMA LockedMove ==
  ASSUME IInv, LockedStep, NEW w \in Windows, NEW p \in Pendings, p = thread[w].dir,
         Running(w), pending[p] # Absent, lock[p] \in {None, w},
         issued' \in Seq(Accounts), Len(issued') >= Len(issued), faults' \in 0..setup.faults,
         NEW t \in Threads', NEW s \in Session', NEW h \in {None, w}, NEW n \in Nat,
         LockedEffect(w, p, t, s, h, n), LockedAllowed(w, t, s, h, n)
  PROVE  IInv'
<1>1. /\ TypeOK /\ setup \in Setups /\ setup' = setup
      /\ UNCHANGED <<window, cancel, staging, retired>>
      /\ thread \in [Windows -> Threads] /\ pending \in [Pendings -> Session \cup {Absent}]
      /\ lock \in [Pendings -> Windows \cup {None}] /\ asked \in [Pendings -> Nat]
      /\ issued \in Seq(Accounts)
  BY DEF IInv, LockedStep, life, TypeOK, Threads
<1>2. s # Absent
  BY <1>1, SessionPresentNext
<1>3. /\ pending' \in [Pendings -> Session' \cup {Absent}]
      /\ lock' \in [Pendings -> Windows \cup {None}] /\ asked' \in [Pendings -> Nat]
  BY <1>1, SessionGrows DEF LockedEffect
<1>4. TypeOK'
  BY <1>1, <1>3, LockedTypes DEF LockedEffect
<1>5. \A q \in Pendings : IF q = p THEN pending'[q] = s /\ lock'[q] = h /\ asked'[q] = n
                          ELSE pending'[q] = pending[q] /\ lock'[q] = lock[q] /\ asked'[q] = asked[q]
  BY <1>1 DEF LockedEffect
<1>6. \A v \in Windows : thread'[v] = IF v = w THEN t ELSE thread[v]
  BY <1>1 DEF LockedEffect
<1>7. \A q \in Pendings : pending[q] # Absent => pending'[q] # Absent
  BY <1>2, <1>5
<1>8. Pages'
  BY <1>1, <1>6 DEF IInv, Pages, Running
<1>9. Files'
  <2>1. ASSUME NEW x \in Session \cup Session', NEW y, x.source = y.source, Sound(y)
        PROVE  x.source # None => pending'[x.source] # Absent
    <3>1. x.source \in Pendings \cup {None}
      BY DEF Session
    <3> QED BY <1>7, <2>1, <3>1 DEF Sound
  <2>2. ASSUME NEW v \in Windows, staging'[v] # Absent PROVE Sound(staging[v])'
    <3>1. staging[v] \in Session /\ Sound(staging[v]) /\ staging'[v] = staging[v]
      BY <1>1, <2>2 DEF TypeOK, IInv, Files
    <3>2. staging[v].source # None => pending'[staging[v].source] # Absent
      BY <2>1, <3>1
    <3> QED BY <3>1, <3>2 DEF Sound
  <2>3. ASSUME NEW q \in Pendings, pending'[q] # Absent PROVE Sound(pending[q])'
    <3>1. CASE q # p
      <4>1. pending[q] \in Session /\ Sound(pending[q]) /\ pending'[q] = pending[q]
        BY <1>1, <1>5, <2>3, <3>1 DEF IInv, Files
      <4>2. pending[q].source # None => pending'[pending[q].source] # Absent
        BY <2>1, <4>1
      <4> QED BY <4>1, <4>2 DEF Sound
    <3>2. CASE q = p
      <4>1. pending[p] \in Session /\ Sound(pending[p]) /\ pending'[q] = s
        BY <1>1, <1>5, <3>2 DEF IInv, Files
      <4>2. s.source = pending[p].source /\ (s.mid => s.token # 0)
        BY DEF LockedAllowed
      <4>3. s.source # None => pending'[s.source] # Absent
        BY <2>1, <4>1, <4>2
      <4> QED BY <4>1, <4>2, <4>3 DEF Sound
    <3> QED BY <3>1, <3>2
  <2>4. \A q \in Pendings : asked'[q] > 0 => pending'[q] # Absent /\ pending'[q].started
    BY <1>2, <1>5 DEF IInv, Files, LockedAllowed
  <2> QED BY <2>2, <2>3, <2>4 DEF Files
<1>10. ASSUME NEW v \in Windows PROVE ThreadSound(v)'
  <2>1. CASE v = w
    BY <1>1, <1>2, <1>5, <1>6, <2>1 DEF ThreadSound, LockedAllowed, Handshaking, NativeSteps
  <2>2. CASE v # w
    <3>1. ThreadSound(v) /\ thread'[v] = thread[v] /\ retired' = retired
      BY <1>1, <1>6, <2>2 DEF IInv
    <3>2. thread[v].pc \in NativeSteps => thread[v].dir \in Pendings
      BY <3>1 DEF ThreadSound
    <3>3. thread[v].pc \in Handshaking => thread[v].dir # p
      BY <2>2, <3>1, LoginConstants DEF ThreadSound
    <3> QED BY <1>5, <1>7, <3>1, <3>2, <3>3 DEF ThreadSound, Handshaking, NativeSteps
  <2> QED BY <2>1, <2>2
<1>11. AskedOnce'
  BY <1>5 DEF IInv, AskedOnce, LockedAllowed
<1>12. LocksReleased'
  <2> SUFFICES ASSUME NEW q \in Pendings, lock'[q] # None
               PROVE  /\ thread'[lock'[q]].dir = q
                      /\ thread'[lock'[q]].pc \in Handshaking
    BY DEF LocksReleased, Handshaking
  <2>1. CASE q = p
    BY <1>5, <1>6, <2>1 DEF LockedAllowed
  <2>2. CASE q # p
    <3>1. lock'[q] = lock[q] /\ lock[q] \in Windows /\ thread[lock[q]].dir = q
          /\ thread[lock[q]].pc \in Handshaking
      BY <1>1, <1>5, <2>2 DEF IInv, LocksReleased, Handshaking
    <3>2. lock[q] # w
      BY <2>2, <3>1
    <3> QED BY <1>6, <3>1, <3>2
  <2> QED BY <2>1, <2>2
<1> QED BY <1>1, <1>4, <1>8, <1>9, <1>10, <1>11, <1>12 DEF IInv

\* What is known of a thread in the handshake, or about to try the lock.
LEMMA HandshakeFacts ==
  ASSUME IInv, NEW w \in Windows,
         \/ thread[w].pc \in Handshaking
         \/ thread[w].pc = "lock" /\ lock[thread[w].dir] = None
  PROVE  LET p == thread[w].dir IN
         /\ p \in Pendings /\ pending[p] \in Session /\ pending[p] # Absent
         /\ Sound(pending[p]) /\ lock[p] \in {None, w} /\ Running(w)
         /\ thread[w].pc \in Handshaking =>
              lock[p] = w /\ (thread[w].pc = "locked" \/ p \notin retired)
         /\ thread \in [Windows -> Threads] /\ thread[w] \in Threads
         /\ asked[p] \in {0, 1} /\ (asked[p] = 1 => pending[p].started)
         /\ pending \in [Pendings -> Session \cup {Absent}]
         /\ lock \in [Pendings -> Windows \cup {None}] /\ asked \in [Pendings -> Nat]
         /\ issued \in Seq(Accounts) /\ Len(issued) \in Nat
         /\ setup \in Setups /\ setup.faults \in Nat /\ faults \in 0..setup.faults
<1> DEFINE p == thread[w].dir
<1>1. /\ TypeOK /\ setup \in Setups /\ ThreadSound(w) /\ thread[w].pc \in NativeSteps
      /\ thread[w].pc # "idle"
  BY DEF IInv, Handshaking, NativeSteps
<1>2. /\ thread \in [Windows -> Threads] /\ pending \in [Pendings -> Session \cup {Absent}]
      /\ lock \in [Pendings -> Windows \cup {None}] /\ asked \in [Pendings -> Nat]
      /\ issued \in Seq(Accounts) /\ faults \in 0..setup.faults
  BY <1>1 DEF TypeOK, Threads
<1>3. p \in Pendings /\ pending[p] # Absent
  BY <1>1 DEF ThreadSound
<1>4. pending[p] \in Session /\ Sound(pending[p]) /\ asked[p] \in Nat
  BY <1>2, <1>3 DEF IInv, Files
<1>5. asked[p] <= 1 /\ (asked[p] > 0 => pending[p].started)
  BY <1>3 DEF IInv, AskedOnce, Files
<1>6. thread[w].pc \in Handshaking =>
        lock[p] = w /\ (thread[w].pc = "locked" \/ p \notin retired)
  BY <1>1 DEF ThreadSound
<1> QED BY <1>1, <1>2, <1>3, <1>4, <1>5, <1>6, SetupFacts DEF Running

\* A save keeps the directory's source and never claims a mid without tokens.
Saves(s, old) ==
    /\ s \in Session' /\ s.source = old.source
    /\ s.mid => s.token # 0

\* The directory holds session s and n requests afterwards.
Result(w, s, n) ==
    /\ Saves(s, pending[thread[w].dir])
    /\ pending' = [pending EXCEPT ![thread[w].dir] = s]
    /\ n \in {0, 1} /\ (n = 1 => s.started)
    /\ asked' = [asked EXCEPT ![thread[w].dir] = n]

LEMMA LeaveMove ==
  ASSUME IInv, LockedStep, NEW w \in Windows,
         \/ thread[w].pc \in Handshaking
         \/ thread[w].pc = "lock" /\ lock[thread[w].dir] = None,
         NEW ok \in BOOLEAN, Leave(w, ok),
         issued' \in Seq(Accounts), Len(issued') >= Len(issued), faults' \in 0..setup.faults,
         NEW s, NEW n, Result(w, s, n)
  PROVE  IInv'
<1> DEFINE p == thread[w].dir
           t == IF ok THEN [thread[w] EXCEPT !.pc = "recover"]
                ELSE [thread[w] EXCEPT !.pc = "finish", !.ok = FALSE]
<1>1. /\ p \in Pendings /\ pending[p] # Absent /\ lock[p] \in {None, w} /\ Running(w)
      /\ thread[w] \in Threads /\ thread \in [Windows -> Threads] /\ issued \in Seq(Accounts)
  BY HandshakeFacts
<1>2. /\ t \in Threads' /\ t.pc \in {"recover", "finish"} /\ t.dir = p
  <2>1. thread[w] \in Threads'
    BY <1>1, ThreadsGrow
  <2> QED BY <1>1, <2>1 DEF Threads
<1>3. thread' = [thread EXCEPT ![w] = t] /\ lock' = [lock EXCEPT ![p] = None]
  BY <1>1 DEF Leave, Goto, Finish
<1> HIDE DEF t
<1>4. LockedAllowed(w, t, s, None, n)
  BY <1>2 DEF LockedAllowed, Saves, Result, Handshaking
<1>5. LockedEffect(w, p, t, s, None, n)
  BY <1>3 DEF LockedEffect, Result
<1>6. s \in Session' /\ n \in Nat
  BY DEF Saves, Result
<1> QED BY <1>1, <1>2, <1>4, <1>5, <1>6, LockedMove

LEMMA GotoMove ==
  ASSUME IInv, LockedStep, NEW w \in Windows, thread[w].pc \in Handshaking,
         thread[w].dir \notin retired,
         issued' \in Seq(Accounts), Len(issued') >= Len(issued), faults' \in 0..setup.faults,
         NEW t \in Threads', thread' = [thread EXCEPT ![w] = t], t.dir = thread[w].dir,
         t.pc \in Handshaking, lock' = lock,
         NEW s, NEW n, Result(w, s, n),
         /\ t.pc \in {"qr", "start"} => ~s.started
         /\ t.pc \in {"call", "wire"} => s.started
         /\ t.pc \in {"qr", "start", "call", "wire"} => n = 0
         /\ t.pc = "raw" => t.reply # 0
         /\ t.pc = "result" => s.raw # 0
  PROVE  IInv'
<1> DEFINE p == thread[w].dir
<1>1. /\ p \in Pendings /\ pending[p] # Absent /\ lock[p] = w /\ Running(w)
      /\ p \notin retired /\ lock \in [Pendings -> Windows \cup {None}]
  BY HandshakeFacts
<1>2. LockedAllowed(w, t, s, w, n)
  BY <1>1 DEF LockedAllowed, Saves, Result, Handshaking
<1>3. lock' = [lock EXCEPT ![p] = w]
  BY <1>1
<1>4. LockedEffect(w, p, t, s, w, n)
  BY <1>3 DEF LockedEffect, Result
<1>5. s \in Session' /\ n \in Nat
  BY DEF Saves, Result
<1> QED BY <1>1, <1>2, <1>4, <1>5, LockedMove

\* Leaving without a change of the directory or of LINE.
LEMMA QuietLeave ==
  ASSUME IInv, LockedStep, NEW w \in Windows,
         \/ thread[w].pc \in Handshaking
         \/ thread[w].pc = "lock" /\ lock[thread[w].dir] = None,
         NEW ok \in BOOLEAN, Leave(w, ok), faults' \in 0..setup.faults,
         UNCHANGED <<pending, net>>
  PROVE  IInv'
<1> DEFINE p == thread[w].dir
           s == pending[p]
<1>1. /\ p \in Pendings /\ s \in Session /\ Sound(s) /\ asked[p] \in {0, 1}
      /\ asked[p] = 1 => s.started
      /\ pending \in [Pendings -> Session \cup {Absent}] /\ asked \in [Pendings -> Nat]
      /\ issued \in Seq(Accounts) /\ Len(issued) \in Nat /\ setup \in Setups
  BY HandshakeFacts
<1>2. /\ issued' = issued /\ setup' = setup /\ pending' = [pending EXCEPT ![p] = s]
      /\ asked' = [asked EXCEPT ![p] = asked[p]]
  BY <1>1 DEF net, LockedStep, life
<1>3. Saves(s, s)
  BY <1>1, <1>2, SessionGrows DEF Saves, Sound
<1>4. Result(w, s, asked[p])
  BY <1>1, <1>2, <1>3 DEF Result
<1> HIDE DEF s, p
<1> QED BY <1>1, <1>2, <1>4, LeaveMove

\* Leaving with the new session there.
LEMMA SavedLeave ==
  ASSUME IInv, LockedStep, NEW w \in Windows,
         \/ thread[w].pc \in Handshaking
         \/ thread[w].pc = "lock" /\ lock[thread[w].dir] = None,
         NEW s, Saves(s, pending[thread[w].dir]),
         pending[thread[w].dir].started => s.started,
         Save(thread[w].dir, s), NEW ok \in BOOLEAN, Leave(w, ok), faults' \in 0..setup.faults,
         UNCHANGED net
  PROVE  IInv'
<1> DEFINE p == thread[w].dir
<1>1. /\ p \in Pendings /\ asked[p] \in {0, 1} /\ (asked[p] = 1 => pending[p].started)
      /\ asked \in [Pendings -> Nat] /\ issued \in Seq(Accounts) /\ Len(issued) \in Nat
  BY HandshakeFacts
<1>2. /\ pending' = [pending EXCEPT ![p] = s] /\ asked' = [asked EXCEPT ![p] = asked[p]]
      /\ issued' = issued
  BY <1>1 DEF Save, net
<1>3. Result(w, s, asked[p])
  BY <1>1, <1>2 DEF Result
<1>4. issued' \in Seq(Accounts) /\ Len(issued') >= Len(issued)
  BY <1>1, <1>2
<1> QED BY <1>3, <1>4, LeaveMove, Zenon

\* SaveOr that fails: the old or the new session is there, the lock is not.
LEMMA FailedSave ==
  ASSUME IInv, LockedStep, NEW w \in Windows,
         \/ thread[w].pc \in Handshaking
         \/ thread[w].pc = "lock" /\ lock[thread[w].dir] = None,
         NEW s, Saves(s, pending[thread[w].dir]),
         pending[thread[w].dir].started => s.started,
         WriteFaults, Save(thread[w].dir, s) \/ UNCHANGED pending, Leave(w, FALSE), UNCHANGED net
  PROVE  IInv'
<1>1. faults \in 0..setup.faults /\ setup.faults \in Nat
  BY HandshakeFacts
<1>2. faults' \in 0..setup.faults
  BY <1>1 DEF WriteFaults
<1>3. CASE UNCHANGED pending
  BY <1>2, <1>3, QuietLeave
<1>4. CASE Save(thread[w].dir, s)
  BY <1>2, <1>4, SavedLeave, Zenon
<1> QED BY <1>3, <1>4

\* A step under the lock that goes on with the session s on disk.
LEMMA SavedStep ==
  ASSUME IInv, LockedStep, NEW w \in Windows, thread[w].pc \in Handshaking,
         thread[w].pc # "locked" \/ thread[w].dir \notin retired,
         NEW s, Saves(s, pending[thread[w].dir]), pending[thread[w].dir].started => s.started,
         Save(thread[w].dir, s), UNCHANGED <<faults, net, lock>>,
         NEW pc \in Handshaking, thread' = [thread EXCEPT ![w].pc = pc],
         /\ pc \in {"qr", "start"} => ~s.started
         /\ pc \in {"call", "wire"} => s.started
         /\ pc \in {"qr", "start", "call", "wire"} => asked[thread[w].dir] = 0
         /\ pc # "raw"
         /\ pc = "result" => s.raw # 0
  PROVE  IInv'
<1> DEFINE p == thread[w].dir
           t == [thread[w] EXCEPT !.pc = pc]
<1>1. /\ p \in Pendings /\ asked[p] \in {0, 1} /\ (asked[p] = 1 => pending[p].started)
      /\ asked \in [Pendings -> Nat] /\ faults \in 0..setup.faults /\ thread[w] \in Threads
      /\ p \notin retired
      /\ issued \in Seq(Accounts) /\ Len(issued) \in Nat /\ thread \in [Windows -> Threads]
  BY HandshakeFacts
<1>2. /\ asked' = [asked EXCEPT ![p] = asked[p]] /\ issued' = issued
      /\ pending' = [pending EXCEPT ![p] = s] /\ setup' = setup /\ faults' = faults
  BY <1>1 DEF net, LockedStep, life, Save
<1>3. t \in Threads' /\ t.pc = pc /\ t.dir = p /\ thread' = [thread EXCEPT ![w] = t]
  BY <1>1, <1>2 DEF Threads, Handshaking
<1>4. Result(w, s, asked[p])
  BY <1>1, <1>2 DEF Result
<1>5. issued' \in Seq(Accounts) /\ Len(issued') >= Len(issued) /\ faults' \in 0..setup.faults
  BY <1>1, <1>2
<1>6. t.pc \in Handshaking
  BY <1>3
<1>7. /\ t.pc \in {"qr", "start"} => ~s.started
      /\ t.pc \in {"call", "wire"} => s.started
      /\ t.pc \in {"qr", "start", "call", "wire"} => asked[p] = 0
      /\ t.pc = "raw" => t.reply # 0
      /\ t.pc = "result" => s.raw # 0
  BY <1>3
<1> HIDE DEF t
<1> QED BY <1>1, <1>3, <1>4, <1>5, <1>6, <1>7, GotoMove, Zenon

-----------------------------------------------------------------------------
(* The native flow, step by step.                                          *)

\* Each step of the flow changes the session in one of these ways.
LEMMA SessionSteps ==
  ASSUME IInv, LockedStep, UNCHANGED net, NEW w \in Windows, thread[w].pc \in Handshaking,
         NEW q \in {"none", "shown", "scanned", "verified"}
  PROVE  LET s == pending[thread[w].dir] IN
         /\ Saves(s, s)
         /\ Saves([s EXCEPT !.qr = q], s) /\ [s EXCEPT !.qr = q].started = s.started
         /\ Saves([s EXCEPT !.started = TRUE], s) /\ [s EXCEPT !.started = TRUE].started
         /\ LET r == [s EXCEPT !.raw = thread[w].reply] IN
              Saves(r, s) /\ r.started = s.started /\ r.raw = thread[w].reply
         /\ LET r == [s EXCEPT !.token = s.raw, !.mid = TRUE] IN
              s.raw # 0 => Saves(r, s) /\ r.started = s.started
         /\ Saves(UnwrapAndStore(s), s) /\ UnwrapAndStore(s).started = s.started
<1> DEFINE s == pending[thread[w].dir]
<1>1. /\ s \in Session /\ Sound(s) /\ thread[w] \in Threads
      /\ issued \in Seq(Accounts) /\ Len(issued) \in Nat /\ setup \in Setups
  BY HandshakeFacts
<1>2. issued' = issued /\ setup' = setup
  BY DEF LockedStep, life, net
<1>3. Session' = Session
  BY <1>2 DEF Session
<1>4. thread[w].reply \in 0..Len(issued)
  BY <1>1 DEF Threads
<1>5. Saves(s, s) /\ (s.mid => s.token # 0)
  BY <1>1, <1>3 DEF Saves, Sound
<1>6. Saves([s EXCEPT !.qr = q], s) /\ [s EXCEPT !.qr = q].started = s.started
  BY <1>1, <1>3, <1>5 DEF Saves, Session
<1>7. Saves([s EXCEPT !.started = TRUE], s) /\ [s EXCEPT !.started = TRUE].started
  BY <1>1, <1>3, <1>5 DEF Saves, Session
<1>8. LET r == [s EXCEPT !.raw = thread[w].reply] IN
        Saves(r, s) /\ r.started = s.started /\ r.raw = thread[w].reply
  BY <1>1, <1>3, <1>4, <1>5 DEF Saves, Session
<1>9. LET r == [s EXCEPT !.token = s.raw, !.mid = TRUE] IN
        s.raw # 0 => Saves(r, s) /\ r.started = s.started
  BY <1>1, <1>3, <1>5 DEF Saves, Session
<1>10. Saves(UnwrapAndStore(s), s) /\ UnwrapAndStore(s).started = s.started
  BY <1>1, <1>3, <1>5 DEF Saves, Session, UnwrapAndStore
<1> QED BY <1>5, <1>6, <1>7, <1>8, <1>9, <1>10

LEMMA HandshakeInv ==
  ASSUME IInv, NEW w \in Windows, Handshake(w)
  PROVE  IInv'
<1> DEFINE s == pending[thread[w].dir]
           q == NextQr(s.qr)
           r == [s EXCEPT !.qr = q]
<1>1. /\ thread[w].pc = "qr" /\ thread[w].pc \in Handshaking /\ LockedStep /\ UNCHANGED net
  BY DEF Handshake, Handshaking
<1>2. /\ ThreadSound(w) /\ setup \in Setups /\ setup' = setup /\ TypeOK
  BY <1>1 DEF IInv, LockedStep, life
<1>3. ~s.started /\ asked[thread[w].dir] = 0
  BY <1>1, <1>2 DEF ThreadSound
<1>4. q \in {"none", "shown", "scanned", "verified"}
  BY DEF NextQr
<1>5. Saves(r, s) /\ r.started = s.started
  BY <1>1, <1>4, SessionSteps
<1>6. CASE Leave(w, FALSE) /\ UNCHANGED <<pending, faults>>
  <2>1. faults' \in 0..setup.faults /\ UNCHANGED <<pending, net>>
    BY <1>1, <1>2, <1>6 DEF TypeOK
  <2> QED BY <1>1, <1>6, <2>1, QuietLeave, Zenon
<1>7. CASE Save(thread[w].dir, r) /\ UNCHANGED <<faults, lock>>
           /\ (IF q = "verified" THEN Goto(w, "start") ELSE UNCHANGED thread)
  <2>1. thread \in [Windows -> Threads] /\ thread[w] \in Threads
    BY <1>1, HandshakeFacts
  <2>2. PICK pc \in {"qr", "start"} : thread' = [thread EXCEPT ![w].pc = pc]
    <3>1. CASE q = "verified"
      BY <1>7, <3>1 DEF Goto
    <3>2. CASE q # "verified"
      <4>1. thread' = thread /\ thread = [thread EXCEPT ![w].pc = "qr"]
        BY <1>1, <1>7, <2>1, <3>2 DEF Threads
      <4> QED BY <4>1
    <3> QED BY <3>1, <3>2
  <2>3. pc \in Handshaking /\ pc \notin {"call", "wire", "raw", "result"}
    BY DEF Handshaking
  <2>4. ~r.started /\ (s.started => r.started) /\ UNCHANGED <<faults, net, lock>>
    BY <1>1, <1>3, <1>5, <1>7
  <2> HIDE DEF r
  <2> QED BY <1>1, <1>3, <1>5, <1>7, <2>2, <2>3, <2>4, SavedStep
<1>8. CASE WriteFaults /\ (Save(thread[w].dir, r) \/ UNCHANGED pending) /\ Leave(w, FALSE)
  <2> HIDE DEF r
  <2>1. s.started => r.started
    BY <1>5
  <2> QED BY <1>1, <1>5, <1>8, <2>1, FailedSave
<1>9. \/ Leave(w, FALSE) /\ UNCHANGED <<pending, faults>>
      \/ SaveOr(w, r, (IF q = "verified" THEN Goto(w, "start") ELSE UNCHANGED thread)
                       /\ UNCHANGED lock)
  BY DEF Handshake
<1> QED BY <1>6, <1>7, <1>8, <1>9 DEF SaveOr

LEMMA MarkStartedInv ==
  ASSUME IInv, NEW w \in Windows, MarkStarted(w)
  PROVE  IInv'
<1> DEFINE s == pending[thread[w].dir]
           r == [s EXCEPT !.started = TRUE]
<1>1. /\ thread[w].pc = "start" /\ thread[w].pc \in Handshaking /\ LockedStep /\ UNCHANGED net
  BY DEF MarkStarted, Handshaking
<1>2. ThreadSound(w) /\ setup' = setup /\ TypeOK
  BY <1>1 DEF IInv, LockedStep, life
<1>3. asked[thread[w].dir] = 0
  BY <1>1, <1>2 DEF ThreadSound
<1>4. Saves(r, s) /\ r.started
  BY <1>1, SessionSteps
<1>5. CASE Leave(w, FALSE) /\ UNCHANGED <<pending, faults>>
  <2>1. faults' \in 0..setup.faults /\ UNCHANGED <<pending, net>>
    BY <1>1, <1>2, <1>5 DEF TypeOK
  <2> QED BY <1>1, <1>5, <2>1, QuietLeave, Zenon
<1>6. CASE SaveOr(w, r, Goto(w, "call") /\ UNCHANGED lock)
  <2>1. CASE Save(thread[w].dir, r) /\ UNCHANGED <<faults, lock>> /\ Goto(w, "call")
    <3>1. /\ thread' = [thread EXCEPT ![w].pc = "call"] /\ "call" \in Handshaking
          /\ UNCHANGED <<faults, net, lock>>
      BY <1>1, <2>1 DEF Goto, Handshaking
    <3> HIDE DEF r
    <3> QED BY <1>1, <1>3, <1>4, <2>1, <3>1, SavedStep
  <2>2. CASE WriteFaults /\ (Save(thread[w].dir, r) \/ UNCHANGED pending) /\ Leave(w, FALSE)
    <3> HIDE DEF r
    <3> QED BY <1>1, <1>4, <2>2, FailedSave
  <2> QED BY <1>6, <2>1, <2>2 DEF SaveOr
<1> QED BY <1>5, <1>6 DEF MarkStarted

LEMMA SaveReplyInv ==
  ASSUME IInv, NEW w \in Windows, SaveReply(w)
  PROVE  IInv'
<1> DEFINE s == pending[thread[w].dir]
           r == [s EXCEPT !.raw = thread[w].reply]
<1>1. /\ thread[w].pc = "raw" /\ thread[w].pc \in Handshaking /\ LockedStep /\ UNCHANGED net
  BY DEF SaveReply, Handshaking
<1>2. thread[w].reply # 0
  BY <1>1 DEF IInv, ThreadSound
<1>3. Saves(r, s) /\ r.started = s.started /\ r.raw # 0
  BY <1>1, <1>2, SessionSteps
<1>4. CASE Save(thread[w].dir, r) /\ UNCHANGED <<faults, lock>> /\ Goto(w, "result")
  <2>1. /\ thread' = [thread EXCEPT ![w].pc = "result"] /\ "result" \in Handshaking
        /\ UNCHANGED <<faults, net, lock>>
    BY <1>1, <1>4 DEF Goto, Handshaking
  <2> HIDE DEF r
  <2> QED BY <1>1, <1>3, <1>4, <2>1, SavedStep
<1>5. CASE WriteFaults /\ (Save(thread[w].dir, r) \/ UNCHANGED pending) /\ Leave(w, FALSE)
  <2> HIDE DEF r
  <2> QED BY <1>1, <1>3, <1>5, FailedSave
<1> QED BY <1>4, <1>5 DEF SaveReply, SaveOr

LEMMA SaveResultInv ==
  ASSUME IInv, NEW w \in Windows, SaveResult(w)
  PROVE  IInv'
<1> DEFINE s == pending[thread[w].dir]
           r == [s EXCEPT !.token = s.raw, !.mid = TRUE]
<1>1. /\ thread[w].pc = "result" /\ thread[w].pc \in Handshaking /\ LockedStep
      /\ UNCHANGED net
  BY DEF SaveResult, Handshaking
<1>2. s.raw # 0
  BY <1>1 DEF IInv, ThreadSound
<1>3. Saves(r, s) /\ r.started = s.started
  BY <1>1, <1>2, SessionSteps
<1>4. CASE Save(thread[w].dir, r) /\ UNCHANGED <<faults, lock>> /\ Goto(w, "unwrap")
  <2>1. /\ thread' = [thread EXCEPT ![w].pc = "unwrap"] /\ "unwrap" \in Handshaking
        /\ UNCHANGED <<faults, net, lock>>
    BY <1>1, <1>4 DEF Goto, Handshaking
  <2> HIDE DEF r
  <2> QED BY <1>1, <1>3, <1>4, <2>1, SavedStep
<1>5. CASE WriteFaults /\ (Save(thread[w].dir, r) \/ UNCHANGED pending) /\ Leave(w, FALSE)
  <2> HIDE DEF r
  <2> QED BY <1>1, <1>3, <1>5, FailedSave
<1> QED BY <1>4, <1>5 DEF SaveResult, SaveOr

LEMMA SendRequestInv ==
  ASSUME IInv, NEW w \in Windows, SendRequest(w)
  PROVE  IInv'
<1> DEFINE s == pending[thread[w].dir]
<1>1. /\ thread[w].pc = "call" /\ thread[w].pc \in Handshaking /\ LockedStep
      /\ UNCHANGED <<pending, faults, net>>
  BY DEF SendRequest, Handshaking
<1>2. ThreadSound(w) /\ setup' = setup /\ TypeOK
  BY <1>1 DEF IInv, LockedStep, life
<1>3. asked[thread[w].dir] = 0 /\ s.started
  BY <1>1, <1>2 DEF ThreadSound
<1>4. CASE Leave(w, FALSE)
  <2>1. faults' \in 0..setup.faults /\ UNCHANGED <<pending, net>>
    BY <1>1, <1>2 DEF TypeOK
  <2> QED BY <1>1, <1>4, <2>1, QuietLeave, Zenon
<1>5. CASE Goto(w, "wire") /\ UNCHANGED lock
  <2>1. Saves(s, s)
    BY <1>1, SessionSteps
  <2>2. pending \in [Pendings -> Session \cup {Absent}] /\ thread[w].dir \in Pendings
    BY <1>1, HandshakeFacts
  <2>3. Save(thread[w].dir, s)
    BY <1>1, <2>2 DEF Save
  <2>4. /\ thread' = [thread EXCEPT ![w].pc = "wire"] /\ "wire" \in Handshaking
        /\ UNCHANGED <<faults, net, lock>>
    BY <1>1, <1>5 DEF Goto, Handshaking
  <2> HIDE DEF s
  <2>5. IInv'
    BY <1>1, <1>3, <2>1, <2>3, <2>4, SavedStep DEF s
  <2> QED BY <2>5
<1> QED BY <1>4, <1>5 DEF SendRequest

LEMMA UnwrapInv ==
  ASSUME IInv, NEW w \in Windows, Unwrap(w)
  PROVE  IInv'
<1> DEFINE s == pending[thread[w].dir]
           r == UnwrapAndStore(s)
<1>1. /\ thread[w].pc = "unwrap" /\ thread[w].pc \in Handshaking /\ LockedStep
      /\ UNCHANGED net
  BY DEF Unwrap, Handshaking
<1>2. setup' = setup /\ TypeOK
  BY <1>1 DEF IInv, LockedStep, life
<1>3. Saves(r, s) /\ (s.started => r.started)
  BY <1>1, SessionSteps
<1>4. CASE Leave(w, TRUE) /\ UNCHANGED <<pending, faults>>
  <2>1. faults' \in 0..setup.faults /\ UNCHANGED <<pending, net>>
    BY <1>1, <1>2, <1>4 DEF TypeOK
  <2> QED BY <1>1, <1>4, <2>1, QuietLeave, Zenon
<1>5. CASE Save(thread[w].dir, r) /\ UNCHANGED faults /\ Leave(w, TRUE)
  <2>1. faults' \in 0..setup.faults
    BY <1>2, <1>5 DEF TypeOK
  <2> HIDE DEF r
  <2> QED BY <1>1, <1>3, <1>5, <2>1, SavedLeave, Zenon
<1>6. CASE WriteFaults /\ (Save(thread[w].dir, r) \/ UNCHANGED pending) /\ Leave(w, FALSE)
  <2> HIDE DEF r
  <2> QED BY <1>1, <1>3, <1>6, FailedSave
<1> QED BY <1>4, <1>5, <1>6 DEF Unwrap, SaveOr

\* The request is counted once, under the lock, with started on disk.
LEMMA TokenReplyInv ==
  ASSUME IInv, NEW w \in Windows, TokenReply(w)
  PROVE  IInv'
<1> DEFINE p == thread[w].dir
           s == pending[p]
<1>1. /\ thread[w].pc = "wire" /\ thread[w].pc \in Handshaking /\ LockedStep
      /\ UNCHANGED <<pending, faults>>
  BY DEF TokenReply, Handshaking
<1>2. ThreadSound(w) /\ setup' = setup /\ TypeOK /\ setup \in Setups
  BY <1>1 DEF IInv, LockedStep, life
<1>3. /\ asked[p] = 0 /\ s.started /\ p \notin retired
      /\ p \in Pendings /\ s \in Session /\ Sound(s) /\ thread[w] \in Threads
      /\ pending \in [Pendings -> Session \cup {Absent}] /\ asked \in [Pendings -> Nat]
      /\ thread \in [Windows -> Threads] /\ issued \in Seq(Accounts) /\ Len(issued) \in Nat
  BY <1>1, <1>2, HandshakeFacts DEF ThreadSound
<1>4. faults' \in 0..setup.faults
  BY <1>1, <1>2 DEF TypeOK
<1>5. CASE Leave(w, FALSE) /\ UNCHANGED net
  <2>1. UNCHANGED <<pending, net>>
    BY <1>1, <1>5
  <2> QED BY <1>1, <1>4, <1>5, <2>1, QuietLeave, Zenon
<1>6. ASSUME NEW a \in setup.accounts, issued' = Append(issued, a),
             asked' = [asked EXCEPT ![p] = @ + 1],
             \/ /\ thread' = [thread EXCEPT ![w].pc = "raw", ![w].reply = Len(issued) + 1]
                /\ UNCHANGED lock
             \/ Leave(w, FALSE)
      PROVE  IInv'
  <2>1. a \in Accounts
    BY <1>2, SetupFacts
  <2>2. issued' \in Seq(Accounts) /\ Len(issued') = Len(issued) + 1 /\ Len(issued') >= Len(issued)
    BY <1>3, <1>6, <2>1
  <2>3. Result(w, s, 1)
    <3>1. s \in Session'
      BY <1>2, <1>3, <2>2, SessionGrows
    <3>2. asked' = [asked EXCEPT ![p] = 1] /\ pending' = [pending EXCEPT ![p] = s]
      BY <1>1, <1>3, <1>6
    <3> QED BY <1>3, <3>1, <3>2 DEF Result, Saves, Sound
  <2>4. CASE Leave(w, FALSE)
    <3> HIDE DEF s, p
    <3> QED BY <1>1, <1>4, <2>2, <2>3, <2>4, LeaveMove, Zenon
  <2>5. CASE /\ thread' = [thread EXCEPT ![w].pc = "raw", ![w].reply = Len(issued) + 1]
             /\ UNCHANGED lock
    <3> DEFINE t == [thread[w] EXCEPT !.pc = "raw", !.reply = Len(issued) + 1]
    <3>1. thread' = [thread EXCEPT ![w] = t] /\ t.pc = "raw" /\ t.dir = p /\ t.reply # 0
      BY <1>3, <2>5 DEF Threads
    <3>2. t \in Threads'
      <4>1. thread[w] \in Threads' /\ Len(issued) + 1 \in 0..Len(issued')
        BY <1>3, <2>2, ThreadsGrow
      <4> QED BY <4>1 DEF Threads
    <3>3. /\ t.pc \in Handshaking
          /\ t.pc \in {"qr", "start"} => ~s.started
          /\ t.pc \in {"call", "wire"} => s.started
          /\ t.pc \in {"qr", "start", "call", "wire"} => 1 = 0
          /\ t.pc = "raw" => t.reply # 0
          /\ t.pc = "result" => s.raw # 0
      BY <3>1 DEF Handshaking
    <3>4. lock' = lock
      BY <2>5
    <3> HIDE DEF t, s
    <3> QED BY <1>1, <1>3, <1>4, <2>2, <2>3, <3>1, <3>2, <3>3, <3>4, GotoMove, Zenon
  <2> QED BY <1>6, <2>4, <2>5
<1> QED BY <1>5, <1>6 DEF TokenReply

-----------------------------------------------------------------------------
(* Steps outside the locks.                                                *)

\* Directories keep what they say of the token request; a file that is there
\* stays there.
PendingGrow ==
    /\ pending' \in [Pendings -> Session' \cup {Absent}]
    /\ \A q \in Pendings : pending[q] # Absent =>
          /\ pending'[q] # Absent
          /\ pending'[q].started = pending[q].started /\ pending'[q].raw = pending[q].raw
    /\ \A q \in Pendings : pending'[q] # Absent => Sound(pending[q])'

FilesGrow ==
    /\ PendingGrow
    /\ staging' \in [Windows -> Session' \cup {Absent}]
    /\ \A v \in Windows : staging'[v] # Absent => Sound(staging[v])'

Elsewhere == UNCHANGED <<window, cancel, retired, active, consumed, lock, asked, handed, logins,
                         life>>

\* Step t of a thread outside the handshake.
OutsideAllowed(w, t) ==
    /\ thread[w].pc \notin Handshaking /\ Running(w)
    /\ thread' = [thread EXCEPT ![w] = t] /\ t \in Threads'
    /\ t.pc \notin Handshaking
    /\ t.pc \in NativeSteps => t.dir \in Pendings /\ pending'[t.dir] # Absent
    /\ t.pc = "profile" => t.reply # 0

LEMMA OutsideMove ==
  ASSUME IInv, NEW w \in Windows, NEW t, OutsideAllowed(w, t), Elsewhere, FilesGrow,
         issued' \in Seq(Accounts), Len(issued') >= Len(issued), faults' \in 0..setup.faults,
         \A v \in Windows : /\ staging'[v] # Absent <=> staging[v] # Absent
                            /\ v # w => staging'[v] = staging[v]
  PROVE  IInv'
<1>1. /\ TypeOK /\ setup \in Setups /\ setup' = setup /\ issued \in Seq(Accounts)
      /\ UNCHANGED <<window, cancel, retired, active, consumed, lock, asked, handed, logins,
                     setup, crashes, unretired>>
      /\ thread \in [Windows -> Threads]
  BY DEF IInv, TypeOK, Elsewhere, life, Threads
<1>2. \A v \in Windows : thread'[v] = IF v = w THEN t ELSE thread[v]
  BY <1>1 DEF OutsideAllowed
<1>3. TypeOK'
  <2>1. active' \in [Accounts -> Session' \cup {Absent}]
    BY <1>1, SessionGrows DEF TypeOK
  <2>2. thread' \in [Windows -> Threads']
    <3>1. \A x \in Threads : x \in Threads'
      BY <1>1, ThreadsGrow
    <3> QED BY <1>1, <3>1 DEF OutsideAllowed
  <2>3. 1..Len(issued) \subseteq 1..Len(issued') /\ Len(issued) \in Nat
    BY <1>1
  <2>4. /\ handed' \subseteq 1..Len(issued') /\ consumed' \subseteq 1..Len(issued')
        /\ unretired' \subseteq 0..Len(issued')
    BY <1>1, <2>3 DEF TypeOK
  <2> QED BY <1>1, <2>1, <2>2, <2>4 DEF TypeOK, Threads, FilesGrow, PendingGrow
<1>4. Pages'
  <2>1. ASSUME NEW v \in Windows
        PROVE  /\ Running(v)' => Running(v)
               /\ window'[v].page = "recovery" => v # w
    BY <1>1, <1>2 DEF IInv, Pages, Running, OutsideAllowed
  <2> QED BY <1>1, <2>1 DEF IInv, Pages
<1>5. Files'
  <2>1. \A q \in Pendings : asked'[q] > 0 => pending'[q] # Absent /\ pending'[q].started
    BY <1>1 DEF IInv, Files, FilesGrow, PendingGrow
  <2> QED BY <2>1 DEF Files, FilesGrow, PendingGrow
<1>6. ASSUME NEW v \in Windows PROVE ThreadSound(v)'
  <2>1. CASE v = w
    BY <1>2, <2>1 DEF ThreadSound, OutsideAllowed, Handshaking
  <2>2. CASE v # w
    <3>1. ThreadSound(v) /\ thread'[v] = thread[v]
      BY <1>2, <2>2 DEF IInv
    <3>2. thread[v].pc \in NativeSteps =>
            /\ thread[v].dir \in Pendings /\ pending[thread[v].dir] # Absent
            /\ pending'[thread[v].dir] # Absent
            /\ pending'[thread[v].dir].started = pending[thread[v].dir].started
            /\ pending'[thread[v].dir].raw = pending[thread[v].dir].raw
      BY <3>1 DEF ThreadSound, FilesGrow, PendingGrow
    <3> QED BY <1>1, <3>1, <3>2 DEF ThreadSound, Handshaking, NativeSteps
  <2> QED BY <2>1, <2>2
<1>7. AskedOnce'
  BY <1>1 DEF IInv, AskedOnce
<1>8. LocksReleased'
  <2> SUFFICES ASSUME NEW q \in Pendings, lock'[q] # None
               PROVE  thread'[lock'[q]].dir = q /\ thread'[lock'[q]].pc \in Handshaking
    BY DEF LocksReleased, Handshaking
  <2>1. /\ lock'[q] = lock[q] /\ lock[q] \in Windows /\ thread[lock[q]].dir = q
        /\ thread[lock[q]].pc \in Handshaking
    BY <1>1 DEF IInv, TypeOK, LocksReleased, Handshaking
  <2>2. lock[q] # w
    BY <2>1 DEF OutsideAllowed
  <2> QED BY <1>2, <2>1, <2>2
<1> QED BY <1>1, <1>3, <1>4, <1>5, <1>6, <1>7, <1>8 DEF IInv

\* Files that nobody writes.
LEMMA SameFiles ==
  ASSUME IInv, UNCHANGED <<pending, staging, setup>>, issued' \in Seq(Accounts),
         Len(issued') >= Len(issued)
  PROVE  /\ FilesGrow
         /\ \A v \in Windows : /\ staging'[v] # Absent <=> staging[v] # Absent
                                /\ staging'[v] = staging[v]
<1>1. /\ pending \in [Pendings -> Session \cup {Absent}] /\ issued \in Seq(Accounts)
      /\ staging \in [Windows -> Session \cup {Absent}] /\ setup \in Setups
  BY DEF IInv, TypeOK
<1>2. \A x \in Session : x \in Session'
  BY <1>1, SessionGrows
<1> QED BY <1>1, <1>2 DEF FilesGrow, PendingGrow, IInv, Files, Sound

\* Only the thread's step changes.
LEMMA QuietOutside ==
  ASSUME IInv, NEW w \in Windows, Elsewhere, UNCHANGED <<pending, staging, issued>>,
         faults' \in 0..setup.faults, thread[w].pc \notin Handshaking, Running(w),
         NEW t \in Threads, thread' = [thread EXCEPT ![w] = t], t.pc \notin Handshaking,
         t.pc \in NativeSteps =>
            /\ t.dir \in Pendings
            /\ \/ pending[t.dir] # Absent
               \/ t.dir = thread[w].dir /\ thread[w].pc \in NativeSteps,
         t.pc # "profile"
  PROVE  IInv'
<1>1. /\ issued \in Seq(Accounts) /\ Len(issued) \in Nat /\ issued' = issued /\ setup' = setup
      /\ ThreadSound(w)
  BY DEF IInv, TypeOK, Elsewhere, life
<1>2. issued' \in Seq(Accounts) /\ Len(issued') >= Len(issued)
  BY <1>1
<1>3. /\ FilesGrow
      /\ \A v \in Windows : /\ staging'[v] # Absent <=> staging[v] # Absent
                             /\ v # w => staging'[v] = staging[v]
  BY <1>1, <1>2, SameFiles
<1>4. t \in Threads'
  BY <1>1, <1>2, ThreadsGrow
<1>5. OutsideAllowed(w, t)
  BY <1>1, <1>4 DEF OutsideAllowed, ThreadSound
<1> QED BY <1>2, <1>3, <1>5, OutsideMove, Zenon

\* Where the thread outside the handshake may go: Finish and Goto.
LEMMA OutsideSteps ==
  ASSUME IInv, NEW w \in Windows, NEW ok \in BOOLEAN,
         NEW pc \in {"lock", "recover", "stage", "scan", "issue"}
  PROVE  /\ thread \in [Windows -> Threads] /\ thread[w] \in Threads
         /\ LET t == [thread[w] EXCEPT !.pc = "finish", !.ok = ok] IN
              t \in Threads /\ t.pc = "finish" /\ (Finish(w, ok) => thread' = [thread EXCEPT ![w] = t])
         /\ LET t == [thread[w] EXCEPT !.pc = pc] IN
              t \in Threads /\ t.pc = pc /\ t.dir = thread[w].dir
              /\ (Goto(w, pc) => thread' = [thread EXCEPT ![w] = t])
<1>1. thread \in [Windows -> Threads] /\ thread[w] \in Threads
  BY DEF IInv, TypeOK, Threads
<1>2. LET t == [thread[w] EXCEPT !.pc = "finish", !.ok = ok] IN
        t \in Threads /\ t.pc = "finish" /\ (Finish(w, ok) => thread' = [thread EXCEPT ![w] = t])
  BY <1>1 DEF Threads, Finish
<1>3. LET t == [thread[w] EXCEPT !.pc = pc] IN
        t \in Threads /\ t.pc = pc /\ t.dir = thread[w].dir
        /\ (Goto(w, pc) => thread' = [thread EXCEPT ![w] = t])
  BY <1>1 DEF Threads, Goto
<1> QED BY <1>1, <1>2, <1>3

LEMMA FinishOutside ==
  ASSUME IInv, NEW w \in Windows, Elsewhere, UNCHANGED <<pending, staging, issued>>,
         faults' \in 0..setup.faults, thread[w].pc \notin Handshaking, Running(w),
         NEW ok \in BOOLEAN, Finish(w, ok)
  PROVE  IInv'
<1> DEFINE t == [thread[w] EXCEPT !.pc = "finish", !.ok = ok]
<1>1. t \in Threads /\ t.pc = "finish" /\ thread' = [thread EXCEPT ![w] = t]
  BY ZenonT(40), OutsideSteps
<1>2. t.pc \notin Handshaking /\ t.pc \notin NativeSteps /\ t.pc # "profile"
  BY <1>1 DEF Handshaking, NativeSteps
<1> HIDE DEF t
<1> QED BY <1>1, <1>2, QuietOutside, Zenon

LEMMA GotoOutside ==
  ASSUME IInv, NEW w \in Windows, Elsewhere, UNCHANGED <<pending, staging, issued>>,
         faults' \in 0..setup.faults, thread[w].pc \notin Handshaking, Running(w),
         NEW pc \in {"lock", "recover", "stage", "scan", "issue"}, Goto(w, pc),
         pc \notin {"scan", "issue"} => thread[w].pc \in NativeSteps
  PROVE  IInv'
<1> DEFINE t == [thread[w] EXCEPT !.pc = pc]
<1>1. t \in Threads /\ t.pc = pc /\ t.dir = thread[w].dir /\ thread' = [thread EXCEPT ![w] = t]
  BY ZenonT(40), OutsideSteps
<1>2. t.pc \notin Handshaking /\ t.pc # "profile"
  BY <1>1 DEF Handshaking
<1>3. t.pc \in NativeSteps =>
        /\ t.dir \in Pendings
        /\ \/ pending[t.dir] # Absent
           \/ t.dir = thread[w].dir /\ thread[w].pc \in NativeSteps
  BY <1>1 DEF IInv, ThreadSound, NativeSteps, Handshaking
<1> HIDE DEF t
<1> QED BY <1>1, <1>2, <1>3, QuietOutside, Zenon

LEMMA NativeCheckInv ==
  ASSUME IInv, NEW w \in Windows, NativeCheck(w)
  PROVE  IInv'
<1>1. /\ thread[w].pc = "check" /\ Elsewhere /\ UNCHANGED <<pending, staging, issued>>
      /\ faults' = faults
  BY DEF NativeCheck, Elsewhere, disk, net, lim, life
<1>2. /\ thread[w].pc \notin Handshaking /\ thread[w].pc \in NativeSteps /\ Running(w)
      /\ faults' \in 0..setup.faults
  BY <1>1 DEF Handshaking, NativeSteps, Running, IInv, TypeOK
<1>3. CASE Finish(w, FALSE)
  BY <1>1, <1>2, <1>3, FinishOutside, Zenon
<1>4. CASE Goto(w, "lock")
  BY <1>1, <1>2, <1>4, GotoOutside
<1> QED BY <1>3, <1>4 DEF NativeCheck

\* The lock is taken before the attempt is looked at.
LEMMA NativeLockInv ==
  ASSUME IInv, NEW w \in Windows, NativeLock(w)
  PROVE  IInv'
<1> DEFINE p == thread[w].dir
           s == pending[p]
           t == [thread[w] EXCEPT !.pc = "locked"]
<1>1. thread[w].pc = "lock" /\ LockedStep /\ UNCHANGED <<pending, faults, net>>
  BY DEF NativeLock
<1>2. /\ TypeOK /\ setup' = setup /\ ThreadSound(w) /\ setup \in Setups
      /\ thread[w].pc \notin Handshaking /\ thread[w].pc \in NativeSteps /\ Running(w)
      /\ issued' = issued
  BY <1>1 DEF IInv, LockedStep, life, Handshaking, NativeSteps, Running, net
<1>3. CASE Finish(w, FALSE) /\ UNCHANGED lock
  <2>1. Elsewhere /\ UNCHANGED <<pending, staging, issued>> /\ faults' \in 0..setup.faults
    BY <1>1, <1>2, <1>3 DEF LockedStep, Elsewhere, net, TypeOK
  <2> QED BY <1>2, <1>3, <2>1, FinishOutside, Zenon
<1>4. CASE lock[p] = None /\ lock' = [lock EXCEPT ![p] = w] /\ Goto(w, "locked")
  <2>1. /\ p \in Pendings /\ s \in Session /\ s # Absent /\ Sound(s) /\ thread[w] \in Threads
        /\ asked[p] \in {0, 1} /\ (asked[p] = 1 => s.started)
        /\ pending \in [Pendings -> Session \cup {Absent}] /\ asked \in [Pendings -> Nat]
        /\ thread \in [Windows -> Threads] /\ issued \in Seq(Accounts) /\ Len(issued) \in Nat
    BY <1>1, <1>4, HandshakeFacts
  <2>2. Session' = Session /\ Threads' = Threads
    BY <1>2 DEF Session, Threads
  <2>3. t \in Threads' /\ t.pc = "locked" /\ t.dir = p /\ thread' = [thread EXCEPT ![w] = t]
    BY <1>4, <2>1, <2>2 DEF Threads, Goto
  <2>4. faults' \in 0..setup.faults /\ s \in Session'
    BY <1>1, <1>2, <2>1, <2>2 DEF TypeOK
  <2>5. LockedEffect(w, p, t, s, w, asked[p])
    BY <1>1, <1>4, <2>1, <2>3, <2>4 DEF LockedEffect, net
  <2>6. t.pc \in Handshaking
    BY <2>3 DEF Handshaking
  <2>7. LockedAllowed(w, t, s, w, asked[p])
    BY <2>1, <2>3, <2>6 DEF LockedAllowed, Sound
  <2>8. /\ lock[p] \in {None, w} /\ asked[p] \in Nat /\ w \in {None, w}
        /\ issued' \in Seq(Accounts) /\ Len(issued') >= Len(issued)
    BY <1>2, <1>4, <2>1
  <2> HIDE DEF t, s, p
  <2>9. p = thread[w].dir /\ pending[p] # Absent
    BY <2>1 DEF p, s
  <2> QED BY <1>1, <1>2, <2>1, <2>3, <2>4, <2>5, <2>7, <2>8, <2>9, LockedMove, Zenon
<1> QED BY <1>3, <1>4 DEF NativeLock

\* The handshake starts for an attempt that has made no request yet.
LEMMA ReadAttemptInv ==
  ASSUME IInv, NEW w \in Windows, ReadAttempt(w)
  PROVE  IInv'
<1> DEFINE p == thread[w].dir
           s == pending[p]
           r == [s EXCEPT !.token = s.raw, !.mid = TRUE]
<1>1. /\ thread[w].pc = "locked" /\ thread[w].pc \in Handshaking /\ LockedStep
      /\ UNCHANGED net
  BY DEF ReadAttempt, Handshaking
<1>2. ThreadSound(w) /\ setup' = setup /\ TypeOK /\ setup \in Setups
  BY <1>1 DEF IInv, LockedStep, life
<1>3. ASSUME NEW ok \in BOOLEAN, Leave(w, ok), UNCHANGED <<pending, faults>>
      PROVE  IInv'
  <2>1. faults' \in 0..setup.faults /\ UNCHANGED <<pending, net>>
    BY <1>1, <1>2, <1>3 DEF TypeOK
  <2> QED BY <1>1, <1>3, <2>1, QuietLeave, Zenon
<1>4. CASE s.raw # 0 /\ SaveOr(w, r, Leave(w, TRUE))
  <2>1. Saves(r, s) /\ (s.started => r.started)
    BY <1>1, <1>4, SessionSteps
  <2>2. CASE Save(p, r) /\ Leave(w, TRUE) /\ UNCHANGED faults
    <3>1. faults' \in 0..setup.faults
      BY <1>2, <2>2 DEF TypeOK
    <3> HIDE DEF r
    <3> QED BY <1>1, <2>1, <2>2, <3>1, SavedLeave, Zenon
  <2>3. CASE WriteFaults /\ (Save(p, r) \/ UNCHANGED pending) /\ Leave(w, FALSE)
    <3> HIDE DEF r
    <3> QED BY <1>1, <2>1, <2>3, FailedSave
  <2> QED BY <1>4, <2>2, <2>3 DEF SaveOr
<1>5. ASSUME p \notin retired, NEW pc \in {"start", "qr"}, ~s.started, Goto(w, pc), UNCHANGED <<lock, pending, faults>>
      PROVE  IInv'
  <2>1. Saves(s, s)
    BY <1>1, SessionSteps
  <2>2. /\ pending \in [Pendings -> Session \cup {Absent}] /\ p \in Pendings
        /\ asked[p] \in {0, 1} /\ (asked[p] = 1 => s.started)
    BY <1>1, HandshakeFacts
  <2>3. Save(p, s) /\ asked[p] = 0
    BY <1>5, <2>2 DEF Save
  <2>4. /\ thread' = [thread EXCEPT ![w].pc = pc] /\ pc \in Handshaking
        /\ UNCHANGED <<faults, net, lock>>
    BY <1>1, <1>5 DEF Goto, Handshaking
  <2> HIDE DEF s
  <2>5. IInv'
    BY <1>1, <1>5, <2>1, <2>3, <2>4, SavedStep DEF s
  <2> QED BY <2>5
<1> QED BY <1>3, <1>4, <1>5, Zenon DEF ReadAttempt

\* The keys are written outside the lock, and nothing else with them.
LEMMA RecoverKeysInv ==
  ASSUME IInv, NEW w \in Windows, RecoverKeys(w)
  PROVE  IInv'
<1> DEFINE p == thread[w].dir
           r == UnwrapAndStore(pending[p])
           t == [thread[w] EXCEPT !.pc = "stage"]
<1>1. /\ thread[w].pc = "recover" /\ Elsewhere /\ UNCHANGED <<staging, issued, faults>>
      /\ thread[w].pc \notin Handshaking /\ thread[w].pc \in NativeSteps /\ Running(w)
  BY DEF RecoverKeys, LockedStep, Elsewhere, net, Handshaking, NativeSteps, Running
<1>2. /\ TypeOK /\ setup' = setup /\ ThreadSound(w) /\ setup \in Setups
      /\ faults' \in 0..setup.faults
  BY <1>1 DEF IInv, Elsewhere, life, TypeOK
<1>3. CASE Finish(w, FALSE) /\ UNCHANGED pending
  <2>1. UNCHANGED <<pending, staging, issued>>
    BY <1>1, <1>3
  <2> QED BY <1>1, <1>2, <1>3, <2>1, FinishOutside, Zenon
<1>4. CASE Save(p, r) /\ Goto(w, "stage")
  <2>1. /\ pending \in [Pendings -> Session \cup {Absent}] /\ p \in Pendings
        /\ pending[p] # Absent /\ issued \in Seq(Accounts) /\ Len(issued) \in Nat
        /\ staging \in [Windows -> Session \cup {Absent}]
    BY <1>1, <1>2 DEF TypeOK, ThreadSound
  <2>2. pending[p] \in Session /\ Sound(pending[p]) /\ Session' = Session
    BY <1>1, <1>2, <2>1 DEF IInv, Files, Session
  <2>3. /\ r \in Session' /\ r # Absent /\ r.started = pending[p].started
        /\ r.raw = pending[p].raw /\ r.source = pending[p].source /\ (r.mid => r.token # 0)
    <3>1. /\ r \in Session /\ r.started = pending[p].started
          /\ r.raw = pending[p].raw /\ r.source = pending[p].source
          /\ r.mid = pending[p].mid /\ r.token = pending[p].token
      BY <2>2 DEF UnwrapAndStore, Session
    <3> QED BY <1>2, <2>1, <2>2, <3>1, SessionPresent DEF Sound
  <2> HIDE DEF r
  <2>4. pending' = [pending EXCEPT ![p] = r]
    BY <1>4 DEF Save
  <2>5. \A q \in Pendings : pending'[q] = IF q = p THEN r ELSE pending[q]
    BY <2>1, <2>4
  <2>6. FilesGrow
    <3>1. pending' \in [Pendings -> Session' \cup {Absent}]
      BY <2>1, <2>2, <2>3, <2>4
    <3>2. \A q \in Pendings : pending[q] # Absent =>
            /\ pending'[q] # Absent
            /\ pending'[q].started = pending[q].started /\ pending'[q].raw = pending[q].raw
      BY <2>3, <2>5
    <3>3. ASSUME NEW q \in Pendings, pending'[q] # Absent PROVE Sound(pending[q])'
      <4>1. /\ pending[q] # Absent /\ pending[q] \in Session /\ Sound(pending[q])
            /\ pending'[q].source = pending[q].source
            /\ (pending'[q].mid => pending'[q].token # 0)
        BY <2>1, <2>3, <2>5, <3>3 DEF IInv, Files, Sound
      <4>2. pending[q].source \in Pendings \cup {None}
        BY <4>1 DEF Session
      <4> QED BY <3>2, <4>1, <4>2 DEF Sound
    <3>4. ASSUME NEW v \in Windows, staging'[v] # Absent PROVE Sound(staging[v])'
      <4>1. staging'[v] = staging[v] /\ staging[v] \in Session /\ Sound(staging[v])
        BY <1>1, <2>1, <3>4 DEF IInv, Files
      <4>2. staging[v].source \in Pendings \cup {None}
        BY <4>1 DEF Session
      <4> QED BY <3>2, <4>1, <4>2 DEF Sound
    <3> QED BY <1>1, <2>1, <2>2, <3>1, <3>2, <3>3, <3>4 DEF FilesGrow, PendingGrow
  <2>7. /\ t \in Threads' /\ t.pc = "stage" /\ t.dir = p /\ thread' = [thread EXCEPT ![w] = t]
    <3>1. t \in Threads /\ t.pc = "stage" /\ t.dir = p /\ thread' = [thread EXCEPT ![w] = t]
      BY <1>4, OutsideSteps
    <3> QED BY <1>1, <3>1 DEF Threads
  <2>8. OutsideAllowed(w, t)
    BY <1>1, <2>1, <2>3, <2>5, <2>7 DEF OutsideAllowed, Handshaking
  <2>9. /\ issued' \in Seq(Accounts) /\ Len(issued') >= Len(issued)
        /\ \A v \in Windows : /\ staging'[v] # Absent <=> staging[v] # Absent
                               /\ v # w => staging'[v] = staging[v]
    BY <1>1, <2>1
  <2> QED BY <1>1, <1>2, <2>6, <2>8, <2>9, OutsideMove, Zenon
<1> QED BY <1>3, <1>4 DEF RecoverKeys

LEMMA SamePending ==
  ASSUME IInv, UNCHANGED <<pending, setup>>, issued' \in Seq(Accounts),
         Len(issued') >= Len(issued)
  PROVE  PendingGrow
<1>1. /\ pending \in [Pendings -> Session \cup {Absent}] /\ issued \in Seq(Accounts)
      /\ setup \in Setups
  BY DEF IInv, TypeOK
<1>2. \A x \in Session : x \in Session'
  BY <1>1, SessionGrows
<1> QED BY <1>1, <1>2 DEF PendingGrow, IInv, Files, Sound

\* A thread writes the staging file of its window, which is there.
LEMMA StagedFiles ==
  ASSUME IInv, NEW w \in Windows, setup' = setup, issued' \in Seq(Accounts),
         Len(issued') >= Len(issued), PendingGrow, staging[w] # Absent,
         NEW x \in Session', x.mid => x.token # 0,
         x.source # None => pending'[x.source] # Absent,
         staging' = [staging EXCEPT ![w] = x]
  PROVE  /\ FilesGrow
         /\ \A v \in Windows : /\ staging'[v] # Absent <=> staging[v] # Absent
                                /\ v # w => staging'[v] = staging[v]
<1>1. /\ staging \in [Windows -> Session \cup {Absent}] /\ issued \in Seq(Accounts)
      /\ setup \in Setups
  BY DEF IInv, TypeOK
<1>2. \A y \in Session : y \in Session'
  BY <1>1, SessionGrows
<1>3. x # Absent
  BY <1>1, SessionPresentNext
<1>4. \A v \in Windows : staging'[v] = IF v = w THEN x ELSE staging[v]
  BY <1>1
<1>5. ASSUME NEW v \in Windows, staging'[v] # Absent PROVE Sound(staging[v])'
  <2>1. CASE v = w
    BY <1>4, <2>1 DEF Sound
  <2>2. CASE v # w
    <3>1. staging'[v] = staging[v] /\ staging[v] \in Session /\ Sound(staging[v])
      BY <1>1, <1>4, <1>5, <2>2 DEF IInv, Files
    <3>2. staging[v].source \in Pendings \cup {None}
      BY <3>1 DEF Session
    <3> QED BY <3>1, <3>2 DEF Sound, PendingGrow
  <2> QED BY <2>1, <2>2
<1>6. staging' \in [Windows -> Session' \cup {Absent}]
  BY <1>1, <1>2
<1> QED BY <1>3, <1>4, <1>5, <1>6 DEF FilesGrow

\* The thread of window w writes session x to its staging file.
LEMMA StagedGrow ==
  ASSUME IInv, NEW w \in Windows, Elsewhere, PendingGrow, issued' \in Seq(Accounts),
         Len(issued') >= Len(issued), faults' \in 0..setup.faults, staging[w] # Absent,
         NEW x \in Session', x.mid => x.token # 0,
         x.source # None => pending'[x.source] # Absent,
         staging' = [staging EXCEPT ![w] = x],
         NEW t, OutsideAllowed(w, t)
  PROVE  IInv'
<1>1. setup' = setup
  BY DEF Elsewhere, life
<1>2. /\ FilesGrow
      /\ \A v \in Windows : /\ staging'[v] # Absent <=> staging[v] # Absent
                             /\ v # w => staging'[v] = staging[v]
  BY <1>1, StagedFiles
<1> QED BY <1>2, OutsideMove

LEMMA StagedMove ==
  ASSUME IInv, NEW w \in Windows, Elsewhere, UNCHANGED pending, issued' \in Seq(Accounts),
         Len(issued') >= Len(issued), faults' \in 0..setup.faults, staging[w] # Absent,
         NEW x \in Session', x.mid => x.token # 0,
         x.source # None => pending[x.source] # Absent,
         staging' = [staging EXCEPT ![w] = x],
         NEW t, OutsideAllowed(w, t)
  PROVE  IInv'
<1>1. setup' = setup /\ pending' = pending
  BY DEF Elsewhere, life
<1>2. PendingGrow
  BY <1>1, SamePending
<1>3. x.source # None => pending'[x.source] # Absent
  BY <1>1
<1> QED BY <1>2, <1>3, StagedGrow

\* A step of the thread that writes no file.
LEMMA MemoryMove ==
  ASSUME IInv, NEW w \in Windows, Elsewhere, UNCHANGED <<pending, staging>>,
         issued' \in Seq(Accounts), Len(issued') >= Len(issued), faults' \in 0..setup.faults,
         NEW t, OutsideAllowed(w, t)
  PROVE  IInv'
<1>1. UNCHANGED <<pending, staging, setup>>
  BY DEF Elsewhere, life
<1>2. /\ FilesGrow
      /\ \A v \in Windows : /\ staging'[v] # Absent <=> staging[v] # Absent
                             /\ v # w => staging'[v] = staging[v]
  BY <1>1, SameFiles
<1> QED BY <1>2, OutsideMove

LEMMA StageInv ==
  ASSUME IInv, NEW w \in Windows, Stage(w)
  PROVE  IInv'
<1> DEFINE p == thread[w].dir
           x == [pending[p] EXCEPT !.source = p]
           t == [thread[w] EXCEPT !.pc = "finish", !.ok = TRUE]
<1>1. /\ thread[w].pc = "stage" /\ Elsewhere /\ UNCHANGED <<pending, issued>>
      /\ thread[w].pc \notin Handshaking /\ thread[w].pc \in NativeSteps /\ Running(w)
  BY DEF Stage, Elsewhere, net, Handshaking, NativeSteps, Running
<1>2. /\ TypeOK /\ setup' = setup /\ ThreadSound(w) /\ setup \in Setups
      /\ setup.faults \in Nat /\ faults \in 0..setup.faults
      /\ issued \in Seq(Accounts) /\ Len(issued) \in Nat
  BY <1>1, SetupFacts DEF IInv, Elsewhere, life, TypeOK
<1>3. faults' \in 0..setup.faults
  <2>1. faults' = faults \/ WriteFaults
    BY Zenon DEF Stage
  <2> QED BY <1>2, <2>1 DEF WriteFaults
<1>4. CASE Finish(w, FALSE) /\ UNCHANGED staging
  <2>1. UNCHANGED <<pending, staging, issued>>
    BY <1>1, <1>4
  <2> QED BY <1>1, <1>3, <1>4, <2>1, FinishOutside, Zenon
<1>5. CASE /\ window[w].page # "closed"
           /\ staging' = [staging EXCEPT ![w] = x] /\ Finish(w, TRUE)
  <2>1. p \in Pendings /\ pending[p] # Absent
    BY <1>1, <1>2 DEF ThreadSound
  <2>2. pending[p] \in Session /\ Sound(pending[p]) /\ Session' = Session
    BY <1>1, <1>2, <2>1 DEF IInv, Files, Session, TypeOK
  <2>3. x \in Session' /\ (x.mid => x.token # 0) /\ x.source = p
    BY <2>1, <2>2 DEF Session, Sound
  <2>4. staging[w] # Absent
    BY <1>1, <1>5 DEF IInv, Pages
  <2>5. x.source # None => pending[x.source] # Absent
    BY <2>1, <2>3
  <2>9. OutsideAllowed(w, t)
    <3>1. t \in Threads /\ t.pc = "finish" /\ thread' = [thread EXCEPT ![w] = t]
      BY <1>5, OutsideSteps
    <3>2. t \in Threads'
      BY <1>1, <3>1 DEF Threads
    <3> QED BY <1>1, <3>1, <3>2 DEF OutsideAllowed, Handshaking, NativeSteps
  <2>10. UNCHANGED pending /\ issued' \in Seq(Accounts) /\ Len(issued') >= Len(issued)
    BY <1>1, <1>2
  <2> HIDE DEF t, x
  <2> QED BY <1>1, <1>3, <1>5, <2>3, <2>4, <2>5, <2>9, <2>10, StagedMove, Zenon
<1>6. \/ Finish(w, FALSE) /\ UNCHANGED staging
      \/ /\ window[w].page # "closed"
         /\ staging' = [staging EXCEPT ![w] = x] /\ Finish(w, TRUE)
  BY DEF Stage
<1> QED BY <1>4, <1>5, <1>6

\* Steps of the Chrome flow.
LEMMA ChromeFacts ==
  ASSUME IInv, NEW w \in Windows, thread[w].pc \in {"scan", "issue", "profile"}, ChromeStep
  PROVE  /\ Elsewhere /\ UNCHANGED pending /\ setup' = setup /\ setup \in Setups
         /\ thread[w].pc \notin Handshaking /\ Running(w)
         /\ issued \in Seq(Accounts) /\ Len(issued) \in Nat
         /\ setup.faults \in Nat /\ faults \in 0..setup.faults
         /\ staging \in [Windows -> Session \cup {Absent}]
         /\ thread \in [Windows -> Threads] /\ thread[w] \in Threads /\ ThreadSound(w)
         /\ staging[w] # Absent => staging[w] \in Session /\ Sound(staging[w])
<1>1. setup \in Setups /\ TypeOK
  BY DEF IInv
<1>2. setup.faults \in Nat
  BY <1>1, SetupFacts
<1>3. staging[w] # Absent => staging[w] \in Session /\ Sound(staging[w])
  BY <1>1 DEF TypeOK, IInv, Files
<1>4. Elsewhere /\ UNCHANGED pending /\ setup' = setup
  BY DEF ChromeStep, Elsewhere, life
<1> QED BY <1>1, <1>2, <1>3, <1>4 DEF Handshaking, Running, TypeOK, Threads, IInv

\* A flow that ends without having written anything.
LEMMA ChromeFinish ==
  ASSUME IInv, NEW w \in Windows, thread[w].pc \in {"scan", "issue", "profile"}, ChromeStep,
         Finish(w, FALSE), UNCHANGED <<staging, issued>>, faults' \in 0..setup.faults
  PROVE  IInv'
<1>1. /\ Elsewhere /\ UNCHANGED <<pending, staging, issued>>
      /\ thread[w].pc \notin Handshaking /\ Running(w)
  BY ChromeFacts
<1> QED BY <1>1, FinishOutside, Zenon

\* A flow that writes its session and goes on, or ends.
LEMMA ChromeWrite ==
  ASSUME IInv, NEW w \in Windows, thread[w].pc \in {"scan", "issue", "profile"}, ChromeStep,
         UNCHANGED issued, faults' \in 0..setup.faults, staging[w] # Absent,
         NEW x \in Session, x.mid => x.token # 0, x.source = staging[w].source,
         StageWrite(w, x),
         NEW ok \in BOOLEAN, Finish(w, ok) \/ Goto(w, "issue")
  PROVE  IInv'
<1>1. PICK t \in Threads : /\ t.pc \in {"finish", "issue"}
                           /\ thread' = [thread EXCEPT ![w] = t]
  BY ZenonT(40), OutsideSteps
<1>2. /\ Elsewhere /\ UNCHANGED pending /\ setup' = setup
      /\ thread[w].pc \notin Handshaking /\ Running(w)
      /\ issued \in Seq(Accounts) /\ Len(issued) \in Nat
      /\ Sound(staging[w])
  BY ChromeFacts
<1>3. /\ x \in Session' /\ t \in Threads'
      /\ issued' \in Seq(Accounts) /\ Len(issued') >= Len(issued)
  BY <1>1, <1>2 DEF Session, Threads
<1>4. x.source # None => pending[x.source] # Absent
  BY <1>2 DEF Sound
<1>5. staging' = [staging EXCEPT ![w] = x]
  BY DEF StageWrite
<1>6. OutsideAllowed(w, t)
  BY <1>1, <1>2, <1>3 DEF OutsideAllowed, Handshaking, NativeSteps
<1> QED BY <1>2, <1>3, <1>4, <1>5, <1>6, StagedMove, Zenon

LEMMA ChromeScanInv ==
  ASSUME IInv, NEW w \in Windows, ChromeScan(w)
  PROVE  IInv'
<1> DEFINE x == [staging[w] EXCEPT !.qr = "shown"]
<1>1. /\ thread[w].pc = "scan" /\ thread[w].pc \in {"scan", "issue", "profile"}
      /\ UNCHANGED <<issued, faults>> /\ ChromeStep
  BY DEF ChromeScan
<1>2. /\ faults' \in 0..setup.faults
      /\ staging[w] # Absent => staging[w] \in Session /\ Sound(staging[w])
  BY <1>1, ChromeFacts
<1>3. CASE Finish(w, FALSE) /\ UNCHANGED staging
  <2>1. UNCHANGED <<staging, issued>>
    BY <1>1, <1>3
  <2> QED BY <1>1, <1>2, <1>3, <2>1, ChromeFinish, Zenon
<1>4. CASE /\ staging[w] # Absent /\ StageWrite(w, x)
           /\ Goto(w, "issue") \/ Finish(w, FALSE)
  <2>1. x \in Session /\ x.source = staging[w].source /\ (x.mid => x.token # 0)
    BY <1>2, <1>4 DEF Session, Sound
  <2>2. UNCHANGED issued
    BY <1>1
  <2> HIDE DEF x
  <2> QED BY <1>1, <1>2, <1>4, <2>1, <2>2, ChromeWrite
<1> QED BY <1>3, <1>4 DEF ChromeScan

\* LINE issues tokens to the thread that asked; no file holds them yet.
LEMMA ChromeIssueInv ==
  ASSUME IInv, NEW w \in Windows, ChromeIssue(w)
  PROVE  IInv'
<1>1. /\ thread[w].pc = "issue" /\ thread[w].pc \in {"scan", "issue", "profile"}
      /\ UNCHANGED <<staging, faults>> /\ ChromeStep
  BY DEF ChromeIssue
<1>2. /\ Elsewhere /\ UNCHANGED pending /\ setup' = setup /\ setup \in Setups
      /\ thread[w].pc \notin Handshaking /\ Running(w)
      /\ issued \in Seq(Accounts) /\ Len(issued) \in Nat
      /\ faults' \in 0..setup.faults
      /\ thread \in [Windows -> Threads] /\ thread[w] \in Threads
  BY <1>1, ChromeFacts
<1>3. CASE Finish(w, FALSE) /\ UNCHANGED issued
  <2>1. UNCHANGED <<staging, issued>>
    BY <1>1, <1>3
  <2> QED BY <1>1, <1>2, <1>3, <2>1, ChromeFinish, Zenon
<1>4. ASSUME NEW a \in setup.accounts, issued' = Append(issued, a),
             thread' = [thread EXCEPT ![w].pc = "profile", ![w].reply = Len(issued) + 1]
      PROVE  IInv'
  <2>1. a \in Accounts
    BY <1>2, SetupFacts
  <2>2. issued' \in Seq(Accounts) /\ Len(issued') = Len(issued) + 1 /\ Len(issued') >= Len(issued)
    BY <1>2, <1>4, <2>1
  <2> PICK t : t = [thread[w] EXCEPT !.pc = "profile", !.reply = Len(issued) + 1]
    OBVIOUS
  <2>3. /\ thread' = [thread EXCEPT ![w] = t] /\ t.pc = "profile" /\ t.reply # 0
    BY <1>2, <1>4 DEF Threads
  <2>4. t \in Threads'
    <3>1. thread[w] \in Threads' /\ Len(issued) + 1 \in 0..Len(issued')
      BY <1>2, <2>2, ThreadsGrow
    <3> QED BY <3>1 DEF Threads
  <2>5. OutsideAllowed(w, t)
    BY <1>2, <2>3, <2>4 DEF OutsideAllowed, Handshaking, NativeSteps
  <2>6. UNCHANGED <<pending, staging>>
    BY <1>1, <1>2
  <2> QED BY <1>2, <2>2, <2>5, <2>6, MemoryMove, Zenon
<1> QED BY <1>3, <1>4 DEF ChromeIssue

\* The tokens of the thread's reply go to staging with the mid, if there is one.
LEMMA ChromeProfileInv ==
  ASSUME IInv, NEW w \in Windows, ChromeProfile(w)
  PROVE  IInv'
<1> DEFINE y == [staging[w] EXCEPT !.token = thread[w].reply]
<1>1. /\ thread[w].pc = "profile" /\ thread[w].pc \in {"scan", "issue", "profile"}
      /\ UNCHANGED issued /\ ChromeStep
  BY DEF ChromeProfile
<1>2. /\ setup.faults \in Nat /\ faults \in 0..setup.faults /\ ThreadSound(w)
      /\ thread[w] \in Threads
      /\ staging[w] # Absent => staging[w] \in Session /\ Sound(staging[w])
  BY <1>1, ChromeFacts
<1>3. faults' \in 0..setup.faults
  <2>1. faults' = faults \/ WriteFaults
    BY DEF ChromeProfile
  <2> QED BY <1>2, <2>1 DEF WriteFaults
<1>4. CASE Finish(w, FALSE) /\ UNCHANGED staging
  <2>1. UNCHANGED <<staging, issued>>
    BY <1>1, <1>4
  <2> QED BY <1>1, <1>4, <1>3, <2>1, ChromeFinish, Zenon
<1>5. ASSUME staging[w] # Absent, NEW s \in CaptureKeys(y), NEW ok \in BOOLEAN, Finish(w, ok),
             StageWrite(w, [s EXCEPT !.mid = TRUE]) \/ StageWrite(w, s)
      PROVE  IInv'
  <2>1. y \in Session /\ y.token # 0 /\ y.source = staging[w].source
    BY <1>1, <1>2, <1>5 DEF ThreadSound, Threads, Session
  <2>2. s \in Session /\ s.token # 0 /\ s.source = staging[w].source
    BY <1>5, <2>1 DEF CaptureKeys, UnwrapAndStore, Session
  <2>3. PICK x \in {s, [s EXCEPT !.mid = TRUE]} : StageWrite(w, x)
    BY <1>5
  <2>4. x \in Session /\ x.token # 0 /\ x.source = staging[w].source
    BY <2>2 DEF Session
  <2> QED BY <1>1, <1>3, <1>5, <2>3, <2>4, ChromeWrite
<1>6. \/ Finish(w, FALSE) /\ UNCHANGED staging
      \/ /\ staging[w] # Absent
         /\ \E s \in CaptureKeys(y), ok \in BOOLEAN :
              /\ StageWrite(w, [s EXCEPT !.mid = TRUE]) \/ StageWrite(w, s)
              /\ Finish(w, ok)
  BY DEF ChromeProfile
<1> HIDE DEF y
<1> QED BY <1>4, <1>5, <1>6, Zenon

\* An attempt goes on in a directory that is there, or that it makes.
LEMMA AttemptInv ==
  ASSUME IInv, NEW w \in Windows, Attempt(w)
  PROVE  IInv'
<1> DEFINE s == staging[w]
<1>1. /\ thread[w].pc = "attempt" /\ Elsewhere /\ UNCHANGED issued
      /\ thread[w].pc \notin Handshaking /\ Running(w)
  BY DEF Attempt, Elsewhere, net, Handshaking, Running
<1>2. /\ TypeOK /\ setup' = setup /\ setup \in Setups
      /\ setup.faults \in Nat /\ faults \in 0..setup.faults
      /\ issued \in Seq(Accounts) /\ Len(issued) \in Nat
  BY <1>1, SetupFacts DEF IInv, Elsewhere, life, TypeOK
<1>3. faults' \in 0..setup.faults
  <2>1. faults' = faults \/ WriteFaults
    BY DEF Attempt, SelectFails
  <2> QED BY <1>2, <2>1 DEF WriteFaults
<1>4. ASSUME NEW ok \in BOOLEAN, Finish(w, ok), UNCHANGED <<pending, staging>>
      PROVE  IInv'
  <2>1. UNCHANGED <<pending, staging, issued>>
    BY <1>1, <1>4
  <2> QED BY <1>1, <1>3, <1>4, <2>1, FinishOutside, Zenon
<1>5. CASE Goto(w, "scan") /\ UNCHANGED <<pending, staging>>
  <2>1. UNCHANGED <<pending, staging, issued>>
    BY <1>1, <1>5
  <2> QED BY <1>1, <1>3, <1>5, <2>1, GotoOutside
<1>6. ASSUME s # Absent, NEW p \in Pendings, Chosen(s, p),
             staging' = [staging EXCEPT ![w].source = p],
             \/ thread' = [thread EXCEPT ![w].pc = "check", ![w].dir = p]
             \/ Finish(w, FALSE)
      PROVE  IInv'
  <2> PICK x : x = [s EXCEPT !.source = p]
    OBVIOUS
  <2>1. /\ staging \in [Windows -> Session \cup {Absent}] /\ thread \in [Windows -> Threads]
        /\ pending \in [Pendings -> Session \cup {Absent}]
        /\ Session' = Session /\ Threads' = Threads
    BY <1>1, <1>2 DEF TypeOK, Threads, Session
  <2>2. s \in Session /\ Sound(s)
    BY <1>6, <2>1 DEF IInv, Files
  <2>3. /\ x \in Session' /\ (x.mid => x.token # 0) /\ x.source = p
        /\ staging' = [staging EXCEPT ![w] = x]
    BY <1>6, <2>1, <2>2 DEF Session, Sound
  <2>4. PICK t \in Threads' : /\ (t.pc = "check" /\ t.dir = p) \/ t.pc = "finish"
                              /\ thread' = [thread EXCEPT ![w] = t]
    <3>1. CASE thread' = [thread EXCEPT ![w].pc = "check", ![w].dir = p]
      <4> PICK t : t = [thread[w] EXCEPT !.pc = "check", !.dir = p]
        OBVIOUS
      <4>1. /\ t \in Threads' /\ t.pc = "check" /\ t.dir = p
            /\ thread' = [thread EXCEPT ![w] = t]
        BY ZenonT(40), <2>1, <3>1 DEF Threads
      <4> QED BY <4>1
    <3>2. CASE Finish(w, FALSE)
      <4> PICK t : t = [thread[w] EXCEPT !.pc = "finish", !.ok = FALSE]
        OBVIOUS
      <4>1. /\ t \in Threads' /\ t.pc = "finish"
            /\ thread' = [thread EXCEPT ![w] = t]
        BY ZenonT(40), <2>1, <3>2 DEF Threads, Finish
      <4> QED BY <4>1
    <3> QED BY <1>6, <3>1, <3>2
  <2>5. issued' \in Seq(Accounts) /\ Len(issued') >= Len(issued)
    BY <1>1, <1>2
  <2>6. PendingGrow /\ pending'[p] # Absent
    <3>1. CASE p \in Candidates(s) /\ UNCHANGED pending
      <4>1. PendingGrow
        BY <1>2, <2>5, <3>1, SamePending
      <4>2. pending[p] # Absent
        BY <2>2, <3>1 DEF Candidates, Matches, Sound
      <4> QED BY <3>1, <4>1, <4>2
    <3>2. CASE pending[p] = Absent /\ pending' = [pending EXCEPT ![p] = s]
      <4>1. \A q \in Pendings : pending'[q] = IF q = p THEN s ELSE pending[q]
        BY <2>1, <3>2
      <4>2. pending' \in [Pendings -> Session' \cup {Absent}]
        BY <2>1, <2>2, <3>2
      <4>3. ASSUME NEW q \in Pendings, pending'[q] # Absent PROVE Sound(pending[q])'
        <5>1. \E y \in Session : y = pending'[q] /\ Sound(y)
          BY <2>1, <2>2, <4>1, <4>3 DEF IInv, Files
        <5>2. PICK y \in Session : y = pending'[q] /\ Sound(y)
          BY <5>1
        <5>3. y.source # None => pending'[y.source] # Absent
          <6>1. y.source \in Pendings \cup {None}
            BY DEF Session
          <6> QED BY <1>6, <4>1, <5>2, <6>1 DEF Sound
        <5> QED BY <5>2, <5>3 DEF Sound
      <4>4. \A q \in Pendings : pending[q] # Absent => pending'[q] = pending[q]
        BY <3>2, <4>1
      <4> QED BY <1>6, <4>1, <4>2, <4>3, <4>4 DEF PendingGrow
    <3> QED BY <1>6, <3>1, <3>2 DEF Chosen
  <2>7. OutsideAllowed(w, t)
    BY <1>1, <2>4, <2>6 DEF OutsideAllowed, Handshaking, NativeSteps
  <2>8. x.source # None => pending'[x.source] # Absent
    BY <2>3, <2>6
  <2>9. PendingGrow
    BY <2>6
  <2> QED BY <1>1, <1>3, <1>6, <2>3, <2>5, <2>7, <2>8, <2>9, StagedGrow, Zenon
<1>7. \/ \E ok \in BOOLEAN : Finish(w, ok) /\ UNCHANGED <<pending, staging>>
      \/ Goto(w, "scan") /\ UNCHANGED <<pending, staging>>
      \/ s # Absent /\ (Select(w) \/ SelectFails(w))
  BY DEF Attempt
<1> HIDE DEF s
<1>8. CASE s # Absent /\ Select(w)
  BY <1>6, <1>8, Zenon DEF Select, s
<1>9. CASE s # Absent /\ SelectFails(w)
  <2>1. CASE Finish(w, FALSE) /\ UNCHANGED <<pending, staging>>
    BY <1>4, <2>1
  <2>2. ASSUME NEW p \in Pendings, Chosen(s, p), Finish(w, FALSE),
               staging' = [staging EXCEPT ![w].source = p]
        PROVE  IInv'
    BY <1>6, <1>9, <2>2
  <2> QED BY <1>9, <2>1, <2>2, Zenon DEF SelectFails, s
<1> QED BY <1>4, <1>5, <1>7, <1>8, <1>9, Zenon

LEMMA ThreadStepInv ==
  ASSUME IInv, NEW w \in Windows, ThreadStep(w)
  PROVE  IInv'
BY AttemptInv, NativeCheckInv, NativeLockInv, ReadAttemptInv, HandshakeInv, MarkStartedInv, SendRequestInv,
   TokenReplyInv, SaveReplyInv, SaveResultInv, UnwrapInv, RecoverKeysInv, StageInv,
   ChromeScanInv, ChromeIssueInv, ChromeProfileInv, Zenon DEF ThreadStep

-----------------------------------------------------------------------------
(* The login window and the user.                                          *)

\* Window w comes to page g, its thread to t, its staging file to x.  A thread
\* starts or ends outside the locks, and no directory is retired under one.
WindowEffect(w, g, t, x) ==
    /\ window' = [window EXCEPT ![w] = g]
    /\ thread' = [thread EXCEPT ![w] = t]
    /\ staging' = [staging EXCEPT ![w] = x]
    /\ retired \subseteq retired' /\ retired' \subseteq Pendings
    /\ \A p \in Pendings : p \in retired' => p \in retired \/ lock[p] = None
    /\ UNCHANGED <<pending, lock, asked, issued, setup, crashes>>

WindowAllowed(w, g, t, x) ==
    /\ t = thread[w] \/ /\ thread[w].pc \notin Handshaking
                        /\ t \in {Idle, [Idle EXCEPT !.pc = "attempt"]}
    /\ x # Absent => x \in Session /\ Sound(x)
    /\ t.pc # "idle" => g.page \in {"login", "closed"}
    /\ g.page \in {"login", "recovery", "activated"} => x # Absent
    /\ g.page = "recovery" => x.source # None

Windowed ==
    [page : {"closed", "client", "login", "recovery", "unsaved", "activated", "failed"},
     expected : Accounts \cup {None}, back : BOOLEAN]

\* The files and counts a step of the main thread may write, of their types.
MainTypes ==
    /\ cancel' \in [Windows -> BOOLEAN]
    /\ active' \in [Accounts -> Session \cup {Absent}]
    /\ handed' \subseteq 1..Len(issued) /\ consumed' \subseteq 1..Len(issued)
    /\ unretired' \subseteq 0..Len(issued)
    /\ logins' \in 0..setup.logins /\ faults' \in 0..setup.faults

LEMMA WindowMove ==
  ASSUME IInv, MainTypes, NEW w \in Windows, NEW g \in Windowed, NEW t, NEW x,
         WindowEffect(w, g, t, x), WindowAllowed(w, g, t, x)
  PROVE  IInv'
<1>1. /\ TypeOK /\ setup \in Setups
      /\ UNCHANGED <<pending, lock, asked, issued, setup, crashes>>
      /\ Session' = Session /\ Threads' = Threads
      /\ window \in [Windows -> Windowed] /\ thread \in [Windows -> Threads]
      /\ staging \in [Windows -> Session \cup {Absent}]
      /\ thread[w] \in Threads /\ issued \in Seq(Accounts) /\ Len(issued) \in Nat
  BY SMTT(30) DEF IInv, TypeOK, Threads, Windowed, WindowEffect, Session
<1>2. t \in Threads /\ x \in Session \cup {Absent}
  <2>1. Idle \in Threads
    <3>1. 0 \in 0..Len(issued)
      BY <1>1
    <3> QED BY <3>1 DEF Threads, Idle
  <2>2. [Idle EXCEPT !.pc = "attempt"] \in Threads
    BY <2>1 DEF Threads
  <2> QED BY <1>1, <2>1, <2>2 DEF WindowAllowed
<1>3. \A v \in Windows : /\ window'[v] = IF v = w THEN g ELSE window[v]
                         /\ thread'[v] = IF v = w THEN t ELSE thread[v]
                         /\ staging'[v] = IF v = w THEN x ELSE staging[v]
  BY <1>1 DEF WindowEffect
<1>4. TypeOK'
  <2>1. /\ window' \in [Windows -> Windowed] /\ thread' \in [Windows -> Threads]
        /\ staging' \in [Windows -> Session \cup {Absent}] /\ retired' \subseteq Pendings
    BY <1>1, <1>2 DEF WindowEffect
  <2> QED BY <1>1, <2>1 DEF TypeOK, MainTypes, Threads, Windowed
<1>5. Pages'
  BY <1>3 DEF IInv, Pages, Running, WindowAllowed
<1>6. Files'
  <2>1. ASSUME NEW y, Sound(y) PROVE Sound(y)'
    BY <1>1, <2>1 DEF Sound
  <2>2. \A v \in Windows : staging'[v] # Absent => Sound(staging'[v])
    BY <1>3 DEF IInv, Files, WindowAllowed
  <2>3. \A v \in Windows : staging'[v] # Absent => Sound(staging[v])'
    BY <1>1, <2>2 DEF Sound
  <2>4. \A p \in Pendings : pending'[p] # Absent => Sound(pending[p])'
    BY <1>1 DEF IInv, Files, Sound
  <2> QED BY <1>1, <2>3, <2>4 DEF IInv, Files
<1>7. ASSUME NEW v \in Windows PROVE ThreadSound(v)'
  <2>1. CASE t # thread[w] /\ v = w
    <3>1. t.pc \in {"idle", "attempt"}
      BY <2>1 DEF WindowAllowed, Idle
    <3> QED BY <1>3, <2>1, <3>1 DEF ThreadSound, Handshaking, NativeSteps
  <2>2. CASE t = thread[w] \/ v # w
    <3>1. thread'[v] = thread[v] /\ ThreadSound(v)
      BY <1>3, <2>2 DEF IInv
    <3>2. \A p \in Pendings : p \in retired' => p \in retired \/ lock[p] = None
      BY DEF WindowEffect
    <3> QED BY <1>1, <3>1, <3>2, LoginConstants DEF ThreadSound, Handshaking, NativeSteps
  <2> QED BY <2>1, <2>2
<1>8. AskedOnce'
  BY <1>1 DEF IInv, AskedOnce
<1>9. LocksReleased'
  <2> SUFFICES ASSUME NEW q \in Pendings, lock'[q] # None
               PROVE  thread'[lock'[q]].dir = q /\ thread'[lock'[q]].pc \in Handshaking
    BY DEF LocksReleased, Handshaking
  <2>1. /\ lock'[q] = lock[q] /\ lock[q] \in Windows /\ thread[lock[q]].dir = q
        /\ thread[lock[q]].pc \in Handshaking
    BY <1>1 DEF IInv, TypeOK, LocksReleased, Handshaking
  <2>2. lock[q] # w \/ t = thread[w]
    BY <2>1 DEF WindowAllowed
  <2> QED BY <1>3, <2>1, <2>2
<1> QED BY <1>1, <1>4, <1>5, <1>6, <1>7, <1>8, <1>9 DEF IInv

\* What is known of a window and its staging file.
LEMMA WindowFacts ==
  ASSUME IInv, NEW w \in Windows
  PROVE  /\ TypeOK /\ setup \in Setups /\ window[w] \in Windowed /\ thread[w] \in Threads
         /\ window \in [Windows -> Windowed] /\ thread \in [Windows -> Threads]
         /\ staging \in [Windows -> Session \cup {Absent}] /\ cancel \in [Windows -> BOOLEAN]
         /\ staging[w] # Absent => staging[w] \in Session /\ Sound(staging[w])
         /\ issued \in Seq(Accounts) /\ Len(issued) \in Nat
         /\ setup.faults \in Nat /\ faults \in 0..setup.faults
         /\ setup.logins \in Nat /\ logins \in 0..setup.logins
         /\ Running(w) => window[w].page \in {"login", "closed"}
         /\ window[w].page \in {"login", "recovery", "activated"} => staging[w] # Absent
         /\ window[w].page = "recovery" => staging[w].source # None
         /\ retired \subseteq Pendings /\ unretired \subseteq 0..Len(issued)
<1>1. setup \in Setups /\ TypeOK
  BY DEF IInv
<1>2. setup.faults \in Nat /\ setup.logins \in Nat
  BY <1>1, SetupFacts
<1>3. staging[w] # Absent => staging[w] \in Session /\ Sound(staging[w])
  BY <1>1 DEF TypeOK, IInv, Files
<1> QED BY <1>1, <1>2, <1>3 DEF IInv, TypeOK, Windowed, Threads, Pages

LEMMA QuietMain ==
  ASSUME IInv, UNCHANGED <<active, handed, consumed, logins, setup>>,
         unretired' \subseteq 0..Len(issued),
         cancel' \in [Windows -> BOOLEAN], faults' \in 0..setup.faults
  PROVE  MainTypes
BY DEF IInv, TypeOK, MainTypes

LEMMA OpenWindowInv ==
  ASSUME IInv, NEW w \in Windows, NEW e \in Accounts \cup {None}, OpenWindow(w, e)
  PROVE  IInv'
<1> PICK g : g = [page |-> "client", expected |-> e, back |-> FALSE]
  OBVIOUS
<1>1. /\ g \in Windowed /\ window' = [window EXCEPT ![w] = g] /\ ~Running(w)
      /\ UNCHANGED <<cancel, thread, staging, pending, retired, active, consumed, lock, issued,
                     asked, handed, logins, setup, crashes, unretired, faults>>
  BY DEF OpenWindow, Windowed, disk, net, lim, life
<1>2. MainTypes
  BY <1>1, QuietMain, WindowFacts
<1>3. WindowEffect(w, g, thread[w], staging[w])
  BY <1>1, WindowFacts DEF WindowEffect
<1>4. WindowAllowed(w, g, thread[w], staging[w])
  BY <1>1, WindowFacts DEF WindowAllowed, Windowed, Running
<1> QED BY <1>1, <1>2, <1>3, <1>4, WindowMove

LEMMA PrepareFailsInv ==
  ASSUME IInv, NEW w \in Windows, PrepareFails(w)
  PROVE  IInv'
<1>1. PICK g : /\ g \in {window[w], [window[w] EXCEPT !.page = "unsaved"]}
               /\ window' = [window EXCEPT ![w] = g]
  <2>1. UNCHANGED window => window' = [window EXCEPT ![w] = window[w]]
    BY WindowFacts
  <2> QED BY <2>1 DEF PrepareFails
<1>2. /\ window[w].page = "client" /\ ~Running(w) /\ WriteFaults
      /\ UNCHANGED <<cancel, thread, staging, pending, retired, active, consumed, lock, issued,
                     asked, handed, logins, setup, crashes, unretired>>
  BY DEF PrepareFails, disk, net, life
<1>3. g \in Windowed /\ g.page \in {"client", "unsaved"}
  BY <1>1, <1>2, WindowFacts DEF Windowed
<1>4. faults' \in 0..setup.faults
  BY <1>2, WindowFacts DEF WriteFaults
<1>5. MainTypes
  BY <1>2, <1>4, QuietMain, WindowFacts
<1>6. WindowEffect(w, g, thread[w], staging[w])
  BY <1>1, <1>2, WindowFacts DEF WindowEffect
<1>7. WindowAllowed(w, g, thread[w], staging[w])
  BY <1>2, <1>3, WindowFacts DEF WindowAllowed, Running
<1> QED BY <1>3, <1>5, <1>6, <1>7, WindowMove

LEMMA GoBackInv ==
  ASSUME IInv, NEW w \in Windows, GoBack(w)
  PROVE  IInv'
<1>1. PICK g : /\ \/ g = [window[w] EXCEPT !.back = TRUE] /\ window[w].page = "login"
                  \/ g = [window[w] EXCEPT !.page = "client"] /\ window[w].page = "recovery"
               /\ window' = [window EXCEPT ![w] = g]
  BY DEF GoBack
<1>2. /\ cancel' \in [Windows -> BOOLEAN]
      /\ UNCHANGED <<thread, staging, pending, retired, active, consumed, lock, issued,
                     asked, handed, logins, setup, crashes, unretired, faults>>
  BY WindowFacts DEF GoBack, disk, net, lim, life
<1>3. /\ g \in Windowed
      /\ \/ window[w].page = "login" /\ g.page = "login"
         \/ window[w].page = "recovery" /\ g.page = "client"
  BY <1>1, WindowFacts DEF Windowed
<1>4. MainTypes
  BY <1>2, QuietMain, WindowFacts
<1>5. WindowEffect(w, g, thread[w], staging[w])
  BY <1>1, <1>2, WindowFacts DEF WindowEffect
<1>6. WindowAllowed(w, g, thread[w], staging[w])
  BY <1>3, WindowFacts DEF WindowAllowed, Running
<1> QED BY <1>3, <1>4, <1>5, <1>6, WindowMove

\* The staging file of a window whose thread may still run.
LEMMA CloseWindowInv ==
  ASSUME IInv, NEW w \in Windows, CloseWindow(w)
  PROVE  IInv'
<1> PICK g : g = [window[w] EXCEPT !.page = "closed", !.back = FALSE]
  OBVIOUS
<1>1. /\ g \in Windowed /\ g.page = "closed" /\ window' = [window EXCEPT ![w] = g]
  BY WindowFacts DEF CloseWindow, Windowed
<1>2. /\ cancel' \in [Windows -> BOOLEAN] /\ staging' = [staging EXCEPT ![w] = Absent]
      /\ UNCHANGED <<thread, pending, retired, active, consumed, lock, issued,
                     asked, handed, logins, setup, crashes, unretired, faults>>
  <2>1. cancel' \in [Windows -> BOOLEAN]
    <3>1. cancel' = [cancel EXCEPT ![w] = cancel[w] \/ window[w].page # "failed"]
      BY DEF CloseWindow
    <3>2. (cancel[w] \/ window[w].page # "failed") \in BOOLEAN
      BY WindowFacts
    <3> QED BY <3>1, <3>2, WindowFacts
  <2> QED BY <2>1 DEF CloseWindow, net, lim, life
<1>3. MainTypes
  BY <1>2, QuietMain, WindowFacts
<1>4. WindowEffect(w, g, thread[w], Absent)
  BY <1>1, <1>2, WindowFacts DEF WindowEffect
<1>5. WindowAllowed(w, g, thread[w], Absent)
  BY <1>1 DEF WindowAllowed
<1> QED BY <1>1, <1>3, <1>4, <1>5, WindowMove

LEMMA FinishFailedInv ==
  ASSUME IInv, NEW w \in Windows, FinishFailed(w)
  PROVE  IInv'
<1> DEFINE show == IF window[w].back THEN "client"
                   ELSE IF staging[w].source # None THEN "recovery" ELSE "failed"
<1>1. /\ thread[w].pc = "finish" /\ thread' = [thread EXCEPT ![w] = Idle]
      /\ UNCHANGED <<staging, pending, retired, active, consumed, lock, issued,
                     asked, handed, logins, setup, crashes, unretired, faults>>
  BY DEF FinishFailed, disk, net, lim, life
<1>2. window[w].page \in {"login", "closed"}
  BY <1>1, WindowFacts DEF Running
<1>3. PICK g : /\ \/ g = window[w] /\ window[w].page = "closed"
                  \/ g = [window[w] EXCEPT !.page = show, !.back = FALSE]
                     /\ window[w].page = "login"
               /\ window' = [window EXCEPT ![w] = g]
  <2>1. UNCHANGED window => window' = [window EXCEPT ![w] = window[w]]
    BY WindowFacts
  <2>2. CASE window[w].page = "closed"
    BY <2>1, <2>2, Zenon DEF FinishFailed
  <2>3. CASE window[w].page # "closed"
    <3>1. window' = [window EXCEPT ![w].page = show, ![w].back = FALSE]
      BY <2>3 DEF FinishFailed
    <3>2. PICK g : g = [window[w] EXCEPT !.page = show, !.back = FALSE]
      OBVIOUS
    <3>3. window' = [window EXCEPT ![w] = g]
      BY <3>1, <3>2
    <3> QED BY <1>2, <2>3, <3>2, <3>3, Zenon
  <2> QED BY <2>2, <2>3
<1>4. cancel' \in [Windows -> BOOLEAN]
  <2>1. cancel' = cancel \/ cancel' = [cancel EXCEPT ![w] = cancel[w] /\ ~window[w].back]
    BY DEF FinishFailed
  <2>2. (cancel[w] /\ ~window[w].back) \in BOOLEAN
    BY WindowFacts
  <2> QED BY <2>1, <2>2, WindowFacts
<1>5. /\ g \in Windowed
      /\ \/ g.page \in {"closed", "client", "failed"}
         \/ g.page = "recovery" /\ staging[w].source # None /\ window[w].page = "login"
  BY <1>3, WindowFacts DEF Windowed
<1>6. MainTypes
  BY <1>1, <1>4, QuietMain, WindowFacts
<1>7. WindowEffect(w, g, Idle, staging[w])
  BY <1>1, <1>3, WindowFacts DEF WindowEffect
<1>8. WindowAllowed(w, g, Idle, staging[w])
  BY <1>1, <1>5, WindowFacts DEF WindowAllowed, Idle, Handshaking
<1> QED BY <1>5, <1>6, <1>7, <1>8, WindowMove

LEMMA HandoverRejectedInv ==
  ASSUME IInv, NEW w \in Windows, HandoverRejected(w)
  PROVE  IInv'
<1>1. /\ thread[w].pc = "finish" /\ thread' = [thread EXCEPT ![w] = Idle]
      /\ staging' = [staging EXCEPT ![w] = Absent]
      /\ UNCHANGED <<cancel, pending, retired, active, consumed, lock, issued,
                     asked, handed, logins, setup, crashes, unretired, faults>>
  BY DEF HandoverRejected, net, lim, life
<1>2. PICK g : /\ \/ g = [window[w] EXCEPT !.page = "failed", !.back = FALSE]
                  \/ g = [window[w] EXCEPT !.page = "closed", !.back = FALSE]
               /\ window' = [window EXCEPT ![w] = g]
  BY DEF HandoverRejected
<1>3. g \in Windowed /\ g.page \in {"failed", "closed"}
  BY <1>2, WindowFacts DEF Windowed
<1>4. MainTypes
  BY <1>1, QuietMain, WindowFacts
<1>5. WindowEffect(w, g, Idle, Absent)
  BY <1>1, <1>2, WindowFacts DEF WindowEffect
<1>6. WindowAllowed(w, g, Idle, Absent)
  BY <1>1, <1>3 DEF WindowAllowed, Idle, Handshaking
<1> QED BY <1>3, <1>4, <1>5, <1>6, WindowMove

\* Only issued tokens are activated: the session has a mid, so it has tokens.
LEMMA ActivateInv ==
  ASSUME IInv, NEW w \in Windows, Activate(w)
  PROVE  IInv'
<1> DEFINE s == staging[w]
<1>1. /\ thread[w].pc = "finish" /\ thread' = [thread EXCEPT ![w] = Idle]
      /\ window[w].page = "login" /\ s.mid
      /\ UNCHANGED <<cancel, staging, pending, retired, lock, issued, asked, logins, setup, crashes, unretired>>
  BY DEF Activate, net, life
<1>2. PICK g : /\ \/ g = [window[w] EXCEPT !.page = "activated", !.back = FALSE]
                  \/ g = [window[w] EXCEPT !.page = "failed", !.back = FALSE]
               /\ window' = [window EXCEPT ![w] = g]
  BY ZenonT(40) DEF Activate
<1>3. g \in Windowed /\ g.page \in {"activated", "failed"}
  BY <1>2, WindowFacts DEF Windowed
<1>4. s # Absent /\ s \in Session /\ Sound(s)
  BY <1>1, WindowFacts
<1>5. s.token \in 1..Len(issued) /\ issued[s.token] \in Accounts
  BY <1>1, <1>4, WindowFacts DEF Sound, Session
<1>6. MainTypes
  <2>1. /\ active \in [Accounts -> Session \cup {Absent}]
        /\ handed \subseteq 1..Len(issued) /\ consumed \subseteq 1..Len(issued)
    BY WindowFacts DEF TypeOK
  <2>2. /\ active' = active \/ active' = [active EXCEPT ![issued[s.token]] = s]
        /\ consumed' = consumed \/ consumed' = consumed \cup {s.token}
        /\ handed' \subseteq handed \cup {s.token}
        /\ faults' = faults \/ WriteFaults
    BY DEF Activate, ScannedMid
  <2>3. active' \in [Accounts -> Session \cup {Absent}]
    BY <1>4, <1>5, <2>1, <2>2
  <2>4. faults' \in 0..setup.faults
    BY <2>2, WindowFacts DEF WriteFaults
  <2>5. logins' \in 0..setup.logins /\ cancel' \in [Windows -> BOOLEAN]
    BY <1>1, WindowFacts
  <2>6. /\ handed' \subseteq 1..Len(issued) /\ consumed' \subseteq 1..Len(issued)
        /\ unretired' \subseteq 0..Len(issued)
    BY <1>1, <1>5, <2>1, <2>2, WindowFacts
  <2> QED BY <2>3, <2>4, <2>5, <2>6 DEF MainTypes
<1>7. WindowEffect(w, g, Idle, s)
  BY <1>1, <1>2, WindowFacts DEF WindowEffect
<1>8. WindowAllowed(w, g, Idle, s)
  BY <1>1, <1>3, <1>4 DEF WindowAllowed, Idle, Handshaking
<1> QED BY <1>3, <1>6, <1>7, <1>8, WindowMove

\* Retiring takes the lock with LOCK_NB: not while a handshake holds it.
LEMMA RetireConsumedInv ==
  ASSUME IInv, NEW w \in Windows, RetireConsumed(w)
  PROVE  IInv'
<1> DEFINE p == staging[w].source
<1> PICK g : g = [window[w] EXCEPT !.page = "closed"]
  OBVIOUS
<1>1. /\ g \in Windowed /\ g.page = "closed" /\ window' = [window EXCEPT ![w] = g]
      /\ window[w].page = "activated"
  BY WindowFacts DEF RetireConsumed, Windowed
<1>2. /\ staging' = [staging EXCEPT ![w] = Absent]
      /\ UNCHANGED <<cancel, thread, pending, active, consumed, lock, issued,
                     asked, handed, logins, setup, crashes>>
  BY DEF RetireConsumed, net, life
<1>3. p \in Pendings \cup {None}
  BY <1>1, WindowFacts DEF Session
<1>4. /\ \/ retired' = retired
         \/ p # None /\ lock[p] = None /\ retired' = retired \cup {p}
      /\ faults' = faults \/ WriteFaults
  BY DEF RetireConsumed, Retirable
<1>5. faults' \in 0..setup.faults
  BY <1>4, WindowFacts DEF WriteFaults
<1>9. unretired' \subseteq 0..Len(issued)
  <2>1. staging[w].token \in 0..Len(issued)
    BY <1>1, WindowFacts DEF Session
  <2>2. unretired' = unretired \/ unretired' = unretired \cup {staging[w].token}
    BY DEF RetireConsumed
  <2> QED BY <2>1, <2>2, WindowFacts
<1>6. MainTypes
  BY <1>2, <1>5, <1>9, QuietMain, WindowFacts
<1>7. WindowEffect(w, g, thread[w], Absent)
  BY <1>1, <1>2, <1>3, <1>4, WindowFacts DEF WindowEffect
<1>8. WindowAllowed(w, g, thread[w], Absent)
  BY <1>1 DEF WindowAllowed
<1> QED BY <1>1, <1>6, <1>7, <1>8, WindowMove

\* A login thread starts in a window that has its staging file.
LEMMA StartThreadMove ==
  ASSUME IInv, NEW w \in Windows, StartThread(w), NEW x \in Session, Sound(x),
         staging' = [staging EXCEPT ![w] = x],
         retired \subseteq retired', retired' \subseteq Pendings,
         \A p \in Pendings : p \in retired' => p \in retired \/ lock[p] = None,
         UNCHANGED <<pending, lock, asked, issued, setup, crashes, unretired, active, consumed>>,
         handed' \subseteq handed, logins' \in 0..setup.logins, faults' \in 0..setup.faults
  PROVE  IInv'
<1> PICK g : g = [window[w] EXCEPT !.page = "login"]
  OBVIOUS
<1> PICK t : t = [Idle EXCEPT !.pc = "attempt"]
  OBVIOUS
<1>1. /\ g \in Windowed /\ g.page = "login" /\ window' = [window EXCEPT ![w] = g]
      /\ thread' = [thread EXCEPT ![w] = t] /\ ~Running(w)
      /\ cancel' \in [Windows -> BOOLEAN]
  BY WindowFacts DEF StartThread, Windowed
<1>2. x # Absent
  BY SessionPresent, WindowFacts
<1>3. MainTypes
  BY <1>1, WindowFacts DEF MainTypes, TypeOK
<1>4. WindowEffect(w, g, t, x)
  BY <1>1 DEF WindowEffect
<1>5. WindowAllowed(w, g, t, x)
  BY <1>1, <1>2 DEF WindowAllowed, Running, Handshaking
<1> QED BY <1>1, <1>3, <1>4, <1>5, WindowMove

LEMMA RetryInv ==
  ASSUME IInv, NEW w \in Windows, Retry(w)
  PROVE  IInv'
<1>1. /\ window[w].page = "recovery" /\ StartThread(w)
      /\ UNCHANGED <<staging, pending, retired, active, consumed, lock, issued, asked, handed,
                     logins, setup, crashes, unretired, faults>>
  BY DEF Retry, disk, net, lim, life
<1>2. staging[w] \in Session /\ Sound(staging[w]) /\ staging' = [staging EXCEPT ![w] = staging[w]]
  BY <1>1, WindowFacts
<1>3. /\ logins' \in 0..setup.logins /\ faults' \in 0..setup.faults
      /\ retired \subseteq retired' /\ retired' \subseteq Pendings
      /\ \A p \in Pendings : p \in retired' => p \in retired \/ lock[p] = None
  BY <1>1, WindowFacts
<1> QED BY <1>1, <1>2, <1>3, StartThreadMove

LEMMA BeginLoginInv ==
  ASSUME IInv, NEW w \in Windows, NEW c \in setup.clients, BeginLogin(w, c)
  PROVE  IInv'
<1> DEFINE e == window[w].expected
<1>1. /\ window[w].page = "client" /\ StartThread(w)
      /\ UNCHANGED <<pending, retired, active, consumed, lock, issued, asked, handed,
                     setup, crashes, unretired, faults>>
  BY DEF BeginLogin, net, life
<1>2. /\ faults' \in 0..setup.faults /\ handed' \subseteq handed
      /\ retired \subseteq retired' /\ retired' \subseteq Pendings
      /\ \A p \in Pendings : p \in retired' => p \in retired \/ lock[p] = None
  BY <1>1, WindowFacts
<1>3. CASE staging[w] # Absent
  <2>1. staging[w] \in Session /\ Sound(staging[w]) /\ staging' = [staging EXCEPT ![w] = staging[w]]
        /\ logins' \in 0..setup.logins
    BY <1>3, WindowFacts DEF BeginLogin
  <2> QED BY <1>1, <1>2, <2>1, StartThreadMove
<1>4. CASE staging[w] = Absent
  <2>1. PICK x : x = StagedFor(e, c) /\ staging' = [staging EXCEPT ![w] = x]
    BY <1>4 DEF BeginLogin, PrepareStaging
  <2>2. /\ logins < setup.logins /\ logins' = logins + 1
        /\ e # None => active[e] # Absent
    BY <1>4 DEF BeginLogin, PrepareStaging
  <2>3. /\ setup \in Setups /\ issued \in Seq(Accounts) /\ c \in {"native", "chrome"}
        /\ logins' \in 0..setup.logins /\ logins + 1 \in 1..setup.logins
        /\ 0 \in 0..setup.logins /\ None \in Accounts \cup {None}
    BY <2>2, WindowFacts, SetupFacts
  <2>4. x \in Session /\ Sound(x)
    <3>1. CASE e = None
      <4>1. x = NewSession(c, logins + 1, None, 0)
        BY <2>1, <3>1 DEF StagedFor
      <4> QED BY <2>3, <4>1, NewSessionFits
    <3>2. CASE e # None
      <4>1. e \in Accounts /\ active[e] \in Session
        BY <2>2, <3>2, WindowFacts DEF Windowed, TypeOK
      <4>2. /\ active[e].client \in {"native", "chrome"} /\ active[e].login \in 0..setup.logins
            /\ e \in Accounts \cup {None}
        BY <2>3, <4>1 DEF Session
      <4>3. x = NewSession(active[e].client, logins + 1, e, active[e].login)
        BY <2>1, <3>2 DEF StagedFor
      <4> QED BY <2>3, <4>2, <4>3, NewSessionFits
    <3> QED BY <3>1, <3>2
  <2> QED BY <1>1, <1>2, <2>1, <2>3, <2>4, StartThreadMove
<1> QED BY <1>3, <1>4

\* The old directory is retired before the new login starts, so not under a
\* lock; without a new staging file no thread starts.
LEMMA StartNewQRInv ==
  ASSUME IInv, NEW w \in Windows, StartNewQR(w)
  PROVE  IInv'
<1> DEFINE s == staging[w]
<1>1. /\ window[w].page = "recovery" /\ ~Running(w) /\ lock[s.source] = None
      /\ retired' = retired \cup {s.source}
      /\ handed' \subseteq handed
      /\ UNCHANGED <<pending, active, consumed, lock, issued, asked, setup, crashes, unretired>>
  BY DEF StartNewQR, Retirable, net, life
<1>2. s \in Session /\ Sound(s) /\ s.source \in Pendings
  <2>1. s \in Session /\ Sound(s) /\ s.source # None
    BY <1>1, WindowFacts
  <2> QED BY <2>1 DEF Session
<1>3. /\ retired \subseteq retired' /\ retired' \subseteq Pendings
      /\ \A p \in Pendings : p \in retired' => p \in retired \/ lock[p] = None
  BY <1>1, <1>2, WindowFacts
<1>4. CASE /\ logins < setup.logins /\ logins' = logins + 1 /\ UNCHANGED faults /\ StartThread(w)
           /\ staging' = [staging EXCEPT ![w] =
                [NewSession(s.client, logins + 1, s.expected, s.baseline) EXCEPT !.fresh = TRUE]]
  <2> PICK x : x = [NewSession(s.client, logins + 1, s.expected, s.baseline) EXCEPT !.fresh = TRUE]
    OBVIOUS
  <2>1. /\ setup \in Setups /\ issued \in Seq(Accounts)
        /\ logins' \in 0..setup.logins /\ logins + 1 \in 1..setup.logins
        /\ faults' \in 0..setup.faults
    BY <1>4, WindowFacts
  <2>2. /\ s.client \in {"native", "chrome"} /\ s.expected \in Accounts \cup {None}
        /\ s.baseline \in 0..setup.logins
    BY <1>2 DEF Session
  <2>3. x \in Session /\ Sound(x)
    BY <2>1, <2>2, NewSessionFits
  <2>4. staging' = [staging EXCEPT ![w] = x]
    BY <1>4
  <2> QED BY <1>1, <1>3, <1>4, <2>1, <2>3, <2>4, StartThreadMove
<1>5. CASE WriteFaults /\ UNCHANGED <<staging, logins, cancel, window, thread>>
  <2>1. MainTypes
    BY <1>1, <1>5, WindowFacts DEF MainTypes, WriteFaults, TypeOK
  <2>2. WindowEffect(w, window[w], thread[w], s)
    BY <1>1, <1>3, <1>5, WindowFacts DEF WindowEffect
  <2>3. WindowAllowed(w, window[w], thread[w], s)
    BY <1>1, <1>2, WindowFacts DEF WindowAllowed, Running
  <2> QED BY <2>1, <2>2, <2>3, WindowFacts, WindowMove
<1> QED BY <1>4, <1>5 DEF StartNewQR

LEMMA MainStepInv ==
  ASSUME IInv, NEW w \in Windows, MainStep(w)
  PROVE  IInv'
BY FinishFailedInv, HandoverRejectedInv, ActivateInv, RetireConsumedInv, Zenon DEF MainStep

LEMMA UserStepInv ==
  ASSUME IInv, NEW w \in Windows, UserStep(w)
  PROVE  IInv'
BY OpenWindowInv, BeginLoginInv, PrepareFailsInv, RetryInv, StartNewQRInv, GoBackInv,
   CloseWindowInv, Zenon DEF UserStep

-----------------------------------------------------------------------------
(* Accounts, exits of the program, and the start.                          *)

\* Only accounts' directories change.
LEMMA AccountMove ==
  ASSUME IInv, active' \in [Accounts -> Session \cup {Absent}], handed' \subseteq handed,
         UNCHANGED <<window, cancel, thread, staging, pending, retired, lock, issued, asked,
                     consumed, setup, logins, crashes, unretired, faults>>
  PROVE  IInv'
<1>1. TypeOK /\ Session' = Session
  BY DEF IInv, Session
<1>2. TypeOK'
  BY <1>1 DEF TypeOK
<1>3. Pages' /\ Files'
  BY DEF IInv, Pages, Files, Running, Sound
<1>4. \A w \in Windows : ThreadSound(w)'
  BY DEF IInv, ThreadSound
<1>5. AskedOnce' /\ LocksReleased'
  BY DEF IInv, AskedOnce, LocksReleased
<1> QED BY <1>2, <1>3, <1>4, <1>5 DEF IInv

LEMMA LogOutInv ==
  ASSUME IInv, NEW a \in Accounts, LogOut(a)
  PROVE  IInv'
<1>1. /\ active' = [active EXCEPT ![a] = Absent] /\ handed' \subseteq handed
      /\ UNCHANGED <<window, cancel, thread, staging, pending, retired, lock, issued, asked,
                     consumed, setup, logins, crashes, unretired, faults>>
  BY DEF LogOut, net, lim, life
<1>2. active' \in [Accounts -> Session \cup {Absent}]
  BY <1>1 DEF IInv, TypeOK
<1> QED BY <1>1, <1>2, AccountMove

LEMMA OpenAccountInv ==
  ASSUME IInv, NEW a \in Accounts, OpenAccount(a)
  PROVE  IInv'
<1>1. /\ active' = [active EXCEPT ![a] = UnwrapAndStore(active[a])] /\ handed' \subseteq handed
      /\ active[a] # Absent
      /\ UNCHANGED <<window, cancel, thread, staging, pending, retired, lock, issued, asked,
                     consumed, setup, logins, crashes, unretired, faults>>
  BY DEF OpenAccount, net, lim, life
<1>2. active \in [Accounts -> Session \cup {Absent}] /\ active[a] \in Session
  BY <1>1 DEF IInv, TypeOK
<1>3. UnwrapAndStore(active[a]) \in Session
  BY <1>2 DEF UnwrapAndStore, Session
<1>4. active' \in [Accounts -> Session \cup {Absent}]
  BY <1>1, <1>2, <1>3
<1> QED BY <1>1, <1>4, AccountMove

\* What an exit leaves on disk needs no thread or lock to be sound.
LEMMA CrashInv ==
  ASSUME IInv, Crash
  PROVE  IInv'
<1>1. /\ crashes < setup.crashes /\ crashes' = crashes + 1
      /\ window' = [w \in Windows |-> [page |-> "closed", expected |-> None, back |-> FALSE]]
      /\ cancel' = [w \in Windows |-> FALSE]
      /\ thread' = [w \in Windows |-> Idle]
      /\ staging' = [w \in Windows |-> Absent]
      /\ lock' = [p \in Pendings |-> None]
      /\ UNCHANGED <<pending, retired, active, consumed, issued, asked, handed, setup, logins,
                     faults, unretired>>
  BY DEF Crash, net
<1>2. /\ TypeOK /\ Session' = Session /\ setup \in Setups /\ setup.crashes \in Nat
      /\ issued \in Seq(Accounts) /\ Len(issued) \in Nat
  BY SMTT(30), <1>1, SetupFacts DEF IInv, Session, TypeOK
<1>3. TypeOK'
  <2>1. crashes' \in 0..setup.crashes
    BY <1>1, <1>2 DEF TypeOK
  <2>2. thread' \in [Windows -> Threads]
    <3>1. Idle \in Threads
      <4>1. 0 \in 0..Len(issued)
        BY <1>2
      <4> QED BY <4>1 DEF Threads, Idle
    <3> QED BY <1>1, <3>1
  <2>3. Threads' = Threads
    BY <1>1 DEF Threads
  <2>4. window' \in [Windows -> Windowed]
    BY <1>1 DEF Windowed
  <2> QED BY <1>1, <1>2, <2>1, <2>2, <2>3, <2>4 DEF TypeOK, Threads, Windowed
<1>4. Pages'
  BY <1>1 DEF Pages, Running, Idle
<1>5. Files'
  BY <1>1 DEF IInv, Files, Sound
<1>6. \A w \in Windows : ThreadSound(w)'
  BY <1>1 DEF ThreadSound, Idle, Handshaking, NativeSteps
<1>7. AskedOnce' /\ LocksReleased'
  BY <1>1 DEF IInv, AskedOnce, LocksReleased
<1> QED BY <1>1, <1>2, <1>3, <1>4, <1>5, <1>6, <1>7 DEF IInv

LEMMA StutterInv ==
  ASSUME IInv, UNCHANGED vars
  PROVE  IInv'
<1>1. UNCHANGED <<window, cancel, thread, staging, pending, retired, lock, active, issued, asked,
                  handed, consumed, setup, logins, crashes, unretired, faults>>
  BY DEF vars
<1>2. TypeOK'
  BY <1>1 DEF IInv, TypeOK, Session
<1>3. Pages' /\ Files'
  BY <1>1 DEF IInv, Pages, Files, Running, Sound
<1>4. \A w \in Windows : ThreadSound(w)'
  BY <1>1 DEF IInv, ThreadSound
<1>5. AskedOnce' /\ LocksReleased'
  BY <1>1 DEF IInv, AskedOnce, LocksReleased
<1> QED BY <1>1, <1>2, <1>3, <1>4, <1>5 DEF IInv

LEMMA NextInv ==
  ASSUME IInv, Next
  PROVE  IInv'
BY CrashInv, LogOutInv, OpenAccountInv, ThreadStepInv, MainStepInv, UserStepInv, Zenon DEF Next

\* A finite set of accounts can be put in order: each signed-in account has a
\* token of its own at the start.
LEMMA InOrderFits ==
  ASSUME NEW S \in SUBSET Accounts
  PROVE  /\ Cardinality(S) \in Nat /\ InOrder(S) \in [1..Cardinality(S) -> S]
         /\ \A a \in S : \E i \in DOMAIN InOrder(S) : InOrder(S)[i] = a
         /\ InOrder(S) \in Seq(Accounts) /\ Len(InOrder(S)) = Cardinality(S)
<1>1. IsFiniteSet(S)
  BY LoginConstants, FS_Subset
<1>2. Cardinality(S) \in Nat /\ ExistsBijection(1..Cardinality(S), S)
  BY <1>1, FS_CardinalityType
<1>3. \E s \in [1..Cardinality(S) -> S] : \A a \in S : \E i \in DOMAIN s : s[i] = a
  <2>1. PICK s : s \in [1..Cardinality(S) -> S] /\ \A a \in S : \E i \in 1..Cardinality(S) : s[i] = a
    BY <1>2 DEF ExistsBijection, Bijection, Surjection
  <2> QED BY <2>1
<1>4. /\ InOrder(S) \in [1..Cardinality(S) -> S]
      /\ \A a \in S : \E i \in DOMAIN InOrder(S) : InOrder(S)[i] = a
  BY <1>3 DEF InOrder
<1>5. InOrder(S) \in Seq(Accounts) /\ Len(InOrder(S)) = Cardinality(S)
  BY <1>2, <1>4
<1> QED BY <1>2, <1>4, <1>5

LEMMA InitInv ==
  ASSUME Init
  PROVE  IInv
<1>1. /\ setup \in Setups /\ issued = InOrder(setup.installed)
      /\ window = [w \in Windows |-> [page |-> "closed", expected |-> None, back |-> FALSE]]
      /\ cancel = [w \in Windows |-> FALSE] /\ thread = [w \in Windows |-> Idle]
      /\ staging = [w \in Windows |-> Absent] /\ pending = [p \in Pendings |-> Absent]
      /\ retired = {} /\ lock = [p \in Pendings |-> None] /\ asked = [p \in Pendings |-> 0]
      /\ handed = {} /\ consumed = DOMAIN issued /\ logins = Cardinality(setup.installed)
      /\ crashes = 0 /\ faults = 0 /\ unretired = {}
  BY DEF Init
<1>2. /\ setup.logins \in Nat /\ setup.faults \in Nat /\ setup.crashes \in Nat
      /\ setup.installed \in SUBSET Accounts /\ Cardinality(setup.installed) <= setup.logins
  BY <1>1, SetupFacts, LoginConstants
<1>3. /\ Cardinality(setup.installed) \in Nat
      /\ issued \in Seq(Accounts) /\ Len(issued) = Cardinality(setup.installed)
      /\ \A a \in setup.installed : \E i \in DOMAIN issued : issued[i] = a
  BY <1>1, <1>2, InOrderFits
<1>4. DOMAIN issued = 1..Len(issued) /\ Len(issued) \in 0..setup.logins
  BY <1>2, <1>3
<1>5. active \in [Accounts -> Session \cup {Absent}]
  <2>1. ASSUME NEW a \in Accounts
        PROVE  (IF a \notin setup.installed THEN Absent
                ELSE LET k == CHOOSE i \in DOMAIN issued : issued[i] = a
                     IN  [NewSession("native", k, None, 0) EXCEPT !.token = k, !.mid = TRUE,
                                                                  !.keys = TRUE])
                  \in Session \cup {Absent}
    <3> PICK k : k = CHOOSE i \in DOMAIN issued : issued[i] = a
      OBVIOUS
    <3> PICK x : x = [NewSession("native", k, None, 0) EXCEPT !.token = k, !.mid = TRUE,
                                                              !.keys = TRUE]
      OBVIOUS
    <3>1. CASE a \in setup.installed
      <4>1. k \in 1..Len(issued)
        BY <1>3, <1>4, <3>1
      <4>2. /\ k \in 1..setup.logins /\ 0 \in 0..setup.logins /\ None \in Accounts \cup {None}
            /\ k \in 0..Len(issued)
        BY <1>2, <1>4, <4>1
      <4>3. NewSession("native", k, None, 0) \in Session
        BY <1>1, <1>3, <4>2, NewSessionFits
      <4>4. x \in Session
        BY ZenonT(40), <4>2, <4>3 DEF Session
      <4> QED BY <4>4
    <3> QED BY <3>1
  <2>2. active = [a \in Accounts |->
                   IF a \notin setup.installed THEN Absent
                   ELSE LET k == CHOOSE i \in DOMAIN issued : issued[i] = a
                        IN  [NewSession("native", k, None, 0) EXCEPT !.token = k, !.mid = TRUE,
                                                                     !.keys = TRUE]]
    BY DEF Init
  <2> QED BY <2>1, <2>2, Zenon
<1>6. TypeOK
  <2>1. thread \in [Windows -> Threads]
    <3>1. 0 \in 0..Len(issued)
      BY <1>4
    <3> QED BY <1>1, <3>1 DEF Threads, Idle
  <2>2. logins \in 0..setup.logins /\ crashes \in 0..setup.crashes /\ faults \in 0..setup.faults
    BY <1>1, <1>2, <1>3
  <2>3. /\ window \in [Windows -> Windowed] /\ cancel \in [Windows -> BOOLEAN]
        /\ staging \in [Windows -> Session \cup {Absent}]
        /\ pending \in [Pendings -> Session \cup {Absent}]
        /\ lock \in [Pendings -> Windows \cup {None}] /\ asked \in [Pendings -> Nat]
    BY <1>1 DEF Windowed
  <2> QED BY <1>1, <1>3, <1>4, <1>5, <2>1, <2>2, <2>3 DEF TypeOK, Threads, Windowed
<1>7. Pages
  BY <1>1 DEF Pages, Running, Idle
<1>8. Files
  BY <1>1 DEF Files
<1>9. \A w \in Windows : ThreadSound(w)
  BY <1>1 DEF ThreadSound, Idle, Handshaking, NativeSteps
<1>10. AskedOnce /\ LocksReleased
  BY <1>1 DEF AskedOnce, LocksReleased
<1> QED BY <1>1, <1>6, <1>7, <1>8, <1>9, <1>10 DEF IInv

\* The only step that asks LINE for tokens is the reply to a request under the
\* lock of a directory that is not retired.
LEMMA RetiredSilentStep ==
  ASSUME IInv, [Next]_vars
  PROVE  \A p \in Pendings : asked'[p] > asked[p] => p \notin retired
<1> SUFFICES ASSUME NEW p \in Pendings, asked'[p] > asked[p] PROVE p \notin retired
  OBVIOUS
<1>1. asked \in [Pendings -> Nat] /\ asked' # asked
  BY DEF IInv, TypeOK
<1>2. ASSUME NEW w \in Windows, TokenReply(w) PROVE p \notin retired
  <2>1. thread[w].pc = "wire" /\ thread[w].dir \notin retired /\ thread[w].dir \in Pendings
    BY <1>2 DEF TokenReply, IInv, ThreadSound, Handshaking, NativeSteps
  <2>2. asked' = [asked EXCEPT ![thread[w].dir] = @ + 1]
    BY <1>1, <1>2 DEF TokenReply, net
  <2> QED BY <1>1, <2>1, <2>2
<1>3. ASSUME NEW w \in Windows, ThreadStep(w), ~TokenReply(w) PROVE FALSE
  BY <1>1, <1>3 DEF ThreadStep, Attempt, NativeCheck, NativeLock, ReadAttempt, Handshake, MarkStarted,
     SendRequest, SaveReply, SaveResult, Unwrap, RecoverKeys, Stage, ChromeScan, ChromeIssue,
     ChromeProfile, ChromeStep, net
<1>4. ASSUME NEW w \in Windows, MainStep(w) PROVE FALSE
  BY <1>1, <1>4 DEF MainStep, FinishFailed, HandoverRejected, Activate, RetireConsumed, net
<1>5. ASSUME NEW w \in Windows, UserStep(w) PROVE FALSE
  BY <1>1, <1>5 DEF UserStep, OpenWindow, BeginLogin, PrepareFails, Retry, StartNewQR, GoBack,
     CloseWindow, net
<1>6. ASSUME Crash \/ (\E a \in Accounts : LogOut(a) \/ OpenAccount(a)) \/ UNCHANGED vars
      PROVE  FALSE
  BY <1>1, <1>6 DEF Crash, LogOut, OpenAccount, vars, net
<1> QED BY <1>2, <1>3, <1>4, <1>5, <1>6 DEF Next

-----------------------------------------------------------------------------
(* The second inductive invariant: what logins, tokens and attempts have   *)
(* to do with each other.  A session file is some login; the directory it  *)
(* was saved in, the window it is staged for and the account it is active  *)
(* for agree on which, and on the token it came with.                      *)

Open(w) == window[w].page # "closed"
ChromeSteps == {"scan", "issue", "profile"}

\* The thread has ended with a login to hand over.
Done(w) == thread[w].pc = "finish" /\ thread[w].ok

\* The window still has its login before it.
Ahead(w) == window[w].page \in {"client", "login", "recovery"} /\ ~Done(w)

\* Its native login has not been copied into staging yet.
Begun(w) == staging[w] # Absent /\ staging[w].client = "native" /\ Ahead(w)

\* It has a login to activate, or has just activated it.
Ready(w) == window[w].page = "login" /\ Done(w)
Installed(w) == window[w].page = "activated"

AllSessions ==
    ({staging[w] : w \in Windows} \cup {pending[p] : p \in Pendings}
        \cup {active[a] : a \in Accounts}) \ {Absent}

\* Login ids grow, and a login keeps the client of the login it replaces.
Lineage ==
    /\ \A s \in AllSessions : s.login <= logins /\ (s.expected # None => s.baseline < s.login)
    /\ \A s, t \in AllSessions :
         s.login = t.login \/ (s.expected # None /\ s.baseline = t.login) => s.client = t.client

\* What a durable directory says of its token request.
AttemptSound(p) ==
    LET s == pending[p] IN
    s # Absent =>
        /\ s.client = "native"
        /\ s.raw # 0 => s.started
        /\ s.token \in {0, s.raw} /\ (s.mid => s.token # 0)

\* An active login and the attempt it came from agree; a login has one attempt
\* in use.
ActiveSound(a) ==
    LET s == active[a] IN
    s # Absent =>
        /\ s.source # None => pending[s.source] # Absent /\ pending[s.source].login = s.login
        /\ \A p \in Pendings \ retired :
             pending[p] # Absent /\ pending[p].login = s.login
                 => pending[p].raw # 0 /\ pending[p].raw = s.token

OneAttempt ==
    \A p, q \in Pendings \ retired :
        pending[p] # Absent /\ pending[q] # Absent /\ pending[p].login = pending[q].login => p = q

\* s replaces the login with its baseline: every attempt at that login in use
\* has its token, and no window is still before it.
Follows(s) ==
    s.expected # None =>
        /\ \A q \in Pendings \ retired :
             pending[q] # Absent /\ pending[q].login = s.baseline => pending[q].raw # 0
        /\ \A w \in Windows : Begun(w) => staging[w].login # s.baseline

\* ... and token k was issued after the baseline's.
After(s, k) ==
    s.expected # None =>
        /\ \A a \in Accounts : active[a] # Absent /\ active[a].login = s.baseline
               => active[a].token < k
        /\ \A q \in Pendings \ retired :
             pending[q] # Absent /\ pending[q].login = s.baseline => pending[q].raw < k

Ordered ==
    /\ \A p \in Pendings : pending[p] # Absent =>
         Follows(pending[p]) /\ (pending[p].raw # 0 => After(pending[p], pending[p].raw))
    /\ \A w \in Windows : staging[w] # Absent => Follows(staging[w])

\* What a thread's step says of its directory and of its window's staging file.
ThreadBound(w) ==
    LET t == thread[w]
        s == pending[t.dir]
    IN
    /\ t.pc \in {"qr", "start", "call", "wire", "raw"} => s.raw = 0
    /\ t.pc \in {"unwrap", "recover", "stage"} => s.token # 0
    /\ t.pc = "raw" => s.started /\ After(s, t.reply)
    /\ staging[w] # Absent /\ t.pc \in NativeSteps =>
         staging[w].client = "native" /\ staging[w].source = t.dir
    /\ staging[w] # Absent /\ t.pc \in ChromeSteps => staging[w].client = "chrome"
    /\ Open(w) /\ t.pc = "profile" =>
         \A a \in Accounts : active[a] # Absent => active[a].token <= t.reply

\* A login nobody has tokens for yet.
Unused(s) ==
    /\ s.raw = 0 /\ s.token = 0
    /\ \A a \in Accounts : active[a] # Absent => active[a].login # s.login
    /\ \A p \in Pendings \ retired : pending[p] # Absent /\ pending[p].login = s.login
           => p = s.source

\* A native login to hand over is the copy of an attempt that is finished.
Copied(s) ==
    LET q == pending[s.source] IN
    s.source # None /\ s.token = q.raw /\ q.token # 0 /\ s.login = q.login

StagingSound(w) ==
    LET s == staging[w] IN
    s # Absent =>
        /\ Open(w)
        /\ s.client = "chrome" => s.source = None
        /\ s.source # None /\ s.expected # None => pending[s.source].baseline = s.baseline
        /\ s.source # None => pending[s.source].expected = s.expected
        /\ s.expected # None /\ window[w].page \in {"client", "login", "recovery"} =>
             active[s.expected] = Absent \/ active[s.expected].login = s.baseline
        /\ s.client = "native" /\ Ahead(w) => ~s.mid
        /\ Begun(w) => Unused(s)
        /\ s.client = "native" /\ (Ready(w) \/ Installed(w)) => Copied(s)
        /\ s.client = "native" /\ Ready(w) => s.source \notin retired
        /\ s.client = "native" /\ Installed(w) => s.token \notin handed
        /\ s.client = "chrome" /\ s.mid /\ window[w].page \in {"client", "login", "recovery"} =>
             /\ s.token \notin consumed
             /\ \A a \in Accounts : active[a] # Absent => active[a].token <= s.token

OneWindow == \A v, w \in Windows : Open(v) /\ Open(w) => v = w

Replying(w) == thread[w].pc \in {"raw", "profile"}

\* No token is in two places before it has been some account's.
Distinct ==
    /\ \A p, q \in Pendings : pending[p] # Absent /\ pending[q] # Absent
           /\ pending[p].raw # 0 /\ pending[p].raw = pending[q].raw => p = q
    /\ \A w \in Windows : Replying(w) =>
         /\ thread[w].reply \notin consumed
         /\ \A p \in Pendings : pending[p] # Absent => pending[p].raw # thread[w].reply
         /\ \A v \in Windows : Replying(v) /\ thread[v].reply = thread[w].reply => v = w
    /\ \A w \in Windows : staging[w] # Absent /\ staging[w].client = "chrome"
                              /\ staging[w].token # 0 =>
         /\ \A p \in Pendings : pending[p] # Absent => pending[p].raw # staging[w].token
         /\ \A v \in Windows : Replying(v) => thread[v].reply # staging[w].token

\* Without exits and failed writes only the window that has just activated an
\* attempt has not retired it yet, unless the attempt was locked when it tried.
SpentRetired ==
    crashes = 0 /\ faults = 0 =>
        \A p \in Pendings \ retired : pending[p] # Absent /\ pending[p].raw \in consumed \ unretired =>
            \E w \in Windows : Installed(w) /\ staging[w].source = p

JInv ==
    /\ Lineage /\ OneAttempt /\ Ordered /\ OneWindow /\ Distinct /\ SpentRetired
    /\ \A p \in Pendings : AttemptSound(p)
    /\ \A a \in Accounts : ActiveSound(a)
    /\ \A w \in Windows : ThreadBound(w) /\ StagingSound(w)
    /\ KeptForRecovery

-----------------------------------------------------------------------------
(* Sessions again, with only the types that the second invariant needs.    *)

ThreadShapes ==
    [pc : {"idle", "attempt", "check", "lock", "locked", "qr", "start", "call", "wire", "raw", "result",
           "unwrap", "recover", "stage", "scan", "issue", "profile", "finish"},
     dir : Pendings \cup {None}, ok : BOOLEAN, reply : Nat]

Shape ==
    /\ window \in [Windows -> Windowed] /\ thread \in [Windows -> ThreadShapes]
    /\ staging \in [Windows -> Sessions \cup {Absent}]
    /\ pending \in [Pendings -> Sessions \cup {Absent}]
    /\ active \in [Accounts -> Sessions \cup {Absent}]
    /\ retired \subseteq Pendings /\ lock \in [Pendings -> Windows \cup {None}]
    /\ logins \in Nat /\ crashes \in Nat /\ faults \in Nat
    /\ consumed \subseteq Nat \ {0} /\ handed \subseteq Nat \ {0}

LEMMA ShapeHolds == IInv => Shape
<1> SUFFICES ASSUME IInv PROVE Shape
  OBVIOUS
<1>1. TypeOK /\ setup \in Setups /\ issued \in Seq(Accounts) /\ Len(issued) \in Nat
  BY DEF IInv, TypeOK
<1>2. setup.logins \in Nat /\ setup.crashes \in Nat /\ setup.faults \in Nat
  BY <1>1, SetupFacts
<1>3. Session \subseteq Sessions
  BY <1>1, <1>2 DEF Session, Sessions
<1>4. Threads \subseteq ThreadShapes
  BY <1>1 DEF Threads, ThreadShapes
<1>5. /\ staging \in [Windows -> Sessions \cup {Absent}]
      /\ pending \in [Pendings -> Sessions \cup {Absent}]
      /\ active \in [Accounts -> Sessions \cup {Absent}]
  BY <1>1, <1>3 DEF TypeOK
<1>6. thread \in [Windows -> ThreadShapes]
  BY <1>1, <1>4 DEF TypeOK, Threads
<1>7. logins \in Nat /\ crashes \in Nat /\ faults \in Nat
  BY <1>1, <1>2 DEF TypeOK
<1>8. consumed \subseteq Nat \ {0} /\ handed \subseteq Nat \ {0}
  BY <1>1 DEF TypeOK
<1> QED BY <1>1, <1>5, <1>6, <1>7, <1>8 DEF Shape, TypeOK, Windowed

\* The parts of a session that say which login it is.
SameLogin(s, t) ==
    s.client = t.client /\ s.login = t.login /\ s.expected = t.expected /\ s.baseline = t.baseline

\* No file is another login than some file was before.
LEMMA LineageKept ==
  ASSUME Lineage, logins' >= logins, logins \in Nat, logins' \in Nat, Shape,
         \A s \in AllSessions' : \E t \in AllSessions : SameLogin(s, t)
  PROVE  Lineage'
<1>1. \A t \in AllSessions : t.login \in Nat
  BY DEF AllSessions, Shape, Sessions
<1>2. ASSUME NEW s \in AllSessions'
      PROVE  s.login <= logins' /\ (s.expected # None => s.baseline < s.login)
  <2>1. PICK t \in AllSessions : SameLogin(s, t)
    OBVIOUS
  <2> QED BY <1>1, <2>1 DEF Lineage, SameLogin
<1>3. ASSUME NEW s \in AllSessions', NEW t \in AllSessions',
             s.login = t.login \/ (s.expected # None /\ s.baseline = t.login)
      PROVE  s.client = t.client
  <2>1. PICK s0 \in AllSessions, t0 \in AllSessions : SameLogin(s, s0) /\ SameLogin(t, t0)
    OBVIOUS
  <2> QED BY <1>3, <2>1 DEF Lineage, SameLogin
<1> QED BY <1>2, <1>3 DEF Lineage

-----------------------------------------------------------------------------
(* Steps of a login thread that change its durable directory only.         *)

\* Token k is on no file and in no other thread's hands.
FreshToken(w, k) ==
    /\ k \notin consumed
    /\ \A p \in Pendings : pending[p] # Absent => pending[p].raw # k
    /\ \A v \in Windows : v # w /\ Replying(v) => thread[v].reply # k
    /\ \A v \in Windows : staging[v] # Absent => staging[v].token # k

\* Directories keep their logins; a reply is saved only by the thread that has it.
AttemptsKept(w) ==
    \A q \in Pendings :
        /\ pending'[q] = Absent <=> pending[q] = Absent
        /\ pending[q] # Absent =>
             /\ SameLogin(pending'[q], pending[q])
             /\ pending[q].token # 0 => pending'[q].token # 0
             /\ pending[q].started => pending'[q].started
             /\ \/ pending'[q].raw = pending[q].raw
                \/ thread[w].pc = "raw" /\ thread[w].dir = q /\ pending'[q].raw = thread[w].reply

ThreadOnly(w, t) ==
    /\ thread' = [thread EXCEPT ![w] = t]
    /\ UNCHANGED <<window, staging, retired, active, consumed, handed, logins, crashes, unretired>>
    /\ faults' >= faults
    /\ AttemptsKept(w)

\* ... and what it then holds for itself.
ThreadAllowed(w, t) ==
    /\ thread[w].pc # "finish" /\ ~(t.pc = "finish" /\ t.ok)
    /\ t.pc \in {"raw", "profile"} => thread[w].pc # "raw" /\ FreshToken(w, t.reply)
    /\ ThreadBound(w)'
    /\ \A q \in Pendings : AttemptSound(q)'

LEMMA ThreadMove ==
  ASSUME IInv, IInv', JInv, NEW w \in Windows, NEW t, ThreadOnly(w, t), ThreadAllowed(w, t)
  PROVE  JInv'
<1>1. Shape /\ Shape'
  BY ShapeHolds, PTL
<1>2. /\ UNCHANGED <<window, staging, retired, active, consumed, handed, logins, crashes, unretired>>
      /\ \A v \in Windows : thread'[v] = IF v = w THEN t ELSE thread[v]
      /\ faults' >= faults
  BY <1>1 DEF ThreadOnly, Shape
<1>3. \A q \in Pendings :
        /\ pending'[q] = Absent <=> pending[q] = Absent
        /\ pending[q] # Absent =>
             /\ SameLogin(pending'[q], pending[q])
             /\ pending[q].token # 0 => pending'[q].token # 0
             /\ \/ pending'[q].raw = pending[q].raw
                \/ /\ thread[w].pc = "raw" /\ thread[w].dir = q /\ Replying(w)
                   /\ pending[q].raw = 0 /\ pending'[q].raw = thread[w].reply
                   /\ lock[q] = w /\ q \notin retired /\ thread[w].reply # 0
  BY DEF ThreadOnly, AttemptsKept, JInv, ThreadBound, Replying, IInv, ThreadSound, Handshaking
<1>4. \A v \in Windows : /\ Open(v)' <=> Open(v)
                         /\ Done(v)' <=> Done(v)
                         /\ Ahead(v)' <=> Ahead(v)
                         /\ Begun(v)' <=> Begun(v)
                         /\ Ready(v)' <=> Ready(v)
                         /\ Installed(v)' <=> Installed(v)
  BY <1>2 DEF ThreadAllowed, Open, Done, Ahead, Begun, Ready, Installed
<1>5. Lineage'
  <2>1. ASSUME NEW s \in AllSessions' PROVE \E x \in AllSessions : SameLogin(s, x)
    BY <1>2, <1>3 DEF AllSessions, SameLogin
  <2> QED BY <1>1, <1>2, <2>1, LineageKept DEF JInv, Shape
<1>6. OneAttempt' /\ OneWindow'
  BY <1>2, <1>3, <1>4 DEF JInv, OneAttempt, OneWindow, SameLogin
<1>7. ASSUME NEW s, NEW s0, SameLogin(s, s0), Follows(s0)
      PROVE  Follows(s)'
  <2>1. \A q \in Pendings : pending'[q] # Absent /\ pending[q].raw # 0 => pending'[q].raw # 0
    BY <1>3
  <2> QED BY <1>2, <1>3, <1>4, <1>7, <2>1 DEF Follows, SameLogin
<1>8. ASSUME NEW s, NEW s0, NEW k, SameLogin(s, s0), Follows(s0), After(s0, k)
      PROVE  After(s, k)'
  BY <1>2, <1>3, <1>8 DEF Follows, After, SameLogin
<1>9. Ordered'
  <2>1. ASSUME NEW p \in Pendings, pending'[p] # Absent
        PROVE  Follows(pending[p])' /\ (pending'[p].raw # 0 => After(pending[p], pending[p].raw)')
    <3>1. /\ SameLogin(pending'[p], pending[p]) /\ Follows(pending[p])
          /\ pending[p].raw # 0 => After(pending[p], pending[p].raw)
      BY <1>3, <2>1 DEF JInv, Ordered
    <3>2. Follows(pending[p])'
      BY <1>7, <3>1
    <3>3. CASE pending'[p].raw = pending[p].raw
      BY <1>8, <3>1, <3>2, <3>3
    <3>4. CASE /\ thread[w].pc = "raw" /\ thread[w].dir = p
               /\ pending'[p].raw = thread[w].reply
      <4>1. After(pending[p], thread[w].reply)
        BY <3>4 DEF JInv, ThreadBound
      <4> QED BY <1>8, <3>1, <3>2, <3>4, <4>1
    <3> QED BY <1>3, <2>1, <3>3, <3>4
  <2>2. ASSUME NEW v \in Windows, staging'[v] # Absent PROVE Follows(staging[v])'
    <3>1. staging'[v] = staging[v] /\ Follows(staging[v])
      BY <1>2, <2>2 DEF JInv, Ordered
    <3> QED BY <1>7, <3>1 DEF SameLogin
  <2> QED BY <2>1, <2>2 DEF Ordered
<1>10. Distinct'
  <2>1. ASSUME NEW p \in Pendings, NEW q \in Pendings, pending'[p] # Absent, pending'[q] # Absent,
               pending'[p].raw # 0, pending'[p].raw = pending'[q].raw
        PROVE  p = q
    BY <1>3, <2>1 DEF JInv, Distinct
  <2>2. ASSUME NEW v \in Windows, Replying(v)'
        PROVE  /\ thread'[v].reply \notin consumed'
               /\ \A p \in Pendings : pending'[p] # Absent => pending'[p].raw # thread'[v].reply
               /\ \A u \in Windows : Replying(u)' /\ thread'[u].reply = thread'[v].reply => u = v
    <3>1. \A u \in Windows : u # w => thread'[u] = thread[u] /\ (Replying(u)' <=> Replying(u))
      BY <1>2 DEF Replying
    <3>2. CASE v # w
      <4>1. Replying(v) /\ thread'[v] = thread[v]
        BY <2>2, <3>1, <3>2
      <4>2. Replying(w)' => t.reply # thread[v].reply
        BY <1>2, <3>2, <4>1 DEF ThreadAllowed, FreshToken, Replying
      <4> QED BY <1>2, <1>3, <3>1, <3>2, <4>1, <4>2 DEF JInv, Distinct
    <3>3. CASE v = w
      <4>1. thread'[v] = t /\ thread[w].pc # "raw" /\ FreshToken(w, t.reply)
        BY <1>2, <2>2, <3>3 DEF ThreadAllowed, Replying
      <4> QED BY <1>2, <1>3, <3>1, <3>3, <4>1 DEF FreshToken
    <3> QED BY <3>2, <3>3
  <2>3. ASSUME NEW v \in Windows, staging'[v] # Absent, staging'[v].client = "chrome",
               staging'[v].token # 0
        PROVE  /\ \A p \in Pendings : pending'[p] # Absent => pending'[p].raw # staging'[v].token
               /\ \A u \in Windows : Replying(u)' => thread'[u].reply # staging'[v].token
    <3>1. /\ \A p \in Pendings : pending[p] # Absent => pending[p].raw # staging[v].token
          /\ \A u \in Windows : Replying(u) => thread[u].reply # staging[v].token
          /\ staging'[v] = staging[v]
      BY <1>2, <2>3 DEF JInv, Distinct
    <3>2. \A p \in Pendings : pending'[p] # Absent => pending'[p].raw # staging'[v].token
      BY <1>3, <3>1
    <3>3. ASSUME NEW u \in Windows, Replying(u)' PROVE thread'[u].reply # staging'[v].token
      BY <1>2, <2>3, <3>1, <3>3 DEF Replying, ThreadAllowed, FreshToken
    <3> QED BY <3>2, <3>3
  <2> QED BY <2>1, <2>2, <2>3 DEF Distinct
<1>11. SpentRetired'
  <2> SUFFICES ASSUME crashes' = 0, faults' = 0, NEW p \in Pendings \ retired', pending'[p] # Absent,
                      pending'[p].raw \in consumed' \ unretired'
               PROVE  \E v \in Windows : Installed(v)' /\ staging'[v].source = p
    BY DEF SpentRetired
  <2>1. crashes = 0 /\ faults = 0
    BY <1>1, <1>2 DEF Shape
  <2>2. pending[p] # Absent /\ pending[p].raw \in consumed \ unretired /\ p \in Pendings \ retired
    BY <1>2, <1>3 DEF JInv, Distinct
  <2> QED BY <1>2, <1>4, <2>1, <2>2 DEF JInv, SpentRetired
<1>12. ASSUME NEW a \in Accounts PROVE ActiveSound(a)'
  BY <1>1, <1>2, <1>3 DEF JInv, ActiveSound, SameLogin, Shape, Sessions
<1>13. ASSUME NEW v \in Windows PROVE ThreadBound(v)'
  <2>1. CASE v = w
    BY <2>1 DEF ThreadAllowed
  <2>2. CASE v # w
    <3>1. thread'[v] = thread[v] /\ ThreadBound(v) /\ ThreadSound(v)
      BY <1>2, <2>2 DEF JInv, IInv
    <3> DEFINE d == thread[v].dir
    <3>2. thread[v].pc \in NativeSteps => d \in Pendings /\ pending[d] # Absent
      BY <3>1 DEF ThreadSound
    <3>3. thread[v].pc \in Handshaking => pending'[d].raw = pending[d].raw
      BY <1>3, <2>2, <3>1, <3>2 DEF ThreadSound, Handshaking, NativeSteps
    <3>4. thread'[v].pc = "raw" => After(pending[thread[v].dir], thread[v].reply)'
      <4> SUFFICES ASSUME thread[v].pc = "raw"
                   PROVE  After(pending[thread[v].dir], thread[v].reply)'
        BY <3>1
      <4>1. SameLogin(pending'[d], pending[d]) /\ Follows(pending[d])
            /\ After(pending[d], thread[v].reply)
        BY <1>3, <3>1, <3>2 DEF JInv, Ordered, ThreadBound, NativeSteps, Handshaking
      <4> PICK s : s = pending'[d]
        OBVIOUS
      <4> PICK k : k = thread[v].reply
        OBVIOUS
      <4>2. After(s, k)'
        BY <1>8, <4>1
      <4> QED BY <3>1, <4>2 DEF After
    <3>5. /\ thread[v].pc \in {"unwrap", "recover", "stage"} => pending'[d].token # 0
          /\ thread[v].pc = "raw" => pending'[d].started
      BY <1>3, <3>1, <3>2 DEF ThreadBound, ThreadOnly, AttemptsKept, NativeSteps, Handshaking
    <3> QED BY <1>2, <1>4, <3>1, <3>3, <3>4, <3>5 DEF ThreadBound, Handshaking
  <2> QED BY <2>1, <2>2
<1>14. ASSUME NEW v \in Windows PROVE StagingSound(v)'
  <2> DEFINE s == staging[v]
  <2> SUFFICES ASSUME staging[v] # Absent PROVE StagingSound(v)'
    BY <1>2 DEF StagingSound
  <2>1. StagingSound(v) /\ staging'[v] = s /\ window'[v] = window[v]
    BY <1>2 DEF JInv
  <2>2. s.source # None => s.source \in Pendings /\ pending[s.source] # Absent
    BY <1>1 DEF IInv, Files, Sound, Shape, Sessions
  <2>3. s.source # None => SameLogin(pending'[s.source], pending[s.source])
    BY <1>3, <2>2
  <2>4. Begun(v)' => Unused(staging[v])'
    BY <1>2, <1>3, <1>4, <2>1 DEF StagingSound, Unused, SameLogin
  <2>5. s.client = "native" /\ (Ready(v)' \/ Installed(v)') => Copied(staging[v])'
    <3> SUFFICES ASSUME s.client = "native", Ready(v) \/ Installed(v)
                 PROVE  Copied(staging[v])'
      BY <1>4
    <3>1. Copied(s)
      BY <2>1 DEF StagingSound
    <3>2. pending[s.source].raw # 0
      BY <2>2, <3>1 DEF Copied, JInv, AttemptSound
    <3>3. pending'[s.source].raw = pending[s.source].raw /\ pending'[s.source].token # 0
      BY <1>3, <2>2, <3>1, <3>2 DEF Copied
    <3> QED BY <2>1, <2>3, <3>1, <3>3 DEF Copied, SameLogin
  <2>6. /\ s.source # None /\ s.expected # None => pending'[s.source].baseline = s.baseline
        /\ s.source # None => pending'[s.source].expected = s.expected
    BY <2>1, <2>3 DEF StagingSound, SameLogin
  <2> QED BY <1>2, <1>4, <2>1, <2>4, <2>5, <2>6 DEF StagingSound
<1>15. KeptForRecovery'
  BY <1>1, <1>2, <1>3 DEF JInv, KeptForRecovery, Shape
<1> QED BY <1>5, <1>6, <1>9, <1>10, <1>11, <1>12, <1>13, <1>14, <1>15 DEF JInv, ThreadAllowed

\* The thread writes session s to its directory, ...
Written(w, s) ==
    LET old == pending[thread[w].dir] IN
    /\ s # Absent /\ SameLogin(s, old)
    /\ old.token # 0 => s.token # 0
    /\ old.started => s.started
    /\ s.raw = old.raw \/ (thread[w].pc = "raw" /\ s.raw = thread[w].reply)
    /\ s.raw # 0 => s.started
    /\ s.token \in {0, s.raw} /\ (s.mid => s.token # 0)
    /\ pending' = [pending EXCEPT ![thread[w].dir] = s]

\* ... leaves its lock with h and comes to t.
Moved(w, t, s, h) ==
    /\ thread' = [thread EXCEPT ![w] = t] /\ t.dir = thread[w].dir
    /\ lock' = [lock EXCEPT ![thread[w].dir] = h]
    /\ t.pc \notin ChromeSteps /\ ~(t.pc = "finish" /\ t.ok)
    /\ t.pc \in {"qr", "start", "call", "wire", "raw"} => s.raw = 0
    /\ t.pc \in {"unwrap", "recover", "stage"} => s.token # 0
    /\ t.pc = "raw" => /\ thread[w].pc # "raw" /\ s.started /\ FreshToken(w, t.reply)
                       /\ \A a \in Accounts : active[a] # Absent => active[a].token < t.reply
                       /\ \A q \in Pendings : pending[q] # Absent => pending[q].raw < t.reply

LEMMA NativeMove ==
  ASSUME IInv, IInv', JInv, NEW w \in Windows, thread[w].pc \in NativeSteps, LockedStep,
         faults' >= faults, NEW t, NEW s, NEW h, Written(w, s), Moved(w, t, s, h)
  PROVE  JInv'
<1> DEFINE p == thread[w].dir
<1>1. Shape /\ Shape'
  BY ShapeHolds, PTL
<1>2. p \in Pendings /\ pending[p] # Absent /\ ThreadBound(w) /\ AttemptSound(p)
  BY DEF IInv, ThreadSound, JInv
<1>3. /\ \A q \in Pendings : pending'[q] = IF q = p THEN s ELSE pending[q]
      /\ \A q \in Pendings : lock'[q] = IF q = p THEN h ELSE lock[q]
      /\ thread'[w] = t
  BY <1>1 DEF Shape, Written, Moved
<1>4. UNCHANGED <<window, staging, retired, active, consumed, handed, logins, crashes, unretired>>
  BY DEF LockedStep, life
<1>5. AttemptsKept(w)
  BY <1>2, <1>3 DEF AttemptsKept, Written, SameLogin
<1>6. ThreadOnly(w, t)
  BY <1>2, <1>3, <1>4, <1>5 DEF ThreadOnly, Moved
<1>7. \A q \in Pendings : AttemptSound(q)'
  BY <1>2, <1>3 DEF JInv, AttemptSound, Written, SameLogin
<1>8. t.pc = "raw" => After(s, t.reply)'
  <2> SUFFICES ASSUME t.pc = "raw" PROVE After(s, t.reply)'
    OBVIOUS
  <2>1. s.raw = 0 /\ t.reply > 0
    <3>1. t \in ThreadShapes /\ pending[p] \in Sessions
      BY <1>1, <1>2, <1>3 DEF Shape
    <3>2. t.reply \in Nat /\ pending[p].raw \in Nat
      BY <3>1 DEF ThreadShapes, Sessions
    <3> QED BY <1>2, <3>2 DEF Moved
  <2> QED BY <1>3, <1>4, <2>1 DEF After, Moved
<1>9. ThreadBound(w)'
  <2>1. t.dir = p /\ pending'[p] = s /\ lock'[p] = h
    BY <1>2, <1>3 DEF Moved
  <2>2. t.pc = "raw" => After(pending[thread[w].dir], thread[w].reply)'
    BY <1>3, <1>8, <2>1 DEF After
  <2> QED BY <1>2, <1>3, <1>4, <2>1, <2>2 DEF ThreadBound, Moved, ChromeSteps
<1>10. ThreadAllowed(w, t)
  BY <1>7, <1>9 DEF ThreadAllowed, Moved, ChromeSteps, NativeSteps, Handshaking
<1> QED BY <1>6, <1>10, ThreadMove

LEMMA LeaveJ ==
  ASSUME IInv, IInv', JInv, NEW w \in Windows, thread[w].pc \in NativeSteps, LockedStep,
         faults' >= faults, NEW s, Written(w, s), NEW ok \in BOOLEAN, Leave(w, ok),
         ok => s.token # 0
  PROVE  JInv'
<1> DEFINE t == IF ok THEN [thread[w] EXCEPT !.pc = "recover"]
                ELSE [thread[w] EXCEPT !.pc = "finish", !.ok = FALSE]
<1>1. Shape
  BY ShapeHolds
<1>2. thread' = [thread EXCEPT ![w] = t]
  BY ZenonT(30) DEF Leave, Goto, Finish
<1>3. /\ t.dir = thread[w].dir /\ t.pc \in {"recover", "finish"}
      /\ t.pc = "finish" => ~t.ok
      /\ t.pc = "recover" => ok
  BY <1>1 DEF Shape, ThreadShapes
<1> HIDE DEF t
<1>4. Moved(w, t, s, None)
  BY <1>2, <1>3 DEF Moved, Leave, ChromeSteps
<1> QED BY <1>4, NativeMove

\* The thread goes on, with the lock as it was.
LEMMA GotoJ ==
  ASSUME IInv, IInv', JInv, NEW w \in Windows, thread[w].pc \in NativeSteps, LockedStep,
         faults' >= faults, NEW s, Written(w, s),
         NEW pc \in NativeSteps \ {"raw"}, Goto(w, pc), UNCHANGED lock,
         pc \in {"qr", "start", "call", "wire"} => s.raw = 0,
         pc \in {"unwrap", "recover", "stage"} => s.token # 0
  PROVE  JInv'
<1> DEFINE t == [thread[w] EXCEPT !.pc = pc]
           p == thread[w].dir
<1>1. Shape /\ p \in Pendings
  BY ShapeHolds DEF IInv, ThreadSound
<1>2. thread' = [thread EXCEPT ![w] = t] /\ lock' = [lock EXCEPT ![p] = lock[p]]
  BY <1>1 DEF Goto, Shape
<1>3. t.dir = thread[w].dir /\ t.pc = pc
  BY <1>1 DEF Shape, ThreadShapes
<1> HIDE DEF t
<1>4. Moved(w, t, s, lock[p])
  BY <1>2, <1>3 DEF Moved, ChromeSteps, NativeSteps, Handshaking
<1> QED BY <1>4, NativeMove

\* What a native thread finds in its directory.
LEMMA NativeFacts ==
  ASSUME IInv, JInv, NEW w \in Windows, thread[w].pc \in NativeSteps
  PROVE  LET p == thread[w].dir
             s == pending[p]
         IN  /\ p \in Pendings /\ s # Absent /\ s \in Sessions /\ AttemptSound(p)
             /\ ThreadBound(w) /\ ThreadSound(w) /\ Shape
             /\ UNCHANGED pending => pending' = [pending EXCEPT ![p] = s] /\ Written(w, s)
<1> DEFINE p == thread[w].dir
           s == pending[p]
<1>1. Shape /\ ThreadSound(w) /\ ThreadBound(w)
  BY ShapeHolds DEF IInv, JInv
<1>2. p \in Pendings /\ s # Absent
  BY <1>1 DEF ThreadSound
<1>3. s \in Sessions /\ AttemptSound(p)
  BY <1>1, <1>2 DEF Shape, JInv
<1>4. UNCHANGED pending => pending' = [pending EXCEPT ![p] = s]
  BY <1>1, <1>2 DEF Shape
<1> QED BY <1>1, <1>2, <1>3, <1>4 DEF Written, SameLogin, AttemptSound

LEMMA FaultsGrow ==
  ASSUME Shape, UNCHANGED faults \/ WriteFaults
  PROVE  faults' >= faults
BY DEF Shape, WriteFaults

\* Leaving without having written.
LEMMA GiveUpJ ==
  ASSUME IInv, IInv', JInv, NEW w \in Windows, thread[w].pc \in NativeSteps, LockedStep,
         UNCHANGED pending, UNCHANGED faults \/ WriteFaults, Leave(w, FALSE)
  PROVE  JInv'
<1>1. Written(w, pending[thread[w].dir]) /\ faults' >= faults
  BY NativeFacts, FaultsGrow
<1> QED BY <1>1, LeaveJ

\* A save that may fail, with what follows it given.
LEMMA SaveOrJ ==
  ASSUME IInv, IInv', JInv, NEW w \in Windows, thread[w].pc \in NativeSteps, LockedStep,
         NEW s, Save(thread[w].dir, s) => Written(w, s), NEW next, SaveOr(w, s, next),
         next /\ Save(thread[w].dir, s) /\ UNCHANGED faults => JInv'
  PROVE  JInv'
<1>1. CASE WriteFaults /\ Save(thread[w].dir, s) /\ Leave(w, FALSE)
  <2>1. faults' >= faults
    BY <1>1, ShapeHolds, FaultsGrow
  <2> QED BY <1>1, <2>1, LeaveJ
<1>2. CASE WriteFaults /\ UNCHANGED pending /\ Leave(w, FALSE)
  BY <1>2, GiveUpJ
<1> QED BY <1>1, <1>2, Zenon DEF SaveOr

\* The thread ends without a login, with no lock or with the lock as it is.
LEMMA FinishJ ==
  ASSUME IInv, IInv', JInv, NEW w \in Windows, thread[w].pc \in NativeSteps, LockedStep,
         UNCHANGED <<pending, lock>>, UNCHANGED faults \/ WriteFaults, Finish(w, FALSE)
  PROVE  JInv'
<1> DEFINE t == [thread[w] EXCEPT !.pc = "finish", !.ok = FALSE]
           p == thread[w].dir
<1>1. Shape /\ p \in Pendings /\ Written(w, pending[p]) /\ faults' >= faults
  BY NativeFacts, FaultsGrow
<1>2. thread' = [thread EXCEPT ![w] = t]
  BY ZenonT(30) DEF Finish
<1>3. lock' = [lock EXCEPT ![p] = lock[p]]
  BY <1>1 DEF Shape
<1>4. t.dir = thread[w].dir /\ t.pc = "finish" /\ ~t.ok
  BY <1>1 DEF Shape, ThreadShapes
<1> HIDE DEF t
<1>5. Moved(w, t, pending[p], lock[p])
  BY <1>2, <1>3, <1>4 DEF Moved, ChromeSteps
<1> QED BY <1>1, <1>5, NativeMove

\* Every save of the handshake keeps the login and the tokens it has.
LEMMA WrittenFields ==
  ASSUME IInv, JInv, NEW w \in Windows, thread[w].pc \in NativeSteps
  PROVE  LET s == pending[thread[w].dir] IN
         /\ \A q \in {"none", "shown", "scanned", "verified"} :
              Save(thread[w].dir, [s EXCEPT !.qr = q]) => Written(w, [s EXCEPT !.qr = q])
         /\ Save(thread[w].dir, [s EXCEPT !.started = TRUE]) => Written(w, [s EXCEPT !.started = TRUE])
         /\ Save(thread[w].dir, UnwrapAndStore(s)) => Written(w, UnwrapAndStore(s))
         /\ s.raw # 0 /\ Save(thread[w].dir, [s EXCEPT !.token = s.raw, !.mid = TRUE])
              => Written(w, [s EXCEPT !.token = s.raw, !.mid = TRUE])
         /\ (s.started /\ s.token = 0 /\ ~s.mid /\ thread[w].pc = "raw" /\ thread[w].reply \in Nat
               /\ Save(thread[w].dir, [s EXCEPT !.raw = thread[w].reply]))
              => Written(w, [s EXCEPT !.raw = thread[w].reply])
<1> PICK s : s = pending[thread[w].dir]
  OBVIOUS
<1>1. /\ s \in Sessions /\ s.raw \in Nat /\ s.token \in {0, s.raw} /\ (s.mid => s.token # 0)
      /\ s.raw # 0 => s.started
  BY NativeFacts DEF Sessions, AttemptSound
<1>2. ASSUME NEW q \in {"none", "shown", "scanned", "verified"}
      PROVE  Save(thread[w].dir, [s EXCEPT !.qr = q]) => Written(w, [s EXCEPT !.qr = q])
  <2> PICK x : x = [s EXCEPT !.qr = q]
    OBVIOUS
  <2>1. x \in Sessions /\ SameLogin(x, s) /\ x.raw = s.raw /\ x.token = s.token
        /\ x.mid = s.mid /\ x.started = s.started
    BY <1>1 DEF Sessions, SameLogin
  <2> QED BY <1>1, <2>1, AbsentIsNoSession DEF Written, Save
<1>3. Save(thread[w].dir, [s EXCEPT !.started = TRUE]) => Written(w, [s EXCEPT !.started = TRUE])
  <2> PICK x : x = [s EXCEPT !.started = TRUE]
    OBVIOUS
  <2>1. x \in Sessions /\ SameLogin(x, s) /\ x.raw = s.raw /\ x.token = s.token
        /\ x.mid = s.mid /\ x.started
    BY <1>1 DEF Sessions, SameLogin
  <2> QED BY <1>1, <2>1, AbsentIsNoSession DEF Written, Save
<1>4. Save(thread[w].dir, UnwrapAndStore(s)) => Written(w, UnwrapAndStore(s))
  <2> PICK x : x = UnwrapAndStore(s)
    OBVIOUS
  <2>1. x \in Sessions /\ SameLogin(x, s) /\ x.raw = s.raw /\ x.token = s.token
        /\ x.mid = s.mid /\ x.started = s.started
    BY <1>1 DEF Sessions, SameLogin, UnwrapAndStore
  <2> QED BY <1>1, <2>1, AbsentIsNoSession DEF Written, Save
<1>5. s.raw # 0 /\ Save(thread[w].dir, [s EXCEPT !.token = s.raw, !.mid = TRUE])
        => Written(w, [s EXCEPT !.token = s.raw, !.mid = TRUE])
  <2> PICK x : x = [s EXCEPT !.token = s.raw, !.mid = TRUE]
    OBVIOUS
  <2>1. x \in Sessions /\ SameLogin(x, s) /\ x.raw = s.raw /\ x.token = s.raw
        /\ x.started = s.started
    BY <1>1 DEF Sessions, SameLogin
  <2> QED BY <1>1, <2>1, AbsentIsNoSession DEF Written, Save
<1>6. (s.started /\ s.token = 0 /\ ~s.mid /\ thread[w].pc = "raw" /\ thread[w].reply \in Nat
         /\ Save(thread[w].dir, [s EXCEPT !.raw = thread[w].reply]))
        => Written(w, [s EXCEPT !.raw = thread[w].reply])
  <2> SUFFICES ASSUME s.started, s.token = 0, ~s.mid, thread[w].pc = "raw", thread[w].reply \in Nat,
                      Save(thread[w].dir, [s EXCEPT !.raw = thread[w].reply])
               PROVE  Written(w, [s EXCEPT !.raw = thread[w].reply])
    OBVIOUS
  <2> PICK x : x = [s EXCEPT !.raw = thread[w].reply]
    OBVIOUS
  <2>1. x \in Sessions /\ SameLogin(x, s) /\ x.raw = thread[w].reply /\ x.token = 0
        /\ x.mid = s.mid /\ x.started
    BY <1>1 DEF Sessions, SameLogin
  <2> QED BY <1>1, <2>1, AbsentIsNoSession DEF Written, Save
<1> QED BY <1>2, <1>3, <1>4, <1>5, <1>6

LEMMA NativeCheckJ ==
  ASSUME IInv, IInv', JInv, NEW w \in Windows, NativeCheck(w)
  PROVE  JInv'
<1>1. /\ thread[w].pc = "check" /\ LockedStep /\ UNCHANGED <<pending, lock, faults>>
      /\ Finish(w, FALSE) \/ Goto(w, "lock")
  BY DEF NativeCheck, LockedStep, disk, lim, life
<1>2. thread[w].pc \in NativeSteps /\ "lock" \in NativeSteps \ {"raw"}
  BY <1>1 DEF NativeSteps, Handshaking
<1>3. Written(w, pending[thread[w].dir]) /\ faults' >= faults
  BY <1>1, <1>2, NativeFacts, FaultsGrow
<1> QED BY <1>1, <1>2, <1>3, FinishJ, GotoJ

LEMMA HandshakeJ ==
  ASSUME IInv, IInv', JInv, NEW w \in Windows, Handshake(w)
  PROVE  JInv'
<1> PICK s : s = pending[thread[w].dir]
  OBVIOUS
<1> PICK q : q = NextQr(s.qr)
  OBVIOUS
<1>1. thread[w].pc = "qr" /\ LockedStep /\ thread[w].pc \in NativeSteps
  BY DEF Handshake, NativeSteps, Handshaking
<1>2. s.raw = 0 /\ Shape /\ s \in Sessions
  BY <1>1, NativeFacts DEF ThreadBound
<1>3. CASE Leave(w, FALSE) /\ UNCHANGED <<pending, faults>>
  BY <1>1, <1>3, GiveUpJ
<1>4. CASE SaveOr(w, [s EXCEPT !.qr = q],
                  (IF q = "verified" THEN Goto(w, "start") ELSE UNCHANGED thread) /\ UNCHANGED lock)
  <2> PICK x : x = [s EXCEPT !.qr = q]
    OBVIOUS
  <2>1. Save(thread[w].dir, x) => Written(w, x)
    BY <1>1, WrittenFields DEF NextQr
  <2>2. x.raw = 0
    BY <1>2 DEF Sessions
  <2>3. UNCHANGED thread => Goto(w, "qr")
    BY <1>1, <1>2 DEF Goto, Shape, ThreadShapes
  <2>4. ASSUME IF q = "verified" THEN Goto(w, "start") ELSE UNCHANGED thread, UNCHANGED lock,
               Save(thread[w].dir, x), UNCHANGED faults
        PROVE  JInv'
    <3>1. Written(w, x) /\ faults' >= faults
      BY <1>2, <2>1, <2>4, FaultsGrow
    <3>2. "qr" \in NativeSteps \ {"raw"} /\ "start" \in NativeSteps \ {"raw"}
      BY DEF NativeSteps, Handshaking
    <3>3. Goto(w, "start") \/ Goto(w, "qr")
      BY <2>3, <2>4
    <3>4. CASE Goto(w, "start")
      BY <1>1, <2>2, <2>4, <3>1, <3>2, <3>4, GotoJ
    <3>5. CASE Goto(w, "qr")
      BY <1>1, <2>2, <2>4, <3>1, <3>2, <3>5, GotoJ
    <3> QED BY <3>3, <3>4, <3>5
  <2>5. SaveOr(w, x, (IF q = "verified" THEN Goto(w, "start") ELSE UNCHANGED thread)
                       /\ UNCHANGED lock)
    BY <1>4
  <2> QED BY <1>1, <2>1, <2>4, <2>5, SaveOrJ
<1> QED BY <1>3, <1>4 DEF Handshake

LEMMA MarkStartedJ ==
  ASSUME IInv, IInv', JInv, NEW w \in Windows, MarkStarted(w)
  PROVE  JInv'
<1> PICK s : s = pending[thread[w].dir]
  OBVIOUS
<1> PICK x : x = [s EXCEPT !.started = TRUE]
  OBVIOUS
<1>1. thread[w].pc = "start" /\ LockedStep /\ thread[w].pc \in NativeSteps
  BY DEF MarkStarted, NativeSteps, Handshaking
<1>2. s.raw = 0 /\ x.raw = 0 /\ Shape
  BY <1>1, NativeFacts DEF ThreadBound, Sessions
<1>3. CASE Leave(w, FALSE) /\ UNCHANGED <<pending, faults>>
  BY <1>1, <1>3, GiveUpJ
<1>4. CASE SaveOr(w, x, Goto(w, "call") /\ UNCHANGED lock)
  <2>1. Save(thread[w].dir, x) => Written(w, x)
    BY <1>1, WrittenFields
  <2>2. ASSUME Goto(w, "call"), UNCHANGED lock, Save(thread[w].dir, x), UNCHANGED faults
        PROVE  JInv'
    <3>1. Written(w, x) /\ faults' >= faults
      BY <1>2, <2>1, <2>2, FaultsGrow
    <3>2. "call" \in NativeSteps \ {"raw"}
      BY DEF NativeSteps, Handshaking
    <3> QED BY <1>1, <1>2, <2>2, <3>1, <3>2, GotoJ
  <2> QED BY <1>1, <1>4, <2>1, <2>2, SaveOrJ
<1> QED BY <1>3, <1>4 DEF MarkStarted

LEMMA SendRequestJ ==
  ASSUME IInv, IInv', JInv, NEW w \in Windows, SendRequest(w)
  PROVE  JInv'
<1>1. thread[w].pc = "call" /\ LockedStep /\ thread[w].pc \in NativeSteps
      /\ UNCHANGED <<pending, faults>> /\ "wire" \in NativeSteps \ {"raw"}
  BY DEF SendRequest, NativeSteps, Handshaking
<1>2. Written(w, pending[thread[w].dir]) /\ faults' >= faults /\ pending[thread[w].dir].raw = 0
  BY <1>1, NativeFacts, FaultsGrow DEF ThreadBound
<1>3. CASE Leave(w, FALSE)
  BY <1>1, <1>3, GiveUpJ
<1>4. CASE Goto(w, "wire") /\ UNCHANGED lock
  BY <1>1, <1>2, <1>4, GotoJ
<1> QED BY <1>3, <1>4 DEF SendRequest

\* No file, thread or account names the token that LINE issues next.
LEMMA NextTokenFresh ==
  ASSUME IInv, NEW w \in Windows
  PROVE  LET k == Len(issued) + 1 IN
         /\ k \in Nat /\ FreshToken(w, k)
         /\ \A a \in Accounts : active[a] # Absent => active[a].token < k
         /\ \A q \in Pendings : pending[q] # Absent => pending[q].raw < k
<1>1. /\ issued \in Seq(Accounts) /\ Len(issued) \in Nat /\ consumed \subseteq 1..Len(issued)
      /\ thread \in [Windows -> Threads]
      /\ staging \in [Windows -> Session \cup {Absent}]
      /\ pending \in [Pendings -> Session \cup {Absent}]
      /\ active \in [Accounts -> Session \cup {Absent}]
  BY DEF IInv, TypeOK, Threads
<1>2. /\ \A s \in Session : s.raw \in 0..Len(issued) /\ s.token \in 0..Len(issued)
      /\ \A t \in Threads : t.reply \in 0..Len(issued)
  BY DEF Session, Threads
<1> QED BY <1>1, <1>2 DEF FreshToken

LEMMA TokenReplyJ ==
  ASSUME IInv, IInv', JInv, NEW w \in Windows, TokenReply(w)
  PROVE  JInv'
<1> DEFINE p == thread[w].dir
           k == Len(issued) + 1
           t == [thread[w] EXCEPT !.pc = "raw", !.reply = k]
<1>1. thread[w].pc = "wire" /\ LockedStep /\ thread[w].pc \in NativeSteps
      /\ UNCHANGED <<pending, faults>>
  BY DEF TokenReply, NativeSteps, Handshaking
<1>2. /\ Written(w, pending[p]) /\ faults' >= faults /\ pending[p].raw = 0
      /\ pending[p].started /\ Shape /\ p \in Pendings
  BY <1>1, NativeFacts, FaultsGrow DEF ThreadBound, ThreadSound
<1>3. CASE Leave(w, FALSE)
  BY <1>1, <1>3, GiveUpJ
<1>4. CASE /\ thread' = [thread EXCEPT ![w].pc = "raw", ![w].reply = k]
           /\ UNCHANGED lock
  <2>1. thread' = [thread EXCEPT ![w] = t]
    BY ZenonT(30), <1>4
  <2>2. k \in Nat /\ FreshToken(w, k)
        /\ (\A a \in Accounts : active[a] # Absent => active[a].token < k)
        /\ (\A q \in Pendings : pending[q] # Absent => pending[q].raw < k)
    BY NextTokenFresh
  <2> HIDE DEF k
  <2>3. t.pc = "raw" /\ t.reply = k /\ t.dir = p
    BY <1>2 DEF Shape, ThreadShapes
  <2>4. lock' = [lock EXCEPT ![p] = lock[p]]
    BY <1>2, <1>4 DEF Shape
  <2> HIDE DEF t
  <2>5. Moved(w, t, pending[p], lock[p])
    BY <1>1, <1>2, <2>1, <2>2, <2>3, <2>4 DEF Moved, ChromeSteps
  <2> QED BY <1>1, <1>2, <2>5, NativeMove
<1> QED BY <1>3, <1>4 DEF TokenReply

LEMMA SaveReplyJ ==
  ASSUME IInv, IInv', JInv, NEW w \in Windows, SaveReply(w)
  PROVE  JInv'
<1> PICK s : s = pending[thread[w].dir]
  OBVIOUS
<1> PICK x : x = [s EXCEPT !.raw = thread[w].reply]
  OBVIOUS
<1>1. thread[w].pc = "raw" /\ LockedStep /\ thread[w].pc \in NativeSteps
      /\ SaveOr(w, x, Goto(w, "result") /\ UNCHANGED lock)
  BY DEF SaveReply, NativeSteps, Handshaking
<1>2. s.raw = 0 /\ s.started /\ Shape /\ AttemptSound(thread[w].dir) /\ s # Absent
  BY <1>1, NativeFacts DEF ThreadBound
<1>3. thread[w].reply \in Nat
  BY <1>2 DEF Shape, ThreadShapes
<1>4. Save(thread[w].dir, x) => Written(w, x)
  BY <1>1, <1>2, <1>3, WrittenFields DEF AttemptSound
<1>5. ASSUME Goto(w, "result"), UNCHANGED lock, Save(thread[w].dir, x), UNCHANGED faults
      PROVE  JInv'
  <2>1. Written(w, x) /\ faults' >= faults
    BY <1>2, <1>4, <1>5, FaultsGrow
  <2>2. "result" \in NativeSteps \ {"raw"}
    BY DEF NativeSteps, Handshaking
  <2> QED BY <1>1, <1>5, <2>1, <2>2, GotoJ
<1> QED BY <1>1, <1>4, <1>5, SaveOrJ

LEMMA SaveResultJ ==
  ASSUME IInv, IInv', JInv, NEW w \in Windows, SaveResult(w)
  PROVE  JInv'
<1> PICK s : s = pending[thread[w].dir]
  OBVIOUS
<1> PICK x : x = [s EXCEPT !.token = s.raw, !.mid = TRUE]
  OBVIOUS
<1>1. thread[w].pc = "result" /\ LockedStep /\ thread[w].pc \in NativeSteps
      /\ SaveOr(w, x, Goto(w, "unwrap") /\ UNCHANGED lock)
  BY DEF SaveResult, NativeSteps, Handshaking
<1>2. s.raw # 0 /\ Shape /\ s \in Sessions
  BY <1>1, NativeFacts DEF ThreadSound
<1>3. x.token # 0
  BY <1>2 DEF Sessions
<1>4. Save(thread[w].dir, x) => Written(w, x)
  BY <1>1, <1>2, WrittenFields
<1>5. ASSUME Goto(w, "unwrap"), UNCHANGED lock, Save(thread[w].dir, x), UNCHANGED faults
      PROVE  JInv'
  <2>1. Written(w, x) /\ faults' >= faults
    BY <1>2, <1>4, <1>5, FaultsGrow
  <2>2. "unwrap" \in NativeSteps \ {"raw"}
    BY DEF NativeSteps, Handshaking
  <2> QED BY <1>1, <1>3, <1>5, <2>1, <2>2, GotoJ
<1> QED BY <1>1, <1>4, <1>5, SaveOrJ

LEMMA UnwrapJ ==
  ASSUME IInv, IInv', JInv, NEW w \in Windows, Unwrap(w)
  PROVE  JInv'
<1> PICK s : s = pending[thread[w].dir]
  OBVIOUS
<1> PICK x : x = UnwrapAndStore(s)
  OBVIOUS
<1>1. thread[w].pc = "unwrap" /\ LockedStep /\ thread[w].pc \in NativeSteps
  BY DEF Unwrap, NativeSteps, Handshaking
<1>2. s.token # 0 /\ Shape /\ s \in Sessions
  BY <1>1, NativeFacts DEF ThreadBound
<1>3. x.token # 0
  BY <1>2 DEF Sessions, UnwrapAndStore
<1>4. Save(thread[w].dir, x) => Written(w, x)
  BY <1>1, WrittenFields
<1>5. CASE Leave(w, TRUE) /\ UNCHANGED <<pending, faults>>
  <2>1. Written(w, s) /\ faults' >= faults
    BY <1>1, <1>5, NativeFacts, FaultsGrow
  <2> QED BY <1>1, <1>2, <1>5, <2>1, LeaveJ
<1>6. CASE SaveOr(w, x, Leave(w, TRUE))
  <2>1. ASSUME Leave(w, TRUE), Save(thread[w].dir, x), UNCHANGED faults
        PROVE  JInv'
    <3>1. Written(w, x) /\ faults' >= faults
      BY <1>2, <1>4, <2>1, FaultsGrow
    <3> QED BY <1>1, <1>3, <2>1, <3>1, LeaveJ
  <2> QED BY <1>1, <1>4, <1>6, <2>1, SaveOrJ
<1> QED BY <1>5, <1>6 DEF Unwrap

LEMMA NativeLockJ ==
  ASSUME IInv, IInv', JInv, NEW w \in Windows, NativeLock(w)
  PROVE  JInv'
<1> DEFINE p == thread[w].dir
           s == pending[p]
<1>1. thread[w].pc = "lock" /\ LockedStep /\ thread[w].pc \in NativeSteps
      /\ UNCHANGED <<pending, faults>>
  BY DEF NativeLock, NativeSteps
<1>2. Shape /\ Written(w, s) /\ faults' >= faults
  BY <1>1, NativeFacts, FaultsGrow
<1>3. CASE Finish(w, FALSE) /\ UNCHANGED lock
  BY <1>1, <1>3, FinishJ
<1>4. CASE lock' = [lock EXCEPT ![p] = w] /\ Goto(w, "locked")
  <2> PICK t : t = [thread[w] EXCEPT !.pc = "locked"]
    OBVIOUS
  <2>1. thread' = [thread EXCEPT ![w] = t]
    BY <1>4 DEF Goto
  <2>2. t.pc = "locked" /\ t.dir = p
    BY <1>2 DEF Shape, ThreadShapes
  <2>3. Moved(w, t, s, w)
    BY <1>4, <2>1, <2>2 DEF Moved, ChromeSteps
  <2> QED BY <1>1, <1>2, <2>3, NativeMove
<1> QED BY <1>3, <1>4 DEF NativeLock

\* A handshake goes on only for an attempt that has no reply saved.
LEMMA ReadAttemptJ ==
  ASSUME IInv, IInv', JInv, NEW w \in Windows, ReadAttempt(w)
  PROVE  JInv'
<1> DEFINE p == thread[w].dir
           s == pending[p]
<1>1. thread[w].pc = "locked" /\ LockedStep /\ thread[w].pc \in NativeSteps
  BY DEF ReadAttempt, NativeSteps, Handshaking
<1>2. /\ Shape /\ s \in Sessions /\ AttemptSound(p) /\ s # Absent /\ p \in Pendings
      /\ UNCHANGED pending => Written(w, s)
  BY <1>1, NativeFacts
<1>3. CASE Leave(w, FALSE) /\ UNCHANGED <<pending, faults>>
  BY <1>1, <1>3, GiveUpJ
<1>4. CASE s.token # 0 /\ Leave(w, TRUE) /\ UNCHANGED <<pending, faults>>
  <2>1. Written(w, s) /\ faults' >= faults
    BY <1>2, <1>4, FaultsGrow
  <2> QED BY <1>1, <1>4, <2>1, LeaveJ
<1>5. CASE /\ s.token = 0 /\ s.started /\ s.raw # 0
           /\ SaveOr(w, [s EXCEPT !.token = s.raw, !.mid = TRUE], Leave(w, TRUE))
  <2> PICK x : x = [s EXCEPT !.token = s.raw, !.mid = TRUE]
    OBVIOUS
  <2>1. x.token # 0
    BY <1>2, <1>5 DEF Sessions
  <2>2. Save(p, x) => Written(w, x)
    BY <1>1, <1>5, WrittenFields
  <2>3. ASSUME Leave(w, TRUE), Save(p, x), UNCHANGED faults
        PROVE  JInv'
    <3>1. Written(w, x) /\ faults' >= faults
      BY <1>2, <2>2, <2>3, FaultsGrow
    <3> QED BY <1>1, <2>1, <2>3, <3>1, LeaveJ
  <2>4. SaveOr(w, x, Leave(w, TRUE))
    BY <1>5
  <2> QED BY <1>1, <2>2, <2>3, <2>4, SaveOrJ
<1>6. CASE /\ s.token = 0 /\ ~s.started /\ UNCHANGED lock
           /\ Goto(w, IF s.qr = "verified" THEN "start" ELSE "qr") /\ UNCHANGED <<pending, faults>>
  <2>1. PICK pc \in {"start", "qr"} : Goto(w, pc)
    BY <1>6
  <2>2. pc \in NativeSteps \ {"raw"} /\ pc \notin {"unwrap", "recover", "stage"}
    BY DEF NativeSteps, Handshaking
  <2>3. s.raw = 0 /\ Written(w, s) /\ faults' >= faults
    BY <1>2, <1>6, FaultsGrow DEF AttemptSound
  <2> QED BY <1>1, <1>6, <2>1, <2>2, <2>3, GotoJ
<1> HIDE DEF s, p
<1> QED BY <1>3, <1>4, <1>5, <1>6, Zenon DEF ReadAttempt, s, p

LEMMA RecoverKeysJ ==
  ASSUME IInv, IInv', JInv, NEW w \in Windows, RecoverKeys(w)
  PROVE  JInv'
<1> PICK s : s = pending[thread[w].dir]
  OBVIOUS
<1> PICK x : x = UnwrapAndStore(s)
  OBVIOUS
<1>1. thread[w].pc = "recover" /\ LockedStep /\ thread[w].pc \in NativeSteps
      /\ UNCHANGED <<lock, faults>> /\ "stage" \in NativeSteps \ {"raw"}
  BY DEF RecoverKeys, NativeSteps, Handshaking
<1>2. s.token # 0 /\ Shape /\ s \in Sessions
  BY <1>1, NativeFacts DEF ThreadBound
<1>3. x.token # 0
  BY <1>2 DEF Sessions, UnwrapAndStore
<1>4. CASE Finish(w, FALSE) /\ UNCHANGED pending
  BY <1>1, <1>4, FinishJ
<1>5. CASE Save(thread[w].dir, x) /\ Goto(w, "stage")
  <2>1. Written(w, x) /\ faults' >= faults
    BY <1>1, <1>2, <1>5, WrittenFields, FaultsGrow
  <2> QED BY <1>1, <1>2, <1>3, <1>5, <2>1, GotoJ
<1> QED BY <1>4, <1>5 DEF RecoverKeys

-----------------------------------------------------------------------------
(* Steps of a login thread that change its staging file only.              *)

StagingOnly(w, t, x) ==
    /\ thread' = [thread EXCEPT ![w] = t] /\ staging' = [staging EXCEPT ![w] = x]
    /\ UNCHANGED <<window, pending, retired, lock, active, consumed, handed, logins, crashes, unretired>>
    /\ faults' >= faults

\* A Chrome login keeps its identity and gets the thread's token when it ends;
\* a native one is not touched.
StagingAllowed(w, t, x) ==
    LET s == staging[w] IN
    /\ thread[w].pc \in ChromeSteps \cup {"attempt"} /\ t.pc \in ChromeSteps \cup {"finish"}
    /\ x = Absent <=> s = Absent
    /\ s # Absent =>
         /\ SameLogin(x, s) /\ x.source = s.source
         /\ s.client = "native" => x = s /\ t.pc = "finish" /\ ~t.ok
         /\ \/ x.token = s.token
            \/ thread[w].pc = "profile" /\ x.token = thread[w].reply /\ t.pc = "finish"
         /\ s.client = "chrome" /\ x.mid /\ Open(w) =>
              /\ x.token \notin consumed
              /\ \A a \in Accounts : active[a] # Absent => active[a].token <= x.token
    /\ t.pc = "profile" =>
         /\ x = s /\ FreshToken(w, t.reply)
         /\ \A a \in Accounts : active[a] # Absent => active[a].token < t.reply

LEMMA StagingMove ==
  ASSUME IInv, IInv', JInv, NEW w \in Windows, NEW t, NEW x,
         StagingOnly(w, t, x), StagingAllowed(w, t, x)
  PROVE  JInv'
<1>1. Shape /\ Shape'
  BY ShapeHolds, PTL
<1>2. /\ UNCHANGED <<window, pending, retired, lock, active, consumed, handed, logins, crashes, unretired>>
      /\ \A v \in Windows : /\ thread'[v] = IF v = w THEN t ELSE thread[v]
                            /\ staging'[v] = IF v = w THEN x ELSE staging[v]
      /\ faults' >= faults
  BY <1>1 DEF StagingOnly, Shape
<1>3. /\ window[w].page \in {"login", "closed"} /\ ~Done(w) /\ ~Ready(w) /\ ~Installed(w)
      /\ Done(w)' <=> t.pc = "finish" /\ t.ok
  BY <1>2 DEF StagingAllowed, ChromeSteps, IInv, Pages, Running, Done, Ready, Installed
<1>4. \A v \in Windows : /\ Open(v)' <=> Open(v)
                         /\ v # w => (Done(v)' <=> Done(v)) /\ (Ready(v)' <=> Ready(v))
                         /\ Ahead(v)' => Ahead(v)
                         /\ Begun(v)' => Begun(v) /\ staging'[v] = staging[v]
                         /\ Installed(v)' <=> Installed(v)
                         /\ staging'[v] = Absent <=> staging[v] = Absent
                         /\ staging[v] # Absent => SameLogin(staging'[v], staging[v])
                                                   /\ staging'[v].source = staging[v].source
  BY <1>2, <1>3 DEF StagingAllowed, Open, Done, Ahead, Begun, Ready, Installed, SameLogin
<1>5. Lineage'
  <2>1. ASSUME NEW s \in AllSessions' PROVE \E y \in AllSessions : SameLogin(s, y)
    BY <1>2, <1>4 DEF AllSessions, SameLogin
  <2> QED BY <1>1, <1>2, <2>1, LineageKept DEF JInv, Shape
<1>6. OneAttempt' /\ OneWindow'
  BY <1>2, <1>4 DEF JInv, OneAttempt, OneWindow
<1>7. ASSUME NEW s, NEW s0, SameLogin(s, s0), Follows(s0)
      PROVE  Follows(s)'
  BY <1>2, <1>4, <1>7 DEF Follows, SameLogin
<1>8. \A s, k : After(s, k) <=> After(s, k)'
  BY <1>2 DEF After
<1>9. Ordered'
  <2>1. ASSUME NEW p \in Pendings, pending'[p] # Absent
        PROVE  Follows(pending[p])' /\ (pending'[p].raw # 0 => After(pending[p], pending[p].raw)')
    <3>1. /\ Follows(pending[p]) /\ SameLogin(pending'[p], pending[p])
          /\ pending[p].raw # 0 => After(pending[p], pending[p].raw)
      BY <1>2, <2>1 DEF JInv, Ordered, SameLogin
    <3>2. Follows(pending[p])'
      BY <1>7, <3>1
    <3> QED BY <1>2, <3>1, <3>2 DEF After
  <2>2. ASSUME NEW v \in Windows, staging'[v] # Absent PROVE Follows(staging[v])'
    <3>1. SameLogin(staging'[v], staging[v]) /\ Follows(staging[v])
      BY <1>4, <2>2 DEF JInv, Ordered
    <3> QED BY <1>7, <3>1
  <2> QED BY <2>1, <2>2 DEF Ordered
<1>10. Distinct'
  <2>1. ASSUME NEW p \in Pendings, NEW q \in Pendings, pending'[p] # Absent, pending'[q] # Absent,
               pending'[p].raw # 0, pending'[p].raw = pending'[q].raw
        PROVE  p = q
    BY <1>2, <2>1 DEF JInv, Distinct
  <2>2. ASSUME NEW v \in Windows, Replying(v)'
        PROVE  /\ thread'[v].reply \notin consumed'
               /\ \A p \in Pendings : pending'[p] # Absent => pending'[p].raw # thread'[v].reply
               /\ \A u \in Windows : Replying(u)' /\ thread'[u].reply = thread'[v].reply => u = v
    <3>1. \A u \in Windows : u # w => thread'[u] = thread[u] /\ (Replying(u)' <=> Replying(u))
      BY <1>2 DEF Replying
    <3>2. Replying(w)' => FreshToken(w, t.reply)
      BY <1>2 DEF StagingAllowed, Replying, ChromeSteps
    <3>3. CASE v # w
      <4>1. Replying(v) /\ thread'[v] = thread[v]
        BY <2>2, <3>1, <3>3
      <4>2. Replying(w)' => t.reply # thread[v].reply
        BY <3>2, <3>3, <4>1 DEF FreshToken
      <4> QED BY <1>2, <3>1, <3>3, <4>1, <4>2 DEF JInv, Distinct
    <3>4. CASE v = w
      BY <1>2, <2>2, <3>1, <3>2, <3>4 DEF FreshToken
    <3> QED BY <3>3, <3>4
  <2>3. ASSUME NEW v \in Windows, staging'[v] # Absent, staging'[v].client = "chrome",
               staging'[v].token # 0
        PROVE  /\ \A p \in Pendings : pending'[p] # Absent => pending'[p].raw # staging'[v].token
               /\ \A u \in Windows : Replying(u)' => thread'[u].reply # staging'[v].token
    <3>1. staging[v] # Absent /\ staging[v].client = "chrome"
      BY <1>4, <2>3 DEF SameLogin
    <3>2. CASE staging'[v].token = staging[v].token
      <4>1. /\ \A p \in Pendings : pending[p] # Absent => pending[p].raw # staging[v].token
            /\ \A u \in Windows : Replying(u) => thread[u].reply # staging[v].token
        BY <2>3, <3>1, <3>2 DEF JInv, Distinct
      <4>2. ASSUME NEW u \in Windows, Replying(u)' PROVE thread'[u].reply # staging'[v].token
        BY <1>2, <3>1, <3>2, <4>1, <4>2 DEF Replying, StagingAllowed, FreshToken, ChromeSteps
      <4> QED BY <1>2, <3>2, <4>1, <4>2
    <3>3. CASE /\ v = w /\ thread[w].pc = "profile" /\ staging'[v].token = thread[w].reply
               /\ t.pc = "finish"
      <4>1. /\ \A p \in Pendings : pending[p] # Absent => pending[p].raw # thread[w].reply
            /\ \A u \in Windows : Replying(u) /\ thread[u].reply = thread[w].reply => u = w
        BY <3>3 DEF JInv, Distinct, Replying
      <4> QED BY <1>2, <3>3, <4>1 DEF Replying
    <3> QED BY <1>2, <3>1, <3>2, <3>3 DEF StagingAllowed
  <2> QED BY <2>1, <2>2, <2>3 DEF Distinct
<1>11. SpentRetired'
  <2> SUFFICES ASSUME crashes' = 0, faults' = 0, NEW p \in Pendings \ retired', pending'[p] # Absent,
                      pending'[p].raw \in consumed' \ unretired'
               PROVE  \E v \in Windows : Installed(v)' /\ staging'[v].source = p
    BY DEF SpentRetired
  <2>1. crashes = 0 /\ faults = 0
    BY <1>1, <1>2 DEF Shape
  <2>2. PICK v \in Windows : Installed(v) /\ staging[v].source = p
    BY <1>2, <2>1 DEF JInv, SpentRetired
  <2> QED BY <1>2, <1>3, <1>4, <2>2
<1>12. ASSUME NEW p \in Pendings PROVE AttemptSound(p)'
  BY <1>2 DEF JInv, AttemptSound
<1>13. ASSUME NEW a \in Accounts PROVE ActiveSound(a)'
  BY <1>2 DEF JInv, ActiveSound
<1>14. ASSUME NEW v \in Windows PROVE ThreadBound(v)'
  <2>1. CASE v = w
    <3>1. staging'[w] # Absent /\ t.pc \in ChromeSteps => staging'[w].client = "chrome"
      <4>1. staging[w] # Absent => staging[w].client \in {"native", "chrome"}
        BY <1>1 DEF Shape, Sessions
      <4> QED BY <1>4, <4>1 DEF StagingAllowed, ChromeSteps, SameLogin
    <3>2. \A a \in Accounts : t.pc = "profile" /\ active[a] # Absent => active[a].token <= t.reply
      <4>1. \A a \in Accounts : active[a] # Absent => active[a].token \in Nat
        BY <1>1 DEF Shape, Sessions
      <4>2. t \in ThreadShapes
        BY <1>1, <1>2 DEF Shape
      <4> QED BY <4>1, <4>2 DEF StagingAllowed, ThreadShapes
    <3> QED BY <1>2, <2>1, <3>1, <3>2 DEF ThreadBound, StagingAllowed, ChromeSteps, NativeSteps,
               Handshaking
  <2>2. CASE v # w
    BY <1>2, <1>4, <1>8, <2>2 DEF JInv, ThreadBound, After
  <2> QED BY <2>1, <2>2
<1>15. ASSUME NEW v \in Windows PROVE StagingSound(v)'
  <2>1. CASE v # w
    <3>1. StagingSound(v) /\ staging'[v] = staging[v] /\ window'[v] = window[v]
      BY <1>2, <2>1 DEF JInv
    <3>2. Begun(v)' => Unused(staging[v])'
      BY <1>2, <1>4, <2>1, <3>1 DEF StagingSound, Unused, Begun
    <3> QED BY <1>2, <1>4, <2>1, <3>1, <3>2 DEF StagingSound, Copied
  <2>2. CASE v = w
    <3> SUFFICES ASSUME staging'[w] # Absent PROVE StagingSound(w)'
      BY <2>2 DEF StagingSound
    <3>1. /\ StagingSound(w) /\ staging'[w] = x /\ window'[w] = window[w] /\ staging[w] # Absent
          /\ SameLogin(x, staging[w]) /\ x.source = staging[w].source
          /\ staging[w].client \in {"native", "chrome"}
      BY <1>1, <1>2, <1>4 DEF JInv, Shape, Sessions
    <3>2. x.client = "native" /\ Ahead(w)' => ~x.mid
      BY <1>4, <3>1 DEF StagingAllowed, StagingSound, SameLogin
    <3>3. Begun(w)' => Unused(staging[w])'
      BY <1>2, <1>4, <3>1 DEF StagingSound, Unused, Begun
    <3>4. x.client = "native" => ~Ready(w)' /\ ~Installed(w)'
      BY <1>3, <1>4, <3>1 DEF StagingAllowed, SameLogin, Ready
    <3>5. x.client = "chrome" /\ x.mid /\ window[w].page \in {"client", "login", "recovery"} =>
            x.token \notin consumed /\ \A a \in Accounts : active[a] # Absent => active[a].token <= x.token
      BY <3>1 DEF StagingAllowed, SameLogin, Open
    <3> QED BY <1>2, <1>4, <3>1, <3>2, <3>3, <3>4, <3>5 DEF StagingSound, SameLogin
  <2> QED BY <2>1, <2>2
<1>16. KeptForRecovery'
  BY <1>2 DEF JInv, KeptForRecovery
<1> QED BY <1>5, <1>6, <1>9, <1>10, <1>11, <1>12, <1>13, <1>14, <1>15, <1>16 DEF JInv

LEMMA StagedFacts ==
  ASSUME IInv, NEW w \in Windows
  PROVE  /\ Shape /\ thread[w] \in ThreadShapes
         /\ staging[w] # Absent => staging[w] \in Sessions
         /\ UNCHANGED staging => staging' = [staging EXCEPT ![w] = staging[w]]
         /\ UNCHANGED thread => thread' = [thread EXCEPT ![w] = thread[w]]
         /\ UNCHANGED window => window' = [window EXCEPT ![w] = window[w]]
BY ShapeHolds DEF Shape

LEMMA FinishAs ==
  ASSUME IInv, NEW w \in Windows, NEW ok \in BOOLEAN, Finish(w, ok)
  PROVE  \E t : /\ thread' = [thread EXCEPT ![w] = t]
               /\ t.pc = "finish" /\ t.ok = ok /\ t.dir = thread[w].dir
<1> PICK t : t = [thread[w] EXCEPT !.pc = "finish", !.ok = ok]
  OBVIOUS
<1>1. thread' = [thread EXCEPT ![w] = t]
  BY ZenonT(30) DEF Finish
<1>2. t.pc = "finish" /\ t.ok = ok /\ t.dir = thread[w].dir
  BY StagedFacts DEF ThreadShapes
<1> QED BY <1>1, <1>2

LEMMA GotoAs ==
  ASSUME IInv, NEW w \in Windows, NEW pc, Goto(w, pc)
  PROVE  \E t : /\ thread' = [thread EXCEPT ![w] = t]
               /\ t.pc = pc /\ t.dir = thread[w].dir
<1> PICK t : t = [thread[w] EXCEPT !.pc = pc]
  OBVIOUS
<1>1. thread' = [thread EXCEPT ![w] = t]
  BY ZenonT(30) DEF Goto
<1>2. t.pc = pc /\ t.dir = thread[w].dir
  BY StagedFacts DEF ThreadShapes
<1> QED BY <1>1, <1>2

LEMMA SameSelf == \A s : SameLogin(s, s)
BY DEF SameLogin

\* Tokens that a Chrome flow has put into staging with the mid are the newest.
Newest(s) ==
    s.client = "chrome" /\ s.mid =>
        /\ s.token \notin consumed
        /\ \A a \in Accounts : active[a] # Absent => active[a].token <= s.token

LEMMA StagedNewest ==
  ASSUME IInv, JInv, NEW w \in Windows, thread[w].pc \in ChromeSteps \cup {"attempt"},
         staging[w] # Absent, Open(w)
  PROVE  Newest(staging[w])
<1>1. window[w].page = "login"
  BY DEF IInv, Pages, Running, Open, ChromeSteps
<1>2. StagingSound(w)
  BY DEF JInv
<1> QED BY <1>1, <1>2 DEF StagingSound, Newest

\* The thread ends without a login and its staging file is as it was.
LEMMA StagingEnds ==
  ASSUME IInv, IInv', JInv, NEW w \in Windows,
         thread[w].pc \in ChromeSteps \cup {"attempt"}, Finish(w, FALSE),
         UNCHANGED <<staging, window, pending, retired, lock, active, consumed, handed, logins,
                     crashes, unretired>>,
         UNCHANGED faults \/ WriteFaults
  PROVE  JInv'
<1>1. PICK t : /\ thread' = [thread EXCEPT ![w] = t]
               /\ t.pc = "finish" /\ t.ok = FALSE
  BY FinishAs
<1>2. /\ Shape /\ faults' >= faults
      /\ staging' = [staging EXCEPT ![w] = staging[w]]
  BY StagedFacts, FaultsGrow
<1>3. StagingOnly(w, t, staging[w])
  BY <1>1, <1>2 DEF StagingOnly
<1>4. staging[w] # Absent /\ Open(w) => Newest(staging[w])
  BY StagedNewest
<1>5. StagingAllowed(w, t, staging[w])
  BY <1>1, <1>4, SameSelf DEF StagingAllowed, ChromeSteps, Newest
<1> QED BY <1>3, <1>5, StagingMove

LEMMA ChromeScanJ ==
  ASSUME IInv, IInv', JInv, NEW w \in Windows, ChromeScan(w)
  PROVE  JInv'
<1> DEFINE s == staging[w]
<1>1. /\ thread[w].pc = "scan" /\ thread[w].pc \in ChromeSteps /\ UNCHANGED faults
      /\ UNCHANGED <<window, pending, retired, active, consumed, handed, logins, crashes, unretired>>
  BY DEF ChromeScan, ChromeStep, life, ChromeSteps
<1>2. UNCHANGED lock
  BY DEF ChromeScan, ChromeStep
<1>3. CASE Finish(w, FALSE) /\ UNCHANGED staging
  BY <1>1, <1>2, <1>3, StagingEnds
<1>4. CASE /\ s # Absent /\ StageWrite(w, [s EXCEPT !.qr = "shown"])
           /\ Goto(w, "issue") \/ Finish(w, FALSE)
  <2> PICK x : x = [s EXCEPT !.qr = "shown"]
    OBVIOUS
  <2>1. /\ Shape /\ s \in Sessions /\ thread[w] \in ThreadShapes
        /\ staging' = [staging EXCEPT ![w] = x]
    BY <1>4, StagedFacts DEF StageWrite
  <2>2. /\ x \in Sessions /\ SameLogin(x, s) /\ x.source = s.source /\ x.token = s.token
        /\ x.mid = s.mid
    BY <2>1 DEF Sessions, SameLogin
  <2>3. \E t : /\ thread' = [thread EXCEPT ![w] = t]
               /\ t.pc = "issue" \/ (t.pc = "finish" /\ ~t.ok)
    <3>1. CASE Goto(w, "issue")
      BY <3>1, GotoAs
    <3>2. CASE Finish(w, FALSE)
      BY <3>2, FinishAs
    <3> QED BY <1>4, <3>1, <3>2
  <2>4. PICK t : /\ thread' = [thread EXCEPT ![w] = t]
                 /\ t.pc = "issue" \/ (t.pc = "finish" /\ ~t.ok)
    BY <2>3
  <2>5. StagingOnly(w, t, x)
    BY <1>1, <1>2, <2>1, <2>4 DEF StagingOnly, Shape
  <2>6. s.client = "chrome" /\ (Open(w) => Newest(s))
    <3>1. ThreadBound(w)
      BY DEF JInv
    <3> QED BY <1>1, <1>4, <3>1, StagedNewest DEF ThreadBound
  <2>7. x # Absent
    BY <2>2, AbsentIsNoSession
  <2>8. StagingAllowed(w, t, x)
    BY <1>1, <1>4, <2>2, <2>4, <2>6, <2>7 DEF StagingAllowed, ChromeSteps, Newest, SameLogin
  <2> QED BY <2>5, <2>8, StagingMove
<1> QED BY <1>3, <1>4 DEF ChromeScan

LEMMA ChromeIssueJ ==
  ASSUME IInv, IInv', JInv, NEW w \in Windows, ChromeIssue(w)
  PROVE  JInv'
<1> DEFINE k == Len(issued) + 1
           t == [thread[w] EXCEPT !.pc = "profile", !.reply = k]
           s == staging[w]
<1>1. /\ thread[w].pc = "issue" /\ thread[w].pc \in ChromeSteps /\ UNCHANGED faults
      /\ UNCHANGED <<staging, window, pending, retired, lock, active, consumed, handed, logins,
                     crashes, unretired>>
  BY DEF ChromeIssue, ChromeStep, life, ChromeSteps
<1>2. CASE Finish(w, FALSE)
  BY <1>1, <1>2, StagingEnds
<1>3. CASE thread' = [thread EXCEPT ![w].pc = "profile", ![w].reply = k]
  <2>1. thread' = [thread EXCEPT ![w] = t]
    BY ZenonT(30), <1>3
  <2>2. k \in Nat /\ FreshToken(w, k)
        /\ (\A a \in Accounts : active[a] # Absent => active[a].token < k)
    BY NextTokenFresh
  <2> HIDE DEF k
  <2>3. /\ t.pc = "profile" /\ t.reply = k /\ Shape
        /\ staging' = [staging EXCEPT ![w] = s]
    BY <1>1, StagedFacts DEF ThreadShapes
  <2> HIDE DEF t
  <2>4. StagingOnly(w, t, s)
    <3>1. faults' >= faults
      BY <1>1, <2>3, FaultsGrow
    <3> QED BY <1>1, <2>1, <2>3, <3>1 DEF StagingOnly
  <2>5. s # Absent => s.client = "chrome" /\ (Open(w) => Newest(s))
    <3>1. ThreadBound(w)
      BY DEF JInv
    <3> QED BY <1>1, <3>1, StagedNewest DEF ThreadBound
  <2>6. StagingAllowed(w, t, s)
    BY <1>1, <2>2, <2>3, <2>5, SameSelf DEF StagingAllowed, ChromeSteps, Newest
  <2> QED BY <2>4, <2>6, StagingMove
<1> QED BY <1>2, <1>3 DEF ChromeIssue

\* The token the profile belongs to is newer than every active login's.
LEMMA ChromeProfileJ ==
  ASSUME IInv, IInv', JInv, NEW w \in Windows, ChromeProfile(w)
  PROVE  JInv'
<1> DEFINE s == staging[w]
           k == thread[w].reply
<1>1. /\ thread[w].pc = "profile" /\ thread[w].pc \in ChromeSteps
      /\ UNCHANGED <<window, pending, retired, lock, active, consumed, handed, logins, crashes, unretired>>
  BY DEF ChromeProfile, ChromeStep, life, ChromeSteps
<1>2. CASE Finish(w, FALSE) /\ UNCHANGED staging /\ (UNCHANGED faults \/ WriteFaults)
  BY <1>1, <1>2, StagingEnds
<1>3. ASSUME s # Absent, UNCHANGED faults \/ WriteFaults,
             NEW y \in CaptureKeys([s EXCEPT !.token = k]),
             NEW x \in {y, [y EXCEPT !.mid = TRUE]}, NEW ok \in BOOLEAN,
             StageWrite(w, x), Finish(w, ok)
      PROVE  JInv'
  <2>1. /\ Shape /\ s \in Sessions /\ thread[w] \in ThreadShapes
        /\ staging' = [staging EXCEPT ![w] = x] /\ k \in Nat
    BY <1>3, StagedFacts DEF StageWrite, ThreadShapes
  <2>2. PICK z \in Sessions : /\ z = [s EXCEPT !.token = k] /\ SameLogin(z, s) /\ z.source = s.source
                              /\ z.token = k
    BY <2>1 DEF Sessions, SameLogin
  <2>3. y \in Sessions /\ SameLogin(y, s) /\ y.source = s.source /\ y.token = k
    <3>1. y = z \/ y = [z EXCEPT !.keys = TRUE]
      BY <1>3, <2>2 DEF CaptureKeys, UnwrapAndStore
    <3>2. CASE y = [z EXCEPT !.keys = TRUE]
      BY <2>2, <3>2 DEF Sessions, SameLogin
    <3> QED BY <2>2, <3>1, <3>2
  <2>4. x \in Sessions /\ SameLogin(x, s) /\ x.source = s.source /\ x.token = k
    BY <1>3, <2>3 DEF Sessions, SameLogin
  <2>5. PICK t : thread' = [thread EXCEPT ![w] = t] /\ t.pc = "finish" /\ t.ok = ok
    BY <1>3, FinishAs
  <2>7. s.client = "chrome"
    <3>1. ThreadBound(w)
      BY DEF JInv
    <3> QED BY <1>1, <1>3, <3>1 DEF ThreadBound
  <2>8. k \notin consumed /\ (Open(w) => \A a \in Accounts : active[a] # Absent => active[a].token <= k)
    BY <1>1 DEF JInv, Distinct, Replying, ThreadBound
  <2>9. StagingOnly(w, t, x)
    <3>1. faults' >= faults
      BY <1>3, <2>1, FaultsGrow
    <3> QED BY <1>1, <2>1, <2>5, <3>1 DEF StagingOnly
  <2>10. x # Absent
    BY <2>4, AbsentIsNoSession
  <2>11. StagingAllowed(w, t, x)
    BY <1>1, <1>3, <2>4, <2>5, <2>7, <2>8, <2>10 DEF StagingAllowed, ChromeSteps
  <2> QED BY <2>9, <2>11, StagingMove
<1>4. ASSUME s # Absent, UNCHANGED faults \/ WriteFaults,
             NEW y \in CaptureKeys([s EXCEPT !.token = k]), NEW ok \in BOOLEAN, Finish(w, ok),
             StageWrite(w, y) \/ StageWrite(w, [y EXCEPT !.mid = TRUE])
      PROVE  JInv'
  <2>1. CASE StageWrite(w, y)
    BY <1>3, <1>4, <2>1
  <2>2. CASE StageWrite(w, [y EXCEPT !.mid = TRUE])
    BY <1>3, <1>4, <2>2
  <2> QED BY <1>4, <2>1, <2>2
<1>5. \/ Finish(w, FALSE) /\ UNCHANGED staging /\ (UNCHANGED faults \/ WriteFaults)
      \/ /\ s # Absent /\ (UNCHANGED faults \/ WriteFaults)
         /\ \E y \in CaptureKeys([s EXCEPT !.token = k]), ok \in BOOLEAN :
              /\ Finish(w, ok)
              /\ StageWrite(w, y) \/ StageWrite(w, [y EXCEPT !.mid = TRUE])
  BY DEF ChromeProfile
<1> HIDE DEF s, k
<1> QED BY <1>2, <1>4, <1>5, Zenon

-----------------------------------------------------------------------------
(* The choice of a durable directory, and the copy of the finished attempt. *)

\* The only open window is w, and its staging file the only one.
LEMMA Alone ==
  ASSUME JInv, NEW w \in Windows, Open(w), NEW v \in Windows, v # w
  PROVE  ~Open(v) /\ staging[v] = Absent /\ StagingSound(w)
BY DEF JInv, OneWindow, StagingSound

LEMMA SelectJ ==
  ASSUME IInv, IInv', JInv, NEW w \in Windows, thread[w].pc = "attempt", staging[w] # Absent,
         staging[w].client = "native", faults' >= faults,
         NEW p \in Pendings, Chosen(staging[w], p), staging' = [staging EXCEPT ![w].source = p],
         \/ thread' = [thread EXCEPT ![w].pc = "check", ![w].dir = p]
         \/ Finish(w, FALSE),
         UNCHANGED <<window, retired, lock, active, consumed, handed, logins, crashes, unretired>>
  PROVE  JInv'
<1> DEFINE s == staging[w]
<1>1. Shape /\ Shape' /\ s \in Sessions
  <2>1. Shape /\ Shape'
    BY ShapeHolds, PTL
  <2> QED BY <2>1 DEF Shape
<1>2. /\ Open(w) /\ Ahead(w) /\ Begun(w) /\ window[w].page = "login" /\ ~Done(w)
      /\ Unused(s) /\ ~s.mid /\ StagingSound(w) /\ Follows(s)
  <2>1. StagingSound(w) /\ Follows(s)
    BY DEF JInv, Ordered
  <2>2. Open(w) /\ window[w].page = "login" /\ ~Done(w)
    BY <2>1 DEF StagingSound, IInv, Pages, Running, Open, Done
  <2> QED BY <2>1, <2>2 DEF StagingSound, Ahead, Begun
<1>3. \/ p \in Candidates(s) /\ UNCHANGED pending
      \/ Candidates(s) = {} /\ pending[p] = Absent /\ pending' = [pending EXCEPT ![p] = s]
  BY DEF Chosen
<1>4. PICK x : x = [s EXCEPT !.source = p]
  OBVIOUS
<1>5. /\ SameLogin(x, s) /\ x.source = p /\ x.mid = s.mid /\ x.raw = s.raw /\ x.token = s.token
      /\ x # Absent
  <2>1. x \in Sessions /\ SameLogin(x, s) /\ x.source = p /\ x.mid = s.mid /\ x.raw = s.raw
        /\ x.token = s.token
    BY <1>1, <1>4 DEF Sessions, SameLogin
  <2> QED BY <2>1, AbsentIsNoSession
<1>6. \A v \in Windows : staging'[v] = IF v = w THEN x ELSE staging[v]
  BY <1>1, <1>4 DEF Shape
<1>7. /\ \/ thread'[w].pc = "check" /\ thread'[w].dir = p
         \/ thread'[w].pc = "finish" /\ ~thread'[w].ok
      /\ \A v \in Windows : v # w => thread'[v] = thread[v]
  <2>1. CASE thread' = [thread EXCEPT ![w].pc = "check", ![w].dir = p]
    <3> PICK t : t = [thread[w] EXCEPT !.pc = "check", !.dir = p]
      OBVIOUS
    <3>1. thread' = [thread EXCEPT ![w] = t]
      BY ZenonT(30), <2>1
    <3>2. t.pc = "check" /\ t.dir = p
      BY <1>1 DEF Shape, ThreadShapes
    <3> QED BY <1>1, <3>1, <3>2 DEF Shape
  <2>2. CASE Finish(w, FALSE)
    <3>1. PICK t : thread' = [thread EXCEPT ![w] = t] /\ t.pc = "finish" /\ t.ok = FALSE
      BY <2>2, FinishAs
    <3> QED BY <1>1, <3>1 DEF Shape
  <2> QED BY <2>1, <2>2
\* What the choice says of p and of the login.
<1>8. /\ \A q \in Pendings : pending[q] # Absent => pending'[q] = pending[q]
      /\ \A q \in Pendings : pending'[q] # Absent => pending[q] # Absent \/ (q = p /\ pending'[p] = s)
      /\ pending'[p] # Absent /\ pending'[p].expected = s.expected
      /\ s.expected # None => pending'[p].baseline = s.baseline
      /\ \A q \in Pendings \ retired :
           pending'[q] # Absent /\ pending'[q].login = s.login => q = p
  <2>1. CASE p \in Candidates(s) /\ UNCHANGED pending
    <3>1. CASE s.source # None /\ s.source \notin retired
      <4>1. p = s.source
        BY <2>1, <3>1 DEF Candidates
      <4>2. pending[p] # Absent
        BY <3>1, <4>1 DEF IInv, Files, Sound
      <4> QED BY <1>2, <2>1, <3>1, <4>1, <4>2 DEF StagingSound, Unused
    <3>2. CASE ~(s.source # None /\ s.source \notin retired)
      <4>1. Matches(s, p)
        BY <2>1, <3>2 DEF Candidates
      <4>2. \A q \in Pendings \ retired : pending[q] # Absent => pending[q].login # s.login
        BY <1>2, <3>2, LoginConstants DEF Unused
      <4> QED BY <2>1, <4>1, <4>2 DEF Matches
    <3> QED BY <3>1, <3>2
  <2>2. CASE Candidates(s) = {} /\ pending[p] = Absent /\ pending' = [pending EXCEPT ![p] = s]
    <3>1. ~(s.source # None /\ s.source \notin retired)
      BY <2>2 DEF Candidates
    <3>2. \A q \in Pendings \ retired : pending[q] # Absent => pending[q].login # s.login
      BY <1>2, <3>1, LoginConstants DEF Unused
    <3>3. \A q \in Pendings : pending'[q] = IF q = p THEN s ELSE pending[q]
      BY <1>1, <2>2 DEF Shape
    <3> QED BY <2>2, <3>2, <3>3
  <2> QED BY <1>3, <2>1, <2>2
<1>9. \A v \in Windows : /\ Open(v)' <=> Open(v)
                         /\ Begun(v)' => Begun(v) /\ staging'[v].login = staging[v].login
                         /\ Installed(v)' <=> Installed(v)
                         /\ Replying(v)' => Replying(v) /\ thread'[v] = thread[v] /\ v # w
  <2>1. \A v \in Windows : v # w => ~Open(v) /\ staging[v] = Absent
    BY <1>2, Alone
  <2> QED BY <1>2, <1>5, <1>6, <1>7, <2>1 DEF Open, Begun, Installed, Replying, SameLogin
<1>10. Lineage'
  <2>1. ASSUME NEW y \in AllSessions' PROVE \E z \in AllSessions : SameLogin(y, z)
    <3>1. s \in AllSessions
      BY DEF AllSessions
    <3>2. CASE y \in AllSessions
      BY <3>2 DEF SameLogin
    <3>3. CASE y \notin AllSessions
      <4>1. y = x \/ y = s
        BY <1>6, <1>8, <2>1, <3>3 DEF AllSessions
      <4> QED BY <1>5, <3>1, <4>1 DEF SameLogin
    <3> QED BY <3>2, <3>3
  <2> QED BY <1>1, <2>1, LineageKept DEF JInv, Shape
<1>11. OneAttempt'
  BY <1>8 DEF JInv, OneAttempt
<1>12. OneWindow'
  BY <1>9 DEF JInv, OneWindow
<1>13. ASSUME NEW y, NEW y0, SameLogin(y, y0), Follows(y0) PROVE Follows(y)'
  BY <1>2, <1>8, <1>9, <1>13 DEF Follows, SameLogin
<1>14. ASSUME NEW y, NEW y0, NEW k, SameLogin(y, y0), Follows(y0), After(y0, k) PROVE After(y, k)'
  BY <1>2, <1>8, <1>14 DEF Follows, After, SameLogin
<1>15. Ordered'
  <2>1. ASSUME NEW q \in Pendings, pending'[q] # Absent
        PROVE  Follows(pending[q])' /\ (pending'[q].raw # 0 => After(pending[q], pending[q].raw)')
    <3>1. CASE pending[q] # Absent
      <4>1. /\ SameLogin(pending'[q], pending[q]) /\ Follows(pending[q])
            /\ pending[q].raw # 0 => After(pending[q], pending[q].raw)
            /\ pending'[q] = pending[q]
        BY <1>8, <3>1 DEF JInv, Ordered, SameLogin
      <4>2. Follows(pending[q])'
        BY <1>13, <4>1
      <4> QED BY <1>14, <4>1, <4>2
    <3>2. CASE pending'[q] = s
      <4>1. SameLogin(pending'[q], s)
        BY <3>2 DEF SameLogin
      <4>2. Follows(pending[q])'
        BY <1>2, <1>13, <4>1
      <4> QED BY <1>2, <3>2, <4>2 DEF Unused
    <3> QED BY <1>8, <2>1, <3>1, <3>2
  <2>2. ASSUME NEW v \in Windows, staging'[v] # Absent PROVE Follows(staging[v])'
    <3>1. staging[v] # Absent /\ SameLogin(staging'[v], staging[v])
      BY <1>5, <1>6, <2>2 DEF SameLogin
    <3>2. Follows(staging[v])
      BY <3>1 DEF JInv, Ordered
    <3> QED BY <1>13, <3>1, <3>2
  <2> QED BY <2>1, <2>2 DEF Ordered
<1>16. Distinct'
  <2>1. ASSUME NEW q \in Pendings, NEW r \in Pendings, pending'[q] # Absent, pending'[r] # Absent,
               pending'[q].raw # 0, pending'[q].raw = pending'[r].raw
        PROVE  q = r
    BY <1>2, <1>8, <2>1 DEF JInv, Distinct, Unused
  <2>2. ASSUME NEW v \in Windows, Replying(v)'
        PROVE  /\ thread'[v].reply \notin consumed'
               /\ \A q \in Pendings : pending'[q] # Absent => pending'[q].raw # thread'[v].reply
               /\ \A u \in Windows : Replying(u)' /\ thread'[u].reply = thread'[v].reply => u = v
    <3>1. Replying(v) /\ thread'[v] = thread[v] /\ thread[v].reply # 0
      BY <1>9, <2>2 DEF IInv, ThreadSound, Replying
    <3> QED BY <1>2, <1>8, <1>9, <3>1 DEF JInv, Distinct, Unused
  <2>3. ASSUME NEW v \in Windows, staging'[v] # Absent, staging'[v].client = "chrome",
               staging'[v].token # 0
        PROVE  /\ \A q \in Pendings : pending'[q] # Absent => pending'[q].raw # staging'[v].token
               /\ \A u \in Windows : Replying(u)' => thread'[u].reply # staging'[v].token
    <3>1. v # w
      BY <1>5, <1>6, <2>3 DEF SameLogin
    <3> QED BY <1>2, <1>6, <2>3, <3>1, Alone
  <2> QED BY <2>1, <2>2, <2>3 DEF Distinct
<1>17. SpentRetired'
  <2> SUFFICES ASSUME crashes' = 0, faults' = 0, NEW q \in Pendings \ retired', pending'[q] # Absent,
                      pending'[q].raw \in consumed' \ unretired'
               PROVE  \E v \in Windows : Installed(v)' /\ staging'[v].source = q
    BY DEF SpentRetired
  <2>1. crashes = 0 /\ faults = 0
    BY <1>1 DEF Shape
  <2>2. pending[q] # Absent /\ pending[q].raw \in consumed \ unretired
    BY <1>1, <1>2, <1>8 DEF Shape, Unused
  <2>3. PICK v \in Windows : Installed(v) /\ staging[v].source = q
    BY <2>1, <2>2 DEF JInv, SpentRetired
  <2> QED BY <1>2, <1>6, <1>9, <2>3 DEF Installed
<1>18. ASSUME NEW q \in Pendings PROVE AttemptSound(q)'
  BY <1>2, <1>8 DEF JInv, AttemptSound, Unused
<1>19. ASSUME NEW a \in Accounts PROVE ActiveSound(a)'
  <2> SUFFICES ASSUME active[a] # Absent PROVE ActiveSound(a)'
    BY DEF ActiveSound
  <2>1. /\ ActiveSound(a) /\ active[a].login # s.login
        /\ active[a].source # None => active[a].source \in Pendings
    BY <1>1, <1>2 DEF JInv, Unused, Shape, Sessions
  <2> QED BY <1>8, <2>1 DEF ActiveSound
<1>20. ASSUME NEW v \in Windows PROVE ThreadBound(v)'
  <2>1. CASE v = w
    BY <1>5, <1>6, <1>7, <2>1 DEF ThreadBound, SameLogin, NativeSteps, ChromeSteps, Handshaking
  <2>2. CASE v # w
    <3>1. thread'[v] = thread[v] /\ ThreadBound(v) /\ staging'[v] = Absent /\ ~Open(v)
      BY <1>2, <1>6, <1>7, <2>2, Alone DEF JInv
    <3> DEFINE d == thread[v].dir
    <3>2. thread[v].pc \in NativeSteps => d \in Pendings /\ pending[d] # Absent /\ pending'[d] = pending[d]
      BY <1>8 DEF IInv, ThreadSound
    <3>3. thread'[v].pc = "raw" => After(pending[thread[v].dir], thread[v].reply)'
      <4> SUFFICES ASSUME thread[v].pc = "raw"
                   PROVE  After(pending[thread[v].dir], thread[v].reply)'
        BY <3>1
      <4> PICK y : y = pending[d]
        OBVIOUS
      <4> PICK k : k = thread[v].reply
        OBVIOUS
      <4>1. Follows(y) /\ After(y, k) /\ SameLogin(y, y) /\ pending'[d] = y
        BY <3>1, <3>2 DEF JInv, Ordered, ThreadBound, SameLogin, NativeSteps, Handshaking
      <4>2. After(y, k)'
        BY <1>14, <4>1
      <4> QED BY <3>1, <4>1, <4>2 DEF After
    <3> QED BY <1>9, <3>1, <3>2, <3>3 DEF ThreadBound, NativeSteps, Handshaking
  <2> QED BY <2>1, <2>2
<1>21. ASSUME NEW v \in Windows PROVE StagingSound(v)'
  <2>1. CASE v # w
    BY <1>2, <1>6, <2>1, Alone DEF StagingSound
  <2>2. CASE v = w
    <3>1. staging'[w] = x /\ window'[w] = window[w] /\ Open(w)' /\ ~Ready(w)' /\ ~Installed(w)'
      BY <1>2, <1>6, <1>7, <1>9 DEF Ready, Done, Installed
    <3>2. Unused(staging[w])'
      BY <1>2, <1>5, <1>8, <3>1 DEF Unused, SameLogin
    <3> QED BY <1>2, <1>5, <1>8, <2>2, <3>1, <3>2 DEF StagingSound, SameLogin
  <2> QED BY <2>1, <2>2
<1>22. KeptForRecovery'
  BY <1>8 DEF JInv, KeptForRecovery
<1> QED BY <1>10, <1>11, <1>12, <1>15, <1>16, <1>17, <1>18, <1>19, <1>20, <1>21, <1>22 DEF JInv

LEMMA AttemptJ ==
  ASSUME IInv, IInv', JInv, NEW w \in Windows, Attempt(w)
  PROVE  JInv'
<1> DEFINE s == staging[w]
<1>1. /\ thread[w].pc = "attempt"
      /\ UNCHANGED <<window, retired, lock, active, consumed, handed, logins, crashes, unretired>>
  BY DEF Attempt, life
<1>2. CASE Finish(w, FALSE) /\ UNCHANGED <<pending, staging>> /\ (UNCHANGED faults \/ WriteFaults)
  BY <1>1, <1>2, StagingEnds
<1>3. ASSUME s # Absent, s.client = "native", UNCHANGED faults \/ WriteFaults,
             NEW p \in Pendings, Chosen(s, p), staging' = [staging EXCEPT ![w].source = p],
             \/ thread' = [thread EXCEPT ![w].pc = "check", ![w].dir = p]
             \/ Finish(w, FALSE)
      PROVE  JInv'
  <2>1. faults' >= faults
    BY <1>3, ShapeHolds, FaultsGrow
  <2> QED BY <1>1, <1>3, <2>1, SelectJ
<1>4. CASE /\ s # Absent /\ s.client = "chrome" /\ UNCHANGED <<pending, staging, faults>>
           /\ Finish(w, TRUE) \/ Goto(w, "scan")
  <2>1. PICK t : thread' = [thread EXCEPT ![w] = t] /\ t.pc \in {"finish", "scan"}
    <3>1. CASE Finish(w, TRUE)
      BY <3>1, FinishAs
    <3>2. CASE Goto(w, "scan")
      BY <3>2, GotoAs
    <3> QED BY <1>4, <3>1, <3>2
  <2>2. staging' = [staging EXCEPT ![w] = s] /\ faults' >= faults
    BY <1>4, StagedFacts, FaultsGrow
  <2>3. StagingOnly(w, t, s)
    BY <1>1, <1>4, <2>1, <2>2 DEF StagingOnly
  <2>4. Open(w) => Newest(s)
    BY <1>1, <1>4, StagedNewest
  <2>5. StagingAllowed(w, t, s)
    BY <1>1, <1>4, <2>1, <2>4, SameSelf DEF StagingAllowed, ChromeSteps, Newest
  <2> QED BY <2>3, <2>5, StagingMove
<1> HIDE DEF s
<1>5. \/ Finish(w, FALSE) /\ UNCHANGED <<pending, staging>> /\ (UNCHANGED faults \/ WriteFaults)
      \/ s # Absent /\ s.client = "native" /\ Select(w) /\ UNCHANGED faults
      \/ s # Absent /\ s.client = "native" /\ SelectFails(w)
      \/ /\ s # Absent /\ s.client = "chrome" /\ UNCHANGED <<pending, staging, faults>>
         /\ Finish(w, TRUE) \/ Goto(w, "scan")
  BY DEF Attempt, s
<1>6. CASE s # Absent /\ s.client = "native" /\ Select(w) /\ UNCHANGED faults
  <2>1. PICK p \in Pendings : /\ Chosen(s, p) /\ staging' = [staging EXCEPT ![w].source = p]
                              /\ thread' = [thread EXCEPT ![w].pc = "check", ![w].dir = p]
    BY <1>6, Zenon DEF Select, s
  <2> QED BY <1>3, <1>6, <2>1
<1>7. CASE s # Absent /\ s.client = "native" /\ SelectFails(w)
  <2>1. Finish(w, FALSE) /\ WriteFaults
    BY <1>7, Zenon DEF SelectFails
  <2>2. CASE UNCHANGED <<pending, staging>>
    BY <1>2, <2>1, <2>2
  <2>3. ASSUME NEW p \in Pendings, Chosen(s, p), staging' = [staging EXCEPT ![w].source = p]
        PROVE  JInv'
    BY <1>3, <1>7, <2>1, <2>3
  <2> QED BY <1>7, <2>2, <2>3, Zenon DEF SelectFails, s
<1> QED BY <1>2, <1>4, <1>5, <1>6, <1>7

\* The finished attempt becomes the staged login.
LEMMA StageCopyJ ==
  ASSUME IInv, IInv', JInv, NEW w \in Windows, thread[w].pc = "stage",
         thread[w].dir \notin retired, Open(w), Finish(w, TRUE),
         staging' = [staging EXCEPT ![w] = [pending[thread[w].dir] EXCEPT !.source = thread[w].dir]],
         UNCHANGED <<window, pending, retired, lock, active, consumed, handed, logins, crashes, unretired, faults>>
  PROVE  JInv'
<1> DEFINE p == thread[w].dir
           s == staging[w]
           q == pending[p]
<1>1. /\ Shape /\ Shape' /\ ThreadBound(w) /\ ThreadSound(w) /\ StagingSound(w)
  <2>1. Shape /\ Shape'
    BY ShapeHolds, PTL
  <2> QED BY <2>1 DEF IInv, JInv
<1>2. /\ p \in Pendings /\ q # Absent /\ q \in Sessions /\ q.token # 0
      /\ AttemptSound(p) /\ Follows(q)
  BY <1>1 DEF ThreadSound, ThreadBound, NativeSteps, Shape, JInv, Ordered
<1>3. /\ window[w].page = "login" /\ s # Absent /\ s.client = "native" /\ s.source = p
      /\ ~Done(w) /\ Ahead(w)
  BY <1>1 DEF IInv, Pages, Running, Open, ThreadBound, NativeSteps, Done, Ahead
<1> PICK x : x = [q EXCEPT !.source = p]
  OBVIOUS
<1>4. /\ SameLogin(x, q) /\ x.source = p /\ x.token = q.token /\ x # Absent
  <2>1. x \in Sessions /\ SameLogin(x, q) /\ x.source = p /\ x.token = q.token
    BY <1>2 DEF Sessions, SameLogin
  <2> QED BY <2>1, AbsentIsNoSession
<1>5. PICK t : thread' = [thread EXCEPT ![w] = t] /\ t.pc = "finish" /\ t.ok = TRUE
  BY FinishAs
<1>6. \A v \in Windows : /\ thread'[v] = IF v = w THEN t ELSE thread[v]
                         /\ staging'[v] = IF v = w THEN x ELSE staging[v]
  BY <1>1, <1>5 DEF Shape
<1>7. \A v \in Windows : /\ Open(v)' <=> Open(v)
                         /\ Begun(v)' => Begun(v) /\ staging'[v].login = staging[v].login
                         /\ Installed(v)' <=> Installed(v)
                         /\ Replying(v)' => Replying(v) /\ thread'[v] = thread[v] /\ v # w
                         /\ v # w => staging[v] = Absent /\ staging'[v] = Absent /\ ~Open(v)
  <2>1. \A v \in Windows : v # w => ~Open(v) /\ staging[v] = Absent
    BY Alone
  <2> QED BY <1>5, <1>6, <2>1 DEF Open, Begun, Installed, Replying, Ahead, Done
<1>8. Lineage'
  <2>1. ASSUME NEW y \in AllSessions' PROVE \E z \in AllSessions : SameLogin(y, z)
    <3>1. q \in AllSessions
      BY <1>2 DEF AllSessions
    <3>2. CASE y \in AllSessions
      BY <3>2 DEF SameLogin
    <3>3. CASE y \notin AllSessions
      <4>1. y = x
        BY <1>6, <2>1, <3>3 DEF AllSessions
      <4> QED BY <1>4, <3>1, <4>1
    <3> QED BY <3>2, <3>3
  <2> QED BY <1>1, <2>1, LineageKept DEF JInv, Shape
<1>9. OneAttempt' /\ OneWindow'
  BY <1>7 DEF JInv, OneAttempt, OneWindow
<1>10. ASSUME NEW y, NEW y0, SameLogin(y, y0), Follows(y0) PROVE Follows(y)'
  BY <1>7, <1>10 DEF Follows, SameLogin
<1>11. Ordered'
  <2>1. ASSUME NEW r \in Pendings, pending'[r] # Absent
        PROVE  Follows(pending[r])' /\ (pending'[r].raw # 0 => After(pending[r], pending[r].raw)')
    <3>1. /\ Follows(pending[r]) /\ SameLogin(pending'[r], pending[r])
          /\ pending[r].raw # 0 => After(pending[r], pending[r].raw)
      BY <2>1 DEF JInv, Ordered, SameLogin
    <3>2. Follows(pending[r])'
      BY <1>10, <3>1
    <3> QED BY <3>1, <3>2 DEF After
  <2>2. ASSUME NEW v \in Windows, staging'[v] # Absent PROVE Follows(staging[v])'
    <3>1. v = w /\ SameLogin(staging'[v], q)
      BY <1>4, <1>6, <1>7, <2>2
    <3> QED BY <1>2, <1>10, <3>1
  <2> QED BY <2>1, <2>2 DEF Ordered
<1>12. Distinct'
  <2>1. \A v \in Windows : staging'[v] # Absent => staging'[v].client = "native"
    BY <1>2, <1>4, <1>6, <1>7 DEF SameLogin, AttemptSound
  <2> QED BY <1>2, <1>7, <2>1 DEF JInv, Distinct
<1>13. SpentRetired'
  <2> SUFFICES ASSUME crashes' = 0, faults' = 0, NEW r \in Pendings \ retired', pending'[r] # Absent,
                      pending'[r].raw \in consumed' \ unretired'
               PROVE  \E v \in Windows : Installed(v)' /\ staging'[v].source = r
    BY DEF SpentRetired
  <2>1. PICK v \in Windows : Installed(v) /\ staging[v].source = r
    BY DEF JInv, SpentRetired
  <2> QED BY <1>3, <1>6, <1>7, <2>1 DEF Installed
<1>14. ASSUME NEW r \in Pendings PROVE AttemptSound(r)'
  BY DEF JInv, AttemptSound
<1>15. ASSUME NEW a \in Accounts PROVE ActiveSound(a)'
  BY DEF JInv, ActiveSound
<1>16. ASSUME NEW v \in Windows PROVE ThreadBound(v)'
  <2>1. CASE v = w
    BY <1>5, <1>6, <2>1 DEF ThreadBound, NativeSteps, Handshaking, ChromeSteps
  <2>2. CASE v # w
    BY <1>6, <1>7, <2>2 DEF JInv, ThreadBound, After
  <2> QED BY <2>1, <2>2
<1>17. ASSUME NEW v \in Windows PROVE StagingSound(v)'
  <2>1. CASE v # w
    BY <1>7, <2>1 DEF StagingSound
  <2>2. CASE v = w
    <3>1. staging'[w] = x /\ window'[w] = window[w] /\ Open(w)' /\ Ready(w)' /\ ~Installed(w)'
          /\ ~Ahead(w)' /\ ~Begun(w)'
      BY <1>3, <1>5, <1>6, <1>7 DEF Ready, Done, Installed, Ahead, Begun
    <3>2. q.expected = s.expected /\ (s.expected # None => q.baseline = s.baseline)
      BY <1>1, <1>2, <1>3, LoginConstants DEF StagingSound
    <3>3. Copied(staging[w])'
      BY <1>2, <1>4, <3>1, LoginConstants DEF Copied, AttemptSound, SameLogin
    <3>4. x.client = "native"
      BY <1>2, <1>4 DEF AttemptSound, SameLogin
    <3> QED BY <1>1, <1>3, <1>4, <2>2, <3>1, <3>2, <3>3, <3>4 DEF StagingSound, SameLogin
  <2> QED BY <2>1, <2>2
<1>18. KeptForRecovery'
  BY DEF JInv, KeptForRecovery
<1> QED BY <1>8, <1>9, <1>11, <1>12, <1>13, <1>14, <1>15, <1>16, <1>17, <1>18 DEF JInv

LEMMA StageJ ==
  ASSUME IInv, IInv', JInv, NEW w \in Windows, Stage(w)
  PROVE  JInv'
<1> DEFINE p == thread[w].dir
<1>1. /\ thread[w].pc = "stage" /\ thread[w].pc \in NativeSteps
      /\ UNCHANGED <<window, pending, retired, lock, active, consumed, handed, logins, crashes, unretired>>
  BY DEF Stage, life, NativeSteps
<1>2. CASE Finish(w, FALSE) /\ UNCHANGED staging /\ (UNCHANGED faults \/ WriteFaults)
  <2>1. LockedStep
    BY <1>2 DEF Stage, LockedStep
  <2> QED BY <1>1, <1>2, <2>1, FinishJ
<1>3. CASE /\ ~(p \in retired \/ window[w].page = "closed") /\ Finish(w, TRUE) /\ UNCHANGED faults
           /\ staging' = [staging EXCEPT ![w] = [pending[p] EXCEPT !.source = p]]
  BY <1>1, <1>3, StageCopyJ DEF Open
<1> QED BY <1>2, <1>3 DEF Stage

LEMMA ThreadStepJ ==
  ASSUME IInv, IInv', JInv, NEW w \in Windows, ThreadStep(w)
  PROVE  JInv'
BY AttemptJ, NativeCheckJ, NativeLockJ, ReadAttemptJ, HandshakeJ, MarkStartedJ, SendRequestJ, TokenReplyJ,
   SaveReplyJ, SaveResultJ, UnwrapJ, RecoverKeysJ, StageJ, ChromeScanJ, ChromeIssueJ,
   ChromeProfileJ, Zenon DEF ThreadStep

-----------------------------------------------------------------------------
(* Steps of the login window that write no login.                          *)

\* Window w comes to page g, its thread to t, and its staging file stays or goes.
WindowOnly(w, g, t, x) ==
    /\ window' = [window EXCEPT ![w] = g]
    /\ thread' = [thread EXCEPT ![w] = t]
    /\ staging' = [staging EXCEPT ![w] = x]
    /\ UNCHANGED <<pending, lock, active, consumed, logins, crashes>>
    /\ retired \subseteq retired' /\ handed' \subseteq handed /\ faults' >= faults
    /\ unretired \subseteq unretired'

WindowKeeps(w, g, t, x) ==
    /\ t = thread[w] \/ t.pc \in {"idle", "attempt"}
    /\ x \in {staging[w], Absent}
    /\ g.page # "closed" => \/ Open(w)
                            \/ t.pc = "idle" /\ \A v \in Windows : ~Open(v)
    /\ UNCHANGED retired \/ Open(w)
    /\ x # Absent =>
         /\ g.page \notin {"closed", "activated"}
         /\ g.page \in {"client", "login", "recovery"} => Ahead(w) \/ (t = thread[w] /\ Ready(w))
         /\ g.page = "login" /\ Ready(w) => UNCHANGED retired

\* Nothing that a failed activation left is retired or forgotten.
LEMMA KeptStays ==
  ASSUME KeptForRecovery, UNCHANGED <<pending, retired>>, handed' \subseteq handed
  PROVE  KeptForRecovery'
BY DEF KeptForRecovery

\* A window that has activated an attempt still has it.
LEMMA SpentStays ==
  ASSUME Shape, Shape', SpentRetired, UNCHANGED <<pending, consumed, crashes>>,
         retired \subseteq retired', unretired \subseteq unretired', faults' >= faults,
         \A v \in Windows : Installed(v) => Installed(v)' /\ staging'[v] = staging[v]
  PROVE  SpentRetired'
<1> SUFFICES ASSUME crashes' = 0, faults' = 0, NEW p \in Pendings \ retired', pending'[p] # Absent,
                    pending'[p].raw \in consumed' \ unretired'
             PROVE  \E v \in Windows : Installed(v)' /\ staging'[v].source = p
  BY DEF SpentRetired
<1>1. crashes = 0 /\ faults = 0 /\ p \in Pendings \ retired
  BY DEF Shape
<1>2. PICK v \in Windows : Installed(v) /\ staging[v].source = p
  BY <1>1 DEF SpentRetired
<1> QED BY <1>2

LEMMA WindowStep ==
  ASSUME IInv, IInv', JInv, NEW w \in Windows, NEW g, NEW t, NEW x,
         WindowOnly(w, g, t, x), WindowKeeps(w, g, t, x), KeptForRecovery', SpentRetired'
  PROVE  JInv'
<1>1. Shape /\ Shape'
  BY ShapeHolds, PTL
<1>2. /\ UNCHANGED <<pending, lock, active, consumed, logins, crashes>>
      /\ \A v \in Windows : /\ window'[v] = IF v = w THEN g ELSE window[v]
                            /\ thread'[v] = IF v = w THEN t ELSE thread[v]
                            /\ staging'[v] = IF v = w THEN x ELSE staging[v]
      /\ retired \subseteq retired' /\ handed' \subseteq handed
  BY <1>1 DEF WindowOnly, Shape
<1>3. /\ \A v \in Windows : staging'[v] # Absent => staging'[v] = staging[v]
      /\ \A v \in Windows : v # w => /\ Open(v)' <=> Open(v)
                                     /\ Ahead(v)' <=> Ahead(v)
                                     /\ Begun(v)' <=> Begun(v)
                                     /\ Ready(v)' <=> Ready(v)
                                     /\ Installed(v)' <=> Installed(v)
  BY <1>2 DEF WindowKeeps, Open, Done, Ahead, Begun, Ready, Installed
<1>4. x # Absent => /\ staging[w] = x /\ staging'[w] = x
                    /\ Open(w)' /\ ~Installed(w)'
                    /\ Ahead(w)' => Ahead(w)
                    /\ Begun(w)' => Begun(w)
                    /\ Ready(w)' => Ready(w) /\ UNCHANGED retired
                    /\ g.page \in {"client", "login", "recovery"} =>
                         window[w].page \in {"client", "login", "recovery"}
  BY <1>2 DEF WindowKeeps, Open, Done, Ahead, Begun, Ready, Installed
<1>5. \A v \in Windows : Begun(v)' => Begun(v) /\ staging'[v] = staging[v]
  BY <1>2, <1>3, <1>4 DEF Begun
<1>6. OneWindow'
  BY <1>2, <1>3 DEF JInv, OneWindow, WindowKeeps, Open
<1>7. Lineage' /\ OneAttempt'
  <2>1. ASSUME NEW s \in AllSessions' PROVE \E y \in AllSessions : SameLogin(s, y)
    <3>1. s \in AllSessions
      BY <1>2, <1>3 DEF AllSessions
    <3> QED BY <3>1, SameSelf
  <2>2. Lineage'
    BY <1>1, <1>2, <2>1, LineageKept DEF JInv, Shape
  <2>3. OneAttempt'
    BY <1>2 DEF JInv, OneAttempt
  <2> QED BY <2>2, <2>3
<1>8. \A s : Follows(s) => Follows(s)'
  BY <1>2, <1>5 DEF Follows
<1>9. \A s, k : After(s, k) => After(s, k)'
  BY <1>2 DEF After
<1>10. Ordered'
  <2>1. ASSUME NEW p \in Pendings, pending'[p] # Absent
        PROVE  Follows(pending[p])' /\ (pending'[p].raw # 0 => After(pending[p], pending[p].raw)')
    <3> PICK s : s = pending[p]
      OBVIOUS
    <3>1. /\ Follows(s)
          /\ s.raw # 0 => After(s, s.raw)
          /\ pending'[p] = s
      BY <1>2, <2>1 DEF JInv, Ordered
    <3>2. /\ Follows(s)'
          /\ s.raw # 0 => After(s, s.raw)'
      BY <1>8, <1>9, <3>1
    <3> QED BY <3>1, <3>2 DEF Follows, After
  <2>2. ASSUME NEW v \in Windows, staging'[v] # Absent PROVE Follows(staging[v])'
    <3> PICK s : s = staging[v]
      OBVIOUS
    <3>1. Follows(s) /\ staging'[v] = s
      BY <1>3, <2>2 DEF JInv, Ordered
    <3>2. Follows(s)'
      BY <1>8, <3>1
    <3> QED BY <3>1, <3>2 DEF Follows
  <2> QED BY <2>1, <2>2 DEF Ordered
<1>11. Distinct'
  <2>1. \A v \in Windows : Replying(v)' => Replying(v) /\ thread'[v] = thread[v]
    BY <1>2 DEF Replying, WindowKeeps
  <2> QED BY <1>2, <1>3, <2>1 DEF JInv, Distinct
<1>12. ASSUME NEW p \in Pendings PROVE AttemptSound(p)'
  BY <1>2 DEF JInv, AttemptSound
<1>13. ASSUME NEW a \in Accounts PROVE ActiveSound(a)'
  BY <1>2 DEF JInv, ActiveSound
<1>14. ASSUME NEW v \in Windows PROVE ThreadBound(v)'
  <2>1. CASE thread'[v] # thread[v]
    <3>1. thread'[v].pc \in {"idle", "attempt"}
      BY <1>2, <2>1 DEF WindowKeeps
    <3> QED BY <3>1 DEF ThreadBound, NativeSteps, Handshaking, ChromeSteps
  <2>2. CASE thread'[v] = thread[v]
    <3>1. ThreadBound(v)
      BY DEF JInv
    <3>2. Open(v)' /\ thread[v].pc = "profile" => Open(v)
      BY <1>2, <1>3, <2>2 DEF WindowKeeps, Open
    <3>3. thread[v].pc = "raw" => After(pending[thread[v].dir], thread[v].reply)'
      <4> PICK s : s = pending[thread[v].dir]
        OBVIOUS
      <4> PICK k : k = thread[v].reply
        OBVIOUS
      <4>1. thread[v].pc = "raw" => After(s, k)'
        BY <1>9, <3>1 DEF ThreadBound
      <4> QED BY <1>2, <2>2, <4>1 DEF After
    <3> QED BY <1>2, <1>3, <2>2, <3>1, <3>2, <3>3 DEF ThreadBound
  <2> QED BY <2>1, <2>2
<1>15. ASSUME NEW v \in Windows PROVE StagingSound(v)'
  <2> SUFFICES ASSUME staging'[v] # Absent PROVE StagingSound(v)'
    BY DEF StagingSound
  <2>1. StagingSound(v) /\ staging'[v] = staging[v] /\ staging[v] # Absent
    BY <1>3 DEF JInv
  <2>2. Begun(v)' => Unused(staging[v])'
    BY <1>2, <1>5, <2>1 DEF StagingSound, Unused
  <2>3. CASE v = w
    <3>1. staging[w] = x /\ x # Absent
      BY <1>2, <2>3, <2>1
    <3> QED BY <1>2, <1>4, <2>1, <2>2, <2>3, <3>1 DEF StagingSound, Copied
  <2>4. CASE v # w
    <3>1. UNCHANGED retired
      BY <2>1, <2>4 DEF StagingSound, WindowKeeps, JInv, OneWindow
    <3> QED BY <1>2, <1>3, <2>1, <2>2, <2>4, <3>1 DEF StagingSound, Copied
  <2> QED BY <2>3, <2>4
<1> QED BY <1>6, <1>7, <1>10, <1>11, <1>12, <1>13, <1>14, <1>15 DEF JInv

\* A step that retires nothing, and takes no installed login from a window.
LEMMA QuietWindow ==
  ASSUME IInv, IInv', JInv, NEW w \in Windows, NEW g, NEW t, NEW x, UNCHANGED retired,
         WindowOnly(w, g, t, x), WindowKeeps(w, g, t, x), ~Installed(w)
  PROVE  JInv'
<1>1. Shape /\ Shape'
  BY ShapeHolds, PTL
<1>2. KeptForRecovery'
  BY KeptStays DEF JInv, WindowOnly
<1>3. \A v \in Windows : Installed(v) => Installed(v)' /\ staging'[v] = staging[v]
  BY <1>1 DEF WindowOnly, Installed, Shape
<1>4. SpentRetired'
  BY <1>1, <1>3, SpentStays DEF JInv, WindowOnly
<1> QED BY <1>2, <1>4, WindowStep

LEMMA OpenWindowJ ==
  ASSUME IInv, IInv', JInv, NEW w \in Windows, NEW e \in Accounts \cup {None}, OpenWindow(w, e)
  PROVE  JInv'
<1> PICK g : g = [page |-> "client", expected |-> e, back |-> FALSE]
  OBVIOUS
<1>1. /\ window' = [window EXCEPT ![w] = g] /\ g.page = "client" /\ thread[w].pc = "idle"
      /\ \A v \in Windows : ~Open(v)
      /\ UNCHANGED <<thread, staging, pending, retired, active, consumed, lock, handed, logins,
                     crashes, unretired, faults>>
  BY DEF OpenWindow, disk, lim, life, Running, Open
<1>2. WindowOnly(w, g, thread[w], staging[w])
  BY <1>1, StagedFacts, FaultsGrow DEF WindowOnly
<1>3. staging[w] = Absent
  BY <1>1 DEF JInv, StagingSound
<1>4. WindowKeeps(w, g, thread[w], staging[w])
  BY <1>1, <1>3 DEF WindowKeeps
<1> QED BY <1>1, <1>2, <1>4, QuietWindow DEF Installed, Open

LEMMA PrepareFailsJ ==
  ASSUME IInv, IInv', JInv, NEW w \in Windows, PrepareFails(w)
  PROVE  JInv'
<1>1. /\ window[w].page = "client" /\ staging[w] = Absent /\ WriteFaults
      /\ UNCHANGED <<thread, staging, pending, retired, active, consumed, lock, handed, logins,
                     crashes, unretired>>
  BY DEF PrepareFails, disk, life
<1>2. PICK g : window' = [window EXCEPT ![w] = g]
  BY StagedFacts DEF PrepareFails
<1>3. WindowOnly(w, g, thread[w], staging[w])
  BY <1>1, <1>2, StagedFacts, FaultsGrow DEF WindowOnly
<1>4. WindowKeeps(w, g, thread[w], staging[w])
  BY <1>1 DEF WindowKeeps, Open
<1> QED BY <1>1, <1>3, <1>4, QuietWindow DEF Installed

\* A thread starts in a window that has its staging file.
LEMMA StartAgain ==
  ASSUME IInv, IInv', JInv, NEW w \in Windows, StartThread(w),
         window[w].page \in {"client", "recovery"},
         UNCHANGED <<staging, pending, retired, active, consumed, lock, handed, logins, crashes, unretired,
                     faults>>
  PROVE  JInv'
<1> PICK g : g = [window[w] EXCEPT !.page = "login"]
  OBVIOUS
<1> PICK t : t = [Idle EXCEPT !.pc = "attempt"]
  OBVIOUS
<1>1. /\ window' = [window EXCEPT ![w] = g] /\ thread' = [thread EXCEPT ![w] = t]
      /\ thread[w].pc = "idle" /\ t.pc = "attempt"
  BY ZenonT(30) DEF StartThread, Running, Idle
<1>2. g.page = "login"
  BY StagedFacts DEF Shape, Windowed
<1>3. WindowOnly(w, g, t, staging[w])
  BY <1>1, StagedFacts, FaultsGrow DEF WindowOnly
<1>4. WindowKeeps(w, g, t, staging[w])
  BY <1>1, <1>2 DEF WindowKeeps, Open, Ahead, Done
<1> QED BY <1>3, <1>4, QuietWindow DEF Installed

LEMMA RetryJ ==
  ASSUME IInv, IInv', JInv, NEW w \in Windows, Retry(w)
  PROVE  JInv'
BY StartAgain DEF Retry, disk, lim, life

LEMMA GoBackJ ==
  ASSUME IInv, IInv', JInv, NEW w \in Windows, GoBack(w)
  PROVE  JInv'
<1>1. /\ window[w].page \in {"login", "recovery"}
      /\ UNCHANGED <<thread, staging, pending, retired, active, consumed, lock, handed, logins,
                     crashes, unretired, faults>>
  BY DEF GoBack, disk, lim, life
<1>2. PICK g : /\ window' = [window EXCEPT ![w] = g]
               /\ \/ g.page = "login" /\ window[w].page = "login"
                  \/ g.page = "client" /\ window[w].page = "recovery"
  <2>1. CASE window[w].page = "login"
    <3> PICK g : g = [window[w] EXCEPT !.back = TRUE]
      OBVIOUS
    <3>1. window' = [window EXCEPT ![w] = g]
      BY ZenonT(30), <2>1 DEF GoBack
    <3>2. g.page = "login"
      BY <2>1, StagedFacts DEF Shape, Windowed
    <3> QED BY <2>1, <3>1, <3>2
  <2>2. CASE window[w].page = "recovery"
    <3> PICK g : g = [window[w] EXCEPT !.page = "client"]
      OBVIOUS
    <3>1. window' = [window EXCEPT ![w] = g]
      BY ZenonT(30), <2>2 DEF GoBack
    <3>2. g.page = "client"
      BY <2>2, StagedFacts DEF Shape, Windowed
    <3> QED BY <2>2, <3>1, <3>2
  <2> QED BY <1>1, <2>1, <2>2
<1>3. WindowOnly(w, g, thread[w], staging[w])
  BY <1>1, <1>2, StagedFacts, FaultsGrow DEF WindowOnly
<1>4. window[w].page = "recovery" => ~Done(w)
  BY DEF IInv, Pages, Running, Done
<1>5. WindowKeeps(w, g, thread[w], staging[w])
  BY <1>1, <1>2, <1>4 DEF WindowKeeps, Open, Ahead, Ready
<1> QED BY <1>1, <1>3, <1>5, QuietWindow DEF Installed

LEMMA CloseWindowJ ==
  ASSUME IInv, IInv', JInv, NEW w \in Windows, CloseWindow(w)
  PROVE  JInv'
<1> PICK g : g = [window[w] EXCEPT !.page = "closed", !.back = FALSE]
  OBVIOUS
<1>1. /\ window[w].page # "activated" /\ staging' = [staging EXCEPT ![w] = Absent]
      /\ window' = [window EXCEPT ![w] = g] /\ g.page = "closed"
      /\ UNCHANGED <<thread, pending, retired, active, consumed, lock, handed, logins, crashes, unretired,
                     faults>>
  <2>1. g.page = "closed"
    BY StagedFacts DEF Shape, Windowed
  <2>2. window' = [window EXCEPT ![w] = g]
    BY ZenonT(30) DEF CloseWindow
  <2> QED BY <2>1, <2>2 DEF CloseWindow, lim, life
<1>2. WindowOnly(w, g, thread[w], Absent)
  BY <1>1, StagedFacts, FaultsGrow DEF WindowOnly
<1>3. WindowKeeps(w, g, thread[w], Absent)
  BY <1>1 DEF WindowKeeps
<1> QED BY <1>1, <1>2, <1>3, QuietWindow DEF Installed

LEMMA FinishFailedJ ==
  ASSUME IInv, IInv', JInv, NEW w \in Windows, FinishFailed(w)
  PROVE  JInv'
<1>1. /\ thread[w].pc = "finish" /\ thread[w].ok => window[w].page = "closed"
      /\ thread' = [thread EXCEPT ![w] = Idle]
      /\ window[w].page \in {"login", "closed"}
      /\ UNCHANGED <<staging, pending, retired, active, consumed, lock, handed, logins, crashes, unretired,
                     faults>>
  BY DEF FinishFailed, disk, lim, life, IInv, Pages, Running
<1>2. PICK g : /\ window' = [window EXCEPT ![w] = g]
               /\ g.page = "closed" <=> window[w].page = "closed"
               /\ g.page \in {"closed", "client", "recovery", "failed"}
  <2>1. CASE window[w].page = "closed"
    BY <2>1, StagedFacts DEF FinishFailed
  <2>2. CASE window[w].page = "login"
    <3> PICK show : /\ show = IF window[w].back THEN "client"
                              ELSE IF staging[w].source # None THEN "recovery" ELSE "failed"
      OBVIOUS
    <3> PICK g : g = [window[w] EXCEPT !.page = show, !.back = FALSE]
      OBVIOUS
    <3>1. window' = [window EXCEPT ![w] = g]
      BY ZenonT(30), <2>2 DEF FinishFailed
    <3>2. g.page = show
      BY StagedFacts DEF Shape, Windowed
    <3>3. show \in {"client", "recovery", "failed"}
      OBVIOUS
    <3>4. g.page # "closed" /\ window[w].page # "closed"
      BY <2>2, <3>2, <3>3
    <3> QED BY <3>1, <3>2, <3>3, <3>4
  <2> QED BY <1>1, <2>1, <2>2
<1>3. WindowOnly(w, g, Idle, staging[w])
  BY <1>1, <1>2, StagedFacts, FaultsGrow DEF WindowOnly
<1>4. window[w].page = "closed" => staging[w] = Absent
  BY DEF JInv, StagingSound, Open
<1>5. WindowKeeps(w, g, Idle, staging[w])
  BY <1>1, <1>2, <1>4 DEF WindowKeeps, Open, Ahead, Done, Idle
<1> QED BY <1>1, <1>3, <1>5, QuietWindow DEF Installed

LEMMA HandoverRejectedJ ==
  ASSUME IInv, IInv', JInv, NEW w \in Windows, HandoverRejected(w)
  PROVE  JInv'
<1>1. /\ thread' = [thread EXCEPT ![w] = Idle] /\ window[w].page = "login"
      /\ staging' = [staging EXCEPT ![w] = Absent]
      /\ UNCHANGED <<pending, retired, active, consumed, lock, handed, logins, crashes, unretired, faults>>
  BY DEF HandoverRejected, lim, life
<1>2. PICK g : window' = [window EXCEPT ![w] = g]
  BY DEF HandoverRejected
<1>3. WindowOnly(w, g, Idle, Absent)
  BY <1>1, <1>2, StagedFacts, FaultsGrow DEF WindowOnly
<1>4. WindowKeeps(w, g, Idle, Absent)
  BY <1>1 DEF WindowKeeps, Open, Idle
<1> QED BY <1>1, <1>3, <1>4, QuietWindow DEF Installed

\* The attempt of the login that is active now; its token is no longer handed.
LEMMA RetireConsumedJ ==
  ASSUME IInv, IInv', JInv, NEW w \in Windows, RetireConsumed(w)
  PROVE  JInv'
<1> DEFINE s == staging[w]
           p == s.source
<1> PICK g : g = [window[w] EXCEPT !.page = "closed"]
  OBVIOUS
<1>1. /\ window[w].page = "activated" /\ staging' = [staging EXCEPT ![w] = Absent]
      /\ window' = [window EXCEPT ![w] = g]
      /\ UNCHANGED <<thread, pending, active, consumed, lock, handed, logins, crashes>>
  BY DEF RetireConsumed, life
<1>2. /\ Shape /\ Shape'
  BY ShapeHolds, PTL
<1>3. \/ p # None /\ retired' = retired \cup {p} /\ UNCHANGED <<faults, unretired>>
      \/ p # None /\ unretired' = unretired \cup {s.token} /\ UNCHANGED <<retired, faults>>
      \/ p = None /\ UNCHANGED <<retired, faults, unretired>>
      \/ WriteFaults /\ UNCHANGED <<retired, unretired>>
  BY DEF RetireConsumed
<1>4. /\ s # Absent /\ s \in Sessions /\ StagingSound(w) /\ Installed(w) /\ Open(w)
  BY <1>1, <1>2 DEF IInv, Pages, JInv, Installed, Open, Shape
<1>5. p # None => s.token = pending[p].raw /\ s.token \notin handed
  <2>1. p # None => s.client = "native"
    BY <1>4 DEF StagingSound, Sessions
  <2> QED BY <1>4, <2>1 DEF StagingSound, Copied
<1>6. WindowOnly(w, g, thread[w], Absent)
  BY <1>1, <1>3, StagedFacts, FaultsGrow DEF WindowOnly
<1>7. WindowKeeps(w, g, thread[w], Absent)
  BY <1>4 DEF WindowKeeps
<1>8. KeptForRecovery'
  BY <1>1, <1>3, <1>5 DEF JInv, KeptForRecovery
<1>9. SpentRetired'
  <2> SUFFICES ASSUME crashes' = 0, faults' = 0, NEW q \in Pendings \ retired', pending'[q] # Absent,
                      pending'[q].raw \in consumed' \ unretired'
               PROVE  FALSE
    BY DEF SpentRetired
  <2>1. crashes = 0 /\ faults = 0 /\ q \in Pendings \ retired
    BY <1>1, <1>2, <1>6 DEF WindowOnly, Shape
  <2>2. PICK v \in Windows : Installed(v) /\ staging[v].source = q
    BY <1>1, <1>6, <2>1 DEF JInv, SpentRetired, WindowOnly
  <2>3. v = w
    BY <1>4, <2>2 DEF JInv, OneWindow, Installed, Open
  <2>4. ~WriteFaults
    BY <1>2, <2>1 DEF WriteFaults, Shape
  <2>5. p # None /\ s.token = pending'[q].raw
    BY <1>1, <1>5, <2>2, <2>3, LoginConstants
  <2> QED BY <1>3, <2>2, <2>3, <2>4, <2>5
<1> QED BY <1>6, <1>7, <1>8, <1>9, WindowStep

-----------------------------------------------------------------------------
(* A new login is staged under a login id of its own.                      *)

\* Session x is a login nobody has tokens for, of the client of its baseline.
FreshLogin(x) ==
    /\ x \in Sessions /\ x.login = logins + 1
    /\ x.source = None /\ x.raw = 0 /\ x.token = 0 /\ ~x.mid
    /\ x.expected # None =>
         /\ x.baseline \in Nat /\ x.baseline <= logins
         /\ \A s \in AllSessions : s.login = x.baseline => s.client = x.client
         /\ \A q \in Pendings \ retired :
              pending[q] # Absent /\ pending[q].login = x.baseline => pending[q].raw # 0
         /\ active[x.expected] = Absent \/ active[x.expected].login = x.baseline

LEMMA NewLoginJ ==
  ASSUME IInv, IInv', JInv, NEW w \in Windows, NEW x, FreshLogin(x), StartThread(w),
         window[w].page \in {"client", "recovery"},
         staging' = [staging EXCEPT ![w] = x], logins' = logins + 1,
         UNCHANGED <<pending, active, consumed, lock, crashes, unretired, faults>>,
         retired \subseteq retired', handed' \subseteq handed, KeptForRecovery'
  PROVE  JInv'
<1>1. Shape /\ Shape'
  BY ShapeHolds, PTL
<1>2. PICK g : /\ window' = [window EXCEPT ![w] = g] /\ g.page = "login"
  <2> PICK g : g = [window[w] EXCEPT !.page = "login"]
    OBVIOUS
  <2>1. window' = [window EXCEPT ![w] = g]
    BY ZenonT(30) DEF StartThread
  <2>2. g.page = "login"
    BY StagedFacts DEF Shape, Windowed
  <2> QED BY <2>1, <2>2
<1>3. PICK t : thread' = [thread EXCEPT ![w] = t] /\ t.pc = "attempt"
  <2> PICK t : t = [Idle EXCEPT !.pc = "attempt"]
    OBVIOUS
  <2>1. thread' = [thread EXCEPT ![w] = t]
    BY ZenonT(30) DEF StartThread
  <2>2. t.pc = "attempt"
    BY DEF Idle
  <2> QED BY <2>1, <2>2
<1>4. \A v \in Windows : /\ window'[v] = IF v = w THEN g ELSE window[v]
                         /\ thread'[v] = IF v = w THEN t ELSE thread[v]
                         /\ staging'[v] = IF v = w THEN x ELSE staging[v]
  BY <1>1, <1>2, <1>3 DEF Shape
<1>5. x # Absent /\ Open(w) /\ ~Installed(w)
  BY AbsentIsNoSession DEF FreshLogin, Open, Installed
<1>6. \A v \in Windows : v # w => staging[v] = Absent /\ staging'[v] = Absent /\ ~Open(v)
  BY <1>4, <1>5, Alone
<1>7. \A v \in Windows : /\ Open(v)' <=> Open(v)
                         /\ Begun(v)' => v = w
                         /\ Installed(v) => FALSE
                         /\ Replying(v)' => v # w /\ Replying(v) /\ thread'[v] = thread[v]
  BY <1>2, <1>3, <1>4, <1>5, <1>6 DEF Open, Begun, Installed, Replying
<1>8. \A s \in AllSessions : s \in Sessions /\ s.login \in Nat /\ s.login <= logins
                             /\ s.baseline \in Nat
                             /\ (s.expected # None => s.baseline < s.login)
  BY <1>1 DEF AllSessions, JInv, Lineage, Shape, Sessions
<1>9. logins \in Nat /\ logins' = logins + 1
  BY <1>1 DEF Shape
<1>10. Lineage'
  <2>1. ASSUME NEW s \in AllSessions' PROVE s \in AllSessions \/ s = x
    BY <1>4 DEF AllSessions
  <2>2. ASSUME NEW s \in AllSessions'
        PROVE  s.login <= logins' /\ (s.expected # None => s.baseline < s.login)
    BY <1>8, <1>9, <2>1 DEF FreshLogin
  <2>3. ASSUME NEW s \in AllSessions', NEW y \in AllSessions',
               s.login = y.login \/ (s.expected # None /\ s.baseline = y.login)
        PROVE  s.client = y.client
    <3>1. CASE s = x /\ y = x
      BY <3>1
    <3>2. CASE s = x /\ y \in AllSessions
      BY <1>8, <1>9, <2>3, <3>2 DEF FreshLogin
    <3>3. CASE s \in AllSessions /\ y = x
      <4>1. s.login # x.login /\ (s.expected # None => s.baseline # x.login)
        BY <1>8, <1>9, <3>3 DEF FreshLogin
      <4> QED BY <2>3, <3>3, <4>1
    <3>4. CASE s \in AllSessions /\ y \in AllSessions
      BY <2>3, <3>4 DEF JInv, Lineage
    <3> QED BY <2>1, <3>1, <3>2, <3>3, <3>4
  <2> QED BY <2>2, <2>3 DEF Lineage
<1>11. OneAttempt' /\ OneWindow'
  BY <1>7 DEF JInv, OneAttempt, OneWindow
<1>12. ASSUME NEW p \in Pendings, pending[p] # Absent
       PROVE  Follows(pending[p])' /\ (pending[p].raw # 0 => After(pending[p], pending[p].raw)')
  <2>1. /\ Follows(pending[p]) /\ pending[p] \in AllSessions
        /\ pending[p].raw # 0 => After(pending[p], pending[p].raw)
    BY <1>12 DEF JInv, Ordered, AllSessions
  <2>2. pending[p].expected # None => x.login # pending[p].baseline
    BY <1>8, <1>9, <2>1 DEF FreshLogin
  <2> QED BY <1>4, <1>7, <2>1, <2>2 DEF Follows, After
<1>13. Ordered'
  <2>1. Follows(staging[w])'
    <3>1. staging'[w] = x /\ (x.expected # None => x.login # x.baseline)
      BY <1>4, <1>9 DEF FreshLogin
    <3> QED BY <1>7, <3>1 DEF FreshLogin, Follows
  <2> QED BY <1>6, <1>12, <2>1 DEF Ordered
<1>14. Distinct'
  <2>1. \A v \in Windows : staging'[v] # Absent => staging'[v].token = 0
    BY <1>4, <1>6 DEF FreshLogin
  <2> QED BY <1>7, <2>1 DEF JInv, Distinct
<1>15. SpentRetired'
  <2>1. faults' >= faults
    BY <1>1 DEF Shape
  <2> QED BY <1>1, <1>7, <2>1, SpentStays DEF JInv
<1>16. ASSUME NEW p \in Pendings PROVE AttemptSound(p)'
  BY DEF JInv, AttemptSound
<1>17. ASSUME NEW a \in Accounts PROVE ActiveSound(a)'
  BY DEF JInv, ActiveSound
<1>18. ASSUME NEW v \in Windows PROVE ThreadBound(v)'
  <2>1. CASE v = w
    BY <1>3, <1>4, <2>1 DEF ThreadBound, NativeSteps, Handshaking, ChromeSteps
  <2>2. CASE v # w
    BY <1>4, <1>6, <1>7, <2>2 DEF JInv, ThreadBound, After
  <2> QED BY <2>1, <2>2
<1>19. ASSUME NEW v \in Windows PROVE StagingSound(v)'
  <2>1. CASE v # w
    BY <1>6, <2>1 DEF StagingSound
  <2>2. CASE v = w
    <3>1. staging'[w] = x /\ Open(w)' /\ ~Ready(w)' /\ ~Installed(w)'
      BY <1>2, <1>3, <1>4 DEF Open, Ready, Done, Installed
    <3>2. \A y \in AllSessions : y.login # x.login
      BY <1>8, <1>9 DEF FreshLogin
    <3>3. Unused(staging[w])'
      <4>1. \A a \in Accounts : active[a] # Absent => active[a].login # x.login
        BY <3>2 DEF AllSessions
      <4>2. \A p \in Pendings : pending[p] # Absent => pending[p].login # x.login
        BY <3>2 DEF AllSessions
      <4> QED BY <3>1, <4>1, <4>2 DEF Unused, FreshLogin
    <3> QED BY <2>2, <3>1, <3>3 DEF StagingSound, FreshLogin
  <2> QED BY <2>1, <2>2
<1> QED BY <1>10, <1>11, <1>13, <1>14, <1>15, <1>16, <1>17, <1>18, <1>19 DEF JInv

NewFields(x, c, id, e, b) ==
    /\ x \in Sessions /\ x.client = c /\ x.login = id /\ x.expected = e /\ x.baseline = b
    /\ x.source = None /\ x.raw = 0 /\ x.token = 0 /\ ~x.mid

LEMMA NewSessionFields ==
  ASSUME NEW c \in {"native", "chrome"}, NEW id \in Nat, NEW e \in Accounts \cup {None},
         NEW b \in Nat
  PROVE  /\ NewFields(NewSession(c, id, e, b), c, id, e, b)
         /\ NewFields([NewSession(c, id, e, b) EXCEPT !.fresh = TRUE], c, id, e, b)
<1> PICK n : n = NewSession(c, id, e, b)
  OBVIOUS
<1> PICK x : x = [n EXCEPT !.fresh = TRUE]
  OBVIOUS
<1>1. NewFields(n, c, id, e, b)
  BY DEF NewSession, Sessions, NewFields
<1>2. NewFields(x, c, id, e, b)
  BY <1>1 DEF Sessions, NewFields
<1> QED BY <1>1, <1>2

\* A window that has no staging file yet, or another try at the login it staged.
LEMMA BeginLoginJ ==
  ASSUME IInv, IInv', JInv, NEW w \in Windows, NEW c \in setup.clients, BeginLogin(w, c)
  PROVE  JInv'
<1> DEFINE e == window[w].expected
<1>1. /\ window[w].page = "client" /\ StartThread(w)
      /\ UNCHANGED <<pending, retired, active, consumed, lock, handed, crashes, unretired, faults>>
  BY DEF BeginLogin, life
<1>2. CASE staging[w] # Absent
  <2>1. UNCHANGED <<staging, logins>>
    BY <1>2 DEF BeginLogin
  <2> QED BY <1>1, <2>1, StartAgain
<1>3. CASE staging[w] = Absent
  <2>1. PICK x : x = StagedFor(e, c)
    OBVIOUS
  <2>2. /\ staging' = [staging EXCEPT ![w] = x] /\ logins' = logins + 1
        /\ e # None => active[e] # Absent
    BY <1>3, <2>1 DEF BeginLogin, PrepareStaging
  <2>3. Shape /\ setup \in Setups
    BY ShapeHolds DEF IInv
  <2>4. /\ logins \in Nat /\ logins + 1 \in Nat /\ c \in {"native", "chrome"}
        /\ e \in Accounts \cup {None} /\ 0 \in Nat
    BY <2>3, SetupFacts DEF Shape, Windowed
  <2>5. FreshLogin(x)
    <3>1. CASE e = None
      <4>1. x = NewSession(c, logins + 1, None, 0)
        BY <2>1, <3>1 DEF StagedFor
      <4>2. /\ x \in Sessions /\ x.client = c /\ x.login = logins + 1 /\ x.expected = None
            /\ x.source = None /\ x.raw = 0 /\ x.token = 0 /\ ~x.mid
        <5>1. None \in Accounts \cup {None}
          OBVIOUS
        <5>2. NewFields(x, c, logins + 1, None, 0)
          BY <2>4, <4>1, <5>1, NewSessionFields, Zenon
        <5> QED BY <5>2 DEF NewFields
      <4> QED BY <4>2 DEF FreshLogin
    <3>2. CASE e # None
      <4>1. /\ e \in Accounts /\ active[e] # Absent /\ active[e] \in Sessions
            /\ active[e] \in AllSessions
        BY <2>2, <2>3, <2>4, <3>2 DEF Shape, AllSessions
      <4>2. active[e].client \in {"native", "chrome"} /\ active[e].login \in Nat
        BY <4>1 DEF Sessions
      <4>3. x = NewSession(active[e].client, logins + 1, e, active[e].login)
        BY <2>1, <3>2 DEF StagedFor
      <4>4. /\ x \in Sessions /\ x.client = active[e].client /\ x.login = logins + 1
            /\ x.expected = e /\ x.baseline = active[e].login
            /\ x.source = None /\ x.raw = 0 /\ x.token = 0 /\ ~x.mid
        <5>1. NewFields(x, active[e].client, logins + 1, e, active[e].login)
          BY <2>4, <4>2, <4>3, NewSessionFields, Zenon
        <5> QED BY <5>1 DEF NewFields
      <4>5. /\ active[e].login <= logins
            /\ \A s \in AllSessions : s.login = active[e].login => s.client = active[e].client
        BY <4>1 DEF JInv, Lineage
      <4>6. \A q \in Pendings \ retired :
              pending[q] # Absent /\ pending[q].login = active[e].login => pending[q].raw # 0
        BY <4>1 DEF JInv, ActiveSound
      <4> QED BY <4>2, <4>4, <4>5, <4>6 DEF FreshLogin
    <3> QED BY <3>1, <3>2
  <2>6. KeptForRecovery'
    BY <1>1, KeptStays DEF JInv
  <2> QED BY <1>1, <2>2, <2>5, <2>6, NewLoginJ
<1> QED BY <1>2, <1>3

\* The old attempt is given up, with the tokens it may have.
LEMMA StartNewQRJ ==
  ASSUME IInv, IInv', JInv, NEW w \in Windows, StartNewQR(w)
  PROVE  JInv'
<1> DEFINE s == staging[w]
           p == s.source
<1>1. /\ window[w].page = "recovery" /\ thread[w].pc = "idle"
      /\ retired' = retired \cup {p} /\ handed' = handed \ {pending[p].raw}
      /\ UNCHANGED <<pending, active, consumed, lock, crashes, unretired>>
  BY DEF StartNewQR, life, Running
<1>2. Shape /\ Shape'
  BY ShapeHolds, PTL
<1>3. /\ s # Absent /\ s \in Sessions /\ StagingSound(w) /\ Follows(s) /\ s \in AllSessions
      /\ Ahead(w) /\ ~Installed(w) /\ Open(w)
  <2>1. s # Absent
    BY <1>1 DEF IInv, Pages
  <2> QED BY <1>1, <1>2, <2>1 DEF JInv, Ordered, AllSessions, Shape, Ahead, Done, Installed, Open
<1>4. KeptForRecovery'
  BY <1>1 DEF JInv, KeptForRecovery
<1>5. CASE /\ logins' = logins + 1 /\ UNCHANGED faults /\ StartThread(w)
           /\ staging' = [staging EXCEPT ![w] =
                [NewSession(s.client, logins + 1, s.expected, s.baseline) EXCEPT !.fresh = TRUE]]
  <2> PICK x : x = [NewSession(s.client, logins + 1, s.expected, s.baseline) EXCEPT !.fresh = TRUE]
    OBVIOUS
  <2>1. /\ logins \in Nat /\ logins + 1 \in Nat /\ s.client \in {"native", "chrome"}
        /\ s.expected \in Accounts \cup {None} /\ s.baseline \in Nat /\ s.login \in Nat
    BY <1>2, <1>3 DEF Shape, Sessions
  <2>2. /\ x \in Sessions /\ x.client = s.client /\ x.login = logins + 1
        /\ x.expected = s.expected /\ x.baseline = s.baseline
        /\ x.source = None /\ x.raw = 0 /\ x.token = 0 /\ ~x.mid
    BY <2>1, NewSessionFields DEF NewFields
  <2>3. s.expected # None =>
          /\ s.baseline <= logins
          /\ \A y \in AllSessions : y.login = s.baseline => y.client = s.client
          /\ \A q \in Pendings \ retired :
               pending[q] # Absent /\ pending[q].login = s.baseline => pending[q].raw # 0
          /\ active[s.expected] = Absent \/ active[s.expected].login = s.baseline
    <3> SUFFICES ASSUME s.expected # None
                 PROVE  /\ s.baseline <= logins
                        /\ \A y \in AllSessions : y.login = s.baseline => y.client = s.client
                        /\ \A q \in Pendings \ retired :
                             pending[q] # Absent /\ pending[q].login = s.baseline
                                 => pending[q].raw # 0
                        /\ active[s.expected] = Absent \/ active[s.expected].login = s.baseline
      OBVIOUS
    <3>1. s.baseline <= logins /\ \A y \in AllSessions : y.login = s.baseline => y.client = s.client
      <4>1. s.login <= logins /\ s.baseline < s.login
        BY <1>3 DEF JInv, Lineage
      <4>2. \A y \in AllSessions : y.login = s.baseline => y.client = s.client
        BY <1>3 DEF JInv, Lineage
      <4> QED BY <2>1, <4>1, <4>2
    <3>2. active[s.expected] = Absent \/ active[s.expected].login = s.baseline
      BY <1>1, <1>3 DEF StagingSound
    <3> QED BY <1>3, <3>1, <3>2 DEF Follows
  <2>4. FreshLogin(x)
    BY <2>1, <2>2, <2>3 DEF FreshLogin
  <2>5. staging' = [staging EXCEPT ![w] = x]
    BY <1>5
  <2> QED BY <1>1, <1>4, <1>5, <2>4, <2>5, NewLoginJ
<1>6. CASE WriteFaults /\ UNCHANGED <<staging, logins, window, thread>>
  <2>1. WindowOnly(w, window[w], thread[w], s)
    BY <1>1, <1>6, StagedFacts, FaultsGrow DEF WindowOnly
  <2>2. WindowKeeps(w, window[w], thread[w], s)
    BY <1>1, <1>3 DEF WindowKeeps, Ready, Done
  <2>3. SpentRetired'
    <3>1. faults' >= faults
      BY <1>2, <1>6, FaultsGrow
    <3>2. \A v \in Windows : Installed(v) => Installed(v)' /\ staging'[v] = staging[v]
      BY <1>6 DEF Installed
    <3> QED BY <1>1, <1>2, <3>1, <3>2, SpentStays DEF JInv
  <2> QED BY <1>4, <2>1, <2>2, <2>3, WindowStep
<1> QED BY <1>5, <1>6 DEF StartNewQR

-----------------------------------------------------------------------------
(* Activation.                                                             *)

\* What the window of a finished login has: an attempt's tokens, or tokens that
\* Chrome's flow got last.
LEMMA ReadyFacts ==
  ASSUME IInv, JInv, NEW w \in Windows, Ready(w), staging[w].mid
  PROVE  LET s == staging[w]
             p == s.source
         IN  /\ s # Absent /\ s \in Sessions /\ s \in AllSessions /\ StagingSound(w) /\ Open(w)
             /\ s.token # 0 /\ s.token \in Nat /\ ScannedMid(s) \in Accounts
             /\ s.client = "native" =>
                  /\ p \in Pendings \ retired /\ pending[p] # Absent /\ Copied(s)
                  /\ pending[p].raw = s.token
             /\ s.client = "chrome" =>
                  /\ p = None /\ s.token \notin consumed
                  /\ \A a \in Accounts : active[a] # Absent => active[a].token <= s.token
             /\ s.client \in {"native", "chrome"}
<1> DEFINE s == staging[w]
<1>1. /\ Shape /\ TypeOK /\ s # Absent
  BY ShapeHolds DEF IInv, Pages, Ready
<1>2. /\ s \in Sessions /\ s \in AllSessions /\ StagingSound(w) /\ Open(w) /\ Sound(s)
      /\ s.client \in {"native", "chrome"}
  BY <1>1 DEF Shape, AllSessions, JInv, Open, Ready, IInv, Files, Sessions
<1>3. s.token # 0 /\ s.token \in Nat /\ ScannedMid(s) \in Accounts
  <2>1. s \in Session /\ s.token # 0 /\ issued \in Seq(Accounts) /\ Len(issued) \in Nat
    BY <1>1, <1>2 DEF TypeOK, Sound
  <2>2. s.token \in 1..Len(issued)
    BY <2>1 DEF Session
  <2> QED BY <2>1, <2>2 DEF ScannedMid
<1>4. ASSUME s.client = "native"
      PROVE  /\ s.source \in Pendings \ retired /\ pending[s.source] # Absent /\ Copied(s)
             /\ pending[s.source].raw = s.token
  <2>1. Copied(s) /\ s.source \notin retired
    BY <1>1, <1>2, <1>4 DEF StagingSound
  <2>2. s.source # None /\ s.source \in Pendings /\ pending[s.source] # Absent
    BY <1>2, <2>1 DEF Copied, Sound, Sessions
  <2> QED BY <2>1, <2>2 DEF Copied
<1>5. s.client = "chrome" =>
        /\ s.source = None /\ s.token \notin consumed
        /\ \A a \in Accounts : active[a] # Absent => active[a].token <= s.token
  BY <1>1, <1>2 DEF StagingSound, Ready
<1> QED BY <1>1, <1>2, <1>3, <1>4, <1>5

LEMMA ActivateJ ==
  ASSUME IInv, IInv', JInv, NEW w \in Windows, Activate(w)
  PROVE  JInv'
<1> DEFINE s == staging[w]
           p == s.source
           a == ScannedMid(s)
<1>1. /\ Ready(w) /\ s.mid
      /\ thread' = [thread EXCEPT ![w] = Idle]
      /\ UNCHANGED <<staging, pending, retired, lock, logins, crashes, unretired>>
  BY DEF Activate, life, Ready, Done
<1>2. Shape /\ Shape'
  BY ShapeHolds, PTL
<1>3. /\ s # Absent /\ s \in Sessions /\ s \in AllSessions /\ StagingSound(w) /\ Open(w)
      /\ s.token # 0 /\ s.token \in Nat /\ a \in Accounts
      /\ s.client = "native" =>
           /\ p \in Pendings \ retired /\ pending[p] # Absent /\ Copied(s)
           /\ pending[p].raw = s.token
      /\ s.client = "chrome" => p = None /\ s.token \notin consumed
      /\ s.client \in {"native", "chrome"}
  BY <1>1, ReadyFacts
<1>4. PICK g : /\ window' = [window EXCEPT ![w] = g]
               /\ \/ /\ g.page = "activated" /\ handed' = handed \ {s.token} /\ UNCHANGED faults
                  \/ /\ g.page = "failed" /\ WriteFaults
                     /\ handed' = handed \cup {k \in {s.token} : s.client = "native"}
  <2>1. CASE /\ window' = [window EXCEPT ![w].page = "activated", ![w].back = FALSE]
             /\ handed' = handed \ {s.token} /\ UNCHANGED faults
    <3> PICK g : g = [window[w] EXCEPT !.page = "activated", !.back = FALSE]
      OBVIOUS
    <3>1. window' = [window EXCEPT ![w] = g]
      BY ZenonT(30), <2>1
    <3>2. g.page = "activated"
      BY StagedFacts DEF Shape, Windowed
    <3> QED BY <2>1, <3>1, <3>2
  <2>2. CASE /\ window' = [window EXCEPT ![w].page = "failed", ![w].back = FALSE] /\ WriteFaults
             /\ handed' = handed \cup {k \in {s.token} : s.client = "native"}
    <3> PICK g : g = [window[w] EXCEPT !.page = "failed", !.back = FALSE]
      OBVIOUS
    <3>1. window' = [window EXCEPT ![w] = g]
      BY ZenonT(30), <2>2
    <3>2. g.page = "failed"
      BY StagedFacts DEF Shape, Windowed
    <3> QED BY <2>2, <3>1, <3>2
  <2> QED BY <2>1, <2>2 DEF Activate
<1>5. /\ \A b \in Accounts : active'[b] = active[b] \/ (b = a /\ active'[b] = s)
      /\ consumed' = consumed \/ consumed' = consumed \cup {s.token}
  <2>1. \/ active' = active /\ consumed' = consumed
        \/ active' = [active EXCEPT ![a] = s] /\ consumed' = consumed \cup {s.token}
    BY DEF Activate
  <2> QED BY <1>2, <1>3, <2>1 DEF Shape
<1> HIDE DEF a
<1>6. \A v \in Windows : /\ window'[v] = IF v = w THEN g ELSE window[v]
                         /\ thread'[v] = IF v = w THEN Idle ELSE thread[v]
                         /\ staging'[v] = staging[v]
                         /\ v # w => staging[v] = Absent /\ ~Open(v)
  <2>1. \A v \in Windows : v # w => staging[v] = Absent /\ ~Open(v)
    BY <1>3, Alone
  <2> QED BY <1>1, <1>2, <1>4, <2>1 DEF Shape
<1>7. \A v \in Windows : /\ Open(v)' => Open(v)
                         /\ ~Begun(v)'
                         /\ ~Ready(v)' \/ v # w
                         /\ ~Ahead(v)' \/ v # w
                         /\ Replying(v)' => Replying(v) /\ thread'[v] = thread[v] /\ v # w
  BY <1>3, <1>4, <1>6 DEF Open, Begun, Ready, Ahead, Replying, Idle
<1>8. Lineage'
  <2>1. ASSUME NEW y \in AllSessions' PROVE \E z \in AllSessions : SameLogin(y, z)
    <3>1. y \in AllSessions
      BY <1>1, <1>3, <1>5, <1>6 DEF AllSessions
    <3> QED BY <3>1, SameSelf
  <2> QED BY <1>1, <1>2, <2>1, LineageKept DEF JInv, Shape
<1>9. OneAttempt' /\ OneWindow'
  BY <1>1, <1>7 DEF JInv, OneAttempt, OneWindow
\* An attempt at the login that is activated now has its token; one at another
\* login that replaces it came later.
<1>10. ASSUME NEW q \in Pendings, pending[q] # Absent
       PROVE  /\ q \notin retired /\ pending[q].login = s.login
                    => pending[q].raw # 0 /\ pending[q].raw = s.token
              /\ \A k : After(pending[q], k) /\ pending[q].expected # None
                          /\ pending[q].baseline = s.login => s.token < k
  <2>1. pending[q].client = "native" /\ pending[q] \in AllSessions
    BY <1>10 DEF JInv, AttemptSound, AllSessions
  <2>2. CASE s.client = "native"
    <3>1. /\ p \in Pendings \ retired /\ pending[p] # Absent /\ pending[p].raw = s.token
          /\ pending[p].login = s.login
      BY <1>3, <2>2 DEF Copied
    <3> QED BY <1>3, <1>10, <3>1 DEF JInv, OneAttempt, After
  <2>3. CASE s.client = "chrome"
    <3>1. /\ pending[q].login # s.login
          /\ pending[q].expected # None => pending[q].baseline # s.login
      BY <1>3, <2>1, <2>3 DEF JInv, Lineage
    <3> QED BY <3>1
  <2> QED BY <1>3, <2>2, <2>3
<1>11. ASSUME NEW q \in Pendings, pending[q] # Absent, NEW k, After(pending[q], k)
       PROVE  After(pending[q], k)'
  <2>1. \A b \in Accounts : active'[b] # Absent /\ pending[q].expected # None
           /\ active'[b].login = pending[q].baseline => active'[b].token < k
    BY <1>5, <1>10, <1>11 DEF After
  <2> QED BY <1>1, <1>11, <2>1 DEF After
<1>12. Ordered'
  <2>1. ASSUME NEW q \in Pendings, pending'[q] # Absent
        PROVE  Follows(pending[q])' /\ (pending'[q].raw # 0 => After(pending[q], pending[q].raw)')
    <3>1. /\ Follows(pending[q]) /\ pending[q] # Absent
          /\ pending[q].raw # 0 => After(pending[q], pending[q].raw)
      BY <1>1, <2>1 DEF JInv, Ordered
    <3>2. Follows(pending[q])'
      BY <1>1, <1>7, <3>1 DEF Follows
    <3> PICK k : k = pending[q].raw
      OBVIOUS
    <3>3. k # 0 => After(pending[q], k)'
      BY <1>11, <3>1
    <3> QED BY <1>1, <3>2, <3>3 DEF After
  <2>2. ASSUME NEW v \in Windows, staging'[v] # Absent PROVE Follows(staging[v])'
    BY <1>1, <1>6, <1>7, <2>2 DEF JInv, Ordered, Follows
  <2> QED BY <2>1, <2>2 DEF Ordered
<1>13. Distinct'
  <2>1. ASSUME NEW v \in Windows, Replying(v), v # w PROVE thread[v].reply # s.token
    <3>1. CASE s.client = "native"
      BY <1>3, <2>1, <3>1 DEF JInv, Distinct
    <3>2. CASE s.client = "chrome"
      BY <1>3, <2>1, <3>2 DEF JInv, Distinct
    <3> QED BY <1>3, <3>1, <3>2
  <2> QED BY <1>1, <1>5, <1>6, <1>7, <2>1 DEF JInv, Distinct
<1>14. SpentRetired'
  <2> SUFFICES ASSUME crashes' = 0, faults' = 0, NEW q \in Pendings \ retired', pending'[q] # Absent,
                      pending'[q].raw \in consumed' \ unretired'
               PROVE  \E v \in Windows : Installed(v)' /\ staging'[v].source = q
    BY DEF SpentRetired
  <2>1. UNCHANGED faults /\ g.page = "activated" /\ pending[q] # Absent
    BY <1>1, <1>2, <1>4 DEF WriteFaults, Shape
  <2>2. Installed(w)'
    BY <1>6, <2>1 DEF Installed
  <2>3. CASE pending[q].raw \in consumed
    <3>1. PICK v \in Windows : Installed(v) /\ staging[v].source = q
      BY <1>1, <2>1, <2>3 DEF JInv, SpentRetired
    <3>2. v = w
      BY <1>6, <3>1 DEF Installed, Open
    <3> QED BY <1>1, <3>1, <3>2 DEF Installed, Ready
  <2>4. CASE pending[q].raw = s.token
    <3>1. s.client = "native"
      BY <1>3, <2>1, <2>4 DEF JInv, Distinct
    <3>2. q = p
      BY <1>3, <2>1, <2>4, <3>1 DEF JInv, Distinct
    <3> QED BY <1>1, <2>2, <3>2
  <2> QED BY <1>1, <1>5, <2>3, <2>4
<1>15. ASSUME NEW q \in Pendings PROVE AttemptSound(q)'
  BY <1>1 DEF JInv, AttemptSound
<1>16. ASSUME NEW b \in Accounts PROVE ActiveSound(b)'
  <2>1. CASE active'[b] = active[b]
    BY <1>1, <2>1 DEF JInv, ActiveSound
  <2>2. CASE active'[b] = s
    <3>1. s.source # None => pending[s.source] # Absent /\ pending[s.source].login = s.login
      BY <1>3 DEF Copied
    <3> QED BY <1>1, <1>10, <2>2, <3>1 DEF ActiveSound
  <2> QED BY <1>5, <2>1, <2>2
<1>17. ASSUME NEW v \in Windows PROVE ThreadBound(v)'
  <2>1. CASE v = w
    BY <1>6, <2>1 DEF ThreadBound, Idle, NativeSteps, Handshaking, ChromeSteps
  <2>2. CASE v # w
    <3>1. thread'[v] = thread[v] /\ ThreadBound(v) /\ ThreadSound(v) /\ ~Open(v)'
      BY <1>6, <1>7, <2>2 DEF JInv, IInv
    <3>2. thread[v].pc = "raw" => After(pending[thread[v].dir], thread[v].reply)'
      <4> PICK k : k = thread[v].reply
        OBVIOUS
      <4> PICK d : d = thread[v].dir
        OBVIOUS
      <4>1. thread[v].pc = "raw" =>
              d \in Pendings /\ pending[d] # Absent /\ After(pending[d], k)
        BY <3>1 DEF ThreadBound, ThreadSound, NativeSteps, Handshaking
      <4>2. thread[v].pc = "raw" => After(pending[d], k)'
        BY <1>11, <4>1
      <4> QED BY <1>1, <3>1, <4>2 DEF After
    <3> QED BY <1>1, <1>6, <2>2, <3>1, <3>2 DEF ThreadBound
  <2> QED BY <2>1, <2>2
<1>18. ASSUME NEW v \in Windows PROVE StagingSound(v)'
  <2>1. CASE v # w
    BY <1>6, <2>1 DEF StagingSound
  <2>2. CASE v = w
    <3>1. /\ Open(w)' /\ ~Ahead(w)' /\ ~Begun(w)' /\ ~Ready(w)'
          /\ window'[w].page \notin {"client", "login", "recovery"}
      BY <1>4, <1>6, <1>7 DEF Open
    <3>2. Installed(w)' => s.token \notin handed'
      BY <1>4, <1>6 DEF Installed
    <3>3. s.client = "native" => Copied(staging[w])'
      BY <1>1, <1>3 DEF Copied
    <3> QED BY <1>1, <1>3, <2>2, <3>1, <3>2, <3>3 DEF StagingSound
  <2> QED BY <2>1, <2>2
<1>19. KeptForRecovery'
  BY <1>1, <1>3, <1>4 DEF JInv, KeptForRecovery
<1> QED BY <1>8, <1>9, <1>12, <1>13, <1>14, <1>15, <1>16, <1>17, <1>18, <1>19 DEF JInv

-----------------------------------------------------------------------------
(* Log Out, opening an account, exits of the program, and the start.       *)

LEMMA AccountStep ==
  ASSUME IInv, IInv', JInv,
         UNCHANGED <<window, thread, staging, pending, retired, lock, consumed, handed, logins,
                     crashes, unretired, faults>>,
         \A a \in Accounts : active'[a] # Absent =>
            /\ active[a] # Absent /\ SameLogin(active'[a], active[a])
            /\ active'[a].token = active[a].token /\ active'[a].source = active[a].source
  PROVE  JInv'
<1>1. Shape /\ Shape'
  BY ShapeHolds, PTL
<1>2. \A v \in Windows : /\ Open(v)' <=> Open(v)
                         /\ Ahead(v)' <=> Ahead(v)
                         /\ Begun(v)' <=> Begun(v)
                         /\ Ready(v)' <=> Ready(v)
                         /\ Installed(v)' <=> Installed(v)
                         /\ Replying(v)' <=> Replying(v)
  BY DEF Open, Done, Ahead, Begun, Ready, Installed, Replying
<1>3. Lineage'
  <2>1. ASSUME NEW s \in AllSessions' PROVE \E y \in AllSessions : SameLogin(s, y)
    <3>1. CASE s \in AllSessions
      BY <3>1, SameSelf
    <3>2. CASE \E a \in Accounts : s = active'[a] /\ active'[a] # Absent
      BY <3>2 DEF AllSessions
    <3> QED BY <2>1, <3>1, <3>2 DEF AllSessions
  <2> QED BY <1>1, <2>1, LineageKept DEF JInv, Shape
<1>4. OneAttempt' /\ OneWindow' /\ Distinct' /\ SpentRetired' /\ KeptForRecovery'
  BY <1>2 DEF JInv, OneAttempt, OneWindow, Distinct, SpentRetired, KeptForRecovery
<1>5. \A s, k : After(s, k) => After(s, k)'
  BY DEF After, SameLogin
<1>6. Ordered'
  <2>1. ASSUME NEW p \in Pendings, pending'[p] # Absent
        PROVE  Follows(pending[p])' /\ (pending'[p].raw # 0 => After(pending[p], pending[p].raw)')
    <3> PICK s : s = pending[p]
      OBVIOUS
    <3>1. Follows(s) /\ (s.raw # 0 => After(s, s.raw)')
      BY <1>5, <2>1 DEF JInv, Ordered
    <3> QED BY <1>2, <3>1 DEF Follows, After
  <2>2. ASSUME NEW v \in Windows, staging'[v] # Absent PROVE Follows(staging[v])'
    BY <1>2, <2>2 DEF JInv, Ordered, Follows
  <2> QED BY <2>1, <2>2 DEF Ordered
<1>7. \A p \in Pendings : AttemptSound(p)'
  BY DEF JInv, AttemptSound
<1>8. \A a \in Accounts : ActiveSound(a)'
  BY DEF JInv, ActiveSound, SameLogin
<1>9. ASSUME NEW v \in Windows PROVE ThreadBound(v)'
  <2>1. ThreadBound(v)
    BY DEF JInv
  <2>2. thread[v].pc = "raw" => After(pending[thread[v].dir], thread[v].reply)'
    <3> PICK s : s = pending[thread[v].dir]
      OBVIOUS
    <3> PICK k : k = thread[v].reply
      OBVIOUS
    <3>1. thread[v].pc = "raw" => After(s, k)'
      BY <1>5, <2>1 DEF ThreadBound
    <3> QED BY <3>1 DEF After
  <2> QED BY <1>2, <2>1, <2>2 DEF ThreadBound
<1>10. ASSUME NEW v \in Windows PROVE StagingSound(v)'
  <2> SUFFICES ASSUME staging[v] # Absent PROVE StagingSound(v)'
    BY DEF StagingSound
  <2> DEFINE s == staging[v]
  <2>1. StagingSound(v) /\ s \in Sessions
    BY <1>1 DEF JInv, Shape
  <2>2. Begun(v)' => Unused(staging[v])'
    BY <1>2, <2>1 DEF StagingSound, Unused, SameLogin
  <2>3. s.expected # None /\ window[v].page \in {"client", "login", "recovery"} =>
          active'[s.expected] = Absent \/ active'[s.expected].login = s.baseline
    <3>1. s.expected \in Accounts \cup {None}
      BY <2>1 DEF Sessions
    <3> QED BY <2>1, <3>1 DEF StagingSound, SameLogin
  <2> QED BY <1>2, <2>1, <2>2, <2>3 DEF StagingSound, Copied
<1> QED BY <1>3, <1>4, <1>6, <1>7, <1>8, <1>9, <1>10 DEF JInv

LEMMA LogOutJ ==
  ASSUME IInv, IInv', JInv, NEW a \in Accounts, LogOut(a)
  PROVE  JInv'
<1>1. /\ active' = [active EXCEPT ![a] = Absent]
      /\ UNCHANGED <<window, thread, staging, pending, retired, lock, consumed, handed, logins,
                     crashes, unretired, faults>>
  BY DEF LogOut, lim, life
<1>2. \A b \in Accounts : active'[b] # Absent => active'[b] = active[b]
  BY <1>1, ShapeHolds DEF Shape
<1> QED BY <1>1, <1>2, SameSelf, AccountStep

LEMMA OpenAccountJ ==
  ASSUME IInv, IInv', JInv, NEW a \in Accounts, OpenAccount(a)
  PROVE  JInv'
<1> PICK x : x = UnwrapAndStore(active[a])
  OBVIOUS
<1>1. /\ active[a] # Absent /\ active' = [active EXCEPT ![a] = x]
      /\ UNCHANGED <<window, thread, staging, pending, retired, lock, consumed, handed, logins,
                     crashes, unretired, faults>>
  BY DEF OpenAccount, lim, life
<1>2. active[a] \in Sessions
  BY <1>1, ShapeHolds DEF Shape
<1>3. SameLogin(x, active[a]) /\ x.token = active[a].token /\ x.source = active[a].source
  BY <1>2 DEF UnwrapAndStore, SameLogin, Sessions
<1>4. \A b \in Accounts : active'[b] = IF b = a THEN x ELSE active[b]
  BY <1>1, ShapeHolds DEF Shape
<1> QED BY <1>1, <1>3, <1>4, SameSelf, AccountStep

LEMMA StutterJ ==
  ASSUME IInv, IInv', JInv, UNCHANGED vars
  PROVE  JInv'
BY SameSelf, AccountStep DEF vars

\* No window, thread or lock is left; what is on disk stands.
LEMMA CrashJ ==
  ASSUME IInv, IInv', JInv, Crash
  PROVE  JInv'
<1>1. /\ crashes' = crashes + 1
      /\ \A w \in Windows : /\ window'[w].page = "closed"
                            /\ thread'[w] = Idle
                            /\ staging'[w] = Absent
      /\ \A p \in Pendings : lock'[p] = None
      /\ UNCHANGED <<pending, retired, active, consumed, handed, logins, faults>>
  BY DEF Crash
<1>2. Shape /\ Shape'
  BY ShapeHolds, PTL
<1>3. \A w \in Windows : ~Open(w)' /\ ~Begun(w)' /\ ~Replying(w)'
  BY <1>1 DEF Open, Begun, Replying, Idle
<1>4. Lineage'
  <2>1. ASSUME NEW s \in AllSessions' PROVE \E y \in AllSessions : SameLogin(s, y)
    <3>1. s \in AllSessions
      BY <1>1 DEF AllSessions
    <3> QED BY <3>1, SameSelf
  <2> QED BY <1>1, <1>2, <2>1, LineageKept DEF JInv, Shape
<1>5. OneAttempt' /\ OneWindow' /\ Distinct' /\ KeptForRecovery'
  BY <1>1, <1>3 DEF JInv, OneAttempt, OneWindow, Distinct, KeptForRecovery
<1>6. SpentRetired'
  <2>1. crashes' # 0
    BY <1>1, <1>2 DEF Shape
  <2> QED BY <2>1 DEF SpentRetired
<1>7. Ordered'
  <2>1. ASSUME NEW p \in Pendings, pending[p] # Absent
        PROVE  Follows(pending[p])' /\ (pending[p].raw # 0 => After(pending[p], pending[p].raw)')
    BY <1>1, <1>3, <2>1 DEF JInv, Ordered, Follows, After
  <2> QED BY <1>1, <2>1 DEF Ordered
<1>8. (\A p \in Pendings : AttemptSound(p)') /\ (\A a \in Accounts : ActiveSound(a)')
  BY <1>1 DEF JInv, AttemptSound, ActiveSound
<1>9. \A w \in Windows : ThreadBound(w)' /\ StagingSound(w)'
  BY <1>1 DEF ThreadBound, StagingSound, Idle, NativeSteps, Handshaking, ChromeSteps
<1> QED BY <1>4, <1>5, <1>6, <1>7, <1>8, <1>9 DEF JInv

LEMMA NextJ ==
  ASSUME IInv, IInv', JInv, [Next]_vars
  PROVE  JInv'
<1>1. ASSUME NEW w \in Windows, MainStep(w) PROVE JInv'
  BY <1>1, FinishFailedJ, HandoverRejectedJ, ActivateJ, RetireConsumedJ, Zenon DEF MainStep
<1>2. ASSUME NEW w \in Windows, UserStep(w) PROVE JInv'
  BY <1>2, OpenWindowJ, BeginLoginJ, PrepareFailsJ, RetryJ, StartNewQRJ, GoBackJ, CloseWindowJ,
     Zenon DEF UserStep
<1> QED BY <1>1, <1>2, ThreadStepJ, CrashJ, LogOutJ, OpenAccountJ, StutterJ, Zenon DEF Next

\* The accounts signed in at the start have logins and tokens of their own.
LEMMA InitJ ==
  ASSUME Init
  PROVE  JInv
<1>1. /\ \A w \in Windows : window[w].page = "closed" /\ thread[w] = Idle /\ staging[w] = Absent
      /\ \A p \in Pendings : pending[p] = Absent
      /\ handed = {} /\ setup \in Setups /\ issued = InOrder(setup.installed)
      /\ logins = Cardinality(setup.installed)
  BY DEF Init
<1>2. /\ setup.installed \in SUBSET Accounts /\ Cardinality(setup.installed) \in Nat
      /\ issued \in [1..logins -> setup.installed]
      /\ \A a \in setup.installed : \E i \in DOMAIN issued : issued[i] = a
  BY <1>1, SetupFacts, InOrderFits
<1>3. ASSUME NEW a \in Accounts, active[a] # Absent
      PROVE  /\ active[a].client = "native" /\ active[a].login \in 1..logins
             /\ active[a].expected = None /\ active[a].source = None
  <2> PICK k : k = CHOOSE i \in DOMAIN issued : issued[i] = a
    OBVIOUS
  <2> PICK n : n = NewSession("native", k, None, 0)
    OBVIOUS
  <2> PICK x : x = [n EXCEPT !.token = k, !.mid = TRUE, !.keys = TRUE]
    OBVIOUS
  <2>1. a \in setup.installed /\ active[a] = x
    BY <1>3 DEF Init
  <2>2. k \in 1..logins
    BY <1>2, <2>1
  <2>3. x.client = "native" /\ x.login = k /\ x.expected = None /\ x.source = None
    BY DEF NewSession
  <2> QED BY <2>1, <2>2, <2>3
<1>4. \A s \in AllSessions : s.client = "native" /\ s.login \in 1..logins /\ s.expected = None
  BY <1>1, <1>3 DEF AllSessions
<1>5. Lineage
  BY <1>1, <1>2, <1>4 DEF Lineage
<1>6. OneAttempt /\ Ordered /\ OneWindow /\ Distinct /\ SpentRetired /\ KeptForRecovery
  BY <1>1 DEF OneAttempt, Ordered, OneWindow, Distinct, SpentRetired, KeptForRecovery, Open,
     Replying, Idle
<1>7. \A p \in Pendings : AttemptSound(p)
  BY <1>1 DEF AttemptSound
<1>8. \A a \in Accounts : ActiveSound(a)
  BY <1>1, <1>3 DEF ActiveSound
<1>9. \A w \in Windows : ThreadBound(w) /\ StagingSound(w)
  BY <1>1 DEF ThreadBound, StagingSound, Idle, NativeSteps, Handshaking, ChromeSteps
<1> QED BY <1>5, <1>6, <1>7, <1>8, <1>9 DEF JInv

-----------------------------------------------------------------------------
(* What the second invariant gives.                                        *)

\* Only activation puts a login where there was another, or none.
LEMMA ActiveChanges ==
  ASSUME IInv, JInv, [Next]_vars, NEW a \in Accounts, active'[a] # Absent
  PROVE  \/ active[a] # Absent /\ active'[a].token = active[a].token
         \/ \E w \in Windows : Ready(w) /\ staging[w].mid /\ a = ScannedMid(staging[w])
                               /\ active'[a] = staging[w]
<1>1. Shape
  BY ShapeHolds
<1>2. CASE UNCHANGED active
  BY <1>2
<1>3. ASSUME NEW b \in Accounts, LogOut(b) PROVE active'[a] = active[a]
  BY <1>1, <1>3 DEF LogOut, Shape
<1>4. ASSUME NEW b \in Accounts, OpenAccount(b)
      PROVE  active[a] # Absent /\ active'[a].token = active[a].token
  <2>1. /\ active[b] # Absent /\ active[b] \in Sessions
        /\ active' = [active EXCEPT ![b] = UnwrapAndStore(active[b])]
    BY <1>1, <1>4 DEF OpenAccount, Shape
  <2>2. UnwrapAndStore(active[b]).token = active[b].token
    BY <2>1 DEF UnwrapAndStore, Sessions
  <2> QED BY <1>1, <2>1, <2>2 DEF Shape
<1>5. ASSUME NEW w \in Windows, Activate(w), active'[a] # active[a]
      PROVE  /\ Ready(w) /\ staging[w].mid /\ a = ScannedMid(staging[w])
             /\ active'[a] = staging[w]
  <2>1. Ready(w) /\ staging[w].mid
    BY <1>5 DEF Activate, Ready, Done
  <2>2. active' = active \/ active' = [active EXCEPT ![ScannedMid(staging[w])] = staging[w]]
    BY <1>5 DEF Activate
  <2> QED BY <1>1, <1>5, <2>1, <2>2 DEF Shape
<1>6. ASSUME NEW w \in Windows, ThreadStep(w) PROVE UNCHANGED active
  BY <1>6 DEF ThreadStep, Attempt, NativeCheck, NativeLock, ReadAttempt, Handshake, MarkStarted, SendRequest,
     TokenReply, SaveReply, SaveResult, Unwrap, RecoverKeys, Stage, ChromeScan, ChromeIssue,
     ChromeProfile, ChromeStep, LockedStep, disk
<1>7. ASSUME NEW w \in Windows, MainStep(w), ~Activate(w) PROVE UNCHANGED active
  BY <1>7 DEF MainStep, FinishFailed, HandoverRejected, RetireConsumed, disk
<1>8. ASSUME NEW w \in Windows, UserStep(w) PROVE UNCHANGED active
  BY <1>8 DEF UserStep, OpenWindow, BeginLogin, PrepareFails, Retry, StartNewQR, GoBack,
     CloseWindow, disk
<1>9. Crash \/ UNCHANGED vars => UNCHANGED active
  BY DEF Crash, vars
<1> QED BY <1>2, <1>3, <1>4, <1>5, <1>6, <1>7, <1>8, <1>9 DEF Next

LEMMA GenerationStep ==
  ASSUME IInv, JInv, [Next]_vars, NEW a \in Accounts, active[a] # Absent, active'[a] # Absent,
         active'[a].expected = a \/ active'[a].client = "chrome"
  PROVE  active'[a].token >= active[a].token
<1>1. Shape /\ active[a].token \in Nat
  BY ShapeHolds DEF Shape, Sessions
<1>2. CASE active'[a].token = active[a].token
  BY <1>1, <1>2
<1>3. ASSUME NEW w \in Windows, Ready(w), staging[w].mid, active'[a] = staging[w]
      PROVE  active'[a].token >= active[a].token
  <2> DEFINE s == staging[w]
             p == s.source
  <2>1. /\ s # Absent /\ StagingSound(w) /\ s.token # 0 /\ s.token \in Nat
        /\ s.client = "native" =>
             p \in Pendings \ retired /\ pending[p] # Absent /\ pending[p].raw = s.token
        /\ s.client = "chrome" => active[a].token <= s.token
        /\ s.client \in {"native", "chrome"}
    BY <1>3, ReadyFacts
  <2>2. CASE s.client = "chrome"
    BY <1>1, <1>3, <2>1, <2>2
  <2>3. CASE s.client = "native"
    <3>1. s.expected = a /\ a # None
      BY <1>3, <2>3, LoginConstants
    <3>2. active[a].login = s.baseline
      BY <1>3, <2>1, <3>1 DEF StagingSound, Ready
    <3>3. pending[p].expected = a /\ pending[p].baseline = s.baseline
      BY <2>1, <2>3, <3>1, LoginConstants DEF StagingSound
    <3>4. After(pending[p], s.token)
      BY <2>1, <2>3 DEF JInv, Ordered
    <3>5. active[a].token < s.token
      BY <3>1, <3>2, <3>3, <3>4 DEF After
    <3> QED BY <1>1, <1>3, <2>1, <3>5
  <2> QED BY <2>1, <2>2, <2>3
<1> QED BY <1>2, <1>3, ActiveChanges

LEMMA LoggedOutStep ==
  ASSUME IInv, JInv, [Next]_vars, NEW a \in Accounts, active[a] = Absent, active'[a] # Absent,
         crashes = 0, faults = 0
  PROVE  active'[a].token \notin consumed \ unretired
<1>1. PICK w \in Windows : Ready(w) /\ staging[w].mid /\ active'[a] = staging[w]
  BY ActiveChanges
<1> DEFINE s == staging[w]
           p == s.source
<1>2. /\ Open(w)
      /\ s.client = "native" =>
           p \in Pendings \ retired /\ pending[p] # Absent /\ pending[p].raw = s.token
      /\ s.client = "chrome" => s.token \notin consumed
      /\ s.client \in {"native", "chrome"}
  BY <1>1, ReadyFacts
<1>3. CASE s.client = "native"
  <2> SUFFICES ASSUME s.token \in consumed \ unretired PROVE FALSE
    BY <1>1
  <2>1. PICK v \in Windows : Installed(v)
    BY <1>2, <1>3 DEF JInv, SpentRetired
  <2>2. v = w
    BY <1>2, <2>1 DEF JInv, OneWindow, Installed, Open
  <2> QED BY <1>1, <2>1, <2>2 DEF Installed, Ready
<1> QED BY <1>1, <1>2, <1>3

LEMMA ResumesHolds ==
  ASSUME IInv, JInv
  PROVE  SavedReplyResumes
<1> SUFFICES ASSUME NEW p \in Pendings, pending[p] # Absent, p \notin retired, pending[p].raw # 0
             PROVE  Resumes(p) \/ Superseded(pending[p], pending[p].raw)
  BY DEF SavedReplyResumes
<1> DEFINE s == pending[p]
           k == s.raw
           a == issued[k]
           e == s.expected
<1>1. /\ Shape /\ s \in Sessions /\ s \in AllSessions /\ Sound(s)
      /\ s.client = "native" /\ s.started /\ (s.mid => s.token = k)
  <2>1. Shape /\ AttemptSound(p) /\ Sound(s)
    BY ShapeHolds DEF JInv, IInv, Files
  <2> QED BY <2>1 DEF Shape, AttemptSound, AllSessions
<1>2. k \in Nat /\ a \in Accounts /\ (s.mid => ScannedMid(s) = a)
  <2>1. s \in Session /\ issued \in Seq(Accounts) /\ Len(issued) \in Nat
    BY DEF IInv, TypeOK
  <2>2. k \in 1..Len(issued)
    BY <2>1 DEF Session
  <2> QED BY <1>1, <2>1, <2>2 DEF ScannedMid
<1>3. CASE e = None
  <2>1. CASE active[a] # Absent
    BY <1>3, <2>1 DEF Superseded
  <2>2. CASE active[a] = Absent
    <3> PICK x : x = StagedFor(None, "native")
      OBVIOUS
    <3>1. x.client = "native" /\ x.expected = None
      BY DEF StagedFor, NewSession
    <3>2. Matches(x, p)
      BY <1>1, <1>2, <1>3, <2>2, <3>1 DEF Matches
    <3> QED BY <3>2 DEF Resumes
  <2> QED BY <2>1, <2>2
<1>4. CASE e # None
  <2>1. CASE \/ active[e] = Absent \/ active[e].login # s.baseline
             \/ active[a] # Absent /\ active[a].token >= k
    BY <1>4, <2>1 DEF Superseded
  <2>2. CASE /\ active[e] # Absent /\ active[e].login = s.baseline
             /\ ~(active[a] # Absent /\ active[a].token >= k)
    <3> PICK x : x = StagedFor(e, "native")
      OBVIOUS
    <3>1. x.client = active[e].client /\ x.expected = e /\ x.baseline = active[e].login
      BY <1>4 DEF StagedFor, NewSession
    <3>2. e \in Accounts /\ active[e] \in AllSessions
      BY <1>1, <1>4, <2>2 DEF Sessions, AllSessions
    <3>3. active[e].client = s.client
      BY <1>1, <1>4, <2>2, <3>2 DEF JInv, Lineage
    <3>4. active[a] # Absent => active[a].source # p /\ active[a].login # s.login
      <4>1. active[a] # Absent => active[a].token # k
        BY <1>2, <2>2
      <4>2. active[a] # Absent /\ active[a].source = p => active[a].login = s.login
        BY <1>2, LoginConstants DEF JInv, ActiveSound
      <4>3. active[a] # Absent => active[a].login # s.login
        BY <1>2, <4>1 DEF JInv, ActiveSound
      <4> QED BY <4>2, <4>3
    <3>5. Matches(x, p)
      BY <1>1, <1>2, <1>4, <2>2, <3>1, <3>3, <3>4 DEF Matches
    <3> QED BY <2>2, <3>2, <3>5 DEF Resumes
  <2> QED BY <2>1, <2>2
<1> QED BY <1>3, <1>4

-----------------------------------------------------------------------------
(* Theorems.                                                               *)

\* Whatever is scanned, lost, retried, closed or interrupted, a thread past
\* the lock of a durable directory holds it, and the directory says on disk
\* what the thread has done with it.
THEOREM Inductive == Spec => []IInv
<1>1. Init => IInv
  BY InitInv
<1>2. IInv /\ [Next]_vars => IInv'
  BY NextInv, StutterInv
<1> QED BY <1>1, <1>2, PTL DEF Spec

\* Files, locks, windows and threads keep their types: every token a session
\* file or a running thread names was issued by LINE.
THEOREM TypeCorrect == Spec => []TypeOK
<1>1. IInv => TypeOK
  BY DEF IInv
<1> QED BY <1>1, Inductive, PTL

\* nativeTokenRequestStarted is on disk before a request leaves, so LINE sees
\* at most one token request for a saved attempt (enil_native_login_run).
THEOREM RequestedOnce == Spec => []AskedOnce
<1>1. IInv => AskedOnce
  BY DEF IInv
<1> QED BY <1>1, Inductive, PTL

\* Every exit of enil_native_login_run gives the session lock back.
THEOREM NoLockLeft == Spec => []LocksReleased
<1>1. IInv => LocksReleased
  BY DEF IInv
<1> QED BY <1>1, Inductive, PTL

\* retire takes the lock of the directory, so a retired attempt never asks
\* LINE for tokens, whichever window's thread is still running.
THEOREM RetiredAsksNothing == Spec => RetiredSilent
<1>1. IInv /\ [Next]_vars => [\A p \in Pendings : asked'[p] > asked[p] => p \notin retired]_vars
  BY RetiredSilentStep
<1> QED BY <1>1, Inductive, PTL DEF Spec, RetiredSilent

\* A staged login, the durable directory it was saved in and the account it
\* becomes active for agree on its login id, its client and its token, and a
\* login that replaces another has a later token.
THEOREM LoginsInductive == Spec => []JInv
<1>1. Init => JInv
  BY InitJ
<1>2. IInv /\ IInv' /\ JInv /\ [Next]_vars => JInv'
  BY NextJ
<1> QED BY <1>1, <1>2, Inductive, PTL DEF Spec

\* A saved token reply is found again by the next login of its kind, unless a
\* later login made it obsolete (enil_login_store_select).
THEOREM ReplyFoundAgain == Spec => []SavedReplyResumes
<1>1. IInv /\ JInv => SavedReplyResumes
  BY ResumesHolds
<1> QED BY <1>1, Inductive, LoginsInductive, PTL

\* Tokens whose activation failed stay in a directory that is not retired, until
\* they are activated after all or the user starts a new QR: no close, exit, Log
\* Out or other login takes it (AppDelegate.m, didFinishWithAccountDir).
THEOREM FailedActivationKept == Spec => []KeptForRecovery
<1>1. JInv => KeptForRecovery
  BY DEF JInv
<1> QED BY <1>1, LoginsInductive, PTL

\* A login asked for its account, or Chrome's, never puts older tokens over
\* newer ones (enil_login_store_activate).
THEOREM NewerLoginStays == Spec => GenerationForward
<1>1. IInv /\ JInv /\ [Next]_vars =>
        [\A a \in Accounts : Absent \notin {active[a], active'[a]}
                               /\ (active'[a].expected = a \/ active'[a].client = "chrome")
                               => active'[a].token >= active[a].token]_vars
  BY GenerationStep
<1> QED BY <1>1, Inductive, LoginsInductive, PTL DEF Spec, GenerationForward

\* Without exits and failed writes an account that was logged out never gets a
\* login back whose tokens were active before, but for one whose directory
\* another login thread had locked when it was to be retired (retire_consumed).
THEOREM LoggedOutNotBack == Spec => LoggedOutStays
<1>1. IInv /\ JInv /\ [Next]_vars =>
        [\A a \in Accounts : active[a] = Absent /\ active'[a] # Absent
                               /\ crashes = 0 /\ faults = 0
                               => active'[a].token \notin consumed \ unretired]_vars
  BY LoggedOutStep
<1> QED BY <1>1, Inductive, LoginsInductive, PTL DEF Spec, LoggedOutStays
=============================================================================
