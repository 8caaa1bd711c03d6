------------------------- MODULE AccountEngineProofs -------------------------
(***************************************************************************)
(* Proofs about AccountEngine, for every value of its constants: type      *)
(* correctness, one writer of the cursor at a time, no gap below the       *)
(* cursor, acknowledgement after the data, and the refinement of           *)
(* OrderedDelivery.                                                        *)
(***************************************************************************)
EXTENDS AccountEngine, TLAPS

-----------------------------------------------------------------------------
(* The start/stop protocol.  A stop is a token: the slot being joined, or  *)
(* the sseDidStop the joining thread has posted.  A sync is one as well:   *)
(* its thread, or the selector that announces its end.                     *)

Clear(q, T)  == \A k \in 1 .. Len(q) : q[k] \notin T
Single(q, T) == \E k \in 1 .. Len(q) :
                  q[k] \in T /\ \A l \in 1 .. Len(q) : q[l] \in T => l = k

DidStop == {"sseDidStop"}
DidSync == {"syncOk", "syncFailed"}

StopToken(stopping, q) ==
  IF stopping
  THEN \/ (\E i \in Slots : joining = {i}) /\ Clear(q, DidStop)
       \/ joining = {} /\ Single(q, DidStop)
  ELSE joining = {} /\ Clear(q, DidStop)

SyncToken(running, q) ==
  IF running
  THEN IF sync.pc # "none" THEN Clear(q, DidSync) ELSE Single(q, DidSync)
  ELSE sync.pc = "none" /\ Clear(q, DidSync)

\* The fields that the protocol rests on: a stream and a sync, or a stream
\* and a stop, exclude each other; a sync waits exactly as long as a stop lasts.
Consistent(r) ==
  /\ r.stopping \/ r.syncRunning => r.client = 0
  /\ r.waiting => r.syncRunning
  /\ r.syncRunning => (r.waiting <=> r.stopping)

\* The slots in use are the current client's and those being joined.
SlotsUsed ==
  \A i \in Slots : stream[i].pc # "free" <=> i = m.client \/ i \in joining

Protocol ==
  /\ StopToken(m.stopping, mainq)
  /\ SyncToken(SyncThread(m), mainq)
  /\ Consistent(m)
  /\ SlotsUsed

WInv == TypeOK /\ Protocol

-----------------------------------------------------------------------------
(* Queues of selectors.                                                    *)

LEMMA AppendClear ==
  ASSUME NEW q \in Seq(Selectors), NEW s \in Selectors, NEW T
  PROVE  /\ Append(q, s) \in Seq(Selectors)
         /\ Clear(q, T) /\ s \notin T => Clear(Append(q, s), T)
         /\ Clear(q, T) /\ s \in T => Single(Append(q, s), T)
         /\ Single(q, T) /\ s \notin T => Single(Append(q, s), T)
BY DEF Clear, Single

LEMMA TailClear ==
  ASSUME NEW q \in Seq(Selectors), q # <<>>, NEW T
  PROVE  /\ Tail(q) \in Seq(Selectors) /\ Head(q) \in Selectors
         /\ Clear(q, T) => Head(q) \notin T /\ Clear(Tail(q), T)
         /\ Single(q, T) /\ Head(q) \in T => Clear(Tail(q), T)
         /\ Single(q, T) /\ Head(q) \notin T => Single(Tail(q), T)
<1>1. /\ Tail(q) \in Seq(Selectors) /\ Head(q) \in Selectors
      /\ Len(q) \in Nat \ {0} /\ Head(q) = q[1]
      /\ Len(Tail(q)) = Len(q) - 1
      /\ \A k \in 1 .. Len(q) - 1 : Tail(q)[k] = q[k + 1]
  OBVIOUS
<1>2. Clear(q, T) => Head(q) \notin T /\ Clear(Tail(q), T)
  BY <1>1 DEF Clear
<1>3. Single(q, T) /\ Head(q) \in T => Clear(Tail(q), T)
  BY <1>1 DEF Clear, Single
<1>4. ASSUME Single(q, T), Head(q) \notin T
      PROVE  Single(Tail(q), T)
  <2>1. PICK k \in 1 .. Len(q) :
               q[k] \in T /\ \A l \in 1 .. Len(q) : q[l] \in T => l = k
    BY <1>4 DEF Single
  <2>2. k # 1 /\ k - 1 \in 1 .. Len(Tail(q)) /\ Tail(q)[k - 1] = q[k]
    BY <1>1, <1>4, <2>1
  <2>3. \A l \in 1 .. Len(Tail(q)) : Tail(q)[l] \in T => l = k - 1
    BY <1>1, <2>1
  <2> QED BY <2>1, <2>2, <2>3 DEF Single
<1> QED BY <1>1, <1>2, <1>3, <1>4

LEMMA ConcatClear ==
  ASSUME NEW q \in Seq(Selectors), NEW p \in Seq(Selectors), NEW T, Clear(p, T)
  PROVE  /\ q \o p \in Seq(Selectors)
         /\ Clear(q, T) => Clear(q \o p, T)
         /\ Single(q, T) => Single(q \o p, T)
BY DEF Clear, Single

\* A step that posts nothing that ends a stop or a sync.
KeepsTokens ==
  /\ Clear(mainq, DidStop) => Clear(mainq', DidStop)
  /\ Single(mainq, DidStop) => Single(mainq', DidStop)
  /\ Clear(mainq, DidSync) => Clear(mainq', DidSync)
  /\ Single(mainq, DidSync) => Single(mainq', DidSync)

\* What the event callback posts ends no stop and no sync.
LEMMA PostsClear ==
  ASSUME mainq \in Seq(Selectors), NEW stop \in BOOLEAN, NEW start \in BOOLEAN,
         NEW talk \in {<<>>} \union {<<k>> : k \in Talks}, Posts(stop, talk, start)
  PROVE  mainq' \in Seq(Selectors) /\ KeepsTokens
<1> DEFINE a == IF stop THEN <<"stopSSE">> ELSE <<>>
           b == IF start THEN <<"startSync">> ELSE <<>>
<1>0. \A T : Clear(<<>>, T) /\ <<>> \in Seq(Selectors)
  BY DEF Clear
<1>3. \A s \in Selectors : <<s>> \in Seq(Selectors) /\ \A T : s \notin T => Clear(<<s>>, T)
  BY DEF Clear
<1>4. /\ "stopSSE" \in Selectors /\ "startSync" \in Selectors /\ Talks \subseteq Selectors
      /\ \A T \in {DidStop, DidSync} : \A s \in Talks \union {"stopSSE", "startSync"} : s \notin T
  BY DEF Selectors, Talks, DidStop, DidSync
<1>1. /\ a \in Seq(Selectors) /\ b \in Seq(Selectors) /\ talk \in Seq(Selectors)
      /\ \A T \in {DidStop, DidSync} : Clear(a, T) /\ Clear(b, T) /\ Clear(talk, T)
  <2> HIDE DEF Selectors, Talks, DidStop, DidSync
  <2>1. a \in {<<>>, <<"stopSSE">>} /\ b \in {<<>>, <<"startSync">>}
    OBVIOUS
  <2>2. \A c \in {<<>>, <<"stopSSE">>, <<"startSync">>} \union {<<k>> : k \in Talks} :
          c \in Seq(Selectors) /\ \A T \in {DidStop, DidSync} : Clear(c, T)
    BY <1>0, <1>3, <1>4
  <2> QED BY <2>1, <2>2
<1>2. mainq' = ((mainq \o a) \o talk) \o b
  BY DEF Posts
<1> HIDE DEF a, b
<1> QED BY <1>1, <1>2, ConcatClear DEF KeepsTokens

-----------------------------------------------------------------------------
(* The lifecycle methods.                                                  *)

SameSync(r, s) == s.syncRunning = r.syncRunning /\ s.waiting = r.waiting

\* A method leaves the stream alone, stops it, or starts one.
ClientMoves(r, s) ==
  \/ s.client = r.client /\ s.stopping = r.stopping
  \/ r.client # 0 /\ s.client = 0 /\ s.stopping
  \/ /\ r.client = 0 /\ ~r.stopping /\ ~r.syncRunning
     /\ s.client = FreeSlot /\ ~s.stopping

LEMMA StopSSEMoves ==
  ASSUME NEW r \in Main
  PROVE  /\ StopSSE(r) \in Main /\ SameSync(r, StopSSE(r)) /\ ClientMoves(r, StopSSE(r))
         /\ StopSSE(r).client = 0 /\ (StopSSE(r).stopping <=> r.stopping \/ r.client # 0)
BY DEF StopSSE, Main, SameSync, ClientMoves

LEMMA StartSSEMoves ==
  ASSUME NEW r \in Main, NEW up \in {"live", "syncNeeded", "error"}, Consistent(r),
         r.client = 0 /\ ~r.stopping => FreeSlot \in Slots
  PROVE  /\ StartSSE(r, up) \in Main /\ SameSync(r, StartSSE(r, up))
         /\ ClientMoves(r, StartSSE(r, up)) /\ Consistent(StartSSE(r, up))
<1> DEFINE q == IF r.client # 0 THEN StopSSE(r) ELSE r
<1>1. /\ q \in Main /\ SameSync(r, q) /\ q.client = 0
      /\ q.stopping <=> r.stopping \/ r.client # 0
  BY StopSSEMoves DEF SameSync
<1>2. CASE r.syncRunning
  BY <1>2 DEF StartSSE, SameSync, ClientMoves
<1>3. CASE ~r.syncRunning /\ q.stopping
  <2>1. StartSSE(r, up) = [q EXCEPT !.startPending = TRUE,
                                    !.state = IF q.enabled THEN "reconnecting" ELSE q.state]
    BY <1>3 DEF StartSSE
  <2> QED BY <1>1, <1>3, <2>1 DEF Main, States, SameSync, ClientMoves, Consistent
<1>4. CASE ~r.syncRunning /\ ~q.stopping
  <2>1. StartSSE(r, up) = Started(q, up) /\ q = r
    BY <1>1, <1>4 DEF StartSSE
  <2>2. StartState(q, up) \in States
    BY DEF StartState, States
  <2> QED BY <1>1, <1>4, <2>1, <2>2 DEF Started, Main, SameSync, ClientMoves, Consistent
<1> QED BY <1>2, <1>3, <1>4

\* A sync starts at once, or after the stop of the stream.
LEMMA StartSyncMoves ==
  ASSUME NEW r \in Main, ~r.syncRunning
  PROVE  /\ StartSync(r) \in Main
         /\ StartSync(r).syncRunning /\ StartSync(r).client = 0
         /\ StartSync(r).stopping <=> r.stopping \/ r.client # 0
         /\ StartSync(r).waiting = StartSync(r).stopping
<1> DEFINE q == StopSSE([r EXCEPT !.syncRunning = TRUE])
<1>1. [r EXCEPT !.syncRunning = TRUE] \in Main
  BY DEF Main
<1>2. /\ q \in Main /\ q.syncRunning /\ q.client = 0
      /\ q.stopping <=> r.stopping \/ r.client # 0
  BY <1>1, StopSSEMoves DEF SameSync, Main
<1>3. StartSync(r) = [q EXCEPT !.state = "syncing", !.waiting = q.stopping]
  BY DEF StartSync
<1> HIDE DEF q
<1> QED BY ZenonT(40), <1>2, <1>3 DEF Main, States

LEMMA FreeSlotExists ==
  ASSUME TypeOK, Protocol, m.client = 0, ~m.stopping
  PROVE  FreeSlot \in Slots
<1>1. \A i \in Slots : stream[i].pc = "free"
  BY DEF Protocol, StopToken, SlotsUsed, Slots
<1>2. 1 \in Slots /\ \A j \in Slots : 1 <= j
  BY DEF Slots
<1> QED BY <1>1, <1>2 DEF FreeSlot

-----------------------------------------------------------------------------
(* What Become makes of the threads.                                       *)

LEMMA BecomeStream ==
  ASSUME TypeOK, SlotsUsed, NEW s \in Main, Become(s), NEW q, NEW stopping \in BOOLEAN,
         StopToken(stopping, q), stopping => m.client = 0,
         \/ s.client = m.client /\ s.stopping = stopping
         \/ m.client # 0 /\ s.client = 0 /\ s.stopping
         \/ m.client = 0 /\ ~stopping /\ s.client \in Slots /\ ~s.stopping,
         mainq' = q
  PROVE  /\ stream' \in [Slots -> Client] /\ joining' \subseteq Slots
         /\ StopToken(m.stopping, mainq)' /\ SlotsUsed'
<1>1. m' = s /\ m.client \in Slots \union {0} /\ 0 \notin Slots
  BY DEF Become, TypeOK, Main, Slots
<1>2. [NoClient EXCEPT !.pc = "connect", !.rev = localRev] \in Client
      /\ \A i \in Slots : [stream[i] EXCEPT !.stop = TRUE] \in Client
  BY DEF TypeOK, NoClient, Client
<1>3. stream' \in [Slots -> Client]
  BY <1>2 DEF Become, TypeOK
<1>4. \A i \in Slots : stream'[i].pc = IF i = s.client /\ i # m.client THEN "connect"
                                       ELSE stream[i].pc
  BY DEF Become, NoClient, TypeOK, Client
<1>5. CASE s.client = m.client /\ s.stopping = stopping
  <2>1. joining' = joining
    BY <1>5 DEF Become
  <2> QED BY <1>1, <1>3, <1>4, <1>5, <2>1 DEF StopToken, SlotsUsed, TypeOK
<1>6. CASE m.client # 0 /\ s.client = 0 /\ s.stopping
  <2>1. joining = {} /\ Clear(q, DidStop)
    BY <1>6 DEF StopToken
  <2>2. joining' = {m.client} /\ m.client \in Slots
    BY <1>1, <1>6, <2>1 DEF Become
  <2>3. SlotsUsed'
    BY <1>1, <1>4, <1>6, <2>1, <2>2 DEF SlotsUsed
  <2> QED BY <1>1, <1>3, <1>6, <2>1, <2>2, <2>3 DEF StopToken
<1>7. CASE m.client = 0 /\ ~stopping /\ s.client \in Slots /\ ~s.stopping
  <2>1. joining' = {} /\ joining = {} /\ Clear(q, DidStop)
    BY <1>1, <1>7 DEF Become, StopToken
  <2>2. SlotsUsed'
    BY <1>1, <1>4, <1>7, <2>1 DEF SlotsUsed
  <2> QED BY <1>1, <1>3, <1>7, <2>1, <2>2 DEF StopToken
<1> QED BY <1>5, <1>6, <1>7

LEMMA BecomeSync ==
  ASSUME TypeOK, NEW s \in Main, Become(s), NEW q, mainq' = q,
         \/ (SyncThread(s) <=> SyncThread(m)) /\ SyncToken(SyncThread(m), q)
         \/ ~SyncThread(m) /\ SyncThread(s) /\ SyncToken(FALSE, q)
         \/ SyncThread(m) /\ ~SyncThread(s) /\ sync.pc = "none" /\ Clear(q, DidSync)
  PROVE  sync' \in Syncer /\ SyncToken(SyncThread(m), mainq)'
<1>1. /\ [NoSync EXCEPT !.pc = "begin"] \in Syncer
      /\ [NoSync EXCEPT !.pc = "begin"].pc = "begin"
  BY DEF NoSync, Syncer
<1>2. m' = s /\ (SyncThread(m)' <=> SyncThread(s))
  BY DEF Become, SyncThread
<1> QED BY <1>1, <1>2 DEF Become, SyncToken, TypeOK

\* A record of fields and a queue that the main thread may go on with.
Permitted(s, q) ==
  /\ s \in Main /\ Consistent(s)
  /\ \E stopping \in BOOLEAN :
       /\ StopToken(stopping, q) /\ (stopping => m.client = 0)
       /\ \/ s.client = m.client /\ s.stopping = stopping
          \/ m.client # 0 /\ s.client = 0 /\ s.stopping
          \/ m.client = 0 /\ ~stopping /\ s.client \in Slots /\ ~s.stopping
  /\ \/ (SyncThread(s) <=> SyncThread(m)) /\ SyncToken(SyncThread(m), q)
     \/ ~SyncThread(m) /\ SyncThread(s) /\ SyncToken(FALSE, q)
     \/ SyncThread(m) /\ ~SyncThread(s) /\ sync.pc = "none" /\ Clear(q, DidSync)

LEMMA BecomePermitted ==
  ASSUME TypeOK, Protocol, NEW s, NEW q, Permitted(s, q), Become(s), mainq' = q
  PROVE  /\ Protocol'
         /\ m' \in Main /\ stream' \in [Slots -> Client] /\ joining' \subseteq Slots
         /\ sync' \in Syncer
<1>1. m' = s /\ s \in Main /\ Consistent(m)'
  BY DEF Permitted, Become, Consistent
<1>2. SlotsUsed
  BY DEF Protocol
<1>3. PICK stopping \in BOOLEAN :
        /\ StopToken(stopping, q) /\ (stopping => m.client = 0)
        /\ \/ s.client = m.client /\ s.stopping = stopping
           \/ m.client # 0 /\ s.client = 0 /\ s.stopping
           \/ m.client = 0 /\ ~stopping /\ s.client \in Slots /\ ~s.stopping
  BY DEF Permitted
<1>4. /\ stream' \in [Slots -> Client] /\ joining' \subseteq Slots
      /\ StopToken(m.stopping, mainq)' /\ SlotsUsed'
  BY <1>1, <1>2, <1>3, BecomeStream
<1>5. sync' \in Syncer /\ SyncToken(SyncThread(m), mainq)'
  BY <1>1, BecomeSync DEF Permitted
<1> QED BY <1>1, <1>4, <1>5 DEF Protocol

-----------------------------------------------------------------------------
(* The steps of the main thread.                                           *)

\* A method that stops or starts the stream only.
LEMMA MovesPermitted ==
  ASSUME TypeOK, Protocol, NEW r \in Main, NEW s \in Main, NEW q,
         r.client = m.client, r.stopping = m.stopping, SameSync(m, r),
         ClientMoves(r, s), SameSync(r, s), Consistent(s),
         StopToken(m.stopping, q), SyncToken(SyncThread(m), q)
  PROVE  Permitted(s, q)
<1>1. m.stopping \in BOOLEAN /\ (m.stopping => m.client = 0)
  BY DEF TypeOK, Main, Protocol, Consistent
<1>2. SyncThread(s) <=> SyncThread(m)
  BY DEF SyncThread, SameSync
<1>3. m.client = 0 /\ ~m.stopping => FreeSlot \in Slots
  BY FreeSlotExists
<1>4. \/ s.client = m.client /\ s.stopping = m.stopping
      \/ m.client # 0 /\ s.client = 0 /\ s.stopping
      \/ m.client = 0 /\ ~m.stopping /\ s.client \in Slots /\ ~s.stopping
  BY <1>3 DEF ClientMoves
<1> QED BY <1>1, <1>2, <1>4 DEF Permitted

LEMMA StartSSEPermitted ==
  ASSUME TypeOK, Protocol, NEW r \in Main, NEW q, NEW up \in {"live", "syncNeeded", "error"},
         r.client = m.client, r.stopping = m.stopping, SameSync(m, r),
         StopToken(m.stopping, q), SyncToken(SyncThread(m), q)
  PROVE  Permitted(StartSSE(r, up), q)
<1>1. Consistent(r) /\ (r.client = 0 /\ ~r.stopping => FreeSlot \in Slots)
  BY FreeSlotExists DEF Protocol, Consistent, SameSync
<1> QED BY <1>1, StartSSEMoves, MovesPermitted

LEMMA StopSSEPermitted ==
  ASSUME TypeOK, Protocol, NEW r \in Main, NEW q,
         r.client = m.client, r.stopping = m.stopping, SameSync(m, r),
         StopToken(m.stopping, q), SyncToken(SyncThread(m), q)
  PROVE  /\ Permitted(StopSSE(r), q)
         /\ Consistent(StopSSE(r))
<1>1. Consistent(r)
  BY DEF Protocol, Consistent, SameSync
<1>2. Consistent(StopSSE(r))
  BY <1>1, StopSSEMoves DEF Consistent, SameSync
<1> QED BY <1>2, StopSSEMoves, MovesPermitted

LEMMA StartSyncPermitted ==
  ASSUME TypeOK, Protocol, NEW r \in Main, NEW q,
         r.client = m.client, r.stopping = m.stopping, SameSync(m, r),
         StopToken(m.stopping, q), SyncToken(SyncThread(m), q)
  PROVE  Permitted(StartSync(r), q)
<1>1. Consistent(r) /\ Consistent(m) /\ m.stopping \in BOOLEAN /\ (m.stopping => m.client = 0)
  BY DEF Protocol, Consistent, SameSync, TypeOK, Main
<1>2. CASE r.syncRunning
  <2>1. StartSync(r) = r
    BY <1>2 DEF StartSync
  <2> QED BY <1>1, <2>1, MovesPermitted DEF ClientMoves, SameSync
<1>3. CASE ~r.syncRunning
  <2> DEFINE s == StartSync(r)
  <2>1. /\ s \in Main /\ s.syncRunning /\ s.client = 0
        /\ s.stopping <=> r.stopping \/ r.client # 0
        /\ s.waiting = s.stopping
    BY <1>3, StartSyncMoves
  <2> HIDE DEF s
  <2>2. Consistent(s) /\ ~SyncThread(m)
    BY <1>3, <2>1 DEF Consistent, SyncThread, SameSync
  <2>3. (SyncThread(s) <=> SyncThread(m)) \/ (~SyncThread(m) /\ SyncThread(s))
    BY <2>2
  <2>4. SyncToken(FALSE, q)
    BY <2>2 DEF SyncToken
  <2>5. \/ s.client = m.client /\ s.stopping = m.stopping
        \/ m.client # 0 /\ s.client = 0 /\ s.stopping
    BY <1>1, <2>1 DEF Main
  <2>6. Permitted(s, q)
    BY <1>1, <2>1, <2>2, <2>3, <2>4, <2>5 DEF Permitted
  <2> QED BY <2>6 DEF s
<1> QED BY <1>2, <1>3

\* sseDidStop ends the stop; it lets a waiting sync go, or a queued start.
LEMMA SseDidStopPermitted ==
  ASSUME TypeOK, Protocol, NEW q, NEW up \in {"live", "syncNeeded", "error"},
         m.stopping, joining = {}, Clear(q, DidStop), SyncToken(SyncThread(m), q)
  PROVE  Permitted(SseDidStop(m, up), q)
<1> DEFINE r == [m EXCEPT !.stopping = FALSE, !.startPending = FALSE]
           s == SseDidStop(m, up)
<1>1. /\ m \in Main /\ Consistent(m) /\ m.client = 0
      /\ m.syncRunning <=> m.waiting
  BY DEF TypeOK, Protocol, Consistent, Main
<1>2. StopToken(FALSE, q)
  BY DEF StopToken
<1>3. CASE m.waiting
  <2>1. s = [r EXCEPT !.waiting = FALSE] /\ s \in Main
    BY <1>1, <1>3 DEF SseDidStop, Main
  <2>2. /\ Consistent(s) /\ s.client = m.client /\ ~s.stopping
        /\ ~SyncThread(m) /\ SyncThread(s)
    BY <1>1, <1>3, <2>1 DEF Consistent, SyncThread, Main
  <2>3. SyncToken(FALSE, q)
    BY <2>2 DEF SyncToken
  <2> QED BY <1>1, <1>2, <2>1, <2>2, <2>3 DEF Permitted, Main
<1>4. CASE ~m.waiting
  <2>1. /\ r \in Main /\ Consistent(r) /\ r.client = 0 /\ ~r.stopping /\ SameSync(m, r)
        /\ SyncThread(r) <=> SyncThread(m)
    BY <1>1, <1>4 DEF Main, Consistent, SameSync, SyncThread
  <2>2. s = StartSSE(r, up) \/ s = r
    BY <1>4 DEF SseDidStop
  <2>3. FreeSlot \in Slots
    <3>1. \A i \in Slots : stream[i].pc = "free"
      BY <1>1 DEF Protocol, SlotsUsed, Slots
    <3>2. 1 \in Slots /\ \A j \in Slots : 1 <= j
      BY DEF Slots
    <3> QED BY <3>1, <3>2 DEF FreeSlot
  <2> HIDE DEF r, s
  <2>4. s \in Main /\ SameSync(r, s) /\ Consistent(s) /\ ClientMoves(r, s)
    BY <2>1, <2>2, <2>3, StartSSEMoves DEF ClientMoves, SameSync
  <2>5. SyncThread(s) <=> SyncThread(m)
    BY <2>1, <2>4 DEF SyncThread, SameSync
  <2>6. \/ s.client = m.client /\ s.stopping = FALSE
        \/ m.client = 0 /\ s.client \in Slots /\ ~s.stopping
    BY <1>1, <2>1, <2>3, <2>4 DEF ClientMoves, Main
  <2>7. Permitted(s, q)
    BY <1>2, <2>4, <2>5, <2>6 DEF Permitted
  <2> QED BY <2>7 DEF s
<1> QED BY <1>3, <1>4

\* syncDidFinish ends the sync; after a success the stream starts again.
LEMMA SyncDidFinishPermitted ==
  ASSUME TypeOK, Protocol, NEW q, NEW up \in {"live", "syncNeeded", "error"},
         NEW ok \in BOOLEAN, SyncThread(m), sync.pc = "none", Clear(q, DidSync),
         StopToken(m.stopping, q)
  PROVE  Permitted(SyncDidFinish(m, ok, up), q)
<1> DEFINE r == [m EXCEPT !.syncRunning = FALSE, !.retry = FALSE, !.attach = FALSE]
           u == StartSSE(r, up)
           s == SyncDidFinish(m, ok, up)
<1>1. /\ m \in Main /\ m.client = 0 /\ ~m.stopping /\ ~m.waiting /\ m.stopping \in BOOLEAN
  BY DEF TypeOK, Protocol, Consistent, Main, SyncThread
<1>2. /\ r \in Main /\ Consistent(r) /\ r.client = 0 /\ ~r.stopping
      /\ ~r.syncRunning
  BY <1>1 DEF Main, Consistent
<1>3. FreeSlot \in Slots
  BY <1>1, FreeSlotExists
<1>4. s = IF ok THEN [u EXCEPT !.timer = TRUE] ELSE [r EXCEPT !.state = "error"]
  BY DEF SyncDidFinish
<1> HIDE DEF r, s
<1>5. u \in Main /\ SameSync(r, u) /\ Consistent(u) /\ ClientMoves(r, u)
  BY <1>2, <1>3, StartSSEMoves
<1> HIDE DEF u
<1>6. /\ s \in Main /\ Consistent(s) /\ ~s.syncRunning
      /\ s.client \in Slots \union {0} /\ ~s.stopping
  BY <1>2, <1>3, <1>4, <1>5 DEF Main, States, Consistent, SameSync, ClientMoves
<1>7. SyncThread(m) /\ ~SyncThread(s)
  BY <1>6 DEF SyncThread
<1>8. /\ FALSE \in BOOLEAN /\ StopToken(FALSE, q)
      /\ \/ s.client = m.client /\ s.stopping = FALSE
         \/ m.client = 0 /\ s.client \in Slots /\ ~s.stopping
  BY <1>1, <1>6 DEF Main
<1>9. Permitted(s, q)
  BY <1>1, <1>6, <1>7, <1>8 DEF Permitted
<1> QED BY <1>9 DEF s

\* Talk exceptions touch neither the stream nor the sync.
LEMMA TalkPermitted ==
  ASSUME TypeOK, Protocol, NEW q, NEW kind \in Talks,
         StopToken(m.stopping, q), SyncToken(SyncThread(m), q)
  PROVE  Permitted(HandleSSETalkException(m, kind), q)
<1> DEFINE s == HandleSSETalkException(m, kind)
<1>1. /\ s \in Main /\ s.client = m.client /\ s.stopping = m.stopping
      /\ s.syncRunning = m.syncRunning /\ s.waiting = m.waiting
  BY DEF HandleSSETalkException, TypeOK, Main, States, Talks
<1> HIDE DEF s
<1>2. m \in Main /\ Consistent(s)
  BY <1>1 DEF TypeOK, Protocol, Consistent
<1>3. Permitted(s, q)
  BY <1>1, <1>2, MovesPermitted DEF SameSync, ClientMoves
<1> QED BY <1>3 DEF s

\* A renewed token restarts the stream once the old one has stopped.
LEMMA TokenRefreshDidFinishPermitted ==
  ASSUME TypeOK, Protocol, NEW q, NEW up \in {"live", "syncNeeded", "error"}, NEW how,
         StopToken(m.stopping, q), SyncToken(SyncThread(m), q)
  PROVE  Permitted(TokenRefreshDidFinish(m, how, up), q)
<1> DEFINE s == TokenRefreshDidFinish(m, how, up)
           r == StopSSE(m)
           u == StartSSE(r, up)
<1>1. m \in Main /\ Consistent(m)
  BY DEF TypeOK, Protocol
<1>2. CASE how \in {"refreshDead", "refreshFailed"}
  <2>1. /\ s \in Main /\ s.client = m.client /\ s.stopping = m.stopping
        /\ s.syncRunning = m.syncRunning /\ s.waiting = m.waiting
    BY <1>1, <1>2 DEF TokenRefreshDidFinish, Main, States
  <2> HIDE DEF s
  <2>2. Consistent(s)
    BY <1>1, <2>1 DEF Consistent
  <2>3. Permitted(s, q)
    BY <1>1, <2>1, <2>2, MovesPermitted DEF SameSync, ClientMoves
  <2> QED BY <2>3 DEF s
<1>3. CASE how \notin {"refreshDead", "refreshFailed"}
  <2>1. s = [u EXCEPT !.timer = TRUE]
    BY <1>3 DEF TokenRefreshDidFinish
  <2>2. /\ r \in Main /\ SameSync(m, r) /\ r.client = 0
        /\ r.stopping <=> m.stopping \/ m.client # 0
    BY <1>1, StopSSEMoves
  <2>3. Consistent(r)
    BY <1>1, StopSSEPermitted DEF SameSync
  <2>4. r.client = 0 /\ ~r.stopping => m.client = 0 /\ FreeSlot \in Slots
    BY <2>2, FreeSlotExists
  <2> HIDE DEF r, s
  <2>5. u \in Main /\ SameSync(r, u) /\ Consistent(u) /\ ClientMoves(r, u)
    BY <2>2, <2>3, <2>4, StartSSEMoves
  <2> HIDE DEF u
  <2>6. /\ s \in Main /\ s.client = u.client /\ s.stopping = u.stopping
        /\ s.syncRunning = u.syncRunning /\ s.waiting = u.waiting
    BY <2>1, <2>5 DEF Main
  <2>7. Consistent(s) /\ SameSync(m, s)
    BY <2>2, <2>5, <2>6 DEF Consistent, SameSync
  <2>8. ClientMoves(m, s)
    BY <1>1, <2>2, <2>5, <2>6 DEF ClientMoves, Main, SameSync
  <2>9. SameSync(m, m)
    BY DEF SameSync
  <2>10. Permitted(s, q)
    BY <1>1, <2>6, <2>7, <2>8, <2>9, MovesPermitted
  <2> QED BY <2>10 DEF s
<1> QED BY <1>2, <1>3

\* Every selector: it is the token that its handler takes back.
LEMMA HandledPermitted ==
  ASSUME TypeOK, Protocol, mainq # <<>>, NEW up \in {"live", "syncNeeded", "error"}
  PROVE  Permitted(Handled(Head(mainq), m, up), Tail(mainq))
<1> DEFINE sel == Head(mainq)
           q == Tail(mainq)
<1>1. /\ m \in Main /\ SameSync(m, m) /\ mainq \in Seq(Selectors) /\ sel \in Selectors
      /\ StopToken(m.stopping, mainq) /\ SyncToken(SyncThread(m), mainq)
  BY TailClear DEF TypeOK, Protocol, SameSync
<1>2. /\ \A T : Clear(mainq, T) => sel \notin T /\ Clear(q, T)
      /\ \A T : Single(mainq, T) => IF sel \in T THEN Clear(q, T) ELSE Single(q, T)
  BY <1>1, TailClear
<1> HIDE DEF q
<1>3. sel \notin DidStop => StopToken(m.stopping, q)
  BY <1>1, <1>2 DEF StopToken
<1>4. sel \notin DidSync => SyncToken(SyncThread(m), q)
  BY <1>1, <1>2 DEF SyncToken
<1>5. CASE sel = "sseDidStop"
  <2>1. sel \in DidStop /\ sel \notin DidSync
    BY <1>5 DEF DidStop, DidSync
  <2>2. m.stopping /\ joining = {} /\ Clear(q, DidStop)
    BY <1>1, <1>2, <2>1 DEF StopToken
  <2>3. Handled(sel, m, up) = SseDidStop(m, up)
    BY <1>5 DEF Handled, Talks
  <2> HIDE DEF sel
  <2>4. Permitted(Handled(sel, m, up), q)
    BY <1>4, <2>1, <2>2, <2>3, SseDidStopPermitted
  <2> QED BY <2>4 DEF sel, q
<1>6. CASE sel \in DidSync
  <2>1. sel \notin DidStop
    BY <1>6 DEF DidStop, DidSync
  <2>2. SyncThread(m) /\ sync.pc = "none" /\ Clear(q, DidSync)
    BY <1>1, <1>2, <1>6 DEF SyncToken
  <2>3. /\ sel = "syncOk" => Handled(sel, m, up) = SyncDidFinish(m, TRUE, up)
        /\ sel = "syncFailed" => Handled(sel, m, up) = SyncDidFinish(m, FALSE, up)
    BY DEF Handled, Talks
  <2> HIDE DEF sel
  <2>4. Permitted(Handled(sel, m, up), q)
    BY <1>3, <1>6, <2>1, <2>2, <2>3, SyncDidFinishPermitted DEF DidSync
  <2> QED BY <2>4 DEF sel, q
<1>7. CASE sel \notin DidStop \union DidSync
  <2>1. StopToken(m.stopping, q) /\ SyncToken(SyncThread(m), q)
    BY <1>3, <1>4, <1>7
  <2>2. sel \in {"startSSE", "stopSSE", "startSync"} \union Talks
                 \union {"refreshOk", "refreshFailed", "refreshDead"}
    BY <1>1, <1>7 DEF Selectors, DidStop, DidSync
  <2>3. /\ sel = "startSSE" => Handled(sel, m, up) = StartSSE(m, up)
        /\ sel = "stopSSE" => Handled(sel, m, up) = StopSSE(m)
        /\ sel = "startSync" => Handled(sel, m, up) = StartSync(m)
        /\ sel \in Talks => Handled(sel, m, up) = HandleSSETalkException(m, sel)
        /\ sel \in {"refreshOk", "refreshFailed", "refreshDead"}
             => Handled(sel, m, up) = TokenRefreshDidFinish(m, sel, up)
    BY DEF Handled, Talks
  <2> HIDE DEF sel
  <2>4. CASE sel = "startSSE"
    BY <1>1, <2>1, <2>3, <2>4, StartSSEPermitted DEF sel, q
  <2>5. CASE sel = "stopSSE"
    BY <1>1, <2>1, <2>3, <2>5, StopSSEPermitted DEF sel, q
  <2>6. CASE sel = "startSync"
    BY <1>1, <2>1, <2>3, <2>6, StartSyncPermitted DEF sel, q
  <2>7. CASE sel \in Talks
    BY <2>1, <2>3, <2>7, TalkPermitted DEF sel, q
  <2>8. CASE sel \in {"refreshOk", "refreshFailed", "refreshDead"}
    BY <2>1, <2>3, <2>8, TokenRefreshDidFinishPermitted DEF sel, q
  <2> QED BY <2>2, <2>4, <2>5, <2>6, <2>7, <2>8
<1> QED BY <1>1, <1>5, <1>6, <1>7 DEF DidStop

LEMMA MainStepInv ==
  ASSUME WInv, MainStep
  PROVE  WInv'
<1>1. TypeOK /\ Protocol /\ mainq # <<>> /\ mainq' = Tail(mainq)
  BY DEF WInv, MainStep
<1>2. PICK up \in {"live", "syncNeeded", "error"} :
        /\ Become(Handled(Head(mainq), m, up))
        /\ faults' = IF up # "live" THEN faults + 1 ELSE faults
  BY DEF MainStep
<1>3. Permitted(Handled(Head(mainq), m, up), Tail(mainq))
  BY <1>1, HandledPermitted
<1>4. /\ Protocol' /\ m' \in Main /\ stream' \in [Slots -> Client] /\ joining' \subseteq Slots
      /\ sync' \in Syncer
  BY <1>1, <1>2, <1>3, BecomePermitted
<1>5. mainq' \in Seq(Selectors)
  BY <1>1, TailClear DEF TypeOK
<1>6. UNCHANGED <<line, applied, localRev, dbCat, pending, completed, failed, acts, saves, crashes>>
      /\ refreshing' \in Nat /\ reauth' \in BOOLEAN /\ faults' \in Nat
  <2>1. /\ refreshing' \in {refreshing, refreshing + 1}
        /\ reauth' = reauth \/ reauth' = TRUE
        /\ UNCHANGED <<line, applied, localRev, dbCat, pending, completed, failed, acts, saves,
                       crashes>>
    BY DEF MainStep
  <2>2. faults' \in {faults, faults + 1}
    BY DEF MainStep
  <2>3. reauth' \in BOOLEAN
    BY <1>1, <2>1 DEF TypeOK
  <2> QED BY <1>1, <2>1, <2>2, <2>3 DEF TypeOK
<1> QED BY <1>1, <1>4, <1>5, <1>6 DEF WInv, TypeOK, line

LEMMA UserStepsInv ==
  ASSUME WInv, NEW r, UserSteps(r), Permitted(r, mainq)
  PROVE  WInv'
<1>1. TypeOK /\ Protocol /\ Become(r) /\ mainq' = mainq
  BY DEF WInv, UserSteps
<1>2. /\ Protocol' /\ m' \in Main /\ stream' \in [Slots -> Client] /\ joining' \subseteq Slots
      /\ sync' \in Syncer
  BY <1>1, BecomePermitted
<1>3. UNCHANGED <<line, disk, mainq, refreshing, failed, faults, saves, crashes>> /\ acts' \in Nat
  BY <1>1 DEF UserSteps, Act, TypeOK
<1> QED BY <1>1, <1>2, <1>3 DEF WInv, TypeOK, line, disk

LEMMA UserInv ==
  ASSUME WInv, RetrySync \/ RetryAttachments \/ SetSSEEnabled \/ ForceReconnectSSE
  PROVE  WInv'
<1>1. /\ TypeOK /\ Protocol /\ m \in Main /\ SameSync(m, m) /\ Consistent(m)
      /\ StopToken(m.stopping, mainq) /\ SyncToken(SyncThread(m), mainq)
  BY DEF WInv, TypeOK, Protocol, SameSync
<1>2. CASE RetrySync
  <2> DEFINE r == [m EXCEPT !.retry = TRUE]
  <2>1. r \in Main /\ r.client = m.client /\ r.stopping = m.stopping /\ SameSync(m, r)
    BY <1>1 DEF Main, SameSync
  <2>2. UserSteps(StartSync(r))
    BY <1>2 DEF RetrySync
  <2> HIDE DEF r
  <2> QED BY <1>1, <2>1, <2>2, StartSyncPermitted, UserStepsInv
<1>3. CASE RetryAttachments
  <2> DEFINE r == [m EXCEPT !.attach = TRUE]
  <2>1. r \in Main /\ r.client = m.client /\ r.stopping = m.stopping /\ SameSync(m, r)
    BY <1>1 DEF Main, SameSync
  <2>2. UserSteps(StartSync(r))
    BY <1>3 DEF RetryAttachments
  <2> HIDE DEF r
  <2> QED BY <1>1, <2>1, <2>2, StartSyncPermitted, UserStepsInv
<1>4. CASE SetSSEEnabled
  <2> DEFINE r == [m EXCEPT !.enabled = ~@]
             s == [StopSSE(r) EXCEPT !.state = "offline"]
  <2>1. r \in Main /\ r.client = m.client /\ r.stopping = m.stopping /\ SameSync(m, r)
    BY <1>1 DEF Main, SameSync
  <2>2. UserSteps(IF r.enabled THEN StartSSE(r, "live") ELSE s)
    BY <1>4 DEF SetSSEEnabled
  <2> HIDE DEF r
  <2>3. Permitted(StartSSE(r, "live"), mainq)
    BY <1>1, <2>1, StartSSEPermitted
  <2>4. Permitted(s, mainq)
    <3> DEFINE u == StopSSE(r)
    <3>1. u \in Main /\ SameSync(r, u) /\ ClientMoves(r, u) /\ Consistent(u)
      BY <1>1, <2>1, StopSSEMoves, StopSSEPermitted
    <3> HIDE DEF u
    <3>2. s = [u EXCEPT !.state = "offline"]
      BY DEF u
    <3> HIDE DEF s
    <3>3. /\ s \in Main /\ s.client = u.client /\ s.stopping = u.stopping
          /\ s.syncRunning = u.syncRunning /\ s.waiting = u.waiting
      BY <3>1, <3>2 DEF Main, States
    <3>4. SameSync(r, s) /\ ClientMoves(r, s) /\ Consistent(s)
      BY <3>1, <3>3 DEF SameSync, ClientMoves, Consistent
    <3> QED BY <1>1, <2>1, <3>3, <3>4, MovesPermitted
  <2> QED BY <2>2, <2>3, <2>4, UserStepsInv
<1>5. CASE ForceReconnectSSE
  <2>1. UserSteps(StartSSE(m, "live"))
    BY <1>5 DEF ForceReconnectSSE
  <2>2. Permitted(StartSSE(m, "live"), mainq)
    BY <1>1, StartSSEPermitted
  <2> QED BY <2>1, <2>2, UserStepsInv
<1> QED BY <1>2, <1>3, <1>4, <1>5

-----------------------------------------------------------------------------
(* The steps of the other threads.                                         *)

\* Steps that neither move the lifecycle nor post the end of a stop or sync.
LEMMA QuietProtocol ==
  ASSUME Protocol, m' = m, joining' = joining,
         \A i \in Slots : stream'[i].pc = "free" <=> stream[i].pc = "free",
         sync'.pc = "none" <=> sync.pc = "none",
         KeepsTokens
  PROVE  Protocol'
<1>1. (SyncThread(m))' <=> SyncThread(m)
  BY DEF SyncThread
<1>2. StopToken(m.stopping, mainq)'
  <2>1. StopToken(m.stopping, mainq)
    BY DEF Protocol
  <2>2. StopToken(m.stopping, mainq')
    BY <2>1 DEF StopToken, KeepsTokens
  <2> QED BY <2>2 DEF StopToken
<1>3. SyncToken(SyncThread(m), mainq)'
  <2>1. SyncToken(SyncThread(m), mainq)
    BY DEF Protocol
  <2>2. SyncToken(SyncThread(m), mainq')
    BY <2>1 DEF SyncToken, KeepsTokens
  <2> QED BY <1>1, <2>2 DEF SyncToken
<1>4. SlotsUsed' /\ Consistent(m)'
  BY DEF Protocol, SlotsUsed, Consistent
<1> QED BY <1>2, <1>3, <1>4 DEF Protocol

\* A step of one client's thread that stays between create and free.
LEMMA ClientStep ==
  ASSUME WInv, NEW i \in Slots, NEW c \in Client, SetStream(i, c),
         c.pc # "free", stream[i].pc # "free",
         UNCHANGED <<m, joining, sync>>,
         KeepsTokens
  PROVE  Protocol' /\ stream' \in [Slots -> Client]
<1>1. stream \in [Slots -> Client] /\ stream' = [stream EXCEPT ![i] = c]
  BY DEF WInv, TypeOK, SetStream
<1>2. stream' \in [Slots -> Client]
  BY <1>1
<1>3. \A j \in Slots : stream'[j].pc = "free" <=> stream[j].pc = "free"
  BY <1>1
<1> QED BY <1>2, <1>3, QuietProtocol DEF WInv

\* A step that posts nothing, and one that moves neither stream nor sync.
LEMMA SameQueue ==
  ASSUME mainq' = mainq
  PROVE  KeepsTokens
BY DEF KeepsTokens

LEMMA IdleProtocol ==
  ASSUME WInv, UNCHANGED <<m, joining, sync, stream>>, KeepsTokens
  PROVE  Protocol'
BY QuietProtocol DEF WInv

LEMMA LineInv ==
  ASSUME WInv, NewOp \/ Purge \/ AskPartial
  PROVE  WInv'
<1>1. UNCHANGED <<disk, m, mainq, joining, sync, stream, refreshing, failed, bounds>>
  BY DEF NewOp, Purge, AskPartial
<1>2. Protocol'
  BY <1>1, SameQueue, IdleProtocol
<1>3. head \in Nat /\ floor \in Nat /\ want \in Nat /\ applied \subseteq 1 .. head
  BY DEF WInv, TypeOK
<1>4. head' \in Nat /\ floor' \in Nat /\ want' \in Nat /\ head' >= head
  BY <1>3 DEF NewOp, Purge, AskPartial
<1>5. applied' \subseteq 1 .. head'
  BY <1>1, <1>3, <1>4 DEF disk
<1> QED BY <1>1, <1>2, <1>4, <1>5 DEF WInv, TypeOK, disk, bounds

LEMMA TimerInv ==
  ASSUME WInv, TokenRefreshTimerFired
  PROVE  WInv'
<1>1. /\ m' = [m EXCEPT !.timer = FALSE] /\ refreshing' = refreshing + 1 /\ acts' = acts + 1
      /\ UNCHANGED <<line, disk, mainq, stream, joining, sync, failed, faults, saves, crashes>>
  BY DEF TokenRefreshTimerFired, Act
<1>2. /\ m' \in Main /\ m'.client = m.client /\ m'.stopping = m.stopping
      /\ m'.syncRunning = m.syncRunning /\ m'.waiting = m.waiting
  BY <1>1 DEF WInv, TypeOK, Main
<1>3. SyncThread(m)' <=> SyncThread(m)
  BY <1>2 DEF SyncThread
<1>4. Protocol'
  BY <1>1, <1>2, <1>3 DEF WInv, Protocol, StopToken, SyncToken, Consistent, SlotsUsed
<1>5. refreshing' \in Nat /\ acts' \in Nat
  BY <1>1 DEF WInv, TypeOK
<1> QED BY <1>1, <1>2, <1>4, <1>5 DEF WInv, TypeOK, line, disk

LEMMA TokenRefreshInv ==
  ASSUME WInv, TokenRefreshInBackground
  PROVE  WInv'
<1>1. PICK how \in {"refreshOk", "refreshFailed", "refreshDead"} : mainq' = Append(mainq, how)
  BY DEF TokenRefreshInBackground
<1>2. /\ refreshing' = refreshing - 1 /\ refreshing > 0 /\ faults' \in {faults, faults + 1}
      /\ UNCHANGED <<line, disk, m, stream, joining, sync, failed, acts, saves, crashes>>
  BY DEF TokenRefreshInBackground, Fault
<1>3. how \in Selectors /\ how \notin DidStop /\ how \notin DidSync
  BY DEF Selectors, DidStop, DidSync
<1>4. mainq' \in Seq(Selectors) /\ KeepsTokens
  BY <1>1, <1>3, AppendClear DEF KeepsTokens, WInv, TypeOK
<1>5. Protocol'
  BY <1>2, <1>4, IdleProtocol
<1> QED BY <1>2, <1>4, <1>5 DEF WInv, TypeOK, line, disk

LEMMA RestInv ==
  ASSUME WInv, OtherFails \/ SaveCredentials
  PROVE  WInv'
<1>1. UNCHANGED <<line, disk, m, mainq, stream, joining, sync, refreshing, acts, crashes>>
  BY DEF OtherFails, SaveCredentials
<1>2. Protocol'
  BY <1>1, SameQueue, IdleProtocol
<1>3. failed' \subseteq Gates /\ {faults, saves}' \subseteq Nat
  BY SMTT(30) DEF WInv, TypeOK, OtherFails, SaveCredentials, Fault
<1> QED BY <1>1, <1>2, <1>3 DEF WInv, TypeOK, line, disk

LEMMA FreshProtocol ==
  ASSUME NEW on, m' = Launched(on), mainq' = <<"startSSE">>,
         stream' = [i \in Slots |-> NoClient], joining' = {}, sync' = NoSync
  PROVE  Protocol'
<1>1. Clear(mainq', DidStop) /\ Clear(mainq', DidSync)
  BY DEF Clear, DidStop, DidSync
<1> QED BY <1>1 DEF Protocol, StopToken, SyncToken, SyncThread, Consistent, SlotsUsed,
                    Launched, NoClient, NoSync, Slots

\* A new process starts with one selector and no threads.
LEMMA CrashInv ==
  ASSUME WInv, Crash
  PROVE  WInv'
<1>1. /\ m' = Launched(m.enabled) /\ mainq' = <<"startSSE">>
      /\ stream' = [i \in Slots |-> NoClient] /\ joining' = {} /\ sync' = NoSync
      /\ refreshing' = 0 /\ failed' = {} /\ crashes' = crashes + 1
      /\ UNCHANGED <<line, disk, faults, acts, saves>>
  BY DEF Crash
<1>2. Launched(m.enabled) \in Main
  BY DEF WInv, TypeOK, Main, Launched, States
<1>3. Protocol'
  BY <1>1, FreshProtocol
<1>4. stream' \in [Slots -> Client] /\ sync' \in Syncer /\ mainq' \in Seq(Selectors)
  BY <1>1 DEF NoClient, Client, NoSync, Syncer, Selectors
<1> QED BY <1>1, <1>2, <1>3, <1>4 DEF WInv, TypeOK, line, disk

-----------------------------------------------------------------------------
(* The steps of a stream's thread.                                         *)

\* A step of slot i's thread: it leaves the slot in use, and posts the end of
\* no stop and of no sync.
ThreadMoves(i) ==
  /\ i \in Slots /\ stream[i].pc # "free"
  /\ \E c \in Client : SetStream(i, c) /\ c.pc # "free"
  /\ mainq' \in Seq(Selectors) /\ KeepsTokens
  /\ UNCHANGED <<m, joining, sync>>

LEMMA GotoClient ==
  ASSUME WInv, NEW i \in Slots, NEW pc \in {"connect", "open", "save", "exited", "quit"}, Goto(i, pc)
  PROVE  \E c \in Client : SetStream(i, c) /\ c.pc # "free"
<1> DEFINE c == [stream[i] EXCEPT !.pc = pc]
<1>1. stream[i] \in Client
  BY DEF WInv, TypeOK
<1>2. c \in Client /\ c.pc # "free"
  BY <1>1 DEF Client
<1> QED BY <1>2 DEF Goto

LEMMA DeliveryMoves ==
  ASSUME WInv, NEW i \in Slots,
         StreamExit(i) \/ StreamConnect(i) \/ StreamStopped(i) \/ StreamDrop(i)
         \/ StreamUnread(i) \/ StreamIgnored(i) \/ StreamOpFails(i) \/ SaveLocalRev(i)
  PROVE  ThreadMoves(i)
<1>1. stream[i] \in Client /\ mainq \in Seq(Selectors) /\ completed \in Nat
  BY DEF WInv, TypeOK
<1>2. UNCHANGED <<m, joining, sync, mainq>> /\ stream[i].pc # "free"
  BY DEF StreamExit, StreamConnect, StreamUnread, StreamStopped, StreamDrop, StreamIgnored,
         StreamOpFails, SaveLocalRev, Sends
<1>3. \E c \in Client : SetStream(i, c) /\ c.pc # "free"
  <2>1. CASE StreamConnect(i)
    <3> DEFINE c == [stream[i] EXCEPT !.pc = "open", !.asked = completed]
    <3>1. c \in Client /\ c.pc # "free"
      BY <1>1 DEF Client
    <3> QED BY <2>1, <3>1 DEF StreamConnect
  <2>2. CASE SaveLocalRev(i) /\ ~\E pc \in {"connect", "open", "save", "exited", "quit"} : Goto(i, pc)
    <3> DEFINE c == [stream[i] EXCEPT !.pc = "open", !.rev = stream[i].ev]
    <3>1. c \in Client /\ c.pc # "free"
      BY <1>1 DEF Client
    <3>2. SetStream(i, c)
      BY <2>2 DEF SaveLocalRev
    <3> QED BY <3>1, <3>2
  <2>3. CASE \E pc \in {"connect", "open", "save", "exited", "quit"} : Goto(i, pc)
    BY <2>3, GotoClient
  <2> QED BY <2>1, <2>2, <2>3 DEF StreamExit, StreamUnread, StreamStopped, StreamDrop,
                                  StreamIgnored, StreamOpFails
<1> QED BY <1>1, <1>2, <1>3, SameQueue DEF ThreadMoves

LEMMA StreamOpMoves ==
  ASSUME WInv, NEW i \in Slots, NEW k \in Nat, StreamOp(i, k)
  PROVE  ThreadMoves(i)
<1> DEFINE c == [stream[i] EXCEPT !.pc = "save", !.ev = k]
<1>1. stream[i] \in Client /\ mainq \in Seq(Selectors)
  BY DEF WInv, TypeOK
<1>2. c \in Client /\ c.pc # "free" /\ SetStream(i, c)
  BY <1>1 DEF Client, StreamOp
<1>3. mainq' \in Seq(Selectors) /\ KeepsTokens
  <2>1. Posts(Gated', <<>>, FALSE) /\ Gated' \in BOOLEAN
    BY DEF StreamOp, Gated
  <2> HIDE DEF Gated
  <2> QED BY <1>1, <2>1, PostsClear
<1>4. UNCHANGED <<m, joining, sync>> /\ stream[i].pc # "free"
  BY DEF StreamOp, Sends
<1> QED BY <1>2, <1>3, <1>4 DEF ThreadMoves

LEMMA StreamFullSyncMoves ==
  ASSUME WInv, NEW i \in Slots, StreamFullSync(i)
  PROVE  ThreadMoves(i)
<1>1. mainq \in Seq(Selectors) /\ Posts(TRUE, <<>>, TRUE)
  BY DEF WInv, TypeOK, StreamFullSync
<1>2. mainq' \in Seq(Selectors) /\ KeepsTokens
  BY <1>1, PostsClear
<1>3. Goto(i, "exited") \/ Goto(i, "connect")
  BY DEF StreamFullSync
<1>4. UNCHANGED <<m, joining, sync>> /\ stream[i].pc # "free"
  BY DEF StreamFullSync
<1> QED BY <1>2, <1>3, <1>4, GotoClient DEF ThreadMoves

LEMMA StreamTalkMoves ==
  ASSUME WInv, NEW i \in Slots, NEW kind \in Talks, StreamTalk(i, kind)
  PROVE  ThreadMoves(i)
<1>1. mainq \in Seq(Selectors) /\ Posts(TRUE, <<kind>>, FALSE)
  BY DEF WInv, TypeOK, StreamTalk
<1>2. mainq' \in Seq(Selectors) /\ KeepsTokens
  BY <1>1, PostsClear
<1>3. \E pc \in {"exited", "open", "connect"} : Goto(i, pc)
  BY DEF StreamTalk
<1>4. UNCHANGED <<m, joining, sync>> /\ stream[i].pc # "free"
  BY DEF StreamTalk
<1> QED BY <1>2, <1>3, <1>4, GotoClient DEF ThreadMoves

LEMMA StreamPartialMoves ==
  ASSUME WInv, NEW i \in Slots, StreamPartial(i)
  PROVE  ThreadMoves(i)
<1> DEFINE next == IF Delivered(i) THEN "open" ELSE "connect"
           c == [stream[i] EXCEPT !.asked = want, !.pc = next]
           needed == want > completed
<1>1. stream[i] \in Client /\ mainq \in Seq(Selectors) /\ {want, completed} \subseteq Nat
  BY DEF WInv, TypeOK
<1>2. c \in Client /\ c.pc # "free"
  BY <1>1 DEF Client
<1>3. UNCHANGED <<m, joining, sync>> /\ stream[i].pc # "free"
  BY DEF StreamPartial
<1>4. CASE SetStream(i, c) /\ Posts(Gated, <<>>, needed)
  <2>1. Gated \in BOOLEAN /\ needed \in BOOLEAN
    BY <1>1 DEF Gated
  <2> HIDE DEF needed
  <2>2. mainq' \in Seq(Selectors) /\ KeepsTokens
    BY <1>1, <1>4, <2>1, PostsClear
  <2> HIDE DEF c
  <2> QED BY <1>2, <1>3, <1>4, <2>2 DEF ThreadMoves
<1>5. CASE Goto(i, "connect") /\ mainq' = mainq
  BY <1>1, <1>3, <1>5, GotoClient, SameQueue DEF ThreadMoves
<1> QED BY <1>4, <1>5 DEF StreamPartial

LEMMA StreamStepMoves ==
  ASSUME WInv, NEW i \in Slots, StreamStep(i)
  PROVE  ThreadMoves(i)
<1>1. MaxHead \in Nat
  BY EngineAssumption
<1>2. CASE \E k \in 1 .. MaxHead : StreamOp(i, k)
  BY <1>1, <1>2, StreamOpMoves
<1>3. CASE \E kind \in Talks : StreamTalk(i, kind)
  BY <1>3, StreamTalkMoves
<1> QED BY <1>2, <1>3, DeliveryMoves, StreamFullSyncMoves, StreamPartialMoves DEF StreamStep

\* What a stream's thread writes of the disk and the gates.
LEMMA StreamStepData ==
  ASSUME WInv, NEW i \in Slots, StreamStep(i)
  PROVE  /\ {localRev, pending, completed}' \subseteq Nat
         /\ applied' \subseteq 1 .. head /\ reauth' \in BOOLEAN
         /\ failed' \subseteq Gates /\ faults' \in Nat
         /\ UNCHANGED <<line, dbCat, refreshing, acts, saves, crashes>>
<1>1. /\ stream[i] \in Client /\ {head, floor, want, localRev, pending, completed} \subseteq Nat
      /\ applied \subseteq 1 .. head /\ reauth \in BOOLEAN
      /\ failed \subseteq Gates /\ faults \in Nat
  BY DEF WInv, TypeOK
<1>2. CASE \/ StreamExit(i) \/ StreamConnect(i) \/ StreamUnread(i) \/ StreamStopped(i)
           \/ StreamDrop(i) \/ StreamIgnored(i)
  <2>1. failed' \subseteq Gates /\ faults' \in Nat
    BY <1>1, <1>2 DEF StreamExit, StreamConnect, StreamUnread, StreamStopped, StreamDrop,
                      StreamIgnored, Fault, bounds
  <2>2. UNCHANGED <<line, disk, refreshing, acts, saves, crashes>>
    BY <1>2 DEF StreamExit, StreamConnect, StreamUnread, StreamStopped, StreamDrop,
                StreamIgnored, bounds
  <2> QED BY <1>1, <2>1, <2>2 DEF disk
<1>3. CASE \E k \in 1 .. MaxHead : StreamOp(i, k)
  <2>1. PICK k \in 1 .. MaxHead : StreamOp(i, k)
    BY <1>3
  <2>2. k \in floor + 1 .. head /\ applied' = applied \union {k}
    BY <2>1 DEF StreamOp, Sends
  <2>3. applied' \subseteq 1 .. head
    BY <1>1, <2>2
  <2>4. failed' \subseteq Gates /\ faults' \in Nat
    BY <1>1, <2>1 DEF StreamOp, Fault
  <2>5. UNCHANGED <<line, localRev, dbCat, pending, completed, reauth, refreshing, acts, saves,
                    crashes>>
    BY <2>1 DEF StreamOp
  <2> QED BY <1>1, <2>3, <2>4, <2>5
<1>4. CASE StreamOpFails(i)
  <2>1. failed' \subseteq Gates /\ faults' = faults + 1
    BY <1>1, <1>4 DEF StreamOpFails, Fault
  <2>2. UNCHANGED <<line, disk, refreshing, acts, saves, crashes>>
    BY <1>4 DEF StreamOpFails
  <2>3. UNCHANGED <<applied, localRev, dbCat, pending, completed, reauth>>
    BY <2>2 DEF disk
  <2> QED BY <1>1, <2>1, <2>2, <2>3
<1>5. CASE SaveLocalRev(i)
  <2>1. localRev' \in Nat /\ faults' \in Nat
    BY <1>1, <1>5 DEF SaveLocalRev, Fault, Client
  <2>2. UNCHANGED <<line, applied, dbCat, pending, completed, reauth, refreshing, failed, acts,
                    saves, crashes>>
    BY <1>5 DEF SaveLocalRev
  <2> QED BY <1>1, <2>1, <2>2
<1>6. CASE StreamFullSync(i)
  <2>1. completed' \in Nat /\ faults' \in Nat
    BY <1>1, <1>6 DEF StreamFullSync, Fault
  <2>2. UNCHANGED <<line, applied, localRev, dbCat, pending, reauth, refreshing, failed, acts,
                    saves, crashes>>
    BY <1>6 DEF StreamFullSync
  <2> QED BY <1>1, <2>1, <2>2
<1>7. CASE StreamPartial(i)
  <2>1. pending' \in {pending, want} /\ faults' \in {faults, faults + 1}
    BY <1>7 DEF StreamPartial, MaxOf, Fault
  <2>2. UNCHANGED <<line, applied, localRev, dbCat, completed, reauth, refreshing, failed, acts,
                    saves, crashes>>
    BY <1>7 DEF StreamPartial
  <2> QED BY <1>1, <2>1, <2>2
<1>8. CASE \E kind \in Talks : StreamTalk(i, kind)
  <2>1. (reauth' = reauth \/ reauth' = TRUE) /\ faults' = faults + 1
    BY <1>8 DEF StreamTalk, Fault
  <2>2. UNCHANGED <<line, applied, localRev, dbCat, pending, completed, refreshing, failed, acts,
                    saves, crashes>>
    BY <1>8 DEF StreamTalk
  <2>3. reauth' \in BOOLEAN
    BY <1>1, <2>1
  <2>4. faults' \in Nat
    BY <1>1, <2>1
  <2> QED BY <1>1, <2>2, <2>3, <2>4
<1>9. \/ StreamExit(i) \/ StreamConnect(i) \/ StreamUnread(i) \/ StreamStopped(i)
      \/ StreamDrop(i) \/ StreamIgnored(i)
      \/ \E k \in 1 .. MaxHead : StreamOp(i, k)
      \/ StreamOpFails(i) \/ SaveLocalRev(i) \/ StreamFullSync(i) \/ StreamPartial(i)
      \/ \E kind \in Talks : StreamTalk(i, kind)
  BY Zenon DEF StreamStep
<1> QED BY <1>2, <1>3, <1>4, <1>5, <1>6, <1>7, <1>8, <1>9, Zenon

LEMMA StreamStepInv ==
  ASSUME WInv, NEW i \in Slots, StreamStep(i)
  PROVE  WInv'
<1>1. ThreadMoves(i)
  BY StreamStepMoves
<1>2. Protocol' /\ stream' \in [Slots -> Client]
  BY <1>1, ClientStep DEF ThreadMoves
<1> QED BY <1>1, <1>2, StreamStepData DEF ThreadMoves, WInv, TypeOK, line

\* The joining thread hands its token to the queue.
LEMMA StopSSEInBackgroundInv ==
  ASSUME WInv, NEW i \in Slots, StopSSEInBackground(i)
  PROVE  WInv'
<1>1. TypeOK /\ Protocol
  BY DEF WInv
<1>2. /\ i \in joining /\ stream' = [stream EXCEPT ![i] = NoClient]
      /\ joining' = joining \ {i} /\ mainq' = Append(mainq, "sseDidStop")
      /\ UNCHANGED <<line, disk, m, sync, refreshing, failed, bounds>>
  BY DEF StopSSEInBackground, SetStream
<1>3. /\ "sseDidStop" \in Selectors /\ "sseDidStop" \in DidStop
      /\ "sseDidStop" \notin DidSync
  BY DEF Selectors, DidStop, DidSync
<1>4. m.stopping /\ joining = {i} /\ Clear(mainq, DidStop)
  BY <1>1, <1>2 DEF Protocol, StopToken
<1>5. /\ mainq' \in Seq(Selectors) /\ Single(mainq', DidStop)
      /\ Clear(mainq, DidSync) => Clear(mainq', DidSync)
      /\ Single(mainq, DidSync) => Single(mainq', DidSync)
  BY <1>1, <1>2, <1>3, <1>4, AppendClear DEF TypeOK
<1>6. StopToken(m.stopping, mainq)'
  BY <1>2, <1>4, <1>5 DEF StopToken
<1>7. SyncToken(SyncThread(m), mainq)'
  BY <1>1, <1>2, <1>5 DEF Protocol, SyncToken, SyncThread
<1>8. NoClient \in Client /\ NoClient.pc = "free"
  BY DEF NoClient, Client
<1>9. stream' \in [Slots -> Client] /\ m.client # i
  BY <1>1, <1>2, <1>4, <1>8 DEF TypeOK, Protocol, Consistent, Slots
<1>10. SlotsUsed'
  BY <1>1, <1>2, <1>4, <1>8, <1>9 DEF TypeOK, Protocol, SlotsUsed
<1>11. Protocol'
  BY <1>1, <1>2, <1>6, <1>7, <1>10 DEF Protocol, Consistent
<1> QED BY <1>1, <1>2, <1>5, <1>9, <1>11 DEF WInv, TypeOK, line, disk, bounds

-----------------------------------------------------------------------------
(* The steps of the sync's thread.                                         *)

\* A step of the sync's thread: it goes on, or ends and posts that it did.
SyncMoves ==
  /\ sync.pc # "none"
  /\ \/ sync' \in Syncer /\ sync'.pc # "none" /\ mainq' = mainq
     \/ \E ok \in BOOLEAN : SyncEnds(ok)
  /\ UNCHANGED <<m, joining, stream>>

LEMMA SyncMovesProtocol ==
  ASSUME WInv, SyncMoves
  PROVE  Protocol' /\ sync' \in Syncer /\ mainq' \in Seq(Selectors)
<1>1. /\ Protocol /\ mainq \in Seq(Selectors) /\ sync.pc # "none"
      /\ UNCHANGED <<m, joining, stream>>
  BY DEF WInv, TypeOK, SyncMoves
<1>2. CASE sync' \in Syncer /\ sync'.pc # "none" /\ mainq' = mainq
  BY <1>1, <1>2, QuietProtocol, SameQueue
<1>3. ASSUME NEW ok \in BOOLEAN, SyncEnds(ok)
      PROVE  Protocol' /\ sync' \in Syncer /\ mainq' \in Seq(Selectors)
  <2>1. PICK sel \in DidSync : mainq' = Append(mainq, sel)
    BY <1>3 DEF SyncEnds, DidSync
  <2>2. sync' \in Syncer /\ sync'.pc = "none"
    BY <1>3 DEF SyncEnds, NoSync, Syncer
  <2>3. sel \in Selectors /\ sel \notin DidStop
    BY DEF DidSync, DidStop, Selectors
  <2>4. SyncThread(m) /\ Clear(mainq, DidSync)
    BY <1>1 DEF Protocol, SyncToken
  <2>5. /\ mainq' \in Seq(Selectors) /\ Single(mainq', DidSync)
        /\ Clear(mainq, DidStop) => Clear(mainq', DidStop)
        /\ Single(mainq, DidStop) => Single(mainq', DidStop)
    BY <1>1, <2>1, <2>3, <2>4, AppendClear
  <2>6. SyncToken(SyncThread(m), mainq)'
    BY <1>1, <2>2, <2>4, <2>5 DEF SyncToken, SyncThread
  <2>7. StopToken(m.stopping, mainq)'
    BY <1>1, <2>5 DEF Protocol, StopToken
  <2>8. SlotsUsed' /\ Consistent(m)'
    BY <1>1 DEF Protocol, SlotsUsed, Consistent
  <2> QED BY <2>2, <2>5, <2>6, <2>7, <2>8 DEF Protocol
<1> QED BY <1>2, <1>3 DEF SyncMoves

LEMMA SyncStepMoves ==
  ASSUME WInv, SyncStep
  PROVE  SyncMoves
<1>1. /\ sync \in Syncer /\ {head, want, pending} \subseteq Nat
      /\ UNCHANGED <<m, joining, stream>>
  BY DEF WInv, TypeOK, SyncStep, SyncFails, SyncBegin, SyncCapture, SyncAccount, SyncMessages,
         SyncMedia, SyncFinish, SyncAck, SyncAttachments
<1>2. CASE SyncFails \/ SyncAck \/ SyncAttachments
  <2>1. sync.pc # "none"
    BY <1>2 DEF SyncFails, SyncAck, SyncAttachments, Requesting
  <2>2. \E ok \in BOOLEAN : SyncEnds(ok)
    BY <1>2 DEF SyncFails, SyncAck, SyncAttachments
  <2> QED BY <1>1, <2>1, <2>2 DEF SyncMoves
<1>3. ASSUME NEW pc \in {"capture", "attach", "messages", "media", "finish", "ack"}, SyncGoto(pc)
      PROVE  sync' \in Syncer /\ sync'.pc # "none"
  BY <1>1, <1>3 DEF SyncGoto, Syncer
<1>4. CASE SyncCapture
  BY <1>1, <1>4 DEF SyncCapture, Syncer, SyncMoves
<1>5. CASE SyncBegin \/ SyncAccount \/ SyncMessages \/ SyncMedia \/ SyncFinish
  <2>1. sync.pc # "none" /\ mainq' = mainq
    BY <1>5 DEF SyncBegin, SyncAccount, SyncMessages, SyncMedia, SyncFinish
  <2>2. \E pc \in {"capture", "attach", "messages", "media", "finish", "ack"} : SyncGoto(pc)
    BY <1>5 DEF SyncBegin, SyncAccount, SyncMessages, SyncMedia, SyncFinish
  <2> QED BY <1>1, <1>3, <2>1, <2>2 DEF SyncMoves
<1> QED BY <1>2, <1>4, <1>5 DEF SyncStep

\* What the sync's thread writes of the disk and the gates.  Its operations
\* are LINE's because the revision it captured is (SyncView).
LEMMA SyncStepData ==
  ASSUME WInv, SyncStep, sync.pc = "messages" => sync.rev <= head
  PROVE  /\ {localRev, dbCat, pending, completed}' \subseteq Nat
         /\ applied' \subseteq 1 .. head
         /\ failed' \subseteq Gates /\ faults' \in Nat
         /\ UNCHANGED <<line, reauth, refreshing, acts, saves, crashes>>
<1>1. /\ sync \in Syncer /\ {head, localRev, dbCat, pending, completed} \subseteq Nat
      /\ applied \subseteq 1 .. head /\ failed \subseteq Gates /\ faults \in Nat
  BY DEF WInv, TypeOK
<1>2. CASE SyncFails
  <2>1. failed' \subseteq Gates /\ faults' \in {faults, faults + 1}
    BY <1>1, <1>2 DEF SyncFails, Fault
  <2>2. UNCHANGED <<line, disk, refreshing, acts, saves, crashes>>
    BY <1>2 DEF SyncFails
  <2> QED BY <1>1, <2>1, <2>2 DEF disk
<1>3. CASE SyncBegin \/ SyncCapture \/ SyncAttachments
  <2>1. failed' \subseteq Gates
    BY <1>1, <1>3 DEF SyncBegin, SyncCapture, SyncAttachments
  <2>2. UNCHANGED <<line, disk, refreshing, bounds>>
    BY <1>3 DEF SyncBegin, SyncCapture, SyncAttachments
  <2> QED BY <1>1, <2>1, <2>2 DEF disk, bounds
<1>4. CASE SyncAccount
  <2>1. dbCat' \in Nat
    BY <1>1, <1>4 DEF SyncAccount, MaxOf, Syncer
  <2>2. UNCHANGED <<line, applied, localRev, pending, completed, reauth, refreshing, failed,
                    bounds>>
    BY <1>4 DEF SyncAccount
  <2> QED BY <1>1, <2>1, <2>2 DEF bounds
<1>5. CASE SyncMessages
  <2>1. applied' = applied \union 1 .. sync.rev /\ sync.rev \in Nat /\ sync.rev <= head
    BY <1>1, <1>5 DEF SyncMessages, Syncer
  <2>2. applied' \subseteq 1 .. head
    <3>1. head \in Nat /\ \A k \in 1 .. sync.rev : k \in 1 .. head
      BY <1>1, <2>1
    <3> QED BY <1>1, <2>1, <3>1
  <2>3. UNCHANGED <<line, localRev, dbCat, pending, completed, reauth, refreshing, failed,
                    bounds>>
    BY <1>5 DEF SyncMessages
  <2> QED BY <1>1, <2>2, <2>3 DEF bounds
<1>6. CASE SyncMedia
  <2>1. failed' \subseteq Gates /\ faults' \in {faults, faults + 1}
    BY <1>1, <1>6 DEF SyncMedia, Fault
  <2>2. UNCHANGED <<line, disk, refreshing, acts, saves, crashes>>
    BY <1>6 DEF SyncMedia
  <2> QED BY <1>1, <2>1, <2>2 DEF disk
<1>7. CASE SyncFinish
  <2>1. localRev' \in Nat
    BY <1>1, <1>7 DEF SyncFinish, Syncer
  <2>2. UNCHANGED <<line, applied, dbCat, pending, completed, reauth, refreshing, failed, bounds>>
    BY <1>7 DEF SyncFinish
  <2> QED BY <1>1, <2>1, <2>2 DEF bounds
<1>8. CASE SyncAck
  <2>1. /\ completed' \in {completed, sync.snap} /\ pending' \in {0, pending}
        /\ faults' \in {faults, faults + 1}
    BY <1>8 DEF SyncAck, MaxOf, Fault
  <2>2. completed' \in Nat /\ pending' \in Nat /\ faults' \in Nat
    BY <1>1, <2>1 DEF Syncer
  <2>3. UNCHANGED <<line, applied, localRev, dbCat, reauth, refreshing, failed, acts, saves,
                    crashes>>
    BY <1>8 DEF SyncAck
  <2> QED BY <1>1, <2>2, <2>3
<1> QED BY <1>2, <1>3, <1>4, <1>5, <1>6, <1>7, <1>8 DEF SyncStep

LEMMA SyncStepInv ==
  ASSUME WInv, SyncStep, sync.pc = "messages" => sync.rev <= head
  PROVE  WInv'
<1>1. SyncMoves
  BY SyncStepMoves
<1>2. Protocol' /\ sync' \in Syncer /\ mainq' \in Seq(Selectors)
  BY <1>1, SyncMovesProtocol
<1>3. UNCHANGED <<m, joining, stream>>
  BY <1>1 DEF SyncMoves
<1> QED BY <1>2, <1>3, SyncStepData DEF WInv, TypeOK, line

-----------------------------------------------------------------------------
(* The data.  A live stream goes on from the saved cursor; the operations  *)
(* applied are a prefix of LINE's log that reaches at least that far; what *)
(* the sync captured before its fetch is neither behind the cursor nor     *)
(* ahead of LINE.                                                          *)

StreamView ==
  \A i \in Slots : Alive(i) =>
    /\ stream[i].rev = localRev
    /\ stream[i].pc = "save" => stream[i].ev \in applied /\ stream[i].ev <= stream[i].rev + 1

Prefix == \E n \in localRev .. head : applied = 1 .. n

Fetching  == {"account", "messages", "media", "finish", "ack"}
SyncView ==
  /\ sync.pc \in Fetching =>
       localRev <= sync.rev /\ sync.rev <= head /\ sync.snap <= sync.cat /\ sync.cat <= want
  /\ sync.pc \in Fetching \ {"account"} => sync.cat <= dbCat
  /\ sync.pc \in {"media", "finish", "ack"} => 1 .. sync.rev \subseteq applied
  /\ pending <= want

DInv == StreamView /\ Prefix /\ SyncView /\ AckAfterData
IInv == WInv /\ DInv

\* A stop and a stream exclude each other, and a sync has waited for the stop.
LEMMA OneWriterHolds == WInv => OneWriter
<1> SUFFICES ASSUME WInv PROVE OneWriter
  OBVIOUS
<1>1. \A i \in Slots : Alive(i) => i = m.client \/ i \in joining
  BY DEF WInv, Protocol, SlotsUsed, Alive
<1>2. m.stopping \in BOOLEAN /\ (m.stopping => m.client = 0) /\ 0 \notin Slots
  BY DEF WInv, TypeOK, Main, Protocol, Consistent, Slots
<1>3. /\ m.stopping => joining = {} \/ \E i \in Slots : joining = {i}
      /\ ~m.stopping => joining = {}
  BY DEF WInv, Protocol, StopToken
<1>4. \A i, j \in Slots : Alive(i) /\ Alive(j) => i = j
  BY <1>1, <1>2, <1>3
<1>5. ASSUME sync.pc # "none", NEW i \in Slots
      PROVE  ~Alive(i)
  <2>1. m.syncRunning /\ ~m.waiting
    BY <1>5 DEF WInv, Protocol, SyncToken, SyncThread
  <2>2. ~m.stopping /\ m.client = 0
    BY <2>1 DEF WInv, TypeOK, Main, Protocol, Consistent
  <2> QED BY <1>1, <1>2, <1>3, <2>2
<1> QED BY <1>4, <1>5 DEF OneWriter

LEMMA PrefixNoGap == TypeOK /\ Prefix => NoGap
<1> SUFFICES ASSUME TypeOK, Prefix PROVE NoGap
  OBVIOUS
<1>1. PICK n \in localRev .. head : applied = 1 .. n
  BY DEF Prefix
<1>2. localRev \in Nat /\ head \in Nat
  BY DEF TypeOK
<1> QED BY <1>1, <1>2 DEF NoGap

\* Steps that write neither the log, the database nor the sync's captures.
LEMMA SameData ==
  ASSUME DInv, head \in Nat, localRev \in Nat, want \in Nat, head' \in Nat, want' \in Nat,
         head' >= head, want' >= want, sync \in Syncer, pending \in Nat,
         UNCHANGED <<applied, localRev, dbCat, pending, completed>>,
         sync' = sync \/ sync'.pc \notin Fetching
  PROVE  Prefix' /\ SyncView' /\ AckAfterData'
<1>1. PICK n \in localRev .. head : applied = 1 .. n
  BY DEF DInv, Prefix
<1>2. Prefix'
  <2>1. n \in localRev' .. head' /\ applied' = 1 .. n
    BY <1>1
  <2> QED BY <2>1 DEF Prefix
<1>3. SyncView'
  <2>1. CASE sync' = sync
    BY <2>1 DEF DInv, SyncView, Fetching, Syncer
  <2>2. CASE sync'.pc \notin Fetching
    BY <2>2 DEF DInv, SyncView, Fetching
  <2> QED BY <2>1, <2>2
<1>4. AckAfterData'
  BY DEF DInv, AckAfterData
<1> QED BY <1>2, <1>3, <1>4

LEMMA SameStreams ==
  ASSUME DInv, UNCHANGED <<stream, localRev, applied>>
  PROVE  StreamView'
BY DEF DInv, StreamView, Alive

\* Become starts a stream at the saved cursor.
LEMMA BecomeData ==
  ASSUME WInv, DInv, NEW r, Become(r),
         UNCHANGED <<line, applied, localRev, dbCat, pending, completed>>
  PROVE  DInv'
<1>1. stream \in [Slots -> Client] /\ localRev \in Nat
  BY DEF WInv, TypeOK
<1>2. \A i \in Slots :
        \/ stream'[i] = [NoClient EXCEPT !.pc = "connect", !.rev = localRev]
        \/ stream'[i] = [stream[i] EXCEPT !.stop = TRUE]
        \/ stream'[i] = stream[i]
  BY DEF Become
<1>3. ASSUME NEW i \in Slots, Alive(i)'
      PROVE  /\ stream'[i].rev = localRev
             /\ stream'[i].pc = "save" => /\ stream'[i].ev \in applied
                                          /\ stream'[i].ev <= stream'[i].rev + 1
  <2>1. CASE stream'[i] = [NoClient EXCEPT !.pc = "connect", !.rev = localRev]
    BY <2>1 DEF NoClient
  <2>2. CASE stream'[i] = [stream[i] EXCEPT !.stop = TRUE] \/ stream'[i] = stream[i]
    <3>1. /\ stream'[i].pc = stream[i].pc /\ stream'[i].rev = stream[i].rev
          /\ stream'[i].ev = stream[i].ev
      BY <1>1, <2>2 DEF Client
    <3> QED BY <1>3, <3>1 DEF DInv, StreamView, Alive
  <2> QED BY <1>2, <2>1, <2>2
<1>4. StreamView'
  BY <1>3 DEF StreamView
<1>5. sync' = sync \/ sync'.pc \notin Fetching
  BY DEF Become, NoSync, Fetching
<1>6. Prefix' /\ SyncView' /\ AckAfterData'
  BY <1>5, SameData DEF WInv, TypeOK, line
<1> QED BY <1>4, <1>6 DEF DInv

-----------------------------------------------------------------------------
(* The data under each step, and what the step means to OrderedDelivery.   *)

DeliveryStep == [Delivery!Next]_<<head, applied, localRev>>

\* A step of the one live stream, which keeps to the cursor.
LEMMA LiveStreamStep ==
  ASSUME WInv, NEW i \in Slots, Alive(i), NEW c, SetStream(i, c),
         c.pc \notin {"exited", "quit"} =>
           /\ c.rev = localRev'
           /\ c.pc = "save" => c.ev \in applied' /\ c.ev <= c.rev + 1
  PROVE  StreamView'
<1>1. stream' = [stream EXCEPT ![i] = c] /\ stream \in [Slots -> Client]
  BY DEF SetStream, WInv, TypeOK
<1>2. \A j \in Slots : j # i => ~Alive(j)'
  BY <1>1, OneWriterHolds DEF OneWriter, Alive
<1>3. stream'[i] = c
  BY <1>1
<1> QED BY <1>2, <1>3 DEF StreamView, Alive

\* The thread leaves the cursor and the database alone.
LEMMA GotoView ==
  ASSUME WInv, DInv, NEW i \in Slots, Alive(i),
         NEW pc \in {"connect", "open", "exited", "quit"}, Goto(i, pc),
         UNCHANGED <<localRev, applied>>
  PROVE  StreamView'
<1> DEFINE c == [stream[i] EXCEPT !.pc = pc]
<1>1. stream[i] \in Client /\ stream[i].rev = localRev
  BY DEF WInv, TypeOK, DInv, StreamView
<1>2. c.pc = pc /\ c.rev = localRev' /\ SetStream(i, c)
  BY <1>1 DEF Client, Goto
<1> HIDE DEF c
<1> QED BY <1>2, LiveStreamStep

\* While a stream is alive there is no sync.
LEMMA NoSyncData ==
  ASSUME WInv, DInv, NEW i \in Slots, Alive(i), sync' = sync, Prefix',
         {want, pending, completed, dbCat}' \subseteq Nat,
         pending' <= want', completed' <= dbCat'
  PROVE  SyncView' /\ AckAfterData'
<1>1. sync.pc = "none"
  BY OneWriterHolds DEF OneWriter
<1> QED BY <1>1 DEF SyncView, AckAfterData, Fetching

\* An operation takes effect: the next one after the cursor, or a repeat.
LEMMA StreamOpData ==
  ASSUME WInv, DInv, NEW i \in Slots, NEW k \in Nat, StreamOp(i, k)
  PROVE  DInv' /\ DeliveryStep
<1> DEFINE c == [stream[i] EXCEPT !.pc = "save", !.ev = k]
<1>1. /\ stream[i] \in Client /\ stream[i].rev = localRev /\ Alive(i)
      /\ {head, floor, localRev, want, pending, completed, dbCat} \subseteq Nat
      /\ pending <= want /\ completed <= dbCat
  BY DEF WInv, TypeOK, DInv, StreamView, StreamOp, Sends, Alive, SyncView, AckAfterData
<1>2. /\ k \in 1 .. head /\ k <= localRev + 1 /\ applied' = applied \union {k}
      /\ SetStream(i, c) /\ UNCHANGED <<line, localRev, dbCat, pending, completed, sync>>
  BY <1>1 DEF StreamOp, Sends
<1>3. PICK n \in localRev .. head : applied = 1 .. n
  BY DEF DInv, Prefix
<1>4. c.pc = "save" /\ c.ev = k /\ c.rev = localRev
  BY <1>1 DEF Client
<1>5. StreamView'
  <2> HIDE DEF c
  <2> QED BY <1>1, <1>2, <1>4, LiveStreamStep
<1>6. Prefix' => DInv'
  BY <1>1, <1>2, <1>5, NoSyncData DEF DInv, line
<1>7. CASE k <= n
  <2>1. applied' = applied
    BY <1>1, <1>2, <1>3, <1>7
  <2>2. Prefix'
    BY <1>2, <2>1 DEF DInv, Prefix, line
  <2>3. UNCHANGED <<head, applied, localRev>>
    BY <1>2, <2>1 DEF line
  <2> QED BY <1>6, <2>2, <2>3 DEF DeliveryStep
<1>8. CASE ~(k <= n)
  <2>1. k = n + 1 /\ applied' = 1 .. k /\ applied \subseteq 1 .. k
    BY <1>1, <1>2, <1>3, <1>8
  <2>2. Prefix'
    BY <1>1, <1>2, <2>1 DEF Prefix, line
  <2>3. Delivery!Perform
    BY <1>2, <2>1 DEF Delivery!Perform, line
  <2> QED BY <1>6, <2>2, <2>3 DEF DeliveryStep, Delivery!Next
<1> QED BY <1>7, <1>8

\* The saved cursor is the operation just applied, the next one.
LEMMA SaveLocalRevData ==
  ASSUME WInv, DInv, NEW i \in Slots, SaveLocalRev(i)
  PROVE  DInv' /\ DeliveryStep
<1> DEFINE c == [stream[i] EXCEPT !.pc = "open", !.rev = stream[i].ev]
<1>1. /\ stream[i] \in Client /\ stream[i].rev = localRev /\ Alive(i)
      /\ stream[i].ev \in applied /\ stream[i].ev <= localRev + 1
      /\ {head, localRev, want, pending, completed, dbCat} \subseteq Nat
      /\ pending <= want /\ completed <= dbCat
  BY DEF WInv, TypeOK, DInv, StreamView, SaveLocalRev, Alive, SyncView, AckAfterData
<1>2. UNCHANGED <<line, applied, dbCat, pending, completed, sync>>
  BY DEF SaveLocalRev
<1>3. PICK n \in localRev .. head : applied = 1 .. n
  BY DEF DInv, Prefix
<1>4. CASE \E pc \in {"connect", "open"} : Goto(i, pc) /\ UNCHANGED localRev
  <2>1. StreamView'
    BY <1>1, <1>2, <1>4, GotoView
  <2>2. Prefix' /\ UNCHANGED <<head, applied, localRev>>
    BY <1>2, <1>4 DEF DInv, Prefix, line
  <2>3. SyncView' /\ AckAfterData'
    BY <1>1, <1>2, <2>2, NoSyncData DEF line
  <2> QED BY <2>1, <2>2, <2>3 DEF DInv, DeliveryStep
<1>5. CASE stream[i].ev > stream[i].rev /\ localRev' = stream[i].ev /\ SetStream(i, c)
  <2>1. c.pc = "open" /\ c.rev = localRev'
    BY <1>1, <1>5 DEF Client
  <2>2. StreamView'
    <3> HIDE DEF c
    <3> QED BY <1>1, <1>5, <2>1, LiveStreamStep
  <2>3. /\ localRev' \in localRev + 1 .. head /\ localRev' <= n
        /\ 1 .. localRev' \subseteq applied
    BY <1>1, <1>3, <1>5
  <2>4. Prefix'
    BY <1>1, <1>2, <1>3, <2>3 DEF Prefix, line
  <2>5. SyncView' /\ AckAfterData'
    BY <1>1, <1>2, <2>4, NoSyncData DEF line
  <2>6. Delivery!Commit
    BY <1>2, <2>3 DEF Delivery!Commit, line
  <2> QED BY <2>2, <2>4, <2>5, <2>6 DEF DInv, DeliveryStep, Delivery!Next
<1> QED BY <1>4, <1>5 DEF SaveLocalRev

\* The other steps of a stream write neither the log nor the database.
LEMMA StreamRestData ==
  ASSUME WInv, DInv, NEW i \in Slots,
         \/ StreamExit(i) \/ StreamConnect(i) \/ StreamUnread(i) \/ StreamStopped(i)
         \/ StreamDrop(i) \/ StreamIgnored(i)
         \/ StreamOpFails(i) \/ StreamFullSync(i) \/ StreamPartial(i)
         \/ \E kind \in Talks : StreamTalk(i, kind)
  PROVE  DInv' /\ DeliveryStep
<1>1. /\ stream[i] \in Client /\ stream[i].rev = localRev /\ Alive(i)
      /\ {head, localRev, want, pending, completed, dbCat} \subseteq Nat
      /\ pending <= want /\ completed <= dbCat
  BY DEF WInv, TypeOK, DInv, StreamView, StreamExit, StreamConnect, StreamUnread, StreamStopped,
         StreamDrop, StreamIgnored, StreamOpFails, StreamFullSync, StreamPartial, StreamTalk, Sends, Alive, SyncView,
         AckAfterData
<1>2. UNCHANGED <<line, applied, localRev, dbCat, sync>>
  BY DEF StreamExit, StreamConnect, StreamUnread, StreamStopped, StreamDrop, StreamIgnored,
         StreamOpFails, StreamFullSync, StreamPartial, StreamTalk, disk
<1>3. pending' \in {pending, want} /\ completed' \in {0, completed}
  BY DEF StreamExit, StreamConnect, StreamUnread, StreamStopped, StreamDrop, StreamIgnored,
         StreamOpFails, StreamFullSync, StreamPartial, StreamTalk, disk, MaxOf
<1>4. \/ \E pc \in {"connect", "open", "exited", "quit"} : Goto(i, pc)
      \/ \E a : SetStream(i, [stream[i] EXCEPT !.pc = "open", !.asked = a])
      \/ \E a : SetStream(i, [stream[i] EXCEPT !.pc = "connect", !.asked = a])
  <2>1. CASE StreamConnect(i)
    BY <2>1 DEF StreamConnect
  <2>2. CASE StreamPartial(i)
    <3>1. CASE Goto(i, "connect")
      BY <3>1
    <3>2. CASE SetStream(i, [stream[i] EXCEPT !.asked = want,
                              !.pc = IF Delivered(i) THEN "open" ELSE "connect"])
      <4>1. /\ [stream[i] EXCEPT !.asked = want, !.pc = "open"]
                 = [stream[i] EXCEPT !.pc = "open", !.asked = want]
            /\ [stream[i] EXCEPT !.asked = want, !.pc = "connect"]
                 = [stream[i] EXCEPT !.pc = "connect", !.asked = want]
        BY <1>1 DEF Client
      <4> QED BY <3>2, <4>1
    <3> QED BY <2>2, <3>1, <3>2 DEF StreamPartial
  <2>3. CASE StreamExit(i) \/ StreamUnread(i) \/ StreamStopped(i) \/ StreamDrop(i) \/ StreamIgnored(i)
    BY <2>3 DEF StreamExit, StreamUnread, StreamStopped, StreamDrop, StreamIgnored
  <2>4. CASE StreamOpFails(i) \/ StreamFullSync(i) \/ \E kind \in Talks : StreamTalk(i, kind)
    BY <2>4 DEF StreamOpFails, StreamFullSync, StreamTalk
  <2> QED BY <2>1, <2>2, <2>3, <2>4
<1>5. StreamView'
  <2>1. CASE \E pc \in {"connect", "open", "exited", "quit"} : Goto(i, pc)
    BY <1>1, <1>2, <2>1, GotoView
  <2>2. ASSUME NEW a, NEW pc \in {"open", "connect"},
               SetStream(i, [stream[i] EXCEPT !.pc = pc, !.asked = a])
        PROVE  StreamView'
    <3> DEFINE c == [stream[i] EXCEPT !.pc = pc, !.asked = a]
    <3>1. c.pc = pc /\ c.rev = localRev'
      BY <1>1, <1>2 DEF Client
    <3>2. SetStream(i, c)
      BY <2>2
    <3> HIDE DEF c
    <3> QED BY <1>1, <3>1, <3>2, LiveStreamStep
  <2> QED BY <1>4, <2>1, <2>2
<1>6. Prefix' /\ UNCHANGED <<head, applied, localRev>>
  BY <1>2 DEF DInv, Prefix, line
<1>7. SyncView' /\ AckAfterData'
  <2>1. pending' \in Nat /\ completed' \in Nat /\ pending' <= want /\ completed' <= dbCat
    BY <1>1, <1>3
  <2> QED BY <1>1, <1>2, <1>6, <2>1, NoSyncData DEF line
<1> QED BY <1>5, <1>6, <1>7 DEF DInv, DeliveryStep

LEMMA StreamStepDelivery ==
  ASSUME WInv, DInv, NEW i \in Slots, StreamStep(i)
  PROVE  DInv' /\ DeliveryStep
<1>1. MaxHead \in Nat
  BY EngineAssumption
<1>2. CASE \E k \in 1 .. MaxHead : StreamOp(i, k)
  BY <1>1, <1>2, StreamOpData
<1> QED BY <1>2, SaveLocalRevData, StreamRestData DEF StreamStep

LEMMA StopSSEInBackgroundData ==
  ASSUME WInv, DInv, NEW i \in Slots, StopSSEInBackground(i)
  PROVE  DInv' /\ DeliveryStep
<1>1. /\ stream' = [stream EXCEPT ![i] = NoClient]
      /\ UNCHANGED <<line, disk, sync>>
  BY DEF StopSSEInBackground, SetStream
<1>2. stream \in [Slots -> Client] /\ NoClient.pc = "free"
  BY DEF WInv, TypeOK, NoClient
<1>3. \A j \in Slots : Alive(j)' => Alive(j) /\ stream'[j] = stream[j]
  BY <1>1, <1>2 DEF Alive
<1>4. StreamView'
  BY <1>1, <1>3 DEF DInv, StreamView, disk
<1>5. Prefix' /\ SyncView' /\ AckAfterData'
  BY <1>1, SameData DEF WInv, TypeOK, line, disk
<1>6. UNCHANGED <<head, applied, localRev>>
  BY <1>1 DEF line, disk
<1> QED BY <1>4, <1>5, <1>6 DEF DInv, DeliveryStep

\* The messages fetched carry the database to the captured revision.
LEMMA SyncMessagesData ==
  ASSUME WInv, DInv, SyncMessages
  PROVE  DInv' /\ DeliveryStep
<1>1. /\ sync \in Syncer /\ {head, localRev, want, dbCat, pending, completed} \subseteq Nat
      /\ sync.pc = "messages" /\ applied' = applied \union 1 .. sync.rev
      /\ sync' = [sync EXCEPT !.pc = "media"]
      /\ UNCHANGED <<line, localRev, dbCat, pending, completed, stream>>
  BY DEF WInv, TypeOK, SyncMessages, SyncGoto
<1>2. /\ localRev <= sync.rev /\ sync.rev <= head /\ sync.snap <= sync.cat /\ sync.cat <= want
      /\ sync.cat <= dbCat /\ pending <= want /\ AckAfterData /\ sync.rev \in Nat
  BY <1>1 DEF DInv, SyncView, Fetching, Syncer
<1>3. PICK n \in localRev .. head : applied = 1 .. n
  BY DEF DInv, Prefix
<1>4. /\ sync'.pc = "media" /\ sync'.rev = sync.rev /\ sync'.cat = sync.cat
      /\ sync'.snap = sync.snap
  BY <1>1 DEF Syncer
<1>5. StreamView'
  BY <1>1, OneWriterHolds DEF OneWriter, StreamView, Alive
<1>6. SyncView' /\ AckAfterData'
  BY <1>1, <1>2, <1>4 DEF SyncView, Fetching, AckAfterData, line
<1>7. CASE sync.rev <= n
  <2>1. applied' = applied
    BY <1>1, <1>2, <1>3, <1>7
  <2>2. Prefix' /\ UNCHANGED <<head, applied, localRev>>
    BY <1>1, <1>3, <2>1 DEF Prefix, line
  <2> QED BY <1>5, <1>6, <2>2 DEF DInv, DeliveryStep
<1>8. CASE ~(sync.rev <= n)
  <2>1. applied' = 1 .. sync.rev /\ applied \subseteq 1 .. sync.rev /\ sync.rev \in 1 .. head
    BY <1>1, <1>2, <1>3, <1>8
  <2>2. Prefix'
    BY <1>1, <1>2, <2>1 DEF Prefix, line
  <2>3. Delivery!Perform
    BY <1>1, <2>1 DEF Delivery!Perform, line
  <2> QED BY <1>5, <1>6, <2>2, <2>3 DEF DInv, DeliveryStep, Delivery!Next
<1> QED BY <1>7, <1>8

\* The captured revision is committed over messages that are there.
LEMMA SyncFinishData ==
  ASSUME WInv, DInv, SyncFinish
  PROVE  DInv' /\ DeliveryStep
<1>1. /\ sync \in Syncer /\ {head, localRev, want, dbCat, pending, completed} \subseteq Nat
      /\ sync.pc = "finish" /\ localRev' = sync.rev
      /\ sync' = [sync EXCEPT !.pc = "ack"]
      /\ UNCHANGED <<line, applied, dbCat, pending, completed, stream>>
  BY DEF WInv, TypeOK, SyncFinish, SyncGoto
<1>2. /\ localRev <= sync.rev /\ sync.rev <= head /\ sync.snap <= sync.cat /\ sync.cat <= want
      /\ sync.cat <= dbCat /\ pending <= want /\ AckAfterData /\ sync.rev \in Nat
      /\ 1 .. sync.rev \subseteq applied
  BY <1>1 DEF DInv, SyncView, Fetching, Syncer
<1>3. PICK n \in localRev .. head : applied = 1 .. n
  BY DEF DInv, Prefix
<1>4. /\ sync'.pc = "ack" /\ sync'.rev = sync.rev /\ sync'.cat = sync.cat
      /\ sync'.snap = sync.snap
  BY <1>1 DEF Syncer
<1>5. StreamView'
  BY <1>1, OneWriterHolds DEF OneWriter, StreamView, Alive
<1>6. SyncView' /\ AckAfterData'
  BY <1>1, <1>2, <1>4 DEF SyncView, Fetching, AckAfterData, line
<1>7. sync.rev <= n
  BY <1>1, <1>2, <1>3
<1>8. Prefix'
  BY <1>1, <1>3, <1>7 DEF Prefix, line
<1>9. DeliveryStep
  <2>1. CASE sync.rev = localRev
    BY <1>1, <2>1 DEF DeliveryStep, line
  <2>2. CASE sync.rev # localRev
    <3>1. sync.rev \in localRev + 1 .. head
      BY <1>1, <1>2, <2>2
    <3>2. Delivery!Commit
      BY <1>1, <1>2, <3>1 DEF Delivery!Commit, line
    <3> QED BY <3>2 DEF DeliveryStep, Delivery!Next
  <2> QED BY <2>1, <2>2
<1> QED BY <1>5, <1>6, <1>8, <1>9 DEF DInv

\* The other phases keep their captures; the acknowledgement names what was
\* captured before the data.
LEMMA SyncRestData ==
  ASSUME WInv, DInv, SyncFails \/ SyncBegin \/ SyncCapture \/ SyncAccount \/ SyncMedia
                     \/ SyncAck \/ SyncAttachments
  PROVE  DInv' /\ DeliveryStep
<1>1. /\ sync \in Syncer /\ {head, localRev, want, dbCat, pending, completed} \subseteq Nat
      /\ sync.pc # "none" /\ UNCHANGED <<line, applied, localRev, stream>>
  BY DEF WInv, TypeOK, SyncFails, SyncBegin, SyncCapture, SyncAccount, SyncMedia, SyncAck,
         SyncAttachments, Requesting, disk
<1>2. StreamView'
  BY <1>1, OneWriterHolds DEF OneWriter, StreamView, Alive
<1>3. Prefix' /\ UNCHANGED <<head, applied, localRev>>
  BY <1>1 DEF DInv, Prefix, line
<1>4. SyncView' /\ AckAfterData'
  <2>1. CASE SyncFails \/ SyncBegin \/ SyncAttachments
    <3>1. sync'.pc \notin Fetching /\ UNCHANGED disk
      BY <1>1, <2>1 DEF SyncFails, SyncBegin, SyncAttachments, SyncEnds, SyncGoto, NoSync,
                        Syncer, Fetching
    <3> QED BY <1>1, <3>1, SameData DEF WInv, TypeOK, line, disk
  <2>2. CASE SyncCapture
    <3>1. /\ sync' = [pc |-> "account", rev |-> head, cat |-> want, snap |-> pending]
          /\ UNCHANGED disk
      BY <2>2 DEF SyncCapture
    <3>2. localRev <= head /\ pending <= want /\ AckAfterData
      BY <1>1 DEF DInv, Prefix, SyncView
    <3> QED BY <1>1, <3>1, <3>2 DEF SyncView, Fetching, AckAfterData, line, disk
  <2>3. CASE SyncAccount
    <3>1. /\ sync.pc = "account" /\ sync' = [sync EXCEPT !.pc = "messages"]
          /\ dbCat' = MaxOf(dbCat, sync.cat) /\ UNCHANGED <<pending, completed>>
      BY <2>3 DEF SyncAccount, SyncGoto
    <3>2. dbCat' >= dbCat /\ dbCat' >= sync.cat /\ dbCat' \in Nat
      BY <1>1, <3>1 DEF MaxOf, Syncer
    <3>3. /\ sync'.pc = "messages" /\ sync'.rev = sync.rev /\ sync'.cat = sync.cat
          /\ sync'.snap = sync.snap /\ {sync.rev, sync.cat, sync.snap} \subseteq Nat
      BY <1>1, <3>1 DEF Syncer
    <3>4. /\ localRev <= sync.rev /\ sync.rev <= head /\ sync.snap <= sync.cat
          /\ sync.cat <= want /\ pending <= want /\ completed <= dbCat
      BY <3>1 DEF DInv, SyncView, Fetching, AckAfterData
    <3> QED BY <1>1, <3>1, <3>2, <3>3, <3>4 DEF SyncView, Fetching, AckAfterData, line
  <2>4. CASE SyncMedia
    <3>1. sync.pc = "media" /\ sync' = [sync EXCEPT !.pc = "finish"] /\ UNCHANGED disk
      BY <2>4 DEF SyncMedia, SyncGoto
    <3>2. /\ sync'.pc = "finish" /\ sync'.rev = sync.rev /\ sync'.cat = sync.cat
          /\ sync'.snap = sync.snap
      BY <1>1, <3>1 DEF Syncer
    <3> QED BY <1>1, <3>1, <3>2 DEF DInv, SyncView, Fetching, AckAfterData, line, disk
  <2>5. CASE SyncAck
    <3>1. /\ sync.pc = "ack" /\ sync' = NoSync /\ UNCHANGED dbCat
          /\ pending' \in {0, pending} /\ completed' \in {completed, sync.snap}
      BY <2>5 DEF SyncAck, SyncEnds, MaxOf
    <3>2. /\ sync.snap <= sync.cat /\ sync.cat <= dbCat /\ pending <= want
          /\ completed <= dbCat /\ {sync.cat, sync.snap} \subseteq Nat
      BY <1>1, <3>1 DEF DInv, SyncView, Fetching, AckAfterData, Syncer
    <3>3. sync'.pc \notin Fetching /\ completed' <= dbCat' /\ pending' <= want'
      BY <1>1, <3>1, <3>2 DEF NoSync, Fetching, line
    <3> QED BY <3>3 DEF SyncView, Fetching, AckAfterData
  <2> QED BY <2>1, <2>2, <2>3, <2>4, <2>5
<1> QED BY <1>2, <1>3, <1>4 DEF DInv, DeliveryStep

\* The steps of the main thread, the user and the timers move no data.
LEMMA LifecycleData ==
  ASSUME WInv, DInv,
         \/ MainStep \/ RetrySync \/ RetryAttachments \/ SetSSEEnabled \/ ForceReconnectSSE
  PROVE  DInv' /\ DeliveryStep
<1>1. \E r : Become(r)
  BY DEF MainStep, RetrySync, RetryAttachments, SetSSEEnabled, ForceReconnectSSE, UserSteps
<1>2. UNCHANGED <<line, applied, localRev, dbCat, pending, completed>>
  BY DEF MainStep, RetrySync, RetryAttachments, SetSSEEnabled, ForceReconnectSSE, UserSteps,
         disk
<1> QED BY <1>1, <1>2, BecomeData DEF DeliveryStep, line

LEMMA IdleData ==
  ASSUME WInv, DInv,
         \/ NewOp \/ Purge \/ AskPartial \/ TokenRefreshTimerFired
         \/ TokenRefreshInBackground \/ OtherFails \/ SaveCredentials
  PROVE  DInv' /\ DeliveryStep
<1>1. /\ {head, want, localRev, pending} \subseteq Nat /\ sync \in Syncer
  BY DEF WInv, TypeOK
<1>2. UNCHANGED <<disk, stream, sync>>
  BY DEF NewOp, Purge, AskPartial, TokenRefreshTimerFired, TokenRefreshInBackground,
         OtherFails, SaveCredentials
<1>3. /\ head' \in {head, head + 1} /\ want' \in {want, want + 1}
      /\ head' = head + 1 => NewOp
  BY <1>1 DEF NewOp, Purge, AskPartial, TokenRefreshTimerFired, TokenRefreshInBackground,
         OtherFails, SaveCredentials, line
<1>4. Prefix' /\ SyncView' /\ AckAfterData'
  BY <1>1, <1>2, <1>3, SameData DEF disk
<1>5. StreamView'
  BY <1>2, SameStreams DEF disk
<1>6. DeliveryStep
  BY <1>2, <1>3 DEF DeliveryStep, Delivery!Next, Delivery!Log, NewOp, disk
<1> QED BY <1>4, <1>5, <1>6 DEF DInv

LEMMA CrashData ==
  ASSUME WInv, DInv, Crash
  PROVE  DInv' /\ DeliveryStep
<1>1. /\ stream' = [i \in Slots |-> NoClient] /\ sync' = NoSync /\ UNCHANGED <<line, disk>>
  BY DEF Crash
<1>2. StreamView'
  BY <1>1 DEF StreamView, Alive, NoClient
<1>3. sync'.pc \notin Fetching
  BY <1>1 DEF NoSync, Fetching
<1>4. Prefix' /\ SyncView' /\ AckAfterData'
  BY <1>1, <1>3, SameData DEF WInv, TypeOK, line, disk
<1> QED BY <1>1, <1>2, <1>4 DEF DInv, DeliveryStep, line, disk

-----------------------------------------------------------------------------
(* The invariant.                                                          *)

LEMMA InitData ==
  Init => head = 1 /\ localRev \in {0, 1} /\ applied = 1 .. localRev
<1> SUFFICES ASSUME Init
             PROVE  head = 1 /\ localRev \in {0, 1} /\ applied = 1 .. localRev
  OBVIOUS
<1>1. PICK known \in BOOLEAN : /\ applied = IF known THEN {1} ELSE {}
                               /\ localRev = IF known THEN 1 ELSE 0
  BY DEF Init
<1>2. head = 1 /\ 1 .. 1 = {1} /\ 1 .. 0 = {}
  BY DEF Init
<1> QED BY <1>1, <1>2

LEMMA InitInv == Init => IInv
<1> SUFFICES ASSUME Init PROVE IInv
  OBVIOUS
<1>1. m = Launched(TRUE) /\ mainq = <<"startSSE">> /\ joining = {}
      /\ stream = [i \in Slots |-> NoClient] /\ sync = NoSync
  BY DEF Init
<1>2. Clear(mainq, DidStop) /\ Clear(mainq, DidSync)
  BY <1>1 DEF Clear, DidStop, DidSync
<1>3. Protocol
  BY <1>1, <1>2 DEF Protocol, StopToken, SyncToken, SyncThread, Consistent, SlotsUsed,
                    Launched, NoClient, NoSync, Slots
<1>4. /\ head = 1 /\ localRev \in {0, 1} /\ applied = 1 .. localRev
      /\ applied \subseteq 1 .. head
  BY InitData
<1>5. /\ m \in Main /\ mainq \in Seq(Selectors) /\ stream \in [Slots -> Client]
      /\ sync \in Syncer
  BY <1>1 DEF Launched, Main, States, Selectors, NoClient, Client, NoSync, Syncer
<1>6. TypeOK
  <2>1. /\ floor = 0 /\ want = 0 /\ dbCat = 0 /\ pending = 0 /\ completed = 0
        /\ reauth = FALSE /\ refreshing = 0 /\ failed = {}
        /\ faults = 0 /\ acts = 0 /\ saves = 0 /\ crashes = 0
    BY DEF Init
  <2>2. {head, floor, want, localRev, dbCat, pending, completed} \subseteq Nat
    BY <1>4, <2>1
  <2>3. reauth \in BOOLEAN /\ joining \subseteq Slots /\ refreshing \in Nat /\ failed \subseteq Gates
    BY <1>1, <2>1
  <2> QED BY <1>4, <1>5, <2>1, <2>2, <2>3 DEF TypeOK
<1>7. StreamView
  BY <1>1 DEF StreamView, Alive, NoClient
<1>8. Prefix
  BY <1>4 DEF Prefix
<1>9. SyncView /\ AckAfterData
  BY <1>1 DEF Init, SyncView, AckAfterData, NoSync, Fetching
<1> QED BY <1>3, <1>6, <1>7, <1>8, <1>9 DEF IInv, WInv, DInv

LEMMA NextInv ==
  ASSUME IInv, Next
  PROVE  IInv' /\ DeliveryStep
<1>1. WInv /\ DInv /\ (sync.pc = "messages" => sync.rev <= head)
  BY DEF IInv, DInv, SyncView, Fetching
<1>2. CASE NewOp \/ Purge \/ AskPartial
  BY <1>1, <1>2, LineInv, IdleData DEF IInv
<1>3. CASE MainStep
  BY <1>1, <1>3, MainStepInv, LifecycleData DEF IInv
<1>4. CASE RetrySync \/ RetryAttachments \/ SetSSEEnabled \/ ForceReconnectSSE
  BY <1>1, <1>4, UserInv, LifecycleData DEF IInv
<1>5. CASE TokenRefreshTimerFired
  BY <1>1, <1>5, TimerInv, IdleData DEF IInv
<1>6. CASE TokenRefreshInBackground
  BY <1>1, <1>6, TokenRefreshInv, IdleData DEF IInv
<1>7. CASE \E i \in Slots : StreamStep(i)
  BY <1>1, <1>7, StreamStepInv, StreamStepDelivery DEF IInv
<1>8. CASE \E i \in Slots : StopSSEInBackground(i)
  BY <1>1, <1>8, StopSSEInBackgroundInv, StopSSEInBackgroundData DEF IInv
<1>9. CASE SyncStep
  BY <1>1, <1>9, SyncStepInv, SyncMessagesData, SyncFinishData, SyncRestData DEF IInv, SyncStep
<1>10. CASE OtherFails \/ SaveCredentials
  BY <1>1, <1>10, RestInv, IdleData DEF IInv
<1>11. CASE Crash
  BY <1>1, <1>11, CrashInv, CrashData DEF IInv
<1> QED BY <1>2, <1>3, <1>4, <1>5, <1>6, <1>7, <1>8, <1>9, <1>10, <1>11 DEF Next

LEMMA StutterInv ==
  ASSUME IInv, UNCHANGED vars
  PROVE  IInv' /\ DeliveryStep
<1>1. UNCHANGED <<head, floor, want, applied, localRev, dbCat, pending, completed, reauth, m,
                  mainq, stream, joining, sync, refreshing, failed, faults, acts, saves, crashes>>
  BY DEF vars, line, disk, bounds
<1>2. KeepsTokens
  BY <1>1, SameQueue
<1>3. Protocol'
  BY <1>1, <1>2, IdleProtocol DEF IInv
<1>4. WInv'
  BY <1>1, <1>3 DEF IInv, WInv, TypeOK
<1>5. DInv'
  BY <1>1 DEF IInv, DInv, StreamView, Alive, Prefix, SyncView, AckAfterData
<1> QED BY <1>1, <1>4, <1>5 DEF IInv, DeliveryStep

\* The protocol of starts, stops and syncs, and what the threads may rely on
\* about the database and the cursor, hold in every reachable state: every
\* selector, thread step, stop, fault and crash keeps them.
THEOREM Inductive == Spec => []IInv
<1>1. Init => IInv
  BY InitInv
<1>2. IInv /\ [Next]_vars => IInv'
  BY NextInv, StutterInv
<1> QED BY <1>1, <1>2, PTL DEF Spec

\* Every variable keeps its type: the selectors of the run loop, the slots
\* of the streams, and no operation applied that LINE never logged.
THEOREM TypeCorrect == Spec => []TypeOK
<1>1. IInv => TypeOK
  BY DEF IInv, WInv
<1> QED BY <1>1, Inductive, PTL

\* startSSE, startSync and sseDidStop never let two streams, or a stream and
\* a sync, write the database at once, however their selectors interleave.
THEOREM SingleWriter == Spec => []OneWriter
<1>1. IInv => OneWriter
  BY OneWriterHolds DEF IInv
<1> QED BY <1>1, Inductive, PTL

\* enil_sse_save_local_rev and sync_phase_finish never save a cursor over an
\* operation that has no effect in the database.
THEOREM CursorOverEffects == Spec => []NoGap
<1>1. IInv => NoGap
  BY PrefixNoGap DEF IInv, WInv, DInv
<1> QED BY <1>1, Inductive, PTL

\* enil_session_complete_partial_full_syncs acknowledges no request whose
\* data the database does not hold.
THEOREM AcknowledgedAfterData == Spec => []AckAfterData
<1>1. IInv => AckAfterData
  BY DEF IInv, DInv
<1> QED BY <1>1, Inductive, PTL

\* The whole engine, with its stops, syncs, faults and crashes, implements
\* in-order, at-least-once delivery with a durable cursor that only moves
\* forward (OrderedDelivery).
THEOREM EngineDelivers == Spec => ImplementsDelivery
<1>1. Init => Delivery!Init
  <2> SUFFICES ASSUME Init PROVE Delivery!Init
    OBVIOUS
  <2>1. head = 1 /\ localRev \in 0 .. 1 /\ applied = 1 .. localRev
    BY InitData
  <2> QED BY <2>1 DEF Delivery!Init
<1>2. IInv /\ [Next]_vars => [Delivery!Next]_<<head, applied, localRev>>
  BY NextInv, StutterInv DEF DeliveryStep
<1> QED BY <1>1, <1>2, Inductive, PTL DEF Spec, ImplementsDelivery, Delivery!Spec
=============================================================================
