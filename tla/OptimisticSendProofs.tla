------------------------ MODULE OptimisticSendProofs ------------------------
(***************************************************************************)
(* Proofs about OptimisticSend, for any number of sends, any cases and any *)
(* modulus: the types; that no message is lost; that an echo takes the     *)
(* bubble of its own send while nothing disturbs the matching; and that no *)
(* request number is used twice while the sequence does not wrap around.   *)
(***************************************************************************)
EXTENDS OptimisticSend, FiniteSetTheorems, SequenceTheorems, WellFoundedInduction, TLAPS

-----------------------------------------------------------------------------
(* What each variable holds.                                               *)

Stages == {"idle", "flow", "load", "upload", "post", "reply", "media", "store", "confirm",
           "fail", "done", "failed"}

Op == [type : {"message"}, from : {"here", "phone", "peer"}, of : Nat, sealed : BOOLEAN,
       req : Nat, seq : Nat]
      \union [type : {"seen"}, of : Nat]

\* Scripts and bubbles name messages that LINE has.
Script(M) == [fn : {"append"}, temp : {None}, id : M]
             \union [fn : {"update"}, temp : Sends, id : M]
             \union [fn : {"fail"}, temp : Sends, id : {None}]
             \union [fn : {"seen"}, temp : {None}, id : M \union {None}]
Bubble(M) == [temp : Sends, id : {None}, err : BOOLEAN]
             \union [temp : {None}, id : M, err : {FALSE}]
Page(M) == [rows : Seq(Bubble(M)), marker : M \union {None}]

Numbers == [req : 0 .. (ReqSeqs - 1), seq : Nat]

Types ==
  /\ pc \in [Sends -> Stages]
  /\ content \in [Sends -> {"text", "sticon", "sticker", "image"}]
  /\ sealed \in [Sends -> BOOLEAN]
  /\ snap \in [Sends -> Numbers] /\ session \in Numbers
  /\ msgOf \in [Sends -> 0 .. Len(log)]
  /\ order \in Seq(Sends)
  /\ log \in Seq(Op)
  /\ seenRpc \subseteq Messages
  /\ next \in 1 .. (Len(log) + 1)
  /\ cb \in [pc : {"idle", "process", "consume"}, temp : Sends \union {None}]
  /\ db \subseteq Messages /\ seen \in Messages \union {None}
  /\ mainq \in Seq([direct : BOOLEAN, js : Script(Messages)])
  /\ buf \in Seq(Script(Messages))
  /\ page \in Page(Messages)
  /\ budget.case \in Cases
  /\ budget.left \in [{"others", "lost", "retries", "replays", "reloads"} -> Nat]
  /\ budget = [case |-> budget.case, left |-> budget.left]

-----------------------------------------------------------------------------
(* The log, and who knows which message.                                   *)

Posted == {"reply", "media", "store", "confirm", "done"}
Unposted == {"idle", "flow", "load", "upload", "post"}

LogInv ==
  /\ \A m \in Messages : IF log[m].from = "here"
                         THEN log[m].of \in Sends /\ msgOf[log[m].of] = m
                         ELSE log[m].of = None
  /\ \A m \in DOMAIN log : log[m].type = "seen" => log[m].of \in Messages
  /\ \A s \in Sends :
       /\ msgOf[s] # None => msgOf[s] \in Messages /\ log[msgOf[s]].from = "here"
                             /\ log[msgOf[s]].of = s
       /\ pc[s] \in Posted => msgOf[s] # None
       /\ pc[s] \in Unposted => msgOf[s] = None
  /\ DOMAIN pending \subseteq Messages
  /\ \A m \in DOMAIN pending : pending[m] \in Sends /\ msgOf[pending[m]] = m

-----------------------------------------------------------------------------
(* The sends are made in order, and the queue of temporary ids holds them  *)
(* in that order.                                                          *)

Increasing(q) == \A i, j \in DOMAIN q : i < j => q[i] < q[j]

QueueInv ==
  /\ \A s, t \in Sends : s < t /\ pc[t] # "idle" => pc[s] # "idle"
  /\ \A i \in DOMAIN order : pc[order[i]] \notin {"idle", "failed"}
  /\ Increasing(order)

\* The E2EE number counts at most the sends that LINE answered.
Answered == {s \in Sends : pc[s] \notin Unposted \union {"reply"}}
NumbersInv ==
  /\ session.seq <= Cardinality(Answered)
  /\ \A s \in Sends \ Answered : snap[s].seq <= Cardinality(Answered)

-----------------------------------------------------------------------------
(* Nothing is lost between the event stream and the page.                  *)

Peers == {m \in Messages : log[m].from = "peer"}
Appending(m) == [fn |-> "append", temp |-> None, id |-> m]

OnItsWay(m) == \/ HasRow(page.rows, m)
               \/ \E i \in DOMAIN buf : buf[i] = Appending(m)
               \/ \E i \in DOMAIN mainq : mainq[i] = [direct |-> FALSE, js |-> Appending(m)]

StreamInv ==
  /\ cb.pc = "idle" => cb.temp = None
  /\ cb.pc # "idle" => next <= Len(log) /\ (next \in Peers => cb.temp = None)
  /\ cb.pc # "idle" => (log[next].type # "message" => cb.temp = None)
  /\ cb.pc = "consume" => next \in db \/ log[next].type = "seen"
  /\ \A m \in Messages : m < next => m \in db
  /\ \A m \in Peers : m < next => OnItsWay(m)

-----------------------------------------------------------------------------
(* Echoes find their own bubble.                                           *)

Ended == {"done", "failed"}

\* Sends that do not overlap: a later one starts when the earlier have ended.
Alone ==
  bound.overlap = 1 =>
    /\ \A s, t \in Sends : s < t /\ pc[t] # "idle" => pc[s] \in Ended
    /\ \A s, t \in Sends : s < t /\ msgOf[s] # None /\ msgOf[t] # None => msgOf[s] < msgOf[t]
    /\ \A i \in DOMAIN order : msgOf[order[i]] = None \/ msgOf[order[i]] >= next
    /\ cb.pc # "idle" /\ next \in Messages /\ log[next].from = "here" =>
         cb.temp = log[next].of \/ \A i \in DOMAIN order : order[i] # log[next].of

\* Nothing fails after LINE took a message, and nobody else writes as the user.
Waiting ==
  Undisturbed =>
    /\ budget.left["lost"] = 0 /\ budget.left["replays"] = 0
    /\ \A m \in Messages : log[m].from # "phone"
    /\ \A s \in Sends : pc[s] \in {"fail", "failed"} => msgOf[s] = None
    /\ \A s \in Sends : pc[s] \notin {"idle", "failed"} /\ (msgOf[s] = None \/ msgOf[s] >= next)
                        => \E i \in DOMAIN order : order[i] = s
    /\ SwapsOwnBubble

IInv == Types /\ LogInv /\ QueueInv /\ NumbersInv /\ StreamInv /\ Alone /\ Waiting

-----------------------------------------------------------------------------
(* No request number is used twice, as long as the sequence does not wrap  *)
(* around.                                                                 *)

NoWrap == FirstReqSeq + MaxSends < ReqSeqs /\ Clock + MaxSends < ReqSeqs /\ Clock > 0

OpOf(s) == log[msgOf[s]]

NumberInv ==
  bound.overlap = 1 /\ bound.lost = 0 =>
    /\ budget.left["lost"] = 0
    /\ \/ session.req <= FirstReqSeq + Cardinality(Answered)
       \/ session.req <= Clock + Cardinality(Answered)
    /\ \A s \in Sends : pc[s] \in {"upload", "post", "reply"} => snap[s] = session
    /\ \A s \in Sends : pc[s] = "reply" =>
         OpOf(s).req = NextReqSeq(session.req) /\ OpOf(s).seq = session.seq
    /\ \A s \in Sends : msgOf[s] # None /\ pc[s] # "reply" =>
         /\ 0 < OpOf(s).req /\ OpOf(s).req <= session.req
         /\ UsesSequence(OpOf(s)) => OpOf(s).seq < session.seq
    /\ \A s, t \in Sends : s < t /\ msgOf[s] # None /\ msgOf[t] # None =>
         /\ OpOf(s).req # OpOf(t).req
         /\ UsesSequence(OpOf(s)) /\ UsesSequence(OpOf(t)) => OpOf(s).seq # OpOf(t).seq

-----------------------------------------------------------------------------
(* Induction, and the first n positions.                                   *)

\* A set of naturals that holds 0 and is closed under the successor up to n
\* holds n.
LEMMA Induct ==
  ASSUME NEW n \in Nat, NEW S, 0 \in S, \A i \in 0 .. (n - 1) : i \in S => i + 1 \in S
  PROVE  \A i \in 0 .. n : i \in S
<1> DEFINE T == (0 .. n) \ S
           R == {ss \in Nat \X Nat : ss[1] < ss[2]}
<1>1. SUFFICES ASSUME T # {} PROVE FALSE
  OBVIOUS
<1>2. PICK x \in T : \A y \in T : ~(<<y, x>> \in R)
  <2>1. IsWellFoundedOn(R, Nat)
    BY NatLessThanWellFounded DEF OpToRel
  <2>2. T \subseteq Nat
    OBVIOUS
  <2> HIDE DEF T, R
  <2> QED BY <1>1, <2>1, <2>2, WFMin
<1>3. x \in 0 .. n /\ x # 0 /\ x - 1 \in 0 .. (n - 1)
  OBVIOUS
<1>4. <<x - 1, x>> \in R
  <2>1. <<x - 1, x>> \in Nat \X Nat /\ x - 1 < x
    BY <1>3
  <2> QED BY <2>1
<1>5. x - 1 \notin T
  <2> HIDE DEF R
  <2> QED BY <1>2, <1>4
<1>6. x - 1 \in S
  BY <1>3, <1>5
<1> QED BY <1>3, <1>6

LEMMA MaxFirst ==
  ASSUME NEW i \in Nat, i # 0
  PROVE  Max(1 .. i) = i
BY DEF Max

LEMMA MaxFacts ==
  ASSUME NEW n \in Nat, NEW s \in SUBSET (1 .. n), s # {}
  PROVE  Max(s) \in s /\ \A j \in s : j <= Max(s)
<1> DEFINE S == {i \in Nat : \A t \in SUBSET (1 .. i) : t # {} => \E m \in t : \A j \in t : j <= m}
<1>1. 0 \in S
  <2>1. 1 .. 0 = {}
    OBVIOUS
  <2> QED BY <2>1
<1>2. ASSUME NEW i \in 0 .. (n - 1), i \in S PROVE i + 1 \in S
  <2> SUFFICES ASSUME NEW t \in SUBSET (1 .. (i + 1)), t # {}
               PROVE  \E m \in t : \A j \in t : j <= m
    OBVIOUS
  <2>1. CASE i + 1 \in t
    BY <2>1
  <2>2. CASE i + 1 \notin t
    <3>1. t \in SUBSET (1 .. i)
      BY <2>2
    <3> QED BY <1>2, <3>1
  <2> QED BY <2>1, <2>2
<1>3. n \in S
  <2> HIDE DEF S
  <2> QED BY <1>1, <1>2, Induct
<1>4. \E m \in s : \A j \in s : m >= j
  BY <1>3
<1> QED BY <1>4 DEF Max

-----------------------------------------------------------------------------
(* A flush evaluates the buffered scripts one after the other.             *)

\* The value of the fold after the scripts at the positions s.
Body(p, q, g, s) == IF s = {} THEN p ELSE Eval(g[s \ {Max(s)}], q[Max(s)])

LEMMA FoldExists ==
  ASSUME NEW p, NEW n \in Nat, NEW q
  PROVE  \E g : g = [s \in SUBSET (1 .. n) |-> Body(p, q, g, s)]
<1> DEFINE U == SUBSET (1 .. n)
           S == {k \in Nat : \E g : \A s \in U : s \subseteq 1 .. k => g[s] = Body(p, q, g, s)}
<1>1. 0 \in S
  <2> DEFINE g == [s \in U |-> p]
  <2>1. \A s \in U : s \subseteq 1 .. 0 => g[s] = Body(p, q, g, s)
    BY DEF Body
  <2> QED BY <2>1
<1>2. ASSUME NEW k \in 0 .. (n - 1), k \in S PROVE k + 1 \in S
  <2>1. PICK g : \A s \in U : s \subseteq 1 .. k => g[s] = Body(p, q, g, s)
    BY <1>2
  <2> DEFINE h == [s \in U |-> Body(p, q, g, s)]
  <2>2. \A s \in U : s \subseteq 1 .. k => h[s] = g[s]
    BY <2>1
  <2>3. ASSUME NEW s \in U, s \subseteq 1 .. (k + 1) PROVE h[s] = Body(p, q, h, s)
    <3>1. CASE s = {}
      BY <3>1 DEF Body
    <3>2. CASE s # {}
      <4>1. Max(s) \in s /\ \A j \in s : j <= Max(s)
        BY <3>2, MaxFacts
      <4>2. s \ {Max(s)} \in U /\ s \ {Max(s)} \subseteq 1 .. k
        <5>1. \A j \in s : j \in 1 .. (k + 1) /\ j <= Max(s)
          BY <2>3, <4>1
        <5>2. \A j \in s \ {Max(s)} : j \in 1 .. k
          <6> TAKE j \in s \ {Max(s)}
          <6>1. j \in 1 .. (k + 1) /\ j <= Max(s) /\ j # Max(s) /\ Max(s) \in 1 .. (k + 1)
            BY <4>1, <5>1
          <6> QED BY <6>1
        <5> QED BY <5>2
      <4>3. h[s \ {Max(s)}] = g[s \ {Max(s)}]
        BY <2>2, <4>2
      <4>4. h[s] = Body(p, q, g, s)
        OBVIOUS
      <4> QED BY <3>2, <4>3, <4>4, Zenon DEF Body
    <3> QED BY <3>1, <3>2
  <2> HIDE DEF h
  <2> QED BY <2>3
<1>3. n \in S
  <2> HIDE DEF S
  <2> QED BY <1>1, <1>2, Induct
<1>4. PICK g : \A s \in U : g[s] = Body(p, q, g, s)
  BY <1>3
<1> DEFINE h == [s \in U |-> g[s]]
<1>5. \A s \in U : s # {} => s \ {Max(s)} \in U
  OBVIOUS
<1>6. \A s \in U : Body(p, q, h, s) = Body(p, q, g, s)
  BY <1>5 DEF Body
<1>7. h = [s \in U |-> Body(p, q, h, s)]
  BY <1>4, <1>6
<1> QED BY <1>7

\* The pages between two scripts.
LEMMA Runs ==
  ASSUME NEW p, NEW S, NEW q \in Seq(S)
  PROVE  \E run : /\ run[0] = p
                  /\ \A i \in 1 .. Len(q) : run[i] = Eval(run[i - 1], q[i])
                  /\ run[Len(q)] = FoldLeft(Eval, p, q)
<1> DEFINE n == Len(q)
           U == SUBSET (1 .. n)
<1>1. n \in Nat /\ DOMAIN q = 1 .. n
  OBVIOUS
<1>2. PICK I : I = CHOOSE iter : iter = [s \in SUBSET (DOMAIN q) |->
                      IF s = {} THEN p ELSE Eval(iter[s \ {Max(s)}], q[Max(s)])]
  OBVIOUS
<1>3. FoldLeft(Eval, p, q) = I[DOMAIN q]
  BY <1>2, Zenon DEF FoldLeft, MapThenFoldSet
<1>4. \E g : g = [s \in SUBSET (DOMAIN q) |->
                    IF s = {} THEN p ELSE Eval(g[s \ {Max(s)}], q[Max(s)])]
  <2>1. PICK g : g = [s \in SUBSET (1 .. n) |-> Body(p, q, g, s)]
    <3> HIDE DEF n
    <3> QED BY <1>1, FoldExists, ZenonT(40)
  <2>2. g = [s \in SUBSET (1 .. n) |->
               IF s = {} THEN p ELSE Eval(g[s \ {Max(s)}], q[Max(s)])]
    BY <2>1, Zenon DEF Body
  <2> QED BY <1>1, <2>2, Zenon
<1>5. I = [s \in SUBSET (DOMAIN q) |-> IF s = {} THEN p ELSE Eval(I[s \ {Max(s)}], q[Max(s)])]
  BY <1>2, <1>4, Zenon
<1> DEFINE run == [i \in 0 .. n |-> I[1 .. i]]
<1>6. run[0] = p /\ run[n] = I[DOMAIN q]
  <2>1. 1 .. 0 = {} /\ {} \in SUBSET (DOMAIN q)
    OBVIOUS
  <2>2. I[{}] = p
    BY <1>5, <2>1
  <2> QED BY <1>1, <2>1, <2>2
<1>7. ASSUME NEW i \in 1 .. n PROVE run[i] = Eval(run[i - 1], q[i])
  <2>1. 1 .. i \in SUBSET (DOMAIN q) /\ 1 .. i # {} /\ (1 .. i) \ {i} = 1 .. (i - 1)
    <3>1. i \in 1 .. i /\ i \in Nat
      BY <1>1
    <3>2. \A j \in 1 .. i : j \in 1 .. n
      BY <1>1
    <3>3. \A j : j \in (1 .. i) \ {i} <=> j \in 1 .. (i - 1)
      BY <3>1
    <3> QED BY <1>1, <3>1, <3>2, <3>3
  <2>2. Max(1 .. i) = i
    BY <1>1, MaxFirst
  <2>3. I[1 .. i] = Eval(I[(1 .. i) \ {Max(1 .. i)}], q[Max(1 .. i)])
    BY <1>5, <2>1, Zenon
  <2>4. I[1 .. i] = Eval(I[1 .. (i - 1)], q[i])
    BY <2>1, <2>2, <2>3, Zenon
  <2>5. run[i] = I[1 .. i] /\ run[i - 1] = I[1 .. (i - 1)]
    BY <1>1
  <2> QED BY <2>4, <2>5, Zenon
<1> HIDE DEF run
<1> QED BY <1>3, <1>6, <1>7

-----------------------------------------------------------------------------
(* Lemmas about the operators of the module.                               *)

\* Without e: what is left of a strictly increasing sequence is the same sequence.
LEMMA RemoveFacts ==
  ASSUME NEW S \in SUBSET Int, NEW q \in Seq(S), NEW e,
         Increasing(q)
  PROVE  LET r == RemovePendingTemp(q, e)
         IN  /\ r \in Seq(S)
             /\ \A i \in DOMAIN r : r[i] # e /\ \E j \in DOMAIN q : r[i] = q[j]
             /\ \A j \in DOMAIN q : q[j] # e => \E i \in DOMAIN r : r[i] = q[j]
             /\ Increasing(r)
<1> DEFINE r == RemovePendingTemp(q, e)
<1>1. Len(q) \in Nat /\ DOMAIN q = 1 .. Len(q) /\ \A i \in DOMAIN q : q[i] \in Int
  <2>1. \A i \in 1 .. Len(q) : q[i] \in S
    BY ElementOfSeq
  <2> QED BY <2>1, LenProperties
<1>a. Len(q) \in Nat
  BY LenProperties
<1>2. ASSUME \A i \in 1 .. Len(q) : q[i] # e
      PROVE  /\ r \in Seq(S)
             /\ \A i \in DOMAIN r : r[i] # e /\ \E j \in DOMAIN q : r[i] = q[j]
             /\ \A j \in DOMAIN q : q[j] # e => \E i \in DOMAIN r : r[i] = q[j]
             /\ Increasing(r)
  <2>1. r = q
    BY <1>2 DEF RemovePendingTemp, RemoveFirst
  <2> HIDE DEF r
  <2> QED BY <1>1, <1>2, <2>1
<1>3. ASSUME NEW k \in 1 .. Len(q), q[k] = e
      PROVE  /\ r \in Seq(S) /\ Len(r) = Len(q) - 1
             /\ \A i \in 1 .. Len(r) : r[i] = IF i < k THEN q[i] ELSE q[i + 1]
  <2>1. {i \in 1 .. Len(q) : q[i] = e} = {k}
    BY <1>1, <1>3 DEF Increasing
  <2>2. Min({k}) = k
    BY DEF Min
  <2>3. r = SubSeq(q, 1, k - 1) \o SubSeq(q, k + 1, Len(q))
    BY <1>3, <2>1, <2>2 DEF RemovePendingTemp, RemoveFirst, SelectInSeq, RemoveAt
  <2> HIDE DEF r
  <2>4. SubSeq(q, 1, k - 1) \in Seq(S) /\ Len(SubSeq(q, 1, k - 1)) = k - 1
        /\ \A i \in 1 .. (k - 1) : SubSeq(q, 1, k - 1)[i] = q[i]
    <3>1. \A i \in 1 .. (k - 1) : q[i] \in S
      BY <1>1, ElementOfSeq
    <3> QED BY <1>1, <3>1, SubSeqProperties
  <2>5. SubSeq(q, k + 1, Len(q)) \in Seq(S) /\ Len(SubSeq(q, k + 1, Len(q))) = Len(q) - k
        /\ \A i \in 1 .. (Len(q) - k) : SubSeq(q, k + 1, Len(q))[i] = q[k + i]
    <3>1. \A i \in (k + 1) .. Len(q) : q[i] \in S
      BY <1>1, ElementOfSeq
    <3>2. /\ SubSeq(q, k + 1, Len(q)) \in Seq(S)
          /\ Len(SubSeq(q, k + 1, Len(q))) = IF k + 1 <= Len(q) THEN Len(q) - (k + 1) + 1 ELSE 0
          /\ \A i \in 1 .. (Len(q) - (k + 1) + 1) :
               SubSeq(q, k + 1, Len(q))[i] = q[(k + 1) + i - 1]
      BY <1>1, <3>1, SubSeqProperties
    <3> DEFINE t == SubSeq(q, k + 1, Len(q))
    <3> HIDE DEF r, t
    <3>3. ASSUME NEW i \in 1 .. (Len(q) - k) PROVE t[i] = q[k + i]
      <4>1. (k + 1) + i - 1 = k + i /\ i \in 1 .. (Len(q) - (k + 1) + 1)
        BY <1>1
      <4>2. t[i] = q[(k + 1) + i - 1]
        BY <3>2, <4>1 DEF t
      <4> QED BY <4>1, <4>2
    <3>4. t \in Seq(S) /\ Len(t) = Len(q) - k
      <4>1. t \in Seq(S)
        BY <3>2 DEF t
      <4>2. Len(t) = IF k + 1 <= Len(q) THEN Len(q) - (k + 1) + 1 ELSE 0
        BY <3>2 DEF t
      <4>3. CASE k + 1 <= Len(q)
        BY <1>1, <4>1, <4>2, <4>3
      <4>4. CASE ~(k + 1 <= Len(q))
        <5>1. k = Len(q)
          BY <1>a, <4>4
        <5> QED BY <1>1, <4>1, <4>2, <4>4, <5>1
      <4> QED BY <4>3, <4>4
    <3> QED BY <3>3, <3>4 DEF t
  <2> DEFINE a == SubSeq(q, 1, k - 1)
             b == SubSeq(q, k + 1, Len(q))
  <2> HIDE DEF a, b
  <2>6. /\ r \in Seq(S) /\ Len(r) = Len(q) - 1
        /\ \A i \in 1 .. (Len(q) - 1) : r[i] = IF i < k THEN a[i] ELSE b[i - (k - 1)]
    <3>1. a \in Seq(S) /\ b \in Seq(S) /\ Len(a) = k - 1 /\ Len(b) = Len(q) - k /\ r = a \o b
      BY <2>3, <2>4, <2>5 DEF a, b
    <3>2. /\ r \in Seq(S) /\ Len(r) = Len(a) + Len(b)
          /\ \A i \in 1 .. (Len(a) + Len(b)) :
               r[i] = IF i <= Len(a) THEN a[i] ELSE b[i - Len(a)]
      BY <3>1, ConcatProperties
    <3>3. Len(a) + Len(b) = Len(q) - 1 /\ \A i \in 1 .. (Len(q) - 1) : i <= k - 1 <=> i < k
      BY <1>1, <3>1
    <3> QED BY <3>1, <3>2, <3>3
  <2>7. ASSUME NEW i \in 1 .. (Len(q) - 1)
        PROVE  r[i] = IF i < k THEN q[i] ELSE q[i + 1]
    <3>1. CASE i < k
      <4>1. i \in 1 .. (k - 1)
        BY <1>a, <3>1
      <4>2. r[i] = a[i]
        BY <2>6, <3>1
      <4> QED BY <2>4, <3>1, <4>1, <4>2 DEF a
    <3>2. CASE ~(i < k)
      <4>1. r[i] = b[i - (k - 1)]
        BY <2>6, <3>2
      <4>2. i - (k - 1) \in 1 .. (Len(q) - k) /\ k + (i - (k - 1)) = i + 1
        BY <1>1, <3>2
      <4>3. b[i - (k - 1)] = q[i + 1]
        BY <2>5, <4>2 DEF b
      <4> QED BY <3>2, <4>1, <4>3
    <3> QED BY <3>1, <3>2
  <2> QED BY <2>6, <2>7
<1>4. ASSUME NEW k \in 1 .. Len(q), q[k] = e
      PROVE  /\ r \in Seq(S)
             /\ \A i \in DOMAIN r : r[i] # e /\ \E j \in DOMAIN q : r[i] = q[j]
             /\ \A j \in DOMAIN q : q[j] # e => \E i \in DOMAIN r : r[i] = q[j]
             /\ Increasing(r)
  <2> DEFINE at(i) == IF i < k THEN i ELSE i + 1
  <2>1. r \in Seq(S) /\ DOMAIN r = 1 .. (Len(q) - 1)
        /\ \A i \in DOMAIN r : r[i] = q[at(i)] /\ at(i) \in DOMAIN q /\ at(i) # k
    <3> HIDE DEF r
    <3>1. r \in Seq(S) /\ Len(r) = Len(q) - 1
          /\ \A i \in 1 .. Len(r) : r[i] = IF i < k THEN q[i] ELSE q[i + 1]
      BY <1>3, <1>4
    <3>2. DOMAIN r = 1 .. (Len(q) - 1)
      BY <3>1, LenProperties
    <3>3. \A i \in DOMAIN r : r[i] = q[at(i)]
      BY <3>1, <3>2
    <3>4. \A i \in 1 .. (Len(q) - 1) : at(i) \in 1 .. Len(q) /\ at(i) # k
      BY <1>1
    <3> HIDE DEF at
    <3> QED BY <1>1, <3>1, <3>2, <3>3, <3>4
  <2> HIDE DEF r
  <2>2. \A i \in DOMAIN r : r[i] # e
    <3> TAKE i \in DOMAIN r
    <3>1. q[at(i)] # q[k]
      <4>1. at(i) < k \/ k < at(i)
        BY <2>1
      <4>2. q[at(i)] < q[k] \/ q[k] < q[at(i)]
        <5> HIDE DEF at
        <5> QED BY <1>1, <2>1, <4>1 DEF Increasing
      <4> HIDE DEF at
      <4> QED BY <1>1, <2>1, <4>2
    <3> QED BY <1>4, <2>1, <3>1
  <2>3. \A j \in DOMAIN q : q[j] # e => \E i \in DOMAIN r : r[i] = q[j]
    <3> TAKE j \in DOMAIN q
    <3> HAVE q[j] # e
    <3>1. CASE j < k
      <4>1. j \in DOMAIN r /\ at(j) = j
        BY <1>1, <2>1, <3>1
      <4> QED BY <2>1, <4>1
    <3>2. CASE j > k
      <4>1. j - 1 \in DOMAIN r /\ at(j - 1) = j
        BY <1>1, <2>1, <3>2
      <4>2. r[j - 1] = q[j]
        BY <2>1, <4>1
      <4> QED BY <4>1, <4>2
    <3> QED BY <1>1, <1>4, <3>1, <3>2
  <2>4. Increasing(r)
    <3> SUFFICES \A i, j \in DOMAIN r : i < j => r[i] < r[j]
      BY DEF Increasing
    <3> TAKE i, j \in DOMAIN r
    <3> HAVE i < j
    <3>1. at(i) < at(j)
      BY <2>1
    <3> HIDE DEF at
    <3> QED BY <2>1, <3>1 DEF Increasing
  <2>5. \A i \in DOMAIN r : \E j \in DOMAIN q : r[i] = q[j]
    <3> HIDE DEF at
    <3> QED BY <2>1
  <2> QED BY <2>1, <2>2, <2>3, <2>4, <2>5
<1> HIDE DEF r
<1>5. /\ r \in Seq(S)
      /\ \A i \in DOMAIN r : r[i] # e /\ \E j \in DOMAIN q : r[i] = q[j]
      /\ \A j \in DOMAIN q : q[j] # e => \E i \in DOMAIN r : r[i] = q[j]
      /\ Increasing(r)
  <2>1. CASE \E k \in 1 .. Len(q) : q[k] = e
    BY <1>4, <2>1
  <2>2. CASE \A i \in 1 .. Len(q) : q[i] # e
    BY <1>2, <2>2
  <2> QED BY <2>1, <2>2
<1> QED BY <1>5 DEF r

\* The rows of the database are numbered one by one, none left out.
LEMMA NthFacts ==
  ASSUME NEW n \in Nat, NEW S \in SUBSET (1 .. n)
  PROVE  /\ Cardinality(S) \in Nat
         /\ \A i \in 1 .. Cardinality(S) : Nth(S, i) \in S
         /\ \A m \in S : \E i \in 1 .. Cardinality(S) : Nth(S, i) = m
<1> DEFINE c == Cardinality(S)
           below(m) == {x \in S : x <= m}
           rank == [m \in S |-> Cardinality(below(m))]
<1>1. IsFiniteSet(S) /\ c \in Nat
  <2>1. IsFiniteSet(1 .. n)
    BY FS_Interval
  <2> QED BY <2>1, FS_Subset, FS_CardinalityType
<1>2. \A m \in S : below(m) \in SUBSET S /\ m \in below(m) /\ m \in Nat
  OBVIOUS
<1>3. \A m \in S : IsFiniteSet(below(m)) /\ Cardinality(below(m)) \in 1 .. c
  <2> TAKE m \in S
  <2> HIDE DEF below
  <2>1. IsFiniteSet(below(m)) /\ Cardinality(below(m)) <= c
    BY <1>1, <1>2, FS_Subset
  <2>2. Cardinality(below(m)) \in Nat /\ Cardinality(below(m)) # 0
    BY <1>2, <2>1, FS_CardinalityType, FS_EmptySet
  <2> QED BY <1>1, <2>1, <2>2
<1>4. \A l, m \in S : l < m => Cardinality(below(l)) < Cardinality(below(m))
  <2> TAKE l, m \in S
  <2> HAVE l < m
  <2>1. below(l) \in SUBSET below(m) /\ m \notin below(l)
    <3>1. S \subseteq Nat
      OBVIOUS
    <3>2. \A x \in S : x <= l => x <= m
      BY <3>1
    <3>3. ~(m <= l)
      BY <3>1
    <3> QED BY <3>2, <3>3
  <2> HIDE DEF below, c
  <2>2. Cardinality(below(l)) <= Cardinality(below(m))
        /\ Cardinality(below(l)) # Cardinality(below(m))
    BY <1>2, <1>3, <2>1, FS_Subset
  <2> QED BY <1>1, <1>3, <2>2
<1>5. \A l, m \in S : rank[l] = rank[m] => l = m
  <2> HIDE DEF below
  <2> TAKE l, m \in S
  <2> HAVE rank[l] = rank[m]
  <2>1. ~(l < m) /\ ~(m < l)
    BY <1>1, <1>3, <1>4
  <2> QED BY <1>2, <2>1
<1>6. \A i \in 1 .. c : \E m \in S : rank[m] = i
  <2> SUFFICES ASSUME NEW i \in 1 .. c, \A m \in S : rank[m] # i PROVE FALSE
    OBVIOUS
  <2> DEFINE T == (1 .. c) \ {i}
  <2>1. rank \in [S -> T]
    <3> HIDE DEF below
    <3> QED BY <1>3
  <2>2. IsFiniteSet(T) /\ Cardinality(T) = c - 1
    <3>1. IsFiniteSet(1 .. c) /\ Cardinality(1 .. c) = c
      BY <1>1, FS_Interval
    <3> HIDE DEF c
    <3>2. IsFiniteSet((1 .. c) \ {i}) /\ Cardinality((1 .. c) \ {i}) = Cardinality(1 .. c) - 1
      BY <3>1, FS_RemoveElement
    <3> QED BY <3>1, <3>2
  <2> HIDE DEF rank, T
  <2>4. Cardinality(T) < Cardinality(S)
    BY <1>1, <2>2
  <2>3. \E l, m \in S : l # m /\ rank[l] = rank[m]
    BY <1>1, <2>1, <2>2, <2>4, FS_PigeonHole
  <2> QED BY <1>5, <2>3
<1>7. ASSUME NEW m \in S, NEW i, rank[m] = i PROVE Nth(S, i) = m
  <2>1. \A l \in S : Cardinality(below(l)) = i <=> l = m
    <3> HIDE DEF below
    <3> QED BY <1>5, <1>7
  <2>2. Nth(S, i) = CHOOSE l \in S : Cardinality(below(l)) = i
    BY DEF Nth
  <2> HIDE DEF below
  <2> QED BY <2>1, <2>2
<1>8. \A m \in S : rank[m] \in 1 .. c
  <2> HIDE DEF below
  <2> QED BY <1>3
<1> HIDE DEF rank
<1> QED BY <1>1, <1>6, <1>7, <1>8

LEMMA BubbleFacts ==
  ASSUME NEW M \in SUBSET Nat, None \notin M, NEW b \in Bubble(M)
  PROVE  /\ b.id \in M => b.temp = None /\ b.temp \notin Sends
         /\ b.temp \in Sends => [b EXCEPT !.err = TRUE] \in Bubble(M)
         /\ b.temp \in Sends \union {None} /\ b.id \in M \union {None}
<1>1. None \notin Sends
  BY DEF None, Sends
<1>2. CASE b \in [temp : Sends, id : {None}, err : BOOLEAN]
  <2>1. [b EXCEPT !.err = TRUE] \in [temp : Sends, id : {None}, err : BOOLEAN]
    BY <1>2
  <2> QED BY <1>1, <1>2, <2>1 DEF Bubble
<1>3. CASE b \in [temp : {None}, id : M, err : {FALSE}]
  BY <1>1, <1>3
<1> QED BY <1>2, <1>3 DEF Bubble

\* A script leaves a page of bubbles, and no bubble of a message disappears.
LEMMA EvalPage ==
  ASSUME NEW M \in SUBSET Nat, None \notin M, NEW pg \in Page(M), NEW js \in Script(M)
  PROVE  /\ Eval(pg, js) \in Page(M)
         /\ \A m \in M : HasRow(pg.rows, m) => HasRow(Eval(pg, js).rows, m)
         /\ js.fn = "append" => HasRow(Eval(pg, js).rows, js.id)
<1>1. /\ pg.rows \in Seq(Bubble(M)) /\ pg.marker \in M \union {None}
      /\ pg = [rows |-> pg.rows, marker |-> pg.marker]
  BY DEF Page
<1>2. /\ Len(pg.rows) \in Nat /\ DOMAIN pg.rows = 1 .. Len(pg.rows)
      /\ \A i \in 1 .. Len(pg.rows) : pg.rows[i] \in Bubble(M)
  BY <1>1, LenProperties, ElementOfSeq
<1>3. CASE js.fn = "append"
  <2>1. js.id \in M /\ Eval(pg, js) = [pg EXCEPT !.rows = Append(@, Shown(js.id))]
    BY <1>3 DEF Script, Eval, AppendMessage
  <2>2. Shown(js.id) \in Bubble(M) /\ Shown(js.id).id = js.id
    BY <2>1 DEF Shown, Bubble
  <2>3. /\ Append(pg.rows, Shown(js.id)) \in Seq(Bubble(M))
        /\ DOMAIN Append(pg.rows, Shown(js.id)) = 1 .. (Len(pg.rows) + 1)
        /\ \A i \in 1 .. Len(pg.rows) : Append(pg.rows, Shown(js.id))[i] = pg.rows[i]
        /\ Append(pg.rows, Shown(js.id))[Len(pg.rows) + 1] = Shown(js.id)
    BY <1>1, <2>2, AppendProperties, LenProperties
  <2>4. Eval(pg, js) \in Page(M) /\ Eval(pg, js).rows = Append(pg.rows, Shown(js.id))
    BY <1>1, <2>1, <2>3 DEF Page
  <2>5. \A m \in M : HasRow(pg.rows, m) => HasRow(Eval(pg, js).rows, m)
    BY <1>2, <2>3, <2>4 DEF HasRow
  <2>6. HasRow(Eval(pg, js).rows, js.id)
    <3>1. Len(pg.rows) + 1 \in 1 .. (Len(pg.rows) + 1)
      BY <1>2
    <3> QED BY <2>2, <2>3, <2>4, <3>1 DEF HasRow
  <2> QED BY <2>4, <2>5, <2>6
<1>4. ASSUME NEW r, r \in Seq(Bubble(M)), DOMAIN r = DOMAIN pg.rows,
             \A i \in DOMAIN r : pg.rows[i].id \in M => r[i] = pg.rows[i],
             Eval(pg, js) = [pg EXCEPT !.rows = r], js.fn # "append"
      PROVE  /\ Eval(pg, js) \in Page(M)
             /\ \A m \in M : HasRow(pg.rows, m) => HasRow(Eval(pg, js).rows, m)
  <2>1. Eval(pg, js) \in Page(M) /\ Eval(pg, js).rows = r
    BY <1>1, <1>4 DEF Page
  <2> QED BY <1>4, <2>1 DEF HasRow
<1>5. CASE js.fn = "update"
  <2> DEFINE r == [i \in DOMAIN pg.rows |->
                     IF i \in RowOf(pg.rows, js.temp) THEN Shown(js.id) ELSE pg.rows[i]]
  <2>1. js.temp \in Sends /\ js.id \in M
    BY <1>5 DEF Script
  <2>2. \A i \in 1 .. Len(pg.rows) : r[i] \in Bubble(M) /\ (pg.rows[i].id \in M => r[i] = pg.rows[i])
    <3>1. Shown(js.id) \in Bubble(M)
      BY <2>1 DEF Shown, Bubble
    <3> TAKE i \in 1 .. Len(pg.rows)
    <3>2. r[i] = IF pg.rows[i].temp = js.temp THEN Shown(js.id) ELSE pg.rows[i]
      BY <1>2 DEF RowOf
    <3>3. pg.rows[i].id \in M => pg.rows[i].temp # js.temp
      BY <1>2, <2>1, BubbleFacts
    <3> HIDE DEF r
    <3> QED BY <1>2, <3>1, <3>2, <3>3
  <2>3. r \in Seq(Bubble(M)) /\ DOMAIN r = DOMAIN pg.rows
    <3>1. r \in [1 .. Len(pg.rows) -> Bubble(M)]
      BY <1>2, <2>2
    <3> HIDE DEF r
    <3> QED BY <1>2, <3>1, SeqDef
  <2>4. Eval(pg, js) = [pg EXCEPT !.rows = r]
    BY <1>5 DEF Eval, UpdateMessage
  <2> HIDE DEF r
  <2> QED BY <1>2, <1>4, <1>5, <2>2, <2>3, <2>4
<1>6. CASE js.fn = "fail"
  <2> DEFINE r == [i \in DOMAIN pg.rows |->
                     IF i \in RowOf(pg.rows, js.temp) THEN [pg.rows[i] EXCEPT !.err = TRUE]
                                                      ELSE pg.rows[i]]
  <2>1. js.temp \in Sends
    BY <1>6 DEF Script
  <2>2. \A i \in 1 .. Len(pg.rows) : r[i] \in Bubble(M) /\ (pg.rows[i].id \in M => r[i] = pg.rows[i])
    <3> TAKE i \in 1 .. Len(pg.rows)
    <3>1. pg.rows[i].temp = js.temp => [pg.rows[i] EXCEPT !.err = TRUE] \in Bubble(M)
      BY <1>2, <2>1, BubbleFacts
    <3>2. r[i] = IF pg.rows[i].temp = js.temp THEN [pg.rows[i] EXCEPT !.err = TRUE]
                                              ELSE pg.rows[i]
      BY <1>2 DEF RowOf
    <3>3. pg.rows[i].id \in M => pg.rows[i].temp # js.temp
      BY <1>2, <2>1, BubbleFacts
    <3> HIDE DEF r
    <3> QED BY <1>2, <3>1, <3>2, <3>3
  <2>3. r \in Seq(Bubble(M)) /\ DOMAIN r = DOMAIN pg.rows
    <3>1. r \in [1 .. Len(pg.rows) -> Bubble(M)]
      BY <1>2, <2>2
    <3> HIDE DEF r
    <3> QED BY <1>2, <3>1, SeqDef
  <2>4. Eval(pg, js) = [pg EXCEPT !.rows = r]
    BY <1>6 DEF Eval, FailMessage
  <2> HIDE DEF r
  <2> QED BY <1>2, <1>4, <1>6, <2>2, <2>3, <2>4
<1>7. CASE js.fn = "seen"
  <2>1. js.id \in M \union {None}
    BY <1>7 DEF Script
  <2>2. Eval(pg, js) = [pg EXCEPT !.marker = IF HasRow(pg.rows, js.id) THEN js.id ELSE None]
    BY <1>7 DEF Eval, SetSeenMarker
  <2>3. Eval(pg, js) \in Page(M) /\ Eval(pg, js).rows = pg.rows
    BY <1>1, <2>1, <2>2 DEF Page
  <2> QED BY <1>7, <2>3
<1>8. js.fn \in {"append", "update", "fail", "seen"}
  BY DEF Script
<1> QED BY <1>3, <1>5, <1>6, <1>7, <1>8

\* So does a flush, and it shows every message a buffered script appends.
LEMMA FlushPage ==
  ASSUME NEW M \in SUBSET Nat, None \notin M, NEW pg \in Page(M), NEW q \in Seq(Script(M))
  PROVE  /\ FoldLeft(Eval, pg, q) \in Page(M)
         /\ \A m \in M : HasRow(pg.rows, m) \/ (\E i \in DOMAIN q : q[i] = Appending(m))
                           => HasRow(FoldLeft(Eval, pg, q).rows, m)
<1>1. Len(q) \in Nat /\ DOMAIN q = 1 .. Len(q) /\ \A i \in 1 .. Len(q) : q[i] \in Script(M)
  BY LenProperties, ElementOfSeq
<1>2. PICK run : /\ run[0] = pg
                 /\ \A i \in 1 .. Len(q) : run[i] = Eval(run[i - 1], q[i])
                 /\ run[Len(q)] = FoldLeft(Eval, pg, q)
  BY Runs, Zenon
<1> DEFINE S == {i \in 0 .. Len(q) :
                   /\ run[i] \in Page(M)
                   /\ \A m \in M : HasRow(pg.rows, m) \/ (\E j \in 1 .. i : q[j] = Appending(m))
                                     => HasRow(run[i].rows, m)}
<1>3. 0 \in S
  <2>1. \A j \in 1 .. 0 : FALSE
    OBVIOUS
  <2>2. 0 \in 0 .. Len(q)
    BY <1>1
  <2> QED BY <1>2, <2>1, <2>2
<1>4. ASSUME NEW i \in 0 .. (Len(q) - 1), i \in S PROVE i + 1 \in S
  <2>1. /\ i + 1 \in 1 .. Len(q) /\ i + 1 \in 0 .. Len(q) /\ (i + 1) - 1 = i
        /\ \A j \in 1 .. (i + 1) : j = i + 1 \/ j \in 1 .. i
    BY <1>1
  <2>2. run[i + 1] = Eval(run[i], q[i + 1]) /\ q[i + 1] \in Script(M)
    BY <1>1, <1>2, <2>1
  <2>3. /\ run[i] \in Page(M)
        /\ \A m \in M : HasRow(pg.rows, m) \/ (\E j \in 1 .. i : q[j] = Appending(m))
                          => HasRow(run[i].rows, m)
    BY <1>4
  <2>4. /\ run[i + 1] \in Page(M)
        /\ \A m \in M : HasRow(run[i].rows, m) => HasRow(run[i + 1].rows, m)
        /\ q[i + 1].fn = "append" => HasRow(run[i + 1].rows, q[i + 1].id)
    <3>1. /\ Eval(run[i], q[i + 1]) \in Page(M)
          /\ \A m \in M : HasRow(run[i].rows, m) => HasRow(Eval(run[i], q[i + 1]).rows, m)
          /\ q[i + 1].fn = "append" => HasRow(Eval(run[i], q[i + 1]).rows, q[i + 1].id)
      BY <2>2, <2>3, EvalPage, Zenon
    <3> QED BY <2>2, <3>1, Zenon
  <2>5. ASSUME NEW m \in M, HasRow(pg.rows, m) \/ (\E j \in 1 .. (i + 1) : q[j] = Appending(m))
        PROVE  HasRow(run[i + 1].rows, m)
    <3>1. CASE q[i + 1] = Appending(m)
      BY <2>4, <3>1 DEF Appending
    <3>2. CASE q[i + 1] # Appending(m)
      BY <2>1, <2>3, <2>4, <2>5, <3>2
    <3> QED BY <3>1, <3>2
  <2> QED BY <2>1, <2>4, <2>5
<1>5. Len(q) \in S
  <2> HIDE DEF S
  <2>1. Len(q) \in 0 .. Len(q)
    BY <1>1
  <2> QED BY <1>1, <1>3, <1>4, <2>1, Induct
<1> QED BY <1>1, <1>2, <1>5

-----------------------------------------------------------------------------
(* The steps, with the sends' common parts named.                          *)

\* The thread before LINE has the message; it may give up.
Prepare(s) ==
  /\ \/ /\ pc[s] = "flow" /\ pc' = [pc EXCEPT ![s] = "load"]
        /\ \E e \in BOOLEAN : sealed' = [sealed EXCEPT ![s] = e]
        /\ UNCHANGED snap
     \/ /\ pc[s] = "load" /\ \E to \in {"upload", "post", "fail"} : pc' = [pc EXCEPT ![s] = to]
        /\ snap' = [snap EXCEPT ![s] = session]
        /\ UNCHANGED sealed
     \/ /\ pc[s] \in {"upload", "post"}
        /\ \E to \in {"post", "fail"} : pc' = [pc EXCEPT ![s] = to]
        /\ \/ UNCHANGED sealed
           \/ \E e \in BOOLEAN : sealed' = [sealed EXCEPT ![s] = e]
        /\ UNCHANGED snap
  /\ UNCHANGED <<content, msgOf, session, matchVars, lineVars, streamVars, dbVars, uiVars,
                 budget>>

\* LINE takes the message.
PostedOp(s, e) == [type |-> "message", from |-> "here", of |-> s, sealed |-> e,
                   req |-> NextReqSeq(snap[s].req), seq |-> snap[s].seq]
Accept(s, e) ==
  /\ pc[s] = "post" /\ pc' = [pc EXCEPT ![s] = "reply"]
  /\ sealed' = [sealed EXCEPT ![s] = e]
  /\ log' = Append(log, PostedOp(s, e))
  /\ msgOf' = [msgOf EXCEPT ![s] = Len(log) + 1]
  /\ UNCHANGED <<content, snap, session, matchVars, seenRpc, streamVars, dbVars, uiVars,
                 budget>>

LEMMA PostCases ==
  ASSUME NEW s \in Sends, NEW e \in BOOLEAN, Post(s, e)
  PROVE  Prepare(s) \/ \E f \in BOOLEAN : Accept(s, f)
<1>1. CASE pc' = [pc EXCEPT ![s] = "fail"] /\ UNCHANGED <<log, msgOf>>
  <2>1. Prepare(s)
    BY <1>1 DEF Post, Prepare, lineVars
  <2> QED BY <2>1
<1>2. CASE log' = Append(log, PostedOp(s, e)) /\ msgOf' = [msgOf EXCEPT ![s] = Len(log) + 1]
           /\ pc' = [pc EXCEPT ![s] = "reply"]
  <2>1. Accept(s, e)
    BY <1>2 DEF Post, Accept
  <2> QED BY <2>1
<1> QED BY <1>1, <1>2 DEF Post, PostedOp

\* Every step is one of these.
LEMMA StepCases ==
  ASSUME Next
  PROVE  \/ \E s \in Sends : \/ \E c \in bound.contents : UserSend(s, c)
                             \/ Prepare(s) \/ \E e \in BOOLEAN : Accept(s, e)
                             \/ SendReply(s) \/ UploadPlain(s) \/ FinishSend(s)
                             \/ ConfirmTempId(s) \/ FailTempId(s)
         \/ \E m \in seenRpc : MarkChatSeen(m)
         \/ \E o \in bound.senders : OtherMessage(o)
         \/ MatchEvent \/ ProcessEvent \/ ConsumeEvent
         \/ RunMain \/ FlushCoalesced \/ Reload
<1>1. ASSUME NEW s \in Sends, UserStep(s)
      PROVE  \E c \in bound.contents : UserSend(s, c)
  BY <1>1 DEF UserStep, SendText, SendInlineSticons, SendSticker, SendImageAtPath, UserSend
<1>2. ASSUME NEW s \in Sends, DetermineFlow(s) PROVE Prepare(s)
  BY <1>2 DEF DetermineFlow, Prepare, streamVars, matchVars, lineVars, dbVars, uiVars
<1>3. ASSUME NEW s \in Sends, NEW to \in {"upload", "post"}, LoadSession(s, to) PROVE Prepare(s)
  BY <1>3 DEF LoadSession, OrFail, Prepare
<1>4. ASSUME NEW s \in Sends, LoadStep(s) PROVE Prepare(s)
  BY <1>3, <1>4 DEF LoadStep, LineSendText, LineSendInlineSticon, LineSendSticker,
                    LineSendImagePlain, LineSendImageE2EE
<1>5. ASSUME NEW s \in Sends, UploadE2EE(s) PROVE Prepare(s)
  BY <1>5 DEF UploadE2EE, OrFail, Prepare
<1>6. ASSUME NEW s \in Sends, PostPlain(s) \/ SendOneToOne(s)
      PROVE  Prepare(s) \/ \E e \in BOOLEAN : Accept(s, e)
  BY <1>6, PostCases DEF PostPlain, SendOneToOne
<1>7. ASSUME NEW s \in Sends, SendGroup(s)
      PROVE  Prepare(s) \/ \E e \in BOOLEAN : Accept(s, e)
  <2>1. PICK key \in BOOLEAN :
          IF key \/ HasText(s) THEN Post(s, key)
          ELSE /\ pc[s] = "post" /\ pc' = [pc EXCEPT ![s] = "fail"]
               /\ UNCHANGED <<content, sealed, snap, msgOf, session, matchVars,
                              lineVars, streamVars, dbVars, uiVars, budget>>
    BY <1>7 DEF SendGroup, GroupKeys
  <2>2. CASE Post(s, key)
    BY <2>2, PostCases
  <2>3. CASE /\ pc[s] = "post" /\ pc' = [pc EXCEPT ![s] = "fail"]
             /\ UNCHANGED <<content, sealed, snap, msgOf, session, matchVars,
                            lineVars, streamVars, dbVars, uiVars, budget>>
    BY <2>3 DEF Prepare
  <2> QED BY <2>1, <2>2, <2>3
<1>8. ASSUME NEW s \in Sends, SendStep(s)
      PROVE  \/ Prepare(s) \/ \E e \in BOOLEAN : Accept(s, e)
             \/ SendReply(s) \/ UploadPlain(s) \/ FinishSend(s)
             \/ ConfirmTempId(s) \/ FailTempId(s)
  BY <1>2, <1>4, <1>5, <1>6, <1>7, <1>8 DEF SendStep
<1> QED BY <1>1, <1>8 DEF Next, StreamStep, MainStep

-----------------------------------------------------------------------------
(* The types.                                                              *)

LEMMA Basics ==
  ASSUME Types
  PROVE  /\ Sends \subseteq Nat /\ None \notin Sends
         /\ Len(log) \in Nat /\ DOMAIN log = 1 .. Len(log)
         /\ \A m \in DOMAIN log : log[m] \in Op
         /\ Messages \subseteq 1 .. Len(log) /\ Messages \in SUBSET Nat /\ None \notin Messages
         /\ bound \in CaseType
<1>1. Sends \subseteq Nat /\ None \notin Sends
  BY DEF Sends, None
<1>2. Len(log) \in Nat /\ DOMAIN log = 1 .. Len(log) /\ \A m \in DOMAIN log : log[m] \in Op
  BY LenProperties, ElementOfSeq DEF Types
<1>3. Messages \subseteq 1 .. Len(log)
  BY <1>2 DEF Messages
<1>4. bound \in CaseType
  BY BoundsAssumption DEF Types, bound
<1>5. Messages \in SUBSET Nat /\ None \notin Messages
  BY <1>2, <1>3 DEF None
<1> QED BY <1>1, <1>2, <1>3, <1>4, <1>5

LEMMA SameLog ==
  ASSUME UNCHANGED log
  PROVE  Messages' = Messages
BY DEF Messages

\* LINE has one operation more.
LEMMA Logs ==
  ASSUME Types, NEW op \in Op, log' = Append(log, op)
  PROVE  /\ log' \in Seq(Op) /\ Len(log)' = Len(log) + 1
         /\ DOMAIN log' = 1 .. (Len(log) + 1)
         /\ \A m \in DOMAIN log : m \in DOMAIN log' /\ log'[m] = log[m]
         /\ log'[Len(log) + 1] = op
         /\ Messages' = IF op.type = "message" THEN Messages \union {Len(log) + 1} ELSE Messages
         /\ Messages \subseteq Messages' /\ Messages' \in SUBSET Nat
<1>1. /\ log' \in Seq(Op) /\ Len(log)' = Len(log) + 1
      /\ \A m \in 1 .. Len(log) : log'[m] = log[m]
      /\ log'[Len(log) + 1] = op
      /\ DOMAIN log' = 1 .. (Len(log) + 1)
  BY AppendProperties, LenProperties DEF Types
<1>2. Len(log) \in Nat /\ DOMAIN log = 1 .. Len(log)
  BY Basics
<1>3. \A m \in DOMAIN log : m \in DOMAIN log' /\ log'[m] = log[m]
  BY <1>1, <1>2
<1>4. \A m \in DOMAIN log' : m \in DOMAIN log \/ m = Len(log) + 1
  BY <1>1, <1>2
<1>5. Len(log) + 1 \in DOMAIN log' /\ Len(log) + 1 \notin DOMAIN log
  BY <1>1, <1>2
<1>6. Messages' = IF op.type = "message" THEN Messages \union {Len(log) + 1} ELSE Messages
  BY <1>1, <1>3, <1>4, <1>5 DEF Messages
<1>7. Messages \subseteq Messages' /\ Messages' \in SUBSET Nat
  BY <1>2, <1>6, Basics
<1> QED BY <1>1, <1>3, <1>6, <1>7

\* What named a message still does when there are more.
LEMMA Monotonic ==
  ASSUME NEW M, NEW N, M \subseteq N
  PROVE  /\ Seq([direct : BOOLEAN, js : Script(M)]) \subseteq Seq([direct : BOOLEAN, js : Script(N)])
         /\ Seq(Script(M)) \subseteq Seq(Script(N))
         /\ Page(M) \subseteq Page(N)
<1>1. Script(M) \subseteq Script(N) /\ Bubble(M) \subseteq Bubble(N)
  BY DEF Script, Bubble
<1>2. [direct : BOOLEAN, js : Script(M)] \subseteq [direct : BOOLEAN, js : Script(N)]
  BY <1>1
<1>3. Seq(Bubble(M)) \subseteq Seq(Bubble(N))
  BY <1>1, SeqMonotonic
<1>4. Seq(Script(M)) \subseteq Seq(Script(N))
  BY <1>1, SeqMonotonic
<1>5. Page(M) \subseteq Page(N)
  BY <1>3 DEF Page
<1> DEFINE A == [direct : BOOLEAN, js : Script(M)]
           B == [direct : BOOLEAN, js : Script(N)]
<1> HIDE DEF A, B
<1>6. Seq(A) \subseteq Seq(B)
  BY <1>2, SeqMonotonic DEF A, B
<1> QED BY <1>4, <1>5, <1>6 DEF A, B

LEMMA RenderedPage ==
  ASSUME Types
  PROVE  /\ Rendered \in Page(Messages)
         /\ \A m \in db : HasRow(Rendered.rows, m)
<1>1. Len(log) \in Nat /\ db \in SUBSET (1 .. Len(log)) /\ db \subseteq Messages
  BY Basics DEF Types
<1>2. /\ Cardinality(db) \in Nat
      /\ \A i \in 1 .. Cardinality(db) : Nth(db, i) \in db
      /\ \A m \in db : \E i \in 1 .. Cardinality(db) : Nth(db, i) = m
  BY <1>1, NthFacts
<1> DEFINE rows == [i \in 1 .. Cardinality(db) |-> Shown(Nth(db, i))]
<1>3. Rendered = [rows |-> rows, marker |-> IF HasRow(rows, seen) THEN seen ELSE None]
  BY DEF Rendered
<1>4. rows \in [1 .. Cardinality(db) -> Bubble(Messages)]
  <2>1. \A i \in 1 .. Cardinality(db) : Shown(Nth(db, i)) \in Bubble(Messages)
    BY <1>1, <1>2 DEF Shown, Bubble
  <2> QED BY <2>1
<1>5. \A m \in db : HasRow(rows, m)
  <2> TAKE m \in db
  <2>1. PICK i \in 1 .. Cardinality(db) : Nth(db, i) = m
    BY <1>2
  <2>2. i \in DOMAIN rows /\ rows[i].id = m
    BY <2>1 DEF Shown
  <2> HIDE DEF rows
  <2> QED BY <2>2 DEF HasRow
<1> HIDE DEF rows
<1>6. rows \in Seq(Bubble(Messages))
  BY <1>2, <1>4, SeqDef
<1>7. seen \in Messages \union {None}
  BY DEF Types
<1>8. Rendered \in Page(Messages) /\ Rendered.rows = rows
  BY <1>3, <1>6, <1>7 DEF Page
<1> QED BY <1>5, <1>8

LEMMA NextReqSeqType ==
  ASSUME NEW r \in 0 .. (ReqSeqs - 1)
  PROVE  NextReqSeq(r) \in 0 .. (ReqSeqs - 1)
BY BoundsAssumption DEF NextReqSeq

LEMMA SpendType ==
  ASSUME Types, NEW b \in {"others", "lost", "retries", "replays", "reloads"}, Spend(b)
  PROVE  /\ budget'.case = budget.case
         /\ budget'.left \in [{"others", "lost", "retries", "replays", "reloads"} -> Nat]
         /\ budget'.left = [budget.left EXCEPT ![b] = @ - 1]
         /\ budget' = [case |-> budget'.case, left |-> budget'.left]
<1> DEFINE left == [budget.left EXCEPT ![b] = @ - 1]
<1>1. budget.left \in [{"others", "lost", "retries", "replays", "reloads"} -> Nat]
      /\ budget = [case |-> budget.case, left |-> budget.left]
  BY DEF Types
<1>2. budget.left[b] > 0 /\ budget' = [budget EXCEPT !.left = left]
  <2>1. budget' = [budget EXCEPT !.left[b] = @ - 1] /\ budget.left[b] > 0
    BY DEF Spend
  <2>2. [budget EXCEPT !.left[b] = @ - 1] = [budget EXCEPT !.left = left]
    OBVIOUS
  <2> QED BY <2>1, <2>2
<1>3. left \in [{"others", "lost", "retries", "replays", "reloads"} -> Nat]
  BY <1>1, <1>2
<1> HIDE DEF left
<1>4. budget' = [case |-> budget.case, left |-> left]
  BY <1>1, <1>2
<1>5. budget'.case = budget.case /\ budget'.left = left
  BY <1>4
<1> QED BY <1>3, <1>4, <1>5 DEF left

LEMMA QueueFacts ==
  ASSUME Types, QueueInv, NEW e
  PROVE  /\ RemovePendingTemp(order, e) \in Seq(Sends)
         /\ Increasing(RemovePendingTemp(order, e))
         /\ \A i \in DOMAIN RemovePendingTemp(order, e) :
              /\ RemovePendingTemp(order, e)[i] # e
              /\ \E j \in DOMAIN order : RemovePendingTemp(order, e)[i] = order[j]
         /\ \A j \in DOMAIN order : order[j] # e =>
              \E i \in DOMAIN RemovePendingTemp(order, e) :
                RemovePendingTemp(order, e)[i] = order[j]
<1>1. Sends \in SUBSET Int /\ order \in Seq(Sends) /\ Increasing(order)
  BY DEF Sends, Types, QueueInv
<1> DEFINE r == RemovePendingTemp(order, e)
<1>2. /\ r \in Seq(Sends)
      /\ \A i \in DOMAIN r : r[i] # e /\ \E j \in DOMAIN order : r[i] = order[j]
      /\ \A j \in DOMAIN order : order[j] # e => \E i \in DOMAIN r : r[i] = order[j]
      /\ Increasing(r)
  BY <1>1, RemoveFacts
<1> QED BY <1>2

\* The temporary id of a message is one of a send.
LEMMA TempType ==
  ASSUME Types, LogInv, NEW m
  PROVE  PendingTempId(m) \in Sends \union {None}
<1>1. \A x \in DOMAIN pending : pending[x] \in Sends
  BY DEF LogInv
<1>2. order # <<>> => Head(order) \in Sends
  BY HeadTailProperties DEF Types
<1> QED BY <1>1, <1>2 DEF PendingTempId, FirstPendingTempForChat

LEMMA UpdatesType ==
  ASSUME Types, next \in DOMAIN log, NEW temp \in Sends \union {None},
         log[next].type # "seen" => next \in Messages
  PROVE  [i \in DOMAIN MessageUpdates(next, temp) |-> Coalesced(MessageUpdates(next, temp)[i])]
           \in Seq([direct : BOOLEAN, js : Script(Messages)])
<1> DEFINE E == [direct : BOOLEAN, js : Script(Messages)]
           u == MessageUpdates(next, temp)
<1>1. seen \in Messages \union {None}
  BY DEF Types
<1>2. JS("seen", None, seen) \in Script(Messages)
  BY <1>1 DEF JS, Script
<1>3. ASSUME log[next].type # "seen"
      PROVE  /\ temp # None => JS("update", temp, next) \in Script(Messages)
             /\ JS("append", None, next) \in Script(Messages)
  BY <1>3 DEF JS, Script
<1>4. u \in Seq(Script(Messages))
  <2>1. \A S : \A x, y \in S : <<x>> \in Seq(S) /\ <<x, y>> \in Seq(S)
    OBVIOUS
  <2>2. CASE log[next].type = "seen"
    <3>1. u = <<JS("seen", None, seen)>>
      BY <2>2 DEF MessageUpdates
    <3> QED BY <1>2, <2>1, <3>1, Zenon
  <2>3. CASE log[next].type # "seen" /\ temp # None
    <3>1. u = <<JS("update", temp, next)>>
      BY <2>3 DEF MessageUpdates
    <3> QED BY <1>3, <2>1, <2>3, <3>1, Zenon
  <2>4. CASE log[next].type # "seen" /\ temp = None
    <3>1. \/ u = <<JS("append", None, next), JS("seen", None, seen)>>
          \/ u = <<JS("append", None, next)>>
      BY <2>4 DEF MessageUpdates
    <3> QED BY <1>2, <1>3, <2>1, <2>4, <3>1, Zenon
  <2> QED BY <2>2, <2>3, <2>4
<1> HIDE DEF u
<1>5. Len(u) \in Nat /\ DOMAIN u = 1 .. Len(u) /\ \A i \in 1 .. Len(u) : u[i] \in Script(Messages)
  BY <1>4, LenProperties, ElementOfSeq
<1>6. \A i \in 1 .. Len(u) : Coalesced(u[i]) \in E
  BY <1>5 DEF Coalesced
<1> HIDE DEF E
<1>7. [i \in 1 .. Len(u) |-> Coalesced(u[i])] \in Seq(E)
  <2>1. [i \in 1 .. Len(u) |-> Coalesced(u[i])] \in [1 .. Len(u) -> E]
    BY <1>6
  <2> QED BY <1>5, <2>1, SeqDef
<1> QED BY <1>5, <1>7 DEF u, E

\* A step that leaves the log alone.
LEMMA TypesQuiet ==
  ASSUME Types, UNCHANGED log,
         pc' \in [Sends -> Stages],
         content' \in [Sends -> {"text", "sticon", "sticker", "image"}],
         sealed' \in [Sends -> BOOLEAN], snap' \in [Sends -> Numbers], session' \in Numbers,
         UNCHANGED msgOf, order' \in Seq(Sends), seenRpc' \subseteq Messages,
         next' \in 1 .. (Len(log) + 1),
         cb' \in [pc : {"idle", "process", "consume"}, temp : Sends \union {None}],
         db' \subseteq Messages, seen' \in Messages \union {None},
         mainq' \in Seq([direct : BOOLEAN, js : Script(Messages)]),
         buf' \in Seq(Script(Messages)), page' \in Page(Messages),
         budget'.case = budget.case,
         budget'.left \in [{"others", "lost", "retries", "replays", "reloads"} -> Nat],
         budget' = [case |-> budget'.case, left |-> budget'.left]
  PROVE  Types'
<1>1. Messages' = Messages
  BY SameLog
<1> QED BY <1>1 DEF Types

\* One operation more, and what the thread that causes it changes.
LEMMA TypesLogs ==
  ASSUME Types, NEW op \in Op, log' = Append(log, op),
         pc' \in [Sends -> Stages], sealed' \in [Sends -> BOOLEAN],
         msgOf' \in [Sends -> 0 .. (Len(log) + 1)], seenRpc' \subseteq Messages,
         UNCHANGED <<content, snap, session, order, streamVars, dbVars, uiVars>>,
         budget'.case = budget.case,
         budget'.left \in [{"others", "lost", "retries", "replays", "reloads"} -> Nat],
         budget' = [case |-> budget'.case, left |-> budget'.left]
  PROVE  Types'
<1>1. log' \in Seq(Op) /\ Len(log)' = Len(log) + 1 /\ Messages \subseteq Messages'
  BY Logs
<1>2. /\ mainq' \in Seq([direct : BOOLEAN, js : Script(Messages')])
      /\ buf' \in Seq(Script(Messages')) /\ page' \in Page(Messages')
  BY <1>1, Monotonic DEF Types, uiVars
<1>3. next' \in 1 .. (Len(log)' + 1)
  BY SMTT(30), <1>1, Basics DEF Types, streamVars
<1> QED BY <1>1, <1>2, <1>3 DEF Types, streamVars, dbVars

LEMMA TypesStep ==
  ASSUME Types, LogInv, QueueInv, StreamInv, [Next]_vars
  PROVE  Types'
<1>b. /\ Sends \subseteq Nat /\ None \notin Sends
      /\ Len(log) \in Nat /\ DOMAIN log = 1 .. Len(log)
      /\ \A m \in DOMAIN log : log[m] \in Op
      /\ Messages \in SUBSET Nat /\ None \notin Messages
      /\ bound \in CaseType
  BY Basics
<1> USE <1>b
<1>0. ASSUME NEW s \in Sends, NEW x \in Stages PROVE [pc EXCEPT ![s] = x] \in [Sends -> Stages]
  BY DEF Types
<1>1. ASSUME NEW s \in Sends, NEW c \in bound.contents, UserSend(s, c) PROVE Types'
  <2>1. pc' \in [Sends -> Stages]
    BY <1>0, <1>1 DEF UserSend, Stages
  <2>2. content' \in [Sends -> {"text", "sticon", "sticker", "image"}]
    <3>1. c \in {"text", "sticon", "sticker", "image"}
      BY DEF CaseType
    <3> QED BY <1>1, <3>1 DEF UserSend, Types
  <2>3. order' \in Seq(Sends)
    BY <1>1, AppendProperties DEF UserSend, QueuePendingTemp, Types
  <2>4. page' \in Page(Messages)
    <3>1. Temp(s) \in Bubble(Messages)
      BY DEF Temp, Bubble
    <3>2. Append(page.rows, Temp(s)) \in Seq(Bubble(Messages))
      BY <3>1, AppendProperties DEF Types, Page
    <3> QED BY <1>1, <3>2 DEF UserSend, Types, Page
  <2> QED BY <1>1, <2>1, <2>2, <2>3, <2>4, TypesQuiet
       DEF UserSend, lineVars, streamVars, dbVars, Types
<1>2. ASSUME NEW s \in Sends, Prepare(s) PROVE Types'
  <2>1. pc' \in [Sends -> Stages]
    BY <1>0, <1>2 DEF Prepare, Stages
  <2>2. sealed' \in [Sends -> BOOLEAN] /\ snap' \in [Sends -> Numbers]
    <3>1. \A e \in BOOLEAN : [sealed EXCEPT ![s] = e] \in [Sends -> BOOLEAN]
      BY DEF Types
    <3>2. [snap EXCEPT ![s] = session] \in [Sends -> Numbers]
      BY DEF Types
    <3>3. sealed' = sealed \/ \E e \in BOOLEAN : sealed' = [sealed EXCEPT ![s] = e]
      BY <1>2 DEF Prepare
    <3>4. snap' = snap \/ snap' = [snap EXCEPT ![s] = session]
      BY <1>2 DEF Prepare
    <3> QED BY <3>1, <3>2, <3>3, <3>4 DEF Types
  <2> QED BY <1>2, <2>1, <2>2, TypesQuiet
       DEF Prepare, matchVars, lineVars, streamVars, dbVars, uiVars, Types
<1>3. ASSUME NEW s \in Sends, NEW e \in BOOLEAN, Accept(s, e) PROVE Types'
  <2>1. PostedOp(s, e) \in Op
    <3>1. snap[s].req \in 0 .. (ReqSeqs - 1) /\ snap[s].seq \in Nat
      BY DEF Types, Numbers
    <3>2. NextReqSeq(snap[s].req) \in Nat
      BY <3>1, NextReqSeqType
    <3> QED BY <3>1, <3>2 DEF PostedOp, Op
  <2>2. pc' \in [Sends -> Stages] /\ sealed' \in [Sends -> BOOLEAN]
    BY <1>0, <1>3 DEF Accept, Stages, Types
  <2>3. msgOf' \in [Sends -> 0 .. (Len(log) + 1)]
    BY SMTT(30), <1>3 DEF Accept, Types
  <2> QED BY <1>3, <2>1, <2>2, <2>3, TypesLogs DEF Accept, matchVars, Types
<1>4. ASSUME NEW s \in Sends, SendReply(s) PROVE Types'
  <2>1. pc' \in [Sends -> Stages]
    BY <1>0, <1>4 DEF SendReply, Stages
  <2>2. session' \in Numbers
    <3>1. snap[s] \in Numbers /\ session \in Numbers
      BY DEF Types
    <3>2. NextReqSeq(snap[s].req) \in 0 .. (ReqSeqs - 1)
      BY <3>1, NextReqSeqType DEF Numbers
    <3>3. UpdateSendState(s) \in Numbers
      BY <3>1, <3>2 DEF UpdateSendState, Numbers
    <3> QED BY <1>4, <3>1, <3>3 DEF SendReply
  <2>3. /\ budget'.case = budget.case
        /\ budget'.left \in [{"others", "lost", "retries", "replays", "reloads"} -> Nat]
        /\ budget' = [case |-> budget'.case, left |-> budget'.left]
    BY <1>4, SpendType DEF SendReply, Types
  <2> QED BY <1>4, <2>1, <2>2, <2>3, TypesQuiet
       DEF SendReply, matchVars, lineVars, streamVars, dbVars, uiVars, Types
<1>5. ASSUME NEW s \in Sends, UploadPlain(s) PROVE Types'
  <2>1. pc' \in [Sends -> Stages]
    BY <1>0, <1>5 DEF UploadPlain, Stages
  <2> QED BY <1>5, <2>1, TypesQuiet
       DEF UploadPlain, matchVars, lineVars, streamVars, dbVars, uiVars, Types
<1>6. ASSUME NEW s \in Sends, FinishSend(s) PROVE Types'
  <2>1. pc' \in [Sends -> Stages]
    BY <1>0, <1>6 DEF FinishSend, Stages
  <2>2. db' \subseteq Messages
    BY <1>6 DEF FinishSend, Types, LogInv, Posted
  <2>3. /\ budget'.case = budget.case
        /\ budget'.left \in [{"others", "lost", "retries", "replays", "reloads"} -> Nat]
        /\ budget' = [case |-> budget'.case, left |-> budget'.left]
    BY <1>6, SpendType DEF FinishSend, Types
  <2> QED BY <1>6, <2>1, <2>2, <2>3, TypesQuiet
       DEF FinishSend, matchVars, lineVars, streamVars, uiVars, Types
<1>7. ASSUME NEW s \in Sends, ConfirmTempId(s) PROVE Types'
  <2>1. pc' \in [Sends -> Stages]
    BY <1>0, <1>7 DEF ConfirmTempId, Stages
  <2>2. msgOf[s] \in Messages
    BY <1>7 DEF ConfirmTempId, LogInv, Posted
  <2>3. Direct(JS("seen", None, msgOf[s])) \in [direct : BOOLEAN, js : Script(Messages)]
    BY <2>2 DEF Direct, JS, Script
  <2>4. mainq' \in Seq([direct : BOOLEAN, js : Script(Messages)])
    BY <1>7, <2>3, AppendProperties DEF ConfirmTempId, Types
  <2>5. seenRpc' \subseteq Messages
    BY <1>7, <2>2 DEF ConfirmTempId, Types
  <2> QED BY <1>7, <2>1, <2>4, <2>5, TypesQuiet DEF ConfirmTempId, streamVars, dbVars, Types
<1>8. ASSUME NEW s \in Sends, FailTempId(s) PROVE Types'
  <2>1. pc' \in [Sends -> Stages]
    BY <1>0, <1>8 DEF FailTempId, Stages
  <2>2. order' \in Seq(Sends)
    BY <1>8, QueueFacts DEF FailTempId
  <2>3. Direct(JS("fail", s, None)) \in [direct : BOOLEAN, js : Script(Messages)]
    BY DEF Direct, JS, Script
  <2>4. mainq' \in Seq([direct : BOOLEAN, js : Script(Messages)])
    BY <1>8, <2>3, AppendProperties DEF FailTempId, Types
  <2> QED BY <1>8, <2>1, <2>2, <2>4, TypesQuiet
       DEF FailTempId, lineVars, streamVars, dbVars, Types
<1>9. ASSUME NEW m \in seenRpc, MarkChatSeen(m) PROVE Types'
  <2>1. CASE log' = Append(log, [type |-> "seen", of |-> m])
    <3>1. [type |-> "seen", of |-> m] \in Op
      BY DEF Op, Types
    <3>2. msgOf' \in [Sends -> 0 .. (Len(log) + 1)]
      BY <1>9 DEF MarkChatSeen, sendVars, Types
    <3> QED BY <1>9, <2>1, <3>1, <3>2, TypesLogs DEF MarkChatSeen, sendVars, matchVars, Types
  <2>2. CASE UNCHANGED log
    BY <1>9, <2>2, TypesQuiet
       DEF MarkChatSeen, sendVars, matchVars, streamVars, dbVars, uiVars, Types
  <2> QED BY <1>9, <2>1, <2>2 DEF MarkChatSeen
<1>10. ASSUME NEW o \in bound.senders, OtherMessage(o) PROVE Types'
  <2> DEFINE op == [type |-> "message", from |-> o, of |-> None, sealed |-> TRUE,
                    req |-> None, seq |-> None]
  <2>1. op \in Op /\ log' = Append(log, op)
    BY <1>10 DEF Op, CaseType, None, OtherMessage
  <2>2. msgOf' \in [Sends -> 0 .. (Len(log) + 1)]
    BY <1>10 DEF OtherMessage, sendVars, Types
  <2>3. /\ budget'.case = budget.case
        /\ budget'.left \in [{"others", "lost", "retries", "replays", "reloads"} -> Nat]
        /\ budget' = [case |-> budget'.case, left |-> budget'.left]
    BY <1>10, SpendType DEF OtherMessage
  <2> HIDE DEF op
  <2> QED BY <1>10, <2>1, <2>2, <2>3, TypesLogs DEF OtherMessage, sendVars, matchVars, Types
<1>11. ASSUME MatchEvent PROVE Types'
  <2>1. cb' \in [pc : {"idle", "process", "consume"}, temp : Sends \union {None}]
    BY <1>11, TempType DEF MatchEvent
  <2> QED BY <1>11, <2>1, TypesQuiet
       DEF MatchEvent, sendVars, matchVars, lineVars, dbVars, uiVars, Types
<1>12. ASSUME ProcessEvent PROVE Types'
  <2>1. next \in DOMAIN log
    BY <1>12 DEF ProcessEvent, StreamInv, Types
  <2>2. db' \subseteq Messages /\ seen' \in Messages \union {None}
    <3>1. CASE log[next].type = "message"
      <4>1. next \in Messages
        BY <2>1, <3>1 DEF Messages
      <4> QED BY <1>12, <3>1, <4>1 DEF ProcessEvent, Types, dbVars
    <3>2. CASE log[next].type # "message"
      <4>1. log[next].of \in Messages
        BY <2>1, <3>2 DEF LogInv, Op
      <4> QED BY <1>12, <3>2, <4>1 DEF ProcessEvent, Types, dbVars
    <3> QED BY <3>1, <3>2
  <2>3. cb' \in [pc : {"idle", "process", "consume"}, temp : Sends \union {None}]
    <3>1. cb' = [cb EXCEPT !.pc = "consume"] \/ cb' = IdleCb
      BY <1>12 DEF ProcessEvent
    <3>2. cb \in [pc : {"idle", "process", "consume"}, temp : Sends \union {None}]
      BY DEF Types
    <3> QED BY <3>1, <3>2 DEF IdleCb
  <2>4. /\ budget'.case = budget.case
        /\ budget'.left \in [{"others", "lost", "retries", "replays", "reloads"} -> Nat]
        /\ budget' = [case |-> budget'.case, left |-> budget'.left]
    BY <1>12, SpendType DEF ProcessEvent, Types
  <2> QED BY <1>12, <2>2, <2>3, <2>4, TypesQuiet
       DEF ProcessEvent, sendVars, matchVars, lineVars, uiVars, Types
<1>13. ASSUME ConsumeEvent PROVE Types'
  <2>1. next \in DOMAIN log /\ cb.temp \in Sends \union {None}
    BY <1>13 DEF ConsumeEvent, StreamInv, Types
  <2>2. log[next].type # "seen" => next \in Messages
    BY <2>1 DEF Messages, Op
  <2>3. mainq' \in Seq([direct : BOOLEAN, js : Script(Messages)])
    <3> DEFINE E == [direct : BOOLEAN, js : Script(Messages)]
               u == [i \in DOMAIN MessageUpdates(next, cb.temp) |->
                       Coalesced(MessageUpdates(next, cb.temp)[i])]
    <3>1. u \in Seq(E)
      BY <2>1, <2>2, UpdatesType
    <3>2. mainq' = mainq \o u /\ mainq \in Seq(E)
      BY <1>13 DEF ConsumeEvent, Types
    <3> HIDE DEF E, u
    <3>3. mainq' \in Seq(E)
      BY <3>1, <3>2, ConcatProperties
    <3> QED BY <3>3 DEF E
  <2>4. order' \in Seq(Sends)
    BY <1>13, QueueFacts DEF ConsumeEvent, Types
  <2>5. cb' \in [pc : {"idle", "process", "consume"}, temp : Sends \union {None}]
        /\ next' \in 1 .. (Len(log) + 1)
    BY <1>13, <2>1 DEF ConsumeEvent, IdleCb, Types
  <2>6. /\ budget'.case = budget.case
        /\ budget'.left \in [{"others", "lost", "retries", "replays", "reloads"} -> Nat]
        /\ budget' = [case |-> budget'.case, left |-> budget'.left]
    BY <1>13, SpendType DEF ConsumeEvent, Types
  <2> QED BY <1>13, <2>3, <2>4, <2>5, <2>6, TypesQuiet
       DEF ConsumeEvent, sendVars, lineVars, dbVars, Types
<1>14. ASSUME RunMain PROVE Types'
  <2>1. /\ Head(mainq) \in [direct : BOOLEAN, js : Script(Messages)]
        /\ mainq' \in Seq([direct : BOOLEAN, js : Script(Messages)])
    BY <1>14, HeadTailProperties DEF RunMain, Types
  <2> DEFINE js == Head(mainq).js
  <2>a. js \in Script(Messages) /\ page \in Page(Messages) /\ buf \in Seq(Script(Messages))
    BY <2>1 DEF Types
  <2>b. page' \in {page, Eval(page, js)} /\ buf' \in {buf, Append(buf, js)}
    BY <1>14 DEF RunMain
  <2> HIDE DEF js
  <2>2. page' \in Page(Messages)
    <3>1. Eval(page, js) \in Page(Messages)
      BY <2>a, EvalPage
    <3> QED BY <2>a, <2>b, <3>1
  <2>3. buf' \in Seq(Script(Messages))
    <3>1. Append(buf, js) \in Seq(Script(Messages))
      BY <2>a, AppendProperties
    <3> QED BY <2>a, <2>b, <3>1
  <2> QED BY <1>14, <2>1, <2>2, <2>3, TypesQuiet
       DEF RunMain, sendVars, matchVars, lineVars, streamVars, dbVars, Types
<1>15. ASSUME FlushCoalesced PROVE Types'
  <2>1. page' \in Page(Messages)
    <3>1. page \in Page(Messages) /\ buf \in Seq(Script(Messages))
      BY DEF Types
    <3>2. FoldLeft(Eval, page, buf) \in Page(Messages)
      BY <3>1, FlushPage, Zenon
    <3>3. page' = FoldLeft(Eval, page, buf)
      BY <1>15, Zenon DEF FlushCoalesced
    <3> QED BY <3>2, <3>3
  <2>2. buf' \in Seq(Script(Messages))
    <3>1. \A S : <<>> \in Seq(S)
      OBVIOUS
    <3>2. buf' = <<>>
      BY <1>15, Zenon DEF FlushCoalesced
    <3> QED BY <3>1, <3>2, Zenon
  <2>3. UNCHANGED <<sendVars, matchVars, lineVars, streamVars, dbVars, mainq, budget>>
    BY <1>15, Zenon DEF FlushCoalesced
  <2> QED BY <2>1, <2>2, <2>3, TypesQuiet
       DEF sendVars, matchVars, lineVars, streamVars, dbVars, Types
<1>16. ASSUME Reload PROVE Types'
  <2>1. page' \in Page(Messages)
    BY <1>16, RenderedPage DEF Reload
  <2>2. /\ budget'.case = budget.case
        /\ budget'.left \in [{"others", "lost", "retries", "replays", "reloads"} -> Nat]
        /\ budget' = [case |-> budget'.case, left |-> budget'.left]
    BY <1>16, SpendType DEF Reload
  <2> QED BY <1>16, <2>1, <2>2, TypesQuiet
       DEF Reload, sendVars, matchVars, lineVars, streamVars, dbVars, Types
<1>17. ASSUME UNCHANGED vars PROVE Types'
  BY <1>17, TypesQuiet
     DEF vars, sendVars, matchVars, lineVars, streamVars, dbVars, uiVars, Types
<1> QED BY <1>1, <1>2, <1>3, <1>4, <1>5, <1>6, <1>7, <1>8, <1>9, <1>10, <1>11, <1>12, <1>13,
           <1>14, <1>15, <1>16, <1>17, StepCases

-----------------------------------------------------------------------------
(* The log.                                                                *)

\* A thread moves on, on one side of LINE's answer.
LEMMA LogMoves ==
  ASSUME Types, LogInv, NEW s \in Sends, NEW x \in Stages, pc' = [pc EXCEPT ![s] = x],
         x \in Posted => pc[s] \in Posted, x \in Unposted => pc[s] \in Unposted,
         UNCHANGED <<log, msgOf, pending>>
  PROVE  LogInv'
<1>1. Messages' = Messages
  BY SameLog
<1>2. \A t \in Sends : pc'[t] = IF t = s THEN x ELSE pc[t]
  BY DEF Types
<1> QED BY <1>1, <1>2 DEF LogInv

\* An operation that is not a message of this device.
LEMMA LogGrows ==
  ASSUME Types, LogInv, NEW op \in Op, log' = Append(log, op),
         op.type = "message" => op.from # "here" /\ op.of = None,
         op.type = "seen" => op.of \in Messages,
         UNCHANGED <<pc, msgOf, pending>>
  PROVE  LogInv'
<1>1. /\ DOMAIN log = 1 .. Len(log) /\ Len(log) \in Nat /\ DOMAIN log' = 1 .. (Len(log) + 1)
      /\ \A m \in DOMAIN log : log'[m] = log[m]
      /\ log'[Len(log) + 1] = op
      /\ Messages' = IF op.type = "message" THEN Messages \union {Len(log) + 1} ELSE Messages
      /\ Messages \subseteq Messages' /\ Messages \subseteq DOMAIN log
  BY Basics, Logs
<1>2. \A m \in Messages' : IF log'[m].from = "here"
                           THEN log'[m].of \in Sends /\ msgOf'[log'[m].of] = m
                           ELSE log'[m].of = None
  <2> TAKE m \in Messages'
  <2>1. CASE m \in Messages
    BY <1>1, <2>1 DEF LogInv
  <2>2. CASE m = Len(log) + 1 /\ op.type = "message"
    BY <1>1, <2>2
  <2> QED BY <1>1, <2>1, <2>2
<1>3. \A m \in DOMAIN log' : log'[m].type = "seen" => log'[m].of \in Messages'
  <2> TAKE m \in DOMAIN log'
  <2>1. CASE m \in DOMAIN log
    BY <1>1, <2>1 DEF LogInv
  <2>2. CASE m = Len(log) + 1
    BY <1>1, <2>2
  <2> QED BY <1>1, <2>1, <2>2
<1>4. \A s \in Sends : msgOf[s] # None => log'[msgOf[s]] = log[msgOf[s]]
  BY <1>1 DEF LogInv
<1> QED BY <1>1, <1>2, <1>3, <1>4 DEF LogInv

LEMMA LogStep ==
  ASSUME Types, Types', LogInv, [Next]_vars
  PROVE  LogInv'
<1>a. \A s \in Sends : pc[s] \in Stages
  BY DEF Types
<1>1. ASSUME NEW s \in Sends, NEW c \in bound.contents, UserSend(s, c) PROVE LogInv'
  <2>1. pc' = [pc EXCEPT ![s] = "flow"] \/ pc' = [pc EXCEPT ![s] = "load"]
    BY <1>1 DEF UserSend
  <2>2. pc[s] = "idle" /\ UNCHANGED <<log, msgOf, pending>>
    BY <1>1 DEF UserSend, lineVars
  <2> QED BY <2>1, <2>2, LogMoves DEF Posted, Unposted, Stages
<1>2. ASSUME NEW s \in Sends, Prepare(s) PROVE LogInv'
  <2>1. PICK x \in {"load", "upload", "post", "fail"} : pc' = [pc EXCEPT ![s] = x]
    BY <1>2 DEF Prepare
  <2>2. pc[s] \in Unposted /\ UNCHANGED <<log, msgOf, pending>>
    BY <1>2 DEF Prepare, Unposted, lineVars, matchVars
  <2> QED BY <2>1, <2>2, LogMoves DEF Posted, Unposted, Stages
<1>3. ASSUME NEW s \in Sends, NEW e \in BOOLEAN, Accept(s, e) PROVE LogInv'
  <2> DEFINE n == Len(log) + 1
             op == PostedOp(s, e)
  <2>1. /\ op.type = "message" /\ op.from = "here" /\ op.of = s
        /\ log' = Append(log, op) /\ op \in Op
    <3>1. log' \in Seq(Op) /\ log' = Append(log, op) /\ Len(log) \in Nat
      BY <1>3, Basics DEF Types, Accept
    <3>2. Append(log, op)[n] = op /\ Len(Append(log, op)) = n
      BY AppendProperties DEF Types
    <3>3. op \in Op
      BY <3>1, <3>2, ElementOfSeq
    <3> QED BY <3>1, <3>3 DEF PostedOp
  <2> HIDE DEF op
  <2>2. /\ DOMAIN log = 1 .. Len(log) /\ Len(log) \in Nat /\ DOMAIN log' = 1 .. n
        /\ \A m \in DOMAIN log : log'[m] = log[m]
        /\ log'[n] = op
        /\ Messages' = Messages \union {n}
        /\ Messages \subseteq DOMAIN log /\ n \notin DOMAIN log /\ n # None
    BY <2>1, Basics, Logs DEF None
  <2>3. /\ \A t \in Sends : pc'[t] = IF t = s THEN "reply" ELSE pc[t]
        /\ \A t \in Sends : msgOf'[t] = IF t = s THEN n ELSE msgOf[t]
        /\ pc[s] = "post" /\ msgOf[s] = None
        /\ UNCHANGED pending
    BY <1>3 DEF Accept, Types, LogInv, Unposted, matchVars
  <2>4. \A m \in Messages' : IF log'[m].from = "here"
                             THEN log'[m].of \in Sends /\ msgOf'[log'[m].of] = m
                             ELSE log'[m].of = None
    <3> TAKE m \in Messages'
    <3>1. CASE m = n
      BY <2>1, <2>2, <2>3, <3>1
    <3>2. CASE m \in Messages
      <4>1. log'[m] = log[m] /\ m # None
        BY <2>2, <3>2, Basics
      <4>2. log[m].from = "here" => log[m].of # s
        BY <2>3, <3>2, <4>1 DEF LogInv
      <4> QED BY <2>3, <3>2, <4>1, <4>2 DEF LogInv
    <3> QED BY <2>2, <3>1, <3>2
  <2>5. \A m \in DOMAIN log' : log'[m].type = "seen" => log'[m].of \in Messages'
    <3> TAKE m \in DOMAIN log'
    <3>1. CASE m = n
      BY <2>1, <2>2, <3>1
    <3>2. CASE m \in DOMAIN log
      BY <2>2, <3>2 DEF LogInv
    <3> QED BY <2>2, <3>1, <3>2
  <2>6. \A t \in Sends :
          /\ msgOf'[t] # None => msgOf'[t] \in Messages' /\ log'[msgOf'[t]].from = "here"
                                 /\ log'[msgOf'[t]].of = t
          /\ pc'[t] \in Posted => msgOf'[t] # None
          /\ pc'[t] \in Unposted => msgOf'[t] = None
    <3> TAKE t \in Sends
    <3>1. CASE t = s
      BY <2>1, <2>2, <2>3, <3>1 DEF Posted, Unposted
    <3>2. CASE t # s
      BY <2>2, <2>3, <3>2 DEF LogInv
    <3> QED BY <3>1, <3>2
  <2>7. /\ DOMAIN pending' \subseteq Messages'
        /\ \A m \in DOMAIN pending' : pending'[m] \in Sends /\ msgOf'[pending'[m]] = m
    <3>1. \A m \in DOMAIN pending : pending[m] # s
      BY <2>2, <2>3, Basics DEF LogInv
    <3> QED BY <2>2, <2>3, <3>1 DEF LogInv
  <2> HIDE DEF n
  <2> QED BY <2>4, <2>5, <2>6, <2>7 DEF LogInv
<1>4. ASSUME NEW s \in Sends, SendReply(s) \/ UploadPlain(s) \/ FinishSend(s) PROVE LogInv'
  <2>1. PICK x \in {"media", "store", "confirm", "fail"} : pc' = [pc EXCEPT ![s] = x]
    BY <1>4 DEF SendReply, UploadPlain, FinishSend
  <2>2. pc[s] \in Posted /\ UNCHANGED <<log, msgOf, pending>>
    BY <1>4 DEF SendReply, UploadPlain, FinishSend, Posted, lineVars, matchVars
  <2> QED BY <2>1, <2>2, LogMoves DEF Posted, Unposted, Stages
<1>5. ASSUME NEW s \in Sends, FailTempId(s) PROVE LogInv'
  <2>1. pc[s] = "fail" /\ pc' = [pc EXCEPT ![s] = "failed"] /\ UNCHANGED <<log, msgOf, pending>>
    BY <1>5 DEF FailTempId, lineVars
  <2> QED BY <2>1, LogMoves DEF Posted, Unposted, Stages
<1>6. ASSUME NEW s \in Sends, ConfirmTempId(s) PROVE LogInv'
  <2>1. Messages' = Messages /\ UNCHANGED <<log, msgOf>>
    BY <1>6, SameLog DEF ConfirmTempId
  <2>2. pc[s] = "confirm" /\ \A t \in Sends : pc'[t] = IF t = s THEN "done" ELSE pc[t]
    BY <1>6 DEF ConfirmTempId, Types
  <2>3. msgOf[s] \in Messages
    BY <2>2 DEF LogInv, Posted
  <2>4. /\ DOMAIN pending' = DOMAIN pending \union {msgOf[s]}
        /\ \A m \in DOMAIN pending' : pending'[m] = IF m = msgOf[s] THEN s ELSE pending[m]
    BY <1>6 DEF ConfirmTempId
  <2> QED BY <2>1, <2>2, <2>3, <2>4 DEF LogInv, Posted, Unposted
<1>7. ASSUME NEW m \in seenRpc, MarkChatSeen(m) PROVE LogInv'
  <2>1. CASE log' = Append(log, [type |-> "seen", of |-> m])
    <3>1. [type |-> "seen", of |-> m] \in Op /\ m \in Messages
      BY Basics DEF Op, Types
    <3> QED BY <1>7, <2>1, <3>1, LogGrows DEF MarkChatSeen, sendVars, matchVars
  <2>2. CASE UNCHANGED log
    <3>1. Messages' = Messages
      BY <2>2, SameLog
    <3> QED BY <1>7, <2>2, <3>1 DEF MarkChatSeen, sendVars, matchVars, LogInv
  <2> QED BY <1>7, <2>1, <2>2 DEF MarkChatSeen
<1>8. ASSUME NEW o \in bound.senders, OtherMessage(o) PROVE LogInv'
  <2> DEFINE op == [type |-> "message", from |-> o, of |-> None, sealed |-> TRUE,
                    req |-> None, seq |-> None]
  <2>1. o \in {"phone", "peer"}
    BY Basics DEF CaseType
  <2>2. op \in Op /\ log' = Append(log, op) /\ op.type = "message" /\ op.from # "here" /\ op.of = None
    BY <1>8, <2>1 DEF Op, None, OtherMessage
  <2> HIDE DEF op
  <2> QED BY <1>8, <2>2, LogGrows DEF OtherMessage, sendVars, matchVars
<1>9. ASSUME ConsumeEvent PROVE LogInv'
  <2>1. Messages' = Messages /\ UNCHANGED <<log, msgOf, pc>>
    BY <1>9, SameLog DEF ConsumeEvent, lineVars, sendVars
  <2>2. /\ DOMAIN pending' \subseteq DOMAIN pending
        /\ \A m \in DOMAIN pending' : pending'[m] = pending[m]
    BY <1>9 DEF ConsumeEvent
  <2> QED BY <2>1, <2>2 DEF LogInv
<1>10. ASSUME UNCHANGED <<sendVars, matchVars, lineVars>> PROVE LogInv'
  <2>1. Messages' = Messages
    BY <1>10, SameLog DEF lineVars
  <2> QED BY <1>10, <2>1 DEF sendVars, matchVars, lineVars, LogInv
<1>11. ASSUME \/ MatchEvent \/ ProcessEvent \/ RunMain \/ FlushCoalesced \/ Reload
              \/ UNCHANGED vars
       PROVE  UNCHANGED <<sendVars, matchVars, lineVars>>
  BY <1>11 DEF MatchEvent, ProcessEvent, RunMain, FlushCoalesced, Reload, vars
<1> QED BY <1>1, <1>2, <1>3, <1>4, <1>5, <1>6, <1>7, <1>8, <1>9, <1>10, <1>11, StepCases

-----------------------------------------------------------------------------
(* The queue of temporary ids.                                             *)

LEMMA QueueStep ==
  ASSUME Types, Types', QueueInv, [Next]_vars
  PROVE  QueueInv'
<1>a. /\ \A s \in Sends : pc[s] \in Stages
      /\ Sends \subseteq Nat /\ Len(order) \in Nat /\ DOMAIN order = 1 .. Len(order)
      /\ \A i \in DOMAIN order : order[i] \in Sends
  <2>1. order \in Seq(Sends) /\ \A s \in Sends : pc[s] \in Stages
    BY DEF Types
  <2>2. Len(order) \in Nat /\ DOMAIN order = 1 .. Len(order)
    BY <2>1, LenProperties
  <2>3. \A i \in DOMAIN order : order[i] \in Sends
    BY <2>1, <2>2, ElementOfSeq
  <2> QED BY <2>1, <2>2, <2>3, Basics
\* A thread that has started moves on.
<1>b. ASSUME NEW s \in Sends, NEW x \in Stages, pc' = [pc EXCEPT ![s] = x],
             pc[s] # "idle", x \notin {"idle", "failed"}, UNCHANGED order
      PROVE  QueueInv'
  <2>1. \A t \in Sends : pc'[t] = IF t = s THEN x ELSE pc[t]
    BY <1>b DEF Types
  <2> QED BY <1>a, <1>b, <2>1 DEF QueueInv
<1>1. ASSUME NEW s \in Sends, NEW c \in bound.contents, UserSend(s, c) PROVE QueueInv'
  <2>1. /\ pc[s] = "idle" /\ \A t \in 1 .. (s - 1) : pc[t] # "idle"
        /\ \A t \in Sends : t # s => pc'[t] = pc[t]
        /\ pc'[s] \in {"flow", "load"}
    BY <1>1 DEF UserSend, Types
  <2>2. /\ DOMAIN order' = 1 .. (Len(order) + 1) /\ order'[Len(order) + 1] = s
        /\ \A i \in DOMAIN order : order'[i] = order[i]
    BY <1>1, <1>a, AppendProperties DEF UserSend, QueuePendingTemp, Types
  <2>3. \A i \in DOMAIN order : order[i] < s
    <3> TAKE i \in DOMAIN order
    <3>1. pc[order[i]] # "idle"
      BY DEF QueueInv
    <3>2. ~(s < order[i])
      BY <1>a, <2>1, <3>1 DEF QueueInv
    <3>3. order[i] \in Nat /\ s \in Nat /\ order[i] # s
      BY <1>a, <2>1, <3>1
    <3> QED BY <3>2, <3>3
  <2>4. \A t, u \in Sends : t < u /\ pc'[u] # "idle" => pc'[t] # "idle"
    <3> SUFFICES ASSUME NEW t \in Sends, NEW u \in Sends, t < u, pc'[u] # "idle"
                 PROVE  pc'[t] # "idle"
      OBVIOUS
    <3>1. CASE u = s
      <4>1. t \in 1 .. (s - 1)
        BY <3>1, Basics DEF Sends
      <4> QED BY <1>a, <2>1, <3>1, <4>1
    <3>2. CASE u # s
      BY <1>a, <2>1, <3>2 DEF QueueInv
    <3> QED BY <3>1, <3>2
  <2>5. \A i \in DOMAIN order' : pc'[order'[i]] \notin {"idle", "failed"}
    <3> TAKE i \in DOMAIN order'
    <3>1. CASE i \in DOMAIN order
      <4>1. order[i] # s /\ order[i] \in Sends
        BY <1>a, <2>1, <3>1 DEF QueueInv
      <4> QED BY <2>1, <2>2, <3>1, <4>1 DEF QueueInv
    <3>2. CASE i = Len(order) + 1
      BY <2>1, <2>2, <3>2
    <3> QED BY <1>a, <2>2, <3>1, <3>2
  <2>6. Increasing(order')
    <3> SUFFICES ASSUME NEW i \in DOMAIN order', NEW j \in DOMAIN order', i < j
                 PROVE  order'[i] < order'[j]
      BY DEF Increasing
    <3>1. i \in DOMAIN order
      BY <1>a, <2>2
    <3>2. CASE j \in DOMAIN order
      BY <2>2, <3>1, <3>2 DEF QueueInv, Increasing
    <3>3. CASE j = Len(order) + 1
      BY <2>2, <2>3, <3>1, <3>3
    <3> QED BY <1>a, <2>2, <3>2, <3>3
  <2> QED BY <2>4, <2>5, <2>6 DEF QueueInv
<1>2. ASSUME NEW s \in Sends, \/ Prepare(s) \/ \E e \in BOOLEAN : Accept(s, e)
                              \/ SendReply(s) \/ UploadPlain(s) \/ FinishSend(s)
                              \/ ConfirmTempId(s)
      PROVE  QueueInv'
  <2>1. PICK x \in Stages \ {"idle", "failed"} : pc' = [pc EXCEPT ![s] = x]
    BY <1>2 DEF Prepare, Accept, SendReply, UploadPlain, FinishSend, ConfirmTempId, Stages
  <2>2. pc[s] # "idle" /\ UNCHANGED order
    BY <1>2 DEF Prepare, Accept, SendReply, UploadPlain, FinishSend, ConfirmTempId, matchVars
  <2> QED BY <1>b, <2>1, <2>2
<1>3. ASSUME NEW s \in Sends, FailTempId(s) PROVE QueueInv'
  <2>1. pc[s] = "fail" /\ \A t \in Sends : pc'[t] = IF t = s THEN "failed" ELSE pc[t]
    BY <1>3 DEF FailTempId, Types
  <2>2. /\ order' \in Seq(Sends) /\ Increasing(order')
        /\ \A i \in DOMAIN order' : order'[i] # s /\ \E j \in DOMAIN order : order'[i] = order[j]
    BY <1>3, QueueFacts DEF FailTempId
  <2>3. \A i \in DOMAIN order' : pc'[order'[i]] \notin {"idle", "failed"}
    <3> TAKE i \in DOMAIN order'
    <3>1. PICK j \in DOMAIN order : order'[i] = order[j]
      BY <2>2
    <3>2. order'[i] \in Sends /\ order'[i] # s /\ pc[order'[i]] \notin {"idle", "failed"}
      BY <1>a, <2>2, <3>1 DEF QueueInv
    <3> QED BY <2>1, <3>2
  <2>4. \A t, u \in Sends : t < u /\ pc'[u] # "idle" => pc'[t] # "idle"
    BY <2>1 DEF QueueInv
  <2> QED BY <2>2, <2>3, <2>4 DEF QueueInv
<1>4. ASSUME ConsumeEvent PROVE QueueInv'
  <2>1. UNCHANGED pc
    BY <1>4 DEF ConsumeEvent, sendVars
  <2>2. CASE UNCHANGED order
    BY <2>1, <2>2 DEF QueueInv
  <2>3. CASE order' = RemovePendingTemp(order, cb.temp)
    <3>1. /\ Increasing(order')
          /\ \A i \in DOMAIN order' : \E j \in DOMAIN order : order'[i] = order[j]
      BY <2>3, QueueFacts
    <3> QED BY <2>1, <3>1 DEF QueueInv
  <2> QED BY <1>4, <2>2, <2>3 DEF ConsumeEvent
<1>5. ASSUME UNCHANGED <<sendVars, matchVars>> PROVE QueueInv'
  BY <1>5 DEF sendVars, matchVars, QueueInv
<1>6. ASSUME \/ \E m \in seenRpc : MarkChatSeen(m)
             \/ \E o \in bound.senders : OtherMessage(o)
             \/ MatchEvent \/ ProcessEvent \/ RunMain \/ FlushCoalesced \/ Reload
             \/ UNCHANGED vars
      PROVE  UNCHANGED <<sendVars, matchVars>>
  BY <1>6 DEF MarkChatSeen, OtherMessage, MatchEvent, ProcessEvent, RunMain, FlushCoalesced,
              Reload, vars
<1> QED BY <1>1, <1>2, <1>3, <1>4, <1>5, <1>6, StepCases

-----------------------------------------------------------------------------
(* The E2EE number.                                                        *)

LEMMA AnsweredFacts ==
  ASSUME NEW A \in SUBSET Sends, NEW B \in SUBSET Sends, A \subseteq B
  PROVE  /\ Cardinality(A) \in Nat /\ Cardinality(B) \in Nat
         /\ Cardinality(A) <= Cardinality(B) /\ Cardinality(B) <= MaxSends
         /\ A # B => Cardinality(A) < Cardinality(B)
<1>1. IsFiniteSet(Sends) /\ Cardinality(Sends) = MaxSends /\ MaxSends \in Nat
  <2>1. MaxSends \in Nat
    BY BoundsAssumption
  <2>2. IsFiniteSet(1 .. MaxSends) /\ Cardinality(1 .. MaxSends) = MaxSends
    BY <2>1, FS_Interval
  <2> QED BY <2>1, <2>2 DEF Sends
<1>2. IsFiniteSet(B) /\ Cardinality(B) <= MaxSends
  BY <1>1, FS_Subset
<1>3. /\ IsFiniteSet(A) /\ Cardinality(A) <= Cardinality(B)
      /\ Cardinality(B) = Cardinality(A) => B = A
  BY <1>2, FS_Subset
<1>4. Cardinality(A) \in Nat /\ Cardinality(B) \in Nat
  BY <1>2, <1>3, FS_CardinalityType
<1> QED BY <1>2, <1>3, <1>4

LEMMA NumbersStep ==
  ASSUME Types, Types', NumbersInv, [Next]_vars
  PROVE  NumbersInv'
<1> DEFINE c == Cardinality(Answered)
<1>a. /\ Answered \in SUBSET Sends /\ Answered' \in SUBSET Sends /\ c \in Nat /\ c' \in Nat
      /\ session.seq \in Nat /\ \A s \in Sends : snap[s] \in Numbers
  <2>1. Answered \in SUBSET Sends /\ Answered' \in SUBSET Sends
    BY DEF Answered
  <2> QED BY <2>1, AnsweredFacts DEF Types, Numbers
<1>b. Answered \subseteq Answered' => c <= c' /\ (Answered # Answered' => c < c')
  BY <1>a, AnsweredFacts
<1> HIDE DEF c
<1>c. /\ session.seq <= c
      /\ \A s \in Sends \ Answered : snap[s].seq <= c
  BY DEF NumbersInv, c
<1>d. ASSUME Answered \subseteq Answered', UNCHANGED <<snap, session>> PROVE NumbersInv'
  <2>1. session'.seq <= c'
    BY <1>a, <1>b, <1>c, <1>d
  <2>2. \A s \in Sends \ Answered' : snap'[s].seq <= c'
    BY <1>a, <1>b, <1>c, <1>d DEF Numbers
  <2> QED BY <2>1, <2>2 DEF NumbersInv, c
<1>1. ASSUME NEW s \in Sends, NEW c1 \in bound.contents, UserSend(s, c1) PROVE NumbersInv'
  <2>1. Answered \subseteq Answered' /\ UNCHANGED <<snap, session>>
    <3>1. pc[s] = "idle" /\ \A t \in Sends : t # s => pc'[t] = pc[t]
      BY <1>1 DEF UserSend, Types
    <3>2. Answered \subseteq Answered'
      BY <3>1 DEF Answered, Unposted
    <3> QED BY <1>1, <3>2 DEF UserSend
  <2> QED BY <1>d, <2>1
<1>2. ASSUME NEW s \in Sends, Prepare(s) PROVE NumbersInv'
  <2>1. Answered \subseteq Answered' /\ s \notin Answered /\ UNCHANGED session
    BY <1>2 DEF Prepare, Types, Answered, Unposted
  <2>2. CASE UNCHANGED snap
    BY <1>d, <2>1, <2>2
  <2>3. CASE snap' = [snap EXCEPT ![s] = session]
    <3>1. session'.seq <= c'
      BY <1>a, <1>b, <1>c, <2>1
    <3>2. \A t \in Sends \ Answered' : snap'[t].seq <= c'
      <4> TAKE t \in Sends \ Answered'
      <4>1. snap'[t] = IF t = s THEN session ELSE snap[t]
        BY <2>3 DEF Types
      <4>2. t \notin Answered /\ snap[t].seq \in Nat
        BY <1>a, <2>1 DEF Numbers
      <4> QED BY <1>a, <1>b, <1>c, <2>1, <4>1, <4>2
    <3> QED BY <3>1, <3>2 DEF NumbersInv, c
  <2> QED BY <1>2, <2>2, <2>3 DEF Prepare
<1>3. ASSUME NEW s \in Sends, NEW e \in BOOLEAN, Accept(s, e) PROVE NumbersInv'
  <2>1. Answered \subseteq Answered' /\ UNCHANGED <<snap, session>>
    <3>1. pc[s] = "post" /\ \A t \in Sends : t # s => pc'[t] = pc[t]
      BY <1>3 DEF Accept, Types
    <3>2. Answered \subseteq Answered'
      BY <3>1 DEF Answered, Unposted
    <3> QED BY <1>3, <3>2 DEF Accept
  <2> QED BY <1>d, <2>1
<1>4. ASSUME NEW s \in Sends, SendReply(s) PROVE NumbersInv'
  <2>1. Answered' = Answered \union {s} /\ s \notin Answered
    <3>1. PICK x \in {"media", "store", "fail"} : pc' = [pc EXCEPT ![s] = x]
      BY <1>4 DEF SendReply
    <3>2. pc[s] = "reply" /\ \A t \in Sends : pc'[t] = IF t = s THEN x ELSE pc[t]
      BY <1>4, <3>1 DEF SendReply, Types
    <3> QED BY <3>2 DEF Answered, Unposted
  <2>2. c < c'
    BY <1>b, <2>1
  <2>3. session'.seq \in {session.seq, snap[s].seq + 1} /\ UNCHANGED snap
    BY <1>4 DEF SendReply, UpdateSendState
  <2>4. session'.seq <= c'
    BY <1>a, <1>c, <2>1, <2>2, <2>3 DEF Numbers
  <2>5. \A t \in Sends \ Answered' : snap'[t].seq <= c'
    BY <1>a, <1>c, <2>1, <2>2, <2>3 DEF Numbers
  <2> QED BY <2>4, <2>5 DEF NumbersInv, c
<1>5. ASSUME NEW s \in Sends, \/ UploadPlain(s) \/ FinishSend(s) \/ ConfirmTempId(s)
                              \/ FailTempId(s)
      PROVE  NumbersInv'
  <2>1. Answered \subseteq Answered' /\ UNCHANGED <<snap, session>>
    <3>1. PICK x \in {"store", "confirm", "fail", "done", "failed"} : pc' = [pc EXCEPT ![s] = x]
      BY <1>5 DEF UploadPlain, FinishSend, ConfirmTempId, FailTempId
    <3>2. \A t \in Sends : pc'[t] = IF t = s THEN x ELSE pc[t]
      BY <3>1 DEF Types
    <3>3. Answered \subseteq Answered'
      BY <3>2 DEF Answered, Unposted
    <3> QED BY <1>5, <3>3 DEF UploadPlain, FinishSend, ConfirmTempId, FailTempId
  <2> QED BY <1>d, <2>1
<1>6. ASSUME UNCHANGED sendVars PROVE NumbersInv'
  <2>1. Answered' = Answered /\ UNCHANGED <<snap, session>>
    BY <1>6 DEF sendVars, Answered
  <2> QED BY <1>d, <2>1
<1>7. ASSUME \/ \E m \in seenRpc : MarkChatSeen(m)
             \/ \E o \in bound.senders : OtherMessage(o)
             \/ MatchEvent \/ ProcessEvent \/ ConsumeEvent \/ RunMain \/ FlushCoalesced \/ Reload
             \/ UNCHANGED vars
      PROVE  UNCHANGED sendVars
  BY <1>7 DEF MarkChatSeen, OtherMessage, MatchEvent, ProcessEvent, ConsumeEvent, RunMain,
              FlushCoalesced, Reload, vars
<1> QED BY <1>1, <1>2, <1>3, <1>4, <1>5, <1>6, <1>7, StepCases

-----------------------------------------------------------------------------
(* Nothing is lost.                                                        *)

\* What LINE has recorded stays.
LEMMA LogKept ==
  ASSUME Types, Types', [Next]_vars
  PROVE  /\ \A m \in DOMAIN log : m \in DOMAIN log' /\ log'[m] = log[m]
         /\ Messages \subseteq Messages' /\ Len(log) <= Len(log)'
         /\ \A m \in Messages' : m <= Len(log) => m \in Messages
         /\ \A m \in Peers' : m <= Len(log) => m \in Peers
<1>1. Len(log) \in Nat /\ DOMAIN log = 1 .. Len(log) /\ Messages \subseteq 1 .. Len(log)
  BY Basics
<1>2. CASE UNCHANGED log
  <2>1. Messages' = Messages /\ Peers' = Peers
    BY <1>2, SameLog DEF Peers
  <2> QED BY <1>1, <1>2, <2>1
<1>3. ASSUME NEW op, log' = Append(log, op)
      PROVE  /\ \A m \in DOMAIN log : m \in DOMAIN log' /\ log'[m] = log[m]
             /\ Messages \subseteq Messages' /\ Len(log) <= Len(log)'
             /\ \A m \in Messages' : m <= Len(log) => m \in Messages
             /\ \A m \in Peers' : m <= Len(log) => m \in Peers
  <2>1. op \in Op
    <3>1. log' \in Seq(Op)
      BY DEF Types
    <3>2. Append(log, op)[Len(log) + 1] = op /\ Len(Append(log, op)) = Len(log) + 1
      BY AppendProperties DEF Types
    <3> QED BY <1>1, <1>3, <3>1, <3>2, ElementOfSeq
  <2>2. /\ Len(log)' = Len(log) + 1
        /\ \A m \in DOMAIN log : m \in DOMAIN log' /\ log'[m] = log[m]
        /\ Messages' \subseteq Messages \union {Len(log) + 1} /\ Messages \subseteq Messages'
    BY <1>3, <2>1, Logs
  <2>3. \A m \in Messages' : m <= Len(log) => m \in Messages
    BY <1>1, <2>2
  <2>4. \A m \in Peers' : m <= Len(log) => m \in Peers
    BY <1>1, <2>2, <2>3 DEF Peers
  <2> QED BY <1>1, <2>2, <2>3, <2>4
<1>4. UNCHANGED log \/ \E op : log' = Append(log, op)
  <2>1. ASSUME NEW s \in Sends, \/ \E c \in bound.contents : UserSend(s, c)
                                \/ Prepare(s) \/ SendReply(s) \/ UploadPlain(s) \/ FinishSend(s)
                                \/ ConfirmTempId(s) \/ FailTempId(s)
        PROVE  UNCHANGED log
    BY <2>1 DEF UserSend, Prepare, SendReply, UploadPlain, FinishSend, ConfirmTempId, FailTempId,
                lineVars
  <2>2. ASSUME \/ MatchEvent \/ ProcessEvent \/ ConsumeEvent \/ RunMain \/ FlushCoalesced
               \/ Reload \/ UNCHANGED vars
        PROVE  UNCHANGED log
    BY <2>2 DEF MatchEvent, ProcessEvent, ConsumeEvent, RunMain, FlushCoalesced, Reload, vars,
                lineVars
  <2>3. ASSUME NEW s \in Sends, NEW e \in BOOLEAN, Accept(s, e)
        PROVE  log' = Append(log, PostedOp(s, e))
    BY <2>3 DEF Accept
  <2>4. ASSUME NEW m \in seenRpc, MarkChatSeen(m)
        PROVE  UNCHANGED log \/ log' = Append(log, [type |-> "seen", of |-> m])
    BY <2>4 DEF MarkChatSeen
  <2>5. ASSUME NEW o \in bound.senders, OtherMessage(o)
        PROVE  log' = Append(log, [type |-> "message", from |-> o, of |-> None, sealed |-> TRUE,
                                   req |-> None, seq |-> None])
    BY <2>5 DEF OtherMessage
  <2> QED BY <2>1, <2>2, <2>3, <2>4, <2>5, StepCases, Zenon
<1> QED BY <1>2, <1>3, <1>4

\* A message on its way to the page gets there or stays on its way.
LEMMA WayKept ==
  ASSUME Types, Types', StreamInv, [Next]_vars, NEW m \in Messages, OnItsWay(m),
         Reload => m \in db
  PROVE  OnItsWay(m)'
<1> DEFINE E == [direct : BOOLEAN, js : Script(Messages)]
           d == [direct |-> FALSE, js |-> Appending(m)]
<1>a. /\ Messages \in SUBSET Nat /\ None \notin Messages /\ page \in Page(Messages)
      /\ buf \in Seq(Script(Messages)) /\ mainq \in Seq(E)
      /\ Len(buf) \in Nat /\ DOMAIN buf = 1 .. Len(buf)
      /\ Len(mainq) \in Nat /\ DOMAIN mainq = 1 .. Len(mainq)
  <2>1. buf \in Seq(Script(Messages)) /\ mainq \in Seq(E) /\ page \in Page(Messages)
    BY DEF Types
  <2> HIDE DEF E
  <2> QED BY <2>1, Basics, LenProperties
<1> HIDE DEF E
\* The scripts on the main queue keep their place, and the page its bubbles.
<1>b. ASSUME \A i \in DOMAIN mainq : i \in DOMAIN mainq' /\ mainq'[i] = mainq[i],
             UNCHANGED buf, HasRow(page.rows, m) => HasRow(page'.rows, m)
      PROVE  OnItsWay(m)'
  BY <1>b DEF OnItsWay
<1>1. ASSUME NEW s \in Sends, NEW c \in bound.contents, UserSend(s, c) PROVE OnItsWay(m)'
  <2>1. page'.rows = Append(page.rows, Temp(s)) /\ UNCHANGED <<mainq, buf>>
    BY <1>1, <1>a DEF UserSend, Page
  <2>2. page.rows \in Seq(Bubble(Messages))
    BY <1>a DEF Page
  <2>3. \A i \in DOMAIN page.rows : i \in DOMAIN page'.rows /\ page'.rows[i] = page.rows[i]
    <3>1. Len(page.rows) \in Nat /\ DOMAIN page.rows = 1 .. Len(page.rows)
      BY <2>2, LenProperties
    <3>2. page.rows \in Seq(Bubble(Messages) \union {Temp(s)})
      BY <2>2, SeqMonotonic
    <3>3. /\ DOMAIN Append(page.rows, Temp(s)) = 1 .. (Len(page.rows) + 1)
          /\ \A i \in 1 .. Len(page.rows) : Append(page.rows, Temp(s))[i] = page.rows[i]
      BY <2>2, <3>2, AppendProperties
    <3> QED BY <2>1, <3>1, <3>3
  <2>4. HasRow(page.rows, m) => HasRow(page'.rows, m)
    BY <2>3 DEF HasRow
  <2> QED BY <1>b, <2>1, <2>4
<1>2. ASSUME NEW x, mainq' = Append(mainq, x), UNCHANGED <<buf, page>> PROVE OnItsWay(m)'
  <2>1. /\ DOMAIN mainq' = 1 .. (Len(mainq) + 1)
        /\ \A i \in 1 .. Len(mainq) : mainq'[i] = mainq[i]
    <3>1. mainq \in Seq(E \union {x})
      BY <1>a, SeqMonotonic
    <3> QED BY <1>2, <3>1, AppendProperties
  <2>2. \A i \in DOMAIN mainq : i \in DOMAIN mainq' /\ mainq'[i] = mainq[i]
    BY <1>a, <2>1
  <2> QED BY <1>b, <1>2, <2>2
<1>3. ASSUME ConsumeEvent PROVE OnItsWay(m)'
  <2> DEFINE u == [i \in DOMAIN MessageUpdates(next, cb.temp) |->
                     Coalesced(MessageUpdates(next, cb.temp)[i])]
  <2>1. next \in DOMAIN log /\ cb.temp \in Sends \union {None}
    <3>1. DOMAIN log = 1 .. Len(log) /\ next \in 1 .. (Len(log) + 1) /\ Len(log) \in Nat
      BY Basics DEF Types
    <3>2. next <= Len(log)
      BY <1>3 DEF ConsumeEvent, StreamInv
    <3>3. cb.temp \in Sends \union {None}
      BY DEF Types
    <3> QED BY <3>1, <3>2, <3>3
  <2>2. log[next].type # "seen" => next \in Messages
    BY <2>1, Basics DEF Messages, Op
  <2>3. u \in Seq(E)
    BY <2>1, <2>2, UpdatesType DEF E
  <2>4. mainq' = mainq \o u /\ UNCHANGED <<buf, page>>
    BY <1>3 DEF ConsumeEvent
  <2> HIDE DEF u
  <2>5. /\ mainq' \in Seq(E) /\ Len(mainq') = Len(mainq) + Len(u)
        /\ \A i \in 1 .. (Len(mainq) + Len(u)) :
             mainq'[i] = IF i <= Len(mainq) THEN mainq[i] ELSE u[i - Len(mainq)]
    BY <1>a, <2>3, <2>4, ConcatProperties
  <2>6. Len(u) \in Nat /\ DOMAIN mainq' = 1 .. Len(mainq')
    BY <2>3, <2>5, LenProperties
  <2>7. \A i \in DOMAIN mainq : i \in DOMAIN mainq' /\ mainq'[i] = mainq[i]
    BY <1>a, <2>5, <2>6
  <2> QED BY <1>b, <2>4, <2>7
<1>4. ASSUME RunMain PROVE OnItsWay(m)'
  <2> DEFINE h == Head(mainq)
  <2>1. /\ mainq # <<>> /\ h = mainq[1] /\ mainq' = Tail(mainq)
        /\ IF h.direct THEN page' = Eval(page, h.js) /\ UNCHANGED buf
                       ELSE buf' = Append(buf, h.js) /\ UNCHANGED page
    BY <1>4, <1>a DEF RunMain
  <2>2. /\ h \in E /\ h.js \in Script(Messages) /\ Len(mainq') = Len(mainq) - 1
        /\ \A i \in 1 .. Len(mainq') : mainq'[i] = mainq[i + 1]
        /\ mainq' \in Seq(E)
    <3>1. /\ Head(mainq) \in E /\ Tail(mainq) \in Seq(E) /\ Len(Tail(mainq)) = Len(mainq) - 1
          /\ \A i \in 1 .. Len(Tail(mainq)) : Tail(mainq)[i] = mainq[i + 1]
      BY <1>a, <2>1, HeadTailProperties
    <3>2. h.js \in Script(Messages)
      BY <3>1 DEF E
    <3> QED BY <2>1, <3>1, <3>2
  <2> HIDE DEF h
  <2>3. DOMAIN mainq' = 1 .. Len(mainq')
    BY <2>2, LenProperties
  <2>4. CASE HasRow(page.rows, m)
    <3>1. HasRow(Eval(page, h.js).rows, m)
      BY <1>a, <2>2, <2>4, EvalPage
    <3> QED BY <2>1, <2>4, <3>1 DEF OnItsWay
  <2>5. ASSUME NEW i \in DOMAIN buf, buf[i] = Appending(m) PROVE OnItsWay(m)'
    <3>1. CASE h.direct
      BY <2>1, <2>5, <3>1 DEF OnItsWay
    <3>2. CASE ~h.direct
      <4>1. /\ DOMAIN Append(buf, h.js) = 1 .. (Len(buf) + 1)
            /\ \A j \in 1 .. Len(buf) : Append(buf, h.js)[j] = buf[j]
        BY <1>a, <2>2, AppendProperties
      <4>2. i \in DOMAIN buf' /\ buf'[i] = Appending(m)
        BY <1>a, <2>1, <2>5, <3>2, <4>1
      <4> QED BY <4>2 DEF OnItsWay
    <3> QED BY <3>1, <3>2
  <2>6. ASSUME NEW i \in DOMAIN mainq, mainq[i] = d PROVE OnItsWay(m)'
    <3>1. CASE i = 1
      <4>1. ~h.direct /\ h.js = Appending(m)
        BY <2>1, <2>6, <3>1
      <4>2. /\ DOMAIN Append(buf, h.js) = 1 .. (Len(buf) + 1)
            /\ Append(buf, h.js)[Len(buf) + 1] = h.js
        BY <1>a, <2>2, AppendProperties
      <4>3. Len(buf) + 1 \in DOMAIN buf' /\ buf'[Len(buf) + 1] = Appending(m)
        BY <1>a, <2>1, <4>1, <4>2
      <4> QED BY <4>3 DEF OnItsWay
    <3>2. CASE i # 1
      <4>1. i - 1 \in DOMAIN mainq' /\ mainq'[i - 1] = d
        <5>1. i - 1 \in 1 .. Len(mainq') /\ (i - 1) + 1 = i
          BY <1>a, <2>2, <3>2
        <5> HIDE DEF d
        <5> QED BY <2>2, <2>3, <2>6, <5>1
      <4> QED BY <4>1 DEF OnItsWay
    <3> QED BY <3>1, <3>2
  <2> QED BY <2>4, <2>5, <2>6 DEF OnItsWay
<1>5. ASSUME FlushCoalesced PROVE OnItsWay(m)'
  <2>1. page' = FoldLeft(Eval, page, buf)
    BY <1>5, Zenon DEF FlushCoalesced
  <2>2. HasRow(page.rows, m) \/ (\E i \in DOMAIN buf : buf[i] = Appending(m))
          => HasRow(FoldLeft(Eval, page, buf).rows, m)
    BY <1>a, FlushPage, Zenon
  <2>3. UNCHANGED mainq
    BY <1>5, Zenon DEF FlushCoalesced
  <2>4. HasRow(page.rows, m) \/ (\E i \in DOMAIN buf : buf[i] = Appending(m))
          => HasRow(page'.rows, m)
    BY <2>1, <2>2, Zenon
  <2> QED BY <2>3, <2>4 DEF OnItsWay
<1>6. ASSUME Reload PROVE OnItsWay(m)'
  BY <1>6, RenderedPage DEF Reload, OnItsWay
<1>7. ASSUME NEW s \in Sends, ConfirmTempId(s) \/ FailTempId(s) PROVE OnItsWay(m)'
  BY <1>2, <1>7 DEF ConfirmTempId, FailTempId
<1>8. ASSUME UNCHANGED uiVars PROVE OnItsWay(m)'
  BY <1>8 DEF uiVars, OnItsWay
<1>9. ASSUME \/ \E s \in Sends : \/ Prepare(s) \/ \E e \in BOOLEAN : Accept(s, e)
                                 \/ SendReply(s) \/ UploadPlain(s) \/ FinishSend(s)
             \/ \E x \in seenRpc : MarkChatSeen(x)
             \/ \E o \in bound.senders : OtherMessage(o)
             \/ MatchEvent \/ ProcessEvent \/ UNCHANGED vars
      PROVE  UNCHANGED uiVars
  BY <1>9 DEF Prepare, Accept, SendReply, UploadPlain, FinishSend, MarkChatSeen, OtherMessage,
              MatchEvent, ProcessEvent, vars
<1> QED BY <1>1, <1>3, <1>4, <1>5, <1>6, <1>7, <1>8, <1>9, StepCases

LEMMA StreamStepInv ==
  ASSUME Types, Types', LogInv, StreamInv, [Next]_vars
  PROVE  StreamInv'
<1>a. /\ Len(log) \in Nat /\ DOMAIN log = 1 .. Len(log) /\ next \in 1 .. (Len(log) + 1)
      /\ Messages \subseteq 1 .. Len(log) /\ \A m \in DOMAIN log : log[m] \in Op
      /\ Len(log') \in Nat /\ \A m \in Messages' : m \in Nat
  <2>1. Len(log') \in Nat /\ DOMAIN log' = 1 .. Len(log')
    BY LenProperties DEF Types
  <2>2. \A m \in Messages' : m \in Nat
    BY <2>1 DEF Messages
  <2> QED BY <2>1, <2>2, Basics DEF Types
<1>b. /\ \A m \in DOMAIN log : m \in DOMAIN log' /\ log'[m] = log[m]
      /\ Messages \subseteq Messages' /\ Len(log) <= Len(log)'
      /\ \A m \in Messages' : m <= Len(log) => m \in Messages
      /\ \A m \in Peers' : m <= Len(log) => m \in Peers
  BY LogKept
\* What was on its way, as long as the cursor stays.
<1>c. ASSUME UNCHANGED next, Reload \/ db \subseteq db'
      PROVE  /\ \A m \in Messages' : m < next' => m \in db'
             /\ \A m \in Peers' : m < next' => OnItsWay(m)'
  <2>1. \A m \in Messages' : m < next' => m \in Messages /\ m \in db
    <3> TAKE m \in Messages'
    <3> HAVE m < next'
    <3>1. m <= Len(log) /\ m < next
      BY <1>a, <1>c
    <3> QED BY <1>b, <3>1 DEF StreamInv
  <2>2. db \subseteq db'
    BY <1>c DEF Reload, dbVars
  <2>3. ASSUME NEW m \in Peers', m < next' PROVE OnItsWay(m)'
    <3>1. m \in Messages' /\ m <= Len(log)
      <4>1. m \in Messages' /\ m < next
        BY <1>c, <2>3 DEF Peers
      <4> QED BY <1>a, <4>1
    <3>2. m \in Peers /\ m \in Messages /\ m \in db
      BY <1>b, <2>1, <2>3, <3>1
    <3>3. OnItsWay(m)
      BY <1>c, <2>3, <3>2 DEF StreamInv
    <3> QED BY <3>2, <3>3, WayKept
  <2> QED BY <2>1, <2>2, <2>3
\* The callback's state, as long as it does not move.
<1>d. ASSUME UNCHANGED <<next, cb>>, db \subseteq db'
      PROVE  StreamInv'
  <2>1. /\ cb'.pc = "idle" => cb'.temp = None
        /\ cb'.pc # "idle" => next' <= Len(log') /\ next \in DOMAIN log
    BY <1>a, <1>b, <1>d DEF StreamInv
  <2>2. cb'.pc # "idle" => (next' \in Peers' => cb'.temp = None)
    BY <1>a, <1>b, <1>d, <2>1 DEF StreamInv
  <2>3. cb'.pc # "idle" => (log'[next'].type # "message" => cb'.temp = None)
    BY <1>b, <1>d, <2>1 DEF StreamInv
  <2>4. cb'.pc = "consume" => next' \in db' \/ log'[next'].type = "seen"
    BY <1>b, <1>d, <2>1 DEF StreamInv
  <2> QED BY <1>c, <1>d, <2>1, <2>2, <2>3, <2>4 DEF StreamInv
<1>1. ASSUME MatchEvent PROVE StreamInv'
  <2>1. /\ cb.pc = "idle" /\ next <= Len(log) /\ next \in DOMAIN log
        /\ cb' = [pc |-> "process", temp |-> PendingTempId(next)]
        /\ UNCHANGED <<next, log, db>> /\ Messages' = Messages /\ Peers' = Peers
    BY <1>1, <1>a, SameLog DEF MatchEvent, lineVars, dbVars, Peers
  <2>2. next \in Peers => PendingTempId(next) = None
    <3> SUFFICES ASSUME next \in Peers PROVE PendingTempId(next) = None
      OBVIOUS
    <3>1. log[next].type = "message" /\ log[next].from = "peer"
      BY DEF Peers, Messages
    <3>2. next \notin DOMAIN pending
      BY <3>1, Basics DEF LogInv
    <3> QED BY <3>1, <3>2 DEF PendingTempId, FromMe
  <2>3. log[next].type # "message" => PendingTempId(next) = None
    BY DEF PendingTempId
  <2> QED BY <1>c, <2>1, <2>2, <2>3 DEF StreamInv
<1>2. ASSUME ProcessEvent PROVE StreamInv'
  <2>1. /\ cb.pc = "process" /\ next <= Len(log) /\ next \in DOMAIN log /\ db \subseteq db'
        /\ UNCHANGED <<next, log>> /\ Messages' = Messages /\ Peers' = Peers
    BY <1>2, <1>a, SameLog DEF ProcessEvent, StreamInv, lineVars, dbVars, Peers
  <2>2. CASE cb' = IdleCb
    BY <1>c, <2>1, <2>2 DEF StreamInv, IdleCb
  <2>3. CASE /\ cb' = [cb EXCEPT !.pc = "consume"]
             /\ log[next].type = "message" => next \in db'
    <3>1. cb' = [pc |-> "consume", temp |-> cb.temp]
      BY <2>3 DEF Types
    <3>2. next \in db' \/ log[next].type = "seen"
      BY <1>a, <2>1, <2>3 DEF Op
    <3> QED BY <1>c, <2>1, <3>1, <3>2 DEF StreamInv
  <2> QED BY <1>2, <2>2, <2>3 DEF ProcessEvent
<1>3. ASSUME ConsumeEvent PROVE StreamInv'
  <2>1. /\ cb.pc = "consume" /\ next <= Len(log) /\ next \in DOMAIN log
        /\ cb' = [pc |-> "idle", temp |-> None] /\ next' \in {next, next + 1}
        /\ UNCHANGED <<log, db>> /\ Messages' = Messages /\ Peers' = Peers
    BY <1>3, <1>a, SameLog DEF ConsumeEvent, StreamInv, IdleCb, lineVars, dbVars, Peers
  <2>2. \A m \in Messages : m < next' => m \in db
    <3> TAKE m \in Messages
    <3> HAVE m < next'
    <3>1. CASE m < next
      BY <3>1 DEF StreamInv
    <3>2. CASE m = next
      BY <2>1, <3>2 DEF StreamInv, Messages
    <3> QED BY <1>a, <2>1, <3>1, <3>2
  <2>3. ASSUME NEW m \in Peers, m < next' PROVE OnItsWay(m)'
    <3>1. m \in Messages /\ log[m].type = "message" /\ log[m].from = "peer"
      BY <2>3 DEF Peers, Messages
    <3>2. CASE m < next
      <4>1. OnItsWay(m)
        BY <2>3, <3>2 DEF StreamInv
      <4>2. ~Reload
        BY <1>3, <2>1 DEF ConsumeEvent, Reload, streamVars, IdleCb
      <4> QED BY <3>1, <4>1, <4>2, WayKept
    <3>3. CASE m = next
      <4> DEFINE u == [i \in DOMAIN MessageUpdates(next, cb.temp) |->
                         Coalesced(MessageUpdates(next, cb.temp)[i])]
                 E == [direct : BOOLEAN, js : Script(Messages)]
      <4>1. cb.temp = None
        BY <2>1, <2>3, <3>3 DEF StreamInv
      <4>2. MessageUpdates(next, cb.temp) = <<Appending(m), JS("seen", None, seen)>>
        BY <3>1, <3>3, <4>1 DEF MessageUpdates, Appending, JS
      <4>3. 1 \in DOMAIN MessageUpdates(next, cb.temp)
            /\ MessageUpdates(next, cb.temp)[1] = Appending(m)
        BY <4>2
      <4>4. u[1] = [direct |-> FALSE, js |-> Appending(m)] /\ 1 \in DOMAIN u
        BY <4>3 DEF Coalesced
      <4>5. u \in Seq(E)
        BY <2>1, <3>1, <3>3, <4>1, UpdatesType
      <4>6. mainq' = mainq \o u /\ mainq \in Seq(E)
        BY <1>3 DEF ConsumeEvent, Types
      <4> HIDE DEF u, E
      <4>7. /\ mainq' \in Seq(E) /\ Len(mainq') = Len(mainq) + Len(u)
            /\ \A i \in 1 .. (Len(mainq) + Len(u)) :
                 mainq'[i] = IF i <= Len(mainq) THEN mainq[i] ELSE u[i - Len(mainq)]
        BY <4>5, <4>6, ConcatProperties
      <4>8. /\ Len(u) \in Nat /\ Len(mainq) \in Nat /\ 1 \in 1 .. Len(u)
            /\ DOMAIN mainq' = 1 .. Len(mainq')
        BY <4>4, <4>5, <4>6, <4>7, LenProperties
      <4>9. Len(mainq) + 1 \in DOMAIN mainq' /\ mainq'[Len(mainq) + 1] = u[1]
        <5>1. Len(mainq) + 1 \in 1 .. (Len(mainq) + Len(u)) /\ ~(Len(mainq) + 1 <= Len(mainq))
              /\ (Len(mainq) + 1) - Len(mainq) = 1
          BY <4>8
        <5> QED BY <4>7, <4>8, <5>1
      <4> QED BY <4>4, <4>9 DEF OnItsWay
    <3> QED BY <1>a, <2>1, <2>3, <3>1, <3>2, <3>3
  <2> QED BY <2>1, <2>2, <2>3 DEF StreamInv
<1>4. ASSUME NEW s \in Sends, FinishSend(s) PROVE StreamInv'
  BY <1>4, <1>d DEF FinishSend, streamVars
<1>5. ASSUME UNCHANGED <<streamVars, dbVars>> PROVE StreamInv'
  BY <1>5, <1>d DEF streamVars, dbVars
<1>6. ASSUME NEW s \in Sends, \/ \E c \in bound.contents : UserSend(s, c)
                              \/ Prepare(s) \/ \E e \in BOOLEAN : Accept(s, e)
                              \/ SendReply(s) \/ UploadPlain(s) \/ ConfirmTempId(s)
                              \/ FailTempId(s)
      PROVE  UNCHANGED <<streamVars, dbVars>>
  BY <1>6 DEF UserSend, Prepare, Accept, SendReply, UploadPlain, ConfirmTempId, FailTempId
<1>7. ASSUME \/ \E m \in seenRpc : MarkChatSeen(m)
             \/ \E o \in bound.senders : OtherMessage(o)
             \/ RunMain \/ FlushCoalesced \/ Reload \/ UNCHANGED vars
      PROVE  UNCHANGED <<streamVars, dbVars>>
  BY <1>7 DEF MarkChatSeen, OtherMessage, RunMain, FlushCoalesced, Reload, vars
<1> QED BY <1>1, <1>2, <1>3, <1>4, <1>5, <1>6, <1>7, StepCases

-----------------------------------------------------------------------------
(* Echoes find their own bubble.                                           *)

\* The case of a behaviour does not change, and its bounds only shrink.
LEMMA BudgetKept ==
  ASSUME Types, [Next]_vars
  PROVE  /\ bound' = bound
         /\ \A b \in {"lost", "replays", "reloads"} : budget.left[b] = 0 => budget'.left[b] = 0
<1>1. ASSUME NEW b \in {"others", "lost", "retries", "replays", "reloads"}, Spend(b)
      PROVE  /\ bound' = bound
             /\ \A x \in {"lost", "replays", "reloads"} : budget.left[x] = 0 => budget'.left[x] = 0
  <2>1. /\ budget'.case = budget.case /\ budget'.left = [budget.left EXCEPT ![b] = @ - 1]
        /\ budget.left[b] > 0
        /\ budget.left \in [{"others", "lost", "retries", "replays", "reloads"} -> Nat]
    BY <1>1, SpendType DEF Spend, Types
  <2> QED BY <2>1 DEF bound
<1>2. ASSUME NEW s \in Sends, \/ \E c \in bound.contents : UserSend(s, c)
                              \/ Prepare(s) \/ \E e \in BOOLEAN : Accept(s, e)
                              \/ UploadPlain(s) \/ ConfirmTempId(s) \/ FailTempId(s)
      PROVE  UNCHANGED budget
  BY <1>2 DEF UserSend, Prepare, Accept, UploadPlain, ConfirmTempId, FailTempId
<1>3. ASSUME \/ \E m \in seenRpc : MarkChatSeen(m)
             \/ MatchEvent \/ RunMain \/ FlushCoalesced \/ UNCHANGED vars
      PROVE  UNCHANGED budget
  BY <1>3 DEF MarkChatSeen, MatchEvent, RunMain, FlushCoalesced, vars
<1>4. ASSUME \/ \E s \in Sends : SendReply(s) \/ FinishSend(s)
             \/ \E o \in bound.senders : OtherMessage(o)
             \/ ProcessEvent \/ ConsumeEvent \/ Reload
      PROVE  \/ UNCHANGED budget
             \/ \E b \in {"others", "lost", "retries", "replays", "reloads"} : Spend(b)
  BY <1>4 DEF SendReply, FinishSend, OtherMessage, ProcessEvent, ConsumeEvent, Reload
<1>5. ASSUME UNCHANGED budget
      PROVE  /\ bound' = bound
             /\ \A x \in {"lost", "replays", "reloads"} : budget.left[x] = 0 => budget'.left[x] = 0
  BY <1>5 DEF bound
<1> QED BY <1>1, <1>2, <1>3, <1>4, <1>5, StepCases

\* The bubble an echo is matched with, while sends do not overlap.
LEMMA Matched ==
  ASSUME Types, LogInv, QueueInv, Alone, bound.overlap = 1,
         next \in Messages, log[next].from = "here"
  PROVE  \/ PendingTempId(next) = log[next].of
         \/ /\ \A i \in DOMAIN order : order[i] # log[next].of
            /\ next \notin DOMAIN pending
<1> DEFINE s == log[next].of
<1>1. s \in Sends /\ msgOf[s] = next /\ next # None /\ log[next].type = "message"
  BY Basics DEF LogInv, Messages
<1>2. CASE next \in DOMAIN pending
  <2>1. pending[next] \in Sends /\ msgOf[pending[next]] = next
    BY <1>2 DEF LogInv
  <2>2. log[next].of = pending[next]
    BY <1>1, <2>1 DEF LogInv
  <2> QED BY <1>1, <1>2, <2>2 DEF PendingTempId
<1>3. ASSUME next \notin DOMAIN pending, NEW j \in DOMAIN order, order[j] = s
      PROVE  PendingTempId(next) = s
  <2>1. order \in Seq(Sends) /\ Len(order) \in Nat /\ DOMAIN order = 1 .. Len(order)
    BY LenProperties DEF Types
  <2>2. order # <<>> /\ 1 \in DOMAIN order /\ Head(order) = order[1]
    BY <1>3, <2>1
  <2>3. PendingTempId(next) = order[1]
    BY <1>1, <1>3, <2>2 DEF PendingTempId, FromMe, FirstPendingTempForChat
  <2>4. CASE j # 1
    <3> DEFINE h == order[1]
    <3>1. h \in Sends /\ h < s /\ pc[h] \notin {"idle", "failed"} /\ pc[s] # "idle"
      BY <1>3, <2>1, <2>2, <2>4, ElementOfSeq DEF QueueInv, Increasing
    <3> HIDE DEF h
    <3>2. pc[h] \in Ended
      BY <1>1, <3>1 DEF Alone
    <3>3. msgOf[h] # None
      BY <3>1, <3>2 DEF Ended, LogInv, Posted
    <3>4. msgOf[h] < msgOf[s]
      BY <1>1, <3>1, <3>3 DEF Alone
    <3>5. msgOf[h] >= next
      BY <2>2, <3>3 DEF Alone, h
    <3>6. msgOf[h] \in Nat /\ next \in Nat
      <4>1. msgOf \in [Sends -> 0 .. Len(log)] /\ next \in 1 .. (Len(log) + 1)
        BY DEF Types
      <4> QED BY <3>1, <4>1, Basics
    <3> QED BY <1>1, <3>4, <3>5, <3>6
  <2> QED BY <1>3, <2>3, <2>4
<1> QED BY <1>2, <1>3

LEMMA AloneStep ==
  ASSUME Types, Types', LogInv, LogInv', QueueInv, StreamInv, Alone, [Next]_vars
  PROVE  Alone'
<1> SUFFICES ASSUME bound.overlap = 1 PROVE Alone'
  BY BudgetKept DEF Alone
<1>a. /\ Sends \subseteq Nat /\ Len(log) \in Nat /\ DOMAIN log = 1 .. Len(log)
      /\ \A s \in Sends : pc[s] \in Stages /\ msgOf[s] \in Nat /\ msgOf[s] <= Len(log)
      /\ order \in Seq(Sends) /\ Len(order) \in Nat /\ DOMAIN order = 1 .. Len(order)
      /\ \A i \in DOMAIN order : order[i] \in Sends
      /\ next \in 1 .. (Len(log) + 1) /\ next \in Nat
  <2>1. /\ order \in Seq(Sends) /\ next \in 1 .. (Len(log) + 1)
        /\ msgOf \in [Sends -> 0 .. Len(log)] /\ \A s \in Sends : pc[s] \in Stages
    BY DEF Types
  <2>2. Len(order) \in Nat /\ DOMAIN order = 1 .. Len(order)
    BY <2>1, LenProperties
  <2>3. \A i \in DOMAIN order : order[i] \in Sends
    BY <2>1, <2>2, ElementOfSeq
  <2> QED BY <2>1, <2>2, <2>3, Basics
<1>b. /\ \A s, t \in Sends : s < t /\ pc[t] # "idle" => pc[s] \in Ended
      /\ \A s, t \in Sends : s < t /\ msgOf[s] # None /\ msgOf[t] # None => msgOf[s] < msgOf[t]
      /\ \A i \in DOMAIN order : msgOf[order[i]] = None \/ msgOf[order[i]] >= next
      /\ cb.pc # "idle" /\ next \in Messages /\ log[next].from = "here" =>
           cb.temp = log[next].of \/ \A i \in DOMAIN order : order[i] # log[next].of
  BY DEF Alone
<1>k. /\ \A m \in DOMAIN log : m \in DOMAIN log' /\ log'[m] = log[m]
      /\ \A m \in Messages' : m <= Len(log) => m \in Messages
  BY LogKept
\* The event in the callback is one of LINE's before the step.
<1>e. cb.pc # "idle" /\ next \in Messages' => next \in Messages /\ log'[next] = log[next]
  BY <1>a, <1>k DEF StreamInv
\* A thread on its way moves, an id leaves the queue, the callback stays or gives up.
<1>c. ASSUME \/ UNCHANGED pc
             \/ \E s \in Sends, x \in Stages : /\ pc[s] \notin Ended \union {"idle"}
                                               /\ pc' = [pc EXCEPT ![s] = x],
             \A i \in DOMAIN order' : \E j \in DOMAIN order : order'[i] = order[j],
             UNCHANGED <<msgOf, next>>,
             cb'.pc # "idle" => cb.pc # "idle" /\ cb'.temp = cb.temp
      PROVE  Alone'
  <2>1. \A s, t \in Sends : s < t /\ pc'[t] # "idle" => pc'[s] \in Ended
    <3>1. CASE UNCHANGED pc
      BY <1>b, <3>1
    <3>2. ASSUME NEW s \in Sends, NEW x \in Stages, pc[s] \notin Ended \union {"idle"},
                 pc' = [pc EXCEPT ![s] = x]
          PROVE  \A t, u \in Sends : t < u /\ pc'[u] # "idle" => pc'[t] \in Ended
      <4>1. \A t \in Sends : pc'[t] = IF t = s THEN x ELSE pc[t]
        BY <3>2 DEF Types
      <4> TAKE t, u \in Sends
      <4> HAVE t < u /\ pc'[u] # "idle"
      <4>2. pc[u] # "idle"
        BY <3>2, <4>1
      <4>3. pc[t] \in Ended
        BY <1>b, <4>2
      <4> QED BY <3>2, <4>1, <4>3
    <3> QED BY <1>c, <3>1, <3>2
  <2>2. \A i \in DOMAIN order' : msgOf'[order'[i]] = None \/ msgOf'[order'[i]] >= next'
    BY <1>b, <1>c
  <2>3. cb'.pc # "idle" /\ next' \in Messages' /\ log'[next'].from = "here" =>
          cb'.temp = log'[next'].of \/ \A i \in DOMAIN order' : order'[i] # log'[next'].of
    BY <1>b, <1>c, <1>e
  <2> QED BY <1>b, <1>c, <2>1, <2>2, <2>3 DEF Alone
<1>1. ASSUME NEW s \in Sends, NEW c \in bound.contents, UserSend(s, c) PROVE Alone'
  <2>1. /\ pc[s] = "idle" /\ \A t \in 1 .. (s - 1) : pc[t] # "idle"
        /\ Cardinality(InFlight) < 1
        /\ \A t \in Sends : t # s => pc'[t] = pc[t]
        /\ UNCHANGED <<log, msgOf, next, cb>>
    BY <1>1 DEF UserSend, Types, lineVars, streamVars
  <2>2. InFlight = {}
    <3>1. InFlight \in SUBSET Sends /\ IsFiniteSet(Sends)
      <4>1. IsFiniteSet(1 .. MaxSends)
        BY FS_Interval, BoundsAssumption
      <4> QED BY <4>1 DEF InFlight, Sends
    <3>2. IsFiniteSet(InFlight) /\ Cardinality(InFlight) \in Nat
      BY <3>1, FS_Subset, FS_CardinalityType
    <3> QED BY <2>1, <3>2, FS_EmptySet
  <2>3. \A t \in Sends : t < s => pc[t] \in Ended
    <3> TAKE t \in Sends
    <3> HAVE t < s
    <3>1. t \in 1 .. (s - 1)
      BY <1>a DEF Sends
    <3> QED BY <2>1, <2>2, <3>1 DEF InFlight, Ended
  <2>4. \A t, u \in Sends : t < u /\ pc'[u] # "idle" => pc'[t] \in Ended
    <3> TAKE t, u \in Sends
    <3> HAVE t < u /\ pc'[u] # "idle"
    <3>1. CASE u = s
      BY <1>a, <2>1, <2>3, <3>1
    <3>2. CASE u # s
      <4>1. pc[t] \in Ended
        BY <1>b, <2>1, <3>2
      <4>2. t # s
        BY <2>1, <4>1 DEF Ended
      <4> QED BY <2>1, <4>1, <4>2
    <3> QED BY <3>1, <3>2
  <2>5. /\ DOMAIN order' = 1 .. (Len(order) + 1) /\ order'[Len(order) + 1] = s
        /\ \A i \in DOMAIN order : order'[i] = order[i]
    BY <1>1, <1>a, AppendProperties DEF UserSend, QueuePendingTemp
  <2>6. msgOf[s] = None
    BY <2>1 DEF LogInv, Unposted
  <2>7. \A i \in DOMAIN order' : msgOf'[order'[i]] = None \/ msgOf'[order'[i]] >= next'
    <3> TAKE i \in DOMAIN order'
    <3>1. CASE i \in DOMAIN order
      BY <1>b, <2>1, <2>5, <3>1
    <3>2. CASE i = Len(order) + 1
      BY <2>1, <2>5, <2>6, <3>2
    <3> QED BY <1>a, <2>5, <3>1, <3>2
  <2>8. cb'.pc # "idle" /\ next' \in Messages' /\ log'[next'].from = "here" =>
          cb'.temp = log'[next'].of \/ \A i \in DOMAIN order' : order'[i] # log'[next'].of
    <3> SUFFICES ASSUME cb.pc # "idle", next \in Messages', log'[next].from = "here",
                        cb.temp # log'[next].of, NEW i \in DOMAIN order'
                 PROVE  order'[i] # log'[next].of
      BY <2>1
    <3>1. next \in Messages /\ log'[next] = log[next]
      BY <1>e
    <3>2. msgOf[log[next].of] = next /\ next # None
      BY <3>1, Basics DEF LogInv
    <3>3. CASE i \in DOMAIN order
      BY <1>b, <2>5, <3>1, <3>3
    <3>4. CASE i = Len(order) + 1
      BY <2>5, <2>6, <3>1, <3>2, <3>4
    <3> QED BY <1>a, <2>5, <3>3, <3>4
  <2> QED BY <1>b, <2>1, <2>4, <2>7, <2>8 DEF Alone
<1>2. ASSUME NEW s \in Sends, NEW e \in BOOLEAN, Accept(s, e) PROVE Alone'
  <2> DEFINE n == Len(log) + 1
  <2>1. /\ pc[s] = "post" /\ UNCHANGED <<order, next, cb>>
        /\ \A t \in Sends : pc'[t] = IF t = s THEN "reply" ELSE pc[t]
        /\ \A t \in Sends : msgOf'[t] = IF t = s THEN n ELSE msgOf[t]
    BY <1>2 DEF Accept, Types, matchVars, streamVars
  <2>2. \A t \in Sends : s < t => pc[t] = "idle" /\ msgOf[t] = None
    BY <1>b, <2>1 DEF Ended, LogInv, Unposted
  <2>3. \A t, u \in Sends : t < u /\ pc'[u] # "idle" => pc'[t] \in Ended
    <3> TAKE t, u \in Sends
    <3> HAVE t < u /\ pc'[u] # "idle"
    <3>1. pc[u] # "idle"
      BY <2>1
    <3>2. pc[t] \in Ended
      BY <1>b, <3>1
    <3> QED BY <2>1, <3>2 DEF Ended
  <2>4. \A t, u \in Sends : t < u /\ msgOf'[t] # None /\ msgOf'[u] # None => msgOf'[t] < msgOf'[u]
    <3> TAKE t, u \in Sends
    <3> HAVE t < u /\ msgOf'[t] # None /\ msgOf'[u] # None
    <3>1. CASE t = s
      BY <2>1, <2>2, <3>1, <1>a
    <3>2. CASE t # s /\ u = s
      BY <2>1, <3>2, <1>a
    <3>3. CASE t # s /\ u # s
      BY <1>b, <2>1, <3>3
    <3> QED BY <3>1, <3>2, <3>3
  <2>5. \A i \in DOMAIN order' : msgOf'[order'[i]] = None \/ msgOf'[order'[i]] >= next'
    <3> TAKE i \in DOMAIN order'
    <3>1. i \in DOMAIN order /\ order'[i] = order[i] /\ order[i] \in Sends
      BY <1>a, <2>1
    <3>2. CASE order[i] = s
      BY <1>a, <2>1, <3>1, <3>2
    <3>3. CASE order[i] # s
      BY <1>b, <2>1, <3>1, <3>3
    <3> QED BY <3>2, <3>3
  <2>6. cb'.pc # "idle" /\ next' \in Messages' /\ log'[next'].from = "here" =>
          cb'.temp = log'[next'].of \/ \A i \in DOMAIN order' : order'[i] # log'[next'].of
    BY <1>b, <1>e, <2>1
  <2> HIDE DEF n
  <2> QED BY <2>3, <2>4, <2>5, <2>6 DEF Alone
<1>3. ASSUME MatchEvent PROVE Alone'
  <2>1. /\ UNCHANGED <<pc, msgOf, log, order, next>> /\ Messages' = Messages
        /\ cb'.temp = PendingTempId(next)
    BY <1>3, SameLog DEF MatchEvent, sendVars, matchVars, lineVars
  <2>2. next \in Messages /\ log[next].from = "here" =>
          PendingTempId(next) = log[next].of \/ \A i \in DOMAIN order : order[i] # log[next].of
    BY Matched
  <2> QED BY <1>b, <2>1, <2>2 DEF Alone
<1>4. ASSUME ConsumeEvent PROVE Alone'
  <2>1. /\ cb.pc = "consume" /\ cb'.pc = "idle" /\ next' \in {next, next + 1}
        /\ UNCHANGED <<pc, msgOf, log>>
        /\ order' = IF cb.temp # None THEN RemovePendingTemp(order, cb.temp) ELSE order
    BY <1>4 DEF ConsumeEvent, IdleCb, sendVars, lineVars
  <2>2. \A i \in DOMAIN order' : /\ \E j \in DOMAIN order : order'[i] = order[j]
                                 /\ cb.temp # None => order'[i] # cb.temp
    BY <2>1, QueueFacts
  <2>3. ASSUME NEW i \in DOMAIN order' PROVE msgOf[order'[i]] = None \/ msgOf[order'[i]] >= next'
    <3>1. PICK j \in DOMAIN order : order'[i] = order[j]
      BY <2>2
    <3>2. order[j] \in Sends /\ (msgOf[order[j]] = None \/ msgOf[order[j]] >= next)
      BY <1>a, <1>b
    <3>3. CASE msgOf[order[j]] = next
      <4>1. next \in Messages /\ log[next].from = "here" /\ log[next].of = order[j]
        BY <1>a, <3>2, <3>3 DEF LogInv, None
      <4>2. cb.temp = order[j]
        BY <1>b, <2>1, <4>1
      <4>3. cb.temp # None
        BY <3>2, <4>2, Basics
      <4> QED BY <2>2, <3>1, <4>2, <4>3
    <3>4. CASE msgOf[order[j]] # next
      <4>1. msgOf[order[j]] \in Nat /\ next \in Nat
        BY <1>a, <3>2
      <4>2. msgOf[order[j]] = None \/ msgOf[order[j]] >= next + 1
        BY <3>2, <3>4, <4>1
      <4> QED BY <2>1, <3>1, <3>2, <4>2
    <3> QED BY <3>3, <3>4
  <2> QED BY <1>b, <2>1, <2>3 DEF Alone
<1>5. ASSUME NEW s \in Sends, \/ Prepare(s) \/ SendReply(s) \/ UploadPlain(s) \/ FinishSend(s)
                              \/ ConfirmTempId(s)
      PROVE  Alone'
  <2>1. PICK x \in Stages : pc' = [pc EXCEPT ![s] = x]
    BY <1>5 DEF Prepare, SendReply, UploadPlain, FinishSend, ConfirmTempId, Stages
  <2>2. pc[s] \notin Ended \union {"idle"} /\ UNCHANGED <<order, msgOf, next, cb>>
    BY <1>5 DEF Prepare, SendReply, UploadPlain, FinishSend, ConfirmTempId, Ended, matchVars,
                streamVars
  <2> QED BY <1>c, <2>1, <2>2
<1>6. ASSUME NEW s \in Sends, FailTempId(s) PROVE Alone'
  <2>1. /\ pc' = [pc EXCEPT ![s] = "failed"] /\ "failed" \in Stages
        /\ pc[s] \notin Ended \union {"idle"} /\ UNCHANGED <<msgOf, next, cb>>
    BY <1>6 DEF FailTempId, Stages, Ended, streamVars
  <2>2. \A i \in DOMAIN order' : \E j \in DOMAIN order : order'[i] = order[j]
    BY <1>6, QueueFacts DEF FailTempId
  <2> QED BY <1>c, <2>1, <2>2
<1>7. ASSUME ProcessEvent PROVE Alone'
  <2>1. UNCHANGED <<pc, order, msgOf, next>> /\ cb.pc = "process"
    BY <1>7 DEF ProcessEvent, sendVars, matchVars
  <2>2. cb'.pc # "idle" => cb'.temp = cb.temp
    <3>1. cb' = [cb EXCEPT !.pc = "consume"] \/ cb' = IdleCb
      BY <1>7 DEF ProcessEvent
    <3>2. cb = [pc |-> cb.pc, temp |-> cb.temp]
      BY DEF Types
    <3> QED BY <3>1, <3>2 DEF IdleCb
  <2> QED BY <1>c, <2>1, <2>2
<1>8. ASSUME UNCHANGED <<sendVars, matchVars, streamVars>> PROVE Alone'
  BY <1>8, <1>c DEF sendVars, matchVars, streamVars
<1>9. ASSUME \/ \E m \in seenRpc : MarkChatSeen(m)
             \/ \E o \in bound.senders : OtherMessage(o)
             \/ RunMain \/ FlushCoalesced \/ Reload \/ UNCHANGED vars
      PROVE  UNCHANGED <<sendVars, matchVars, streamVars>>
  BY <1>9 DEF MarkChatSeen, OtherMessage, RunMain, FlushCoalesced, Reload, vars
<1> QED BY <1>1, <1>2, <1>3, <1>4, <1>5, <1>6, <1>7, <1>8, <1>9, StepCases

LEMMA WaitingStep ==
  ASSUME Types, Types', LogInv, LogInv', QueueInv, StreamInv, StreamInv', Alone, Waiting,
         [Next]_vars
  PROVE  Waiting'
<1> SUFFICES ASSUME Undisturbed PROVE Waiting'
  BY BudgetKept DEF Waiting, Undisturbed
<1>a. /\ Sends \subseteq Nat /\ None \notin Sends /\ Len(log) \in Nat /\ DOMAIN log = 1 .. Len(log)
      /\ \A s \in Sends : pc[s] \in Stages /\ msgOf[s] \in Nat /\ msgOf[s] <= Len(log)
      /\ order \in Seq(Sends) /\ Len(order) \in Nat /\ DOMAIN order = 1 .. Len(order)
      /\ next \in 1 .. (Len(log) + 1) /\ next \in Nat
      /\ cb.temp \in Sends \union {None}
  <2>1. /\ order \in Seq(Sends) /\ next \in 1 .. (Len(log) + 1)
        /\ msgOf \in [Sends -> 0 .. Len(log)] /\ \A s \in Sends : pc[s] \in Stages
        /\ cb.temp \in Sends \union {None}
    BY DEF Types
  <2>2. Len(order) \in Nat /\ DOMAIN order = 1 .. Len(order)
    BY <2>1, LenProperties
  <2> QED BY <2>1, <2>2, Basics
<1>b. /\ budget.left["lost"] = 0 /\ budget.left["replays"] = 0
      /\ \A m \in Messages : log[m].from # "phone"
      /\ \A s \in Sends : pc[s] \in {"fail", "failed"} => msgOf[s] = None
      /\ \A s \in Sends : pc[s] \notin {"idle", "failed"} /\ (msgOf[s] = None \/ msgOf[s] >= next)
                          => \E i \in DOMAIN order : order[i] = s
      /\ cb.temp # None => log[next].of = cb.temp
  BY DEF Waiting, SwapsOwnBubble
<1>k. /\ \A m \in DOMAIN log : m \in DOMAIN log' /\ log'[m] = log[m]
      /\ \A m \in Messages' : m <= Len(log) => m \in Messages
  BY LogKept
<1>o. bound.overlap = 1 /\ bound.lost = 0 /\ bound.replays = 0 /\ "phone" \notin bound.senders
  BY DEF Undisturbed
<1>p. bound' = bound /\ budget'.left["lost"] = 0 /\ budget'.left["replays"] = 0
  BY <1>b, BudgetKept
\* What the callback matched stays so while it holds the event.
<1>w. ASSUME UNCHANGED next, cb'.temp \in {None, cb.temp} PROVE SwapsOwnBubble'
  <2>1. cb.temp # None => next \in DOMAIN log
    BY <1>a DEF StreamInv, Types
  <2> QED BY <1>b, <1>k, <1>w, <2>1 DEF SwapsOwnBubble
\* A thread moves, and does not fail with a message LINE took.
<1>c. ASSUME \/ UNCHANGED pc
             \/ \E s \in Sends, x \in Stages \ {"idle", "failed"} :
                  /\ pc[s] \notin {"idle", "failed"} /\ pc' = [pc EXCEPT ![s] = x]
                  /\ x = "fail" => msgOf[s] = None,
             UNCHANGED <<order, msgOf, log, next>>, cb'.temp \in {None, cb.temp}
      PROVE  Waiting'
  <2>1. Messages' = Messages
    BY <1>c, SameLog
  <2>2. CASE UNCHANGED pc
    BY <1>b, <1>c, <1>p, <1>w, <2>1, <2>2 DEF Waiting
  <2>3. ASSUME NEW s \in Sends, NEW x \in Stages \ {"idle", "failed"},
               pc[s] \notin {"idle", "failed"}, pc' = [pc EXCEPT ![s] = x],
               x = "fail" => msgOf[s] = None
        PROVE  Waiting'
    <3>1. \A t \in Sends : pc'[t] = IF t = s THEN x ELSE pc[t]
      BY <2>3 DEF Types
    <3> QED BY <1>b, <1>c, <1>p, <1>w, <2>1, <2>3, <3>1 DEF Waiting
  <2> QED BY <1>c, <2>2, <2>3
<1>1. ASSUME NEW s \in Sends, NEW c \in bound.contents, UserSend(s, c) PROVE Waiting'
  <2>1. /\ pc[s] = "idle" /\ pc'[s] \in {"flow", "load"} /\ \A t \in Sends : t # s => pc'[t] = pc[t]
        /\ UNCHANGED <<log, msgOf, next, cb>> /\ Messages' = Messages
    BY <1>1, SameLog DEF UserSend, Types, lineVars, streamVars
  <2>2. /\ DOMAIN order' = 1 .. (Len(order) + 1) /\ order'[Len(order) + 1] = s
        /\ \A i \in DOMAIN order : order'[i] = order[i]
    BY <1>1, <1>a, AppendProperties DEF UserSend, QueuePendingTemp
  <2>3. /\ Len(order) + 1 \in DOMAIN order'
        /\ \A i \in DOMAIN order : i \in DOMAIN order' /\ order'[i] = order[i]
    BY <1>a, <2>2
  <2>4. \A t \in Sends : pc'[t] \notin {"idle", "failed"} /\ (msgOf'[t] = None \/ msgOf'[t] >= next')
                         => \E i \in DOMAIN order' : order'[i] = t
    <3> TAKE t \in Sends
    <3>1. CASE t = s
      BY <2>2, <2>3, <3>1
    <3>2. CASE t # s
      BY <1>b, <2>1, <2>3, <3>2
    <3> QED BY <3>1, <3>2
  <2> QED BY <1>b, <1>p, <1>w, <2>1, <2>4 DEF Waiting
<1>2. ASSUME NEW s \in Sends, Prepare(s) PROVE Waiting'
  <2>1. PICK x \in Stages \ {"idle", "failed"} : pc' = [pc EXCEPT ![s] = x]
    BY <1>2 DEF Prepare, Stages
  <2>2. pc[s] \notin {"idle", "failed"} /\ msgOf[s] = None
    BY <1>2 DEF Prepare, LogInv, Unposted
  <2>3. UNCHANGED <<order, msgOf, log, next, cb>>
    BY <1>2 DEF Prepare, matchVars, lineVars, streamVars
  <2> QED BY <1>c, <2>1, <2>2, <2>3
<1>3. ASSUME NEW s \in Sends, NEW e \in BOOLEAN, Accept(s, e) PROVE Waiting'
  <2> DEFINE n == Len(log) + 1
  <2>1. /\ pc[s] = "post" /\ msgOf[s] = None /\ UNCHANGED <<order, next, cb>>
        /\ \A t \in Sends : pc'[t] = IF t = s THEN "reply" ELSE pc[t]
        /\ \A t \in Sends : msgOf'[t] = IF t = s THEN n ELSE msgOf[t]
        /\ log' = Append(log, PostedOp(s, e))
    BY <1>3 DEF Accept, Types, matchVars, streamVars, LogInv, Unposted
  <2>2. \A m \in Messages' : log'[m].from # "phone"
    <3>1. /\ log'[n].from = "here" /\ \A m \in Messages' : m \in Messages \/ m = n
      <4>1. log'[n] = PostedOp(s, e) /\ DOMAIN log' = 1 .. n
        BY <2>1, AppendProperties DEF Types
      <4>2. \A m \in Messages' : m <= Len(log) \/ m = n
        BY <1>a, <4>1 DEF Messages
      <4> QED BY <1>k, <4>1, <4>2 DEF PostedOp
    <3>2. \A m \in Messages : log'[m] = log[m]
      BY <1>k DEF Messages
    <3> QED BY <1>b, <3>1, <3>2
  <2>3. \A t \in Sends : pc'[t] \in {"fail", "failed"} => msgOf'[t] = None
    BY <1>b, <2>1
  <2>4. \A t \in Sends : pc'[t] \notin {"idle", "failed"} /\ (msgOf'[t] = None \/ msgOf'[t] >= next')
                         => \E i \in DOMAIN order' : order'[i] = t
    BY <1>b, <2>1
  <2> HIDE DEF n
  <2> QED BY <1>p, <1>w, <2>1, <2>2, <2>3, <2>4 DEF Waiting
<1>4. ASSUME NEW s \in Sends, SendReply(s) \/ FinishSend(s) \/ UploadPlain(s) \/ ConfirmTempId(s)
      PROVE  Waiting'
  <2>1. ~Spend("lost")
    BY <1>b DEF Spend
  <2>2. PICK x \in Stages \ {"idle", "failed", "fail"} : pc' = [pc EXCEPT ![s] = x]
    BY <1>4, <2>1 DEF SendReply, FinishSend, UploadPlain, ConfirmTempId, Stages
  <2>3. pc[s] \notin {"idle", "failed"} /\ UNCHANGED <<order, msgOf, log, next, cb>>
    BY <1>4 DEF SendReply, FinishSend, UploadPlain, ConfirmTempId, matchVars, lineVars, streamVars
  <2> QED BY <1>c, <2>2, <2>3
<1>5. ASSUME NEW s \in Sends, FailTempId(s) PROVE Waiting'
  <2>1. /\ pc[s] = "fail" /\ UNCHANGED <<log, msgOf, next, cb>> /\ Messages' = Messages
        /\ \A t \in Sends : pc'[t] = IF t = s THEN "failed" ELSE pc[t]
    BY <1>5, SameLog DEF FailTempId, Types, lineVars, streamVars
  <2>2. \A j \in DOMAIN order : order[j] # s => \E i \in DOMAIN order' : order'[i] = order[j]
    BY <1>5, QueueFacts DEF FailTempId
  <2>3. \A t \in Sends : pc'[t] \notin {"idle", "failed"} /\ (msgOf'[t] = None \/ msgOf'[t] >= next')
                         => \E i \in DOMAIN order' : order'[i] = t
    <3> TAKE t \in Sends
    <3> HAVE pc'[t] \notin {"idle", "failed"} /\ (msgOf'[t] = None \/ msgOf'[t] >= next')
    <3>1. t # s /\ \E j \in DOMAIN order : order[j] = t
      BY <1>b, <2>1
    <3> QED BY <2>2, <3>1
  <2> QED BY <1>b, <1>p, <1>w, <2>1, <2>3 DEF Waiting
<1>6. ASSUME \/ \E m \in seenRpc : MarkChatSeen(m)
             \/ \E o \in bound.senders : OtherMessage(o)
      PROVE  Waiting'
  <2>1. UNCHANGED <<pc, order, msgOf, next, cb>>
    BY <1>6 DEF MarkChatSeen, OtherMessage, sendVars, matchVars, streamVars
  <2>2. \A m \in Messages' : m \in Messages \/ log'[m].from # "phone"
    <3>1. ASSUME NEW x \in seenRpc, MarkChatSeen(x) PROVE Messages' \subseteq Messages
      <4>1. CASE UNCHANGED log
        BY <4>1, SameLog
      <4>2. CASE log' = Append(log, [type |-> "seen", of |-> x])
        <5>1. [type |-> "seen", of |-> x] \in Op /\ [type |-> "seen", of |-> x].type # "message"
          BY Basics DEF Op, Types
        <5> QED BY <4>2, <5>1, Logs
      <4> QED BY <3>1, <4>1, <4>2 DEF MarkChatSeen
    <3>2. ASSUME NEW o \in bound.senders, OtherMessage(o)
          PROVE  \A m \in Messages' : m \in Messages \/ log'[m].from # "phone"
      <4> DEFINE op == [type |-> "message", from |-> o, of |-> None, sealed |-> TRUE,
                        req |-> None, seq |-> None]
      <4>1. op.from # "phone" /\ log' = Append(log, op)
        BY <1>o, <3>2 DEF OtherMessage
      <4> HIDE DEF op
      <4>2. log'[Len(log) + 1] = op /\ DOMAIN log' = 1 .. (Len(log) + 1)
        <5>1. log' \in Seq(Op) /\ log \in Seq(Op)
          BY DEF Types
        <5>2. Append(log, op)[Len(log) + 1] = op /\ Len(Append(log, op)) = Len(log) + 1
          BY <5>1, AppendProperties
        <5> QED BY <4>1, <5>1, <5>2, LenProperties
      <4> QED BY <1>a, <1>k, <4>1, <4>2 DEF Messages
    <3> QED BY <1>6, <3>1, <3>2
  <2>3. \A m \in Messages' : log'[m].from # "phone"
    <3>1. \A m \in Messages : log'[m] = log[m]
      BY <1>k DEF Messages
    <3> QED BY <1>b, <2>2, <3>1
  <2> QED BY <1>b, <1>p, <1>w, <2>1, <2>3 DEF Waiting
<1>7. ASSUME MatchEvent PROVE Waiting'
  <2>1. /\ UNCHANGED <<pc, msgOf, log, order, next>> /\ Messages' = Messages
        /\ cb'.temp = PendingTempId(next) /\ next \in DOMAIN log
    BY <1>7, <1>a, SameLog DEF MatchEvent, sendVars, matchVars, lineVars
  <2>2. PendingTempId(next) # None => log[next].of = PendingTempId(next)
    <3> SUFFICES ASSUME PendingTempId(next) # None PROVE log[next].of = PendingTempId(next)
      OBVIOUS
    <3>1. next \in Messages
      BY <2>1 DEF PendingTempId, Messages
    <3>2. CASE next \in DOMAIN pending
      <4>1. pending[next] \in Sends /\ msgOf[pending[next]] = next /\ PendingTempId(next) = pending[next]
        BY <3>1, <3>2 DEF LogInv, PendingTempId, Messages
      <4>2. msgOf[pending[next]] # None
        BY <1>a, <2>1, <4>1 DEF None
      <4> QED BY <4>1, <4>2 DEF LogInv
    <3>3. CASE next \notin DOMAIN pending
      <4>1. log[next].from # "peer"
        BY <3>1, <3>3 DEF PendingTempId, FromMe
      <4>2. log[next].from = "here"
        BY <1>b, <3>1, <4>1, Basics DEF Op, Messages
      <4> DEFINE s == log[next].of
      <4>3. s \in Sends /\ msgOf[s] = next /\ next # None
        BY <3>1, <4>2, Basics DEF LogInv
      <4> HIDE DEF s
      <4>4. pc[s] \notin {"idle", "failed"}
        BY <1>b, <4>3 DEF LogInv, Unposted
      <4>5. \E i \in DOMAIN order : order[i] = s
        BY <1>a, <1>b, <4>3, <4>4
      <4> QED BY <1>o, <3>1, <4>2, <4>5, Matched DEF s
    <3> QED BY <3>2, <3>3
  <2> QED BY <1>b, <1>p, <2>1, <2>2 DEF Waiting, SwapsOwnBubble
<1>8. ASSUME ProcessEvent PROVE Waiting'
  <2>1. UNCHANGED <<pc, order, msgOf, log, next>>
    BY <1>8 DEF ProcessEvent, sendVars, matchVars, lineVars
  <2>2. cb'.temp \in {None, cb.temp}
    <3>1. cb' = [cb EXCEPT !.pc = "consume"] \/ cb' = IdleCb
      BY <1>8 DEF ProcessEvent
    <3>2. cb = [pc |-> cb.pc, temp |-> cb.temp]
      BY DEF Types
    <3> QED BY <3>1, <3>2 DEF IdleCb
  <2> QED BY <1>c, <2>1, <2>2
<1>9. ASSUME ConsumeEvent PROVE Waiting'
  <2>1. /\ cb.pc = "consume" /\ cb'.temp = None /\ next' = next + 1
        /\ UNCHANGED <<pc, msgOf, log>> /\ Messages' = Messages
        /\ order' = IF cb.temp # None THEN RemovePendingTemp(order, cb.temp) ELSE order
    <3>1. ~Spend("replays")
      BY <1>b DEF Spend
    <3> QED BY <1>9, <3>1, SameLog DEF ConsumeEvent, IdleCb, sendVars, lineVars
  <2>2. \A j \in DOMAIN order : order[j] # cb.temp => \E i \in DOMAIN order' : order'[i] = order[j]
    BY <2>1, QueueFacts
  <2>3. cb.temp # None => msgOf[cb.temp] = next
    <3> SUFFICES ASSUME cb.temp # None PROVE msgOf[cb.temp] = next
      OBVIOUS
    <3>1. log[next].of = cb.temp /\ cb.temp \in Sends
      BY <1>a, <1>b
    <3>2. next \in Messages
      BY <1>a, <2>1 DEF StreamInv, Messages
    <3> QED BY <1>a, <3>1, <3>2 DEF LogInv
  <2>4. \A t \in Sends : pc'[t] \notin {"idle", "failed"} /\ (msgOf'[t] = None \/ msgOf'[t] >= next')
                         => \E i \in DOMAIN order' : order'[i] = t
    <3> TAKE t \in Sends
    <3> HAVE pc'[t] \notin {"idle", "failed"} /\ (msgOf'[t] = None \/ msgOf'[t] >= next')
    <3>1. msgOf[t] = None \/ msgOf[t] >= next + 1
      BY <2>1
    <3>2. msgOf[t] # next /\ (msgOf[t] = None \/ msgOf[t] >= next)
      BY <1>a, <3>1 DEF None
    <3>3. t # cb.temp
      BY <1>a, <2>3, <3>2
    <3>4. PICK j \in DOMAIN order : order[j] = t
      BY <1>b, <2>1, <3>2
    <3> QED BY <2>2, <3>3, <3>4
  <2> QED BY <1>b, <1>p, <2>1, <2>4 DEF Waiting, SwapsOwnBubble
<1>10. ASSUME UNCHANGED <<sendVars, matchVars, log, streamVars>> PROVE Waiting'
  BY <1>10, <1>c DEF sendVars, matchVars, streamVars
<1>11. ASSUME RunMain \/ FlushCoalesced \/ Reload \/ UNCHANGED vars
       PROVE  UNCHANGED <<sendVars, matchVars, log, streamVars>>
  BY <1>11 DEF RunMain, FlushCoalesced, Reload, vars, lineVars
<1> QED BY <1>1, <1>2, <1>3, <1>4, <1>5, <1>6, <1>7, <1>8, <1>9, <1>10, <1>11, StepCases

-----------------------------------------------------------------------------
(* The theorems.                                                           *)

LEMMA Initial ==
  ASSUME Init
  PROVE  IInv
<1>0. \A S : <<>> \in Seq(S)
  OBVIOUS
<1>1. /\ log = <<>> /\ Len(log) = 0 /\ DOMAIN log = {} /\ Messages = {} /\ Peers = {}
      /\ order = <<>> /\ DOMAIN order = {} /\ pending = NoPending /\ DOMAIN pending = {}
  BY DEF Init, Messages, Peers, NoPending
<1>2. PICK c \in Cases :
        budget = [case |-> c, left |-> [b \in {"others", "lost", "retries", "replays", "reloads"}
                                          |-> c[b]]]
  BY DEF Init
<1>3. c \in CaseType
  BY BoundsAssumption
<1>4. /\ \A s \in Sends : pc[s] = "idle" /\ msgOf[s] = None
      /\ next = 1 /\ cb = [pc |-> "idle", temp |-> None]
  BY DEF Init, IdleCb
<1>5. Types
  <2>1. /\ pc \in [Sends -> Stages]
        /\ content \in [Sends -> {"text", "sticon", "sticker", "image"}]
        /\ sealed \in [Sends -> BOOLEAN]
    BY DEF Init, Stages
  <2>2. snap \in [Sends -> Numbers] /\ session \in Numbers
    BY BoundsAssumption DEF Init, Numbers
  <2>3. /\ msgOf \in [Sends -> 0 .. Len(log)] /\ next \in 1 .. (Len(log) + 1)
    BY <1>1 DEF Init, None
  <2>4. page \in Page(Messages)
    BY <1>0 DEF Init, Page
  <2>5. budget.case \in Cases /\ budget = [case |-> budget.case, left |-> budget.left]
        /\ budget.left \in [{"others", "lost", "retries", "replays", "reloads"} -> Nat]
    BY <1>2, <1>3 DEF CaseType
  <2>6. /\ order \in Seq(Sends) /\ log \in Seq(Op) /\ buf \in Seq(Script(Messages))
        /\ mainq \in Seq([direct : BOOLEAN, js : Script(Messages)])
    BY <1>0 DEF Init
  <2>7. /\ cb \in [pc : {"idle", "process", "consume"}, temp : Sends \union {None}]
        /\ seenRpc \subseteq Messages /\ db \subseteq Messages /\ seen \in Messages \union {None}
    BY <1>4 DEF Init
  <2> QED BY <2>1, <2>2, <2>3, <2>4, <2>5, <2>6, <2>7 DEF Types
<1>6. LogInv
  BY <1>1, <1>4 DEF LogInv, Posted, Unposted
<1>7. QueueInv
  BY <1>1, <1>4 DEF QueueInv, Increasing
<1>8. NumbersInv
  <2>1. Cardinality(Answered) \in Nat /\ Answered \in SUBSET Sends
    BY AnsweredFacts DEF Answered
  <2>2. session.seq = 0 /\ \A s \in Sends : snap[s].seq = 0
    BY DEF Init
  <2> QED BY <2>1, <2>2 DEF NumbersInv
<1>9. StreamInv
  BY <1>1, <1>4 DEF StreamInv
<1>10. Alone
  BY <1>1, <1>4 DEF Alone, Ended
<1>11. Waiting
  <2>1. ASSUME Undisturbed PROVE budget.left["lost"] = 0 /\ budget.left["replays"] = 0
    BY <1>2, <2>1 DEF Undisturbed, bound
  <2> QED BY <1>1, <1>4, <2>1 DEF Waiting, SwapsOwnBubble
<1> QED BY <1>5, <1>6, <1>7, <1>8, <1>9, <1>10, <1>11 DEF IInv

LEMMA Preserved ==
  ASSUME IInv, [Next]_vars
  PROVE  IInv'
<1>1. Types'
  BY TypesStep DEF IInv
<1>2. LogInv'
  BY <1>1, LogStep DEF IInv
<1>3. QueueInv' /\ NumbersInv'
  BY <1>1, QueueStep, NumbersStep DEF IInv
<1>4. StreamInv'
  BY <1>1, StreamStepInv DEF IInv
<1>5. Alone'
  BY <1>1, <1>2, AloneStep DEF IInv
<1>6. Waiting'
  BY <1>1, <1>2, <1>4, WaitingStep DEF IInv
<1> QED BY <1>1, <1>2, <1>3, <1>4, <1>5, <1>6 DEF IInv

\* The inductive invariant holds.
THEOREM Inductive == Spec => []IInv
<1>1. Init => IInv
  BY Initial
<1>2. IInv /\ [Next]_vars => IInv'
  BY Preserved
<1> QED BY <1>1, <1>2, PTL DEF Spec

\* The ids in every table belong to sends and messages that exist, a queued
\* bubble was drawn and is queued once, and the E2EE number never runs past the
\* sends (queuePendingTempId, confirmTempId, sse_event_cb, update_send_state).
THEOREM TypeCorrect == Spec => []TypeOK
<1>1. ASSUME IInv PROVE TypeOK
  <2>1. Types /\ LogInv /\ QueueInv /\ NumbersInv
    BY <1>1 DEF IInv
  <2>2. \A s \in Sends : pc[s] \in Stages
    BY <2>1 DEF Types
  <2>3. session.req \in 0 .. (ReqSeqs - 1) /\ session.seq \in 0 .. MaxSends
    <3>1. session.req \in 0 .. (ReqSeqs - 1) /\ session.seq \in Nat
      BY <2>1 DEF Types, Numbers
    <3>2. Cardinality(Answered) \in Nat /\ Cardinality(Answered) <= MaxSends
      BY AnsweredFacts DEF Answered
    <3>3. session.seq <= Cardinality(Answered)
      BY <2>1 DEF NumbersInv
    <3>4. MaxSends \in Nat
      BY BoundsAssumption
    <3> QED BY <3>1, <3>2, <3>3, <3>4
  <2>4. IsInjective(order)
    <3>1. Len(order) \in Nat /\ DOMAIN order = 1 .. Len(order)
          /\ \A i \in DOMAIN order : order[i] \in Nat
      <4>1. order \in Seq(Sends) /\ Sends \subseteq Nat
        BY <2>1, Basics DEF Types
      <4> QED BY <4>1, LenProperties, ElementOfSeq
    <3>2. \A i, j \in DOMAIN order : i < j => order[i] < order[j]
      BY <2>1 DEF QueueInv, Increasing
    <3>3. \A i, j \in DOMAIN order : order[i] = order[j] => i = j
      <4> TAKE i, j \in DOMAIN order
      <4>1. i < j \/ j < i \/ i = j
        BY <3>1
      <4> QED BY <3>1, <3>2, <4>1
    <3> QED BY <3>3 DEF IsInjective
  <2>5. page.marker \in {None} \union Messages
    BY <2>1 DEF Types, Page
  <2> QED BY <2>1, <2>2, <2>3, <2>4, <2>5 DEF TypeOK, Stages, Types, LogInv, QueueInv
<1> QED BY <1>1, Inductive, PTL

\* Whatever overlaps, fails, is replayed or rendered anew: when the stream has
\* caught up every message LINE took is stored, and every message of the peer
\* has its bubble (enil_account_process_sse_event, coalesceMessageJS,
\* flushCoalescedUI, reloadContent).
THEOREM Delivered == Spec => []NothingLost
<1>1. ASSUME IInv PROVE NothingLost
  <2> SUFFICES ASSUME Quiet
               PROVE  db = Messages /\ \A m \in Messages : log[m].from = "peer" => HasRow(Rows, m)
    BY DEF NothingLost
  <2>1. Types /\ StreamInv
    BY <1>1 DEF IInv
  <2>2. \A m \in Messages : m < next
    <3>1. Messages \subseteq 1 .. Len(log) /\ Len(log) \in Nat /\ next \in Nat
      BY SMTT(30), <2>1, Basics DEF Types
    <3> QED BY <3>1 DEF Quiet
  <2>3. db = Messages
    BY <2>1, <2>2 DEF StreamInv, Types
  <2>4. ASSUME NEW m \in Messages, log[m].from = "peer" PROVE HasRow(Rows, m)
    <3>1. OnItsWay(m)
      BY <2>1, <2>2, <2>4 DEF StreamInv, Peers
    <3>2. DOMAIN buf = {} /\ DOMAIN mainq = {}
      BY DEF Quiet
    <3> QED BY <3>1, <3>2 DEF OnItsWay, Rows
  <2> QED BY <2>3, <2>4
<1> QED BY <1>1, Inductive, PTL

\* While sends do not overlap, nothing fails after LINE took a message, no event
\* is delivered twice and nobody else writes as the user, an echo takes the
\* bubble of the send it echoes (pending_temp_id_for_sse_message).
THEOREM EchoesMatch == Spec => []SwapsOwnBubble
<1>1. ASSUME IInv PROVE SwapsOwnBubble
  BY <1>1 DEF IInv, Waiting, SwapsOwnBubble
<1> QED BY <1>1, Inductive, PTL


-----------------------------------------------------------------------------
(* The request numbers.                                                    *)

\* While a send runs, every other one has ended or not begun.
LEMMA Single ==
  ASSUME Types, Alone, bound.overlap = 1, NEW s \in Sends, pc[s] \notin Ended \union {"idle"},
         NEW t \in Sends, t # s
  PROVE  pc[t] \in Ended \union {"idle"}
<1>1. s < t \/ t < s
  BY DEF Sends
<1> QED BY <1>1 DEF Alone, Ended

LEMMA SmallModulus ==
  ASSUME NEW n \in Nat, NEW x \in Nat, x < n
  PROVE  x % n = x
OBVIOUS

\* The number a running send takes is above all that were taken before.
LEMMA NextGrows ==
  ASSUME NoWrap, Types, NEW s \in Sends \ Answered,
         \/ session.req <= FirstReqSeq + Cardinality(Answered)
         \/ session.req <= Clock + Cardinality(Answered)
  PROVE  LET n == NextReqSeq(session.req) IN
         /\ n > session.req
         /\ \/ n <= FirstReqSeq + (Cardinality(Answered) + 1)
            \/ n <= Clock + (Cardinality(Answered) + 1)
<1> DEFINE c == Cardinality(Answered)
           r == session.req
<1>1. c \in Nat /\ c < MaxSends
  <2>1. Answered \in SUBSET Sends /\ Answered # Sends
    BY DEF Answered
  <2> QED BY <2>1, AnsweredFacts, BoundsAssumption
<1>2. r \in Nat /\ {FirstReqSeq, Clock, MaxSends, ReqSeqs} \subseteq Nat
  BY BoundsAssumption DEF Types, Numbers
<1> HIDE DEF c, r
<1>3. r <= FirstReqSeq + c \/ r <= Clock + c
  BY DEF c, r
<1>4. CASE r = 0
  <2>1. NextReqSeq(r) = Clock
    BY <1>4 DEF NextReqSeq
  <2> QED BY <1>1, <1>2, <1>4, <2>1 DEF NoWrap, c, r
<1>5. CASE r # 0
  <2>1. r + 1 < ReqSeqs /\ r + 1 \in Nat
    BY <1>1, <1>2, <1>3 DEF NoWrap
  <2>2. (r + 1) % ReqSeqs = r + 1
    BY <1>2, <2>1, SmallModulus
  <2>3. NextReqSeq(r) = r + 1
    BY <1>5, <2>2 DEF NextReqSeq
  <2>4. r + 1 > r /\ (r + 1 <= FirstReqSeq + (c + 1) \/ r + 1 <= Clock + (c + 1))
    BY <1>1, <1>2, <1>3
  <2> QED BY <2>3, <2>4 DEF c, r
<1> QED BY <1>4, <1>5

LEMMA NumberStep ==
  ASSUME NoWrap, Types, Types', LogInv, LogInv', Alone, NumberInv, [Next]_vars
  PROVE  NumberInv'
<1> SUFFICES ASSUME bound.overlap = 1, bound.lost = 0 PROVE NumberInv'
  BY BudgetKept DEF NumberInv
<1> DEFINE c == Cardinality(Answered)
           Below(r, k) == r <= FirstReqSeq + k \/ r <= Clock + k
<1>a. /\ budget.left["lost"] = 0 /\ Below(session.req, c)
      /\ \A s \in Sends : pc[s] \in {"upload", "post", "reply"} => snap[s] = session
      /\ \A s \in Sends : pc[s] = "reply" =>
           OpOf(s).req = NextReqSeq(session.req) /\ OpOf(s).seq = session.seq
      /\ \A s \in Sends : msgOf[s] # None /\ pc[s] # "reply" =>
           /\ 0 < OpOf(s).req /\ OpOf(s).req <= session.req
           /\ UsesSequence(OpOf(s)) => OpOf(s).seq < session.seq
      /\ \A s, t \in Sends : s < t /\ msgOf[s] # None /\ msgOf[t] # None =>
           /\ OpOf(s).req # OpOf(t).req
           /\ UsesSequence(OpOf(s)) /\ UsesSequence(OpOf(t)) => OpOf(s).seq # OpOf(t).seq
  BY DEF NumberInv
<1>b. bound' = bound /\ budget'.left["lost"] = 0 /\ \A op : UsesSequence(op)' <=> UsesSequence(op)
  BY <1>a, BudgetKept DEF UsesSequence, IsGroup
<1>c. /\ Sends \subseteq Nat /\ Answered \in SUBSET Sends /\ Answered' \in SUBSET Sends
      /\ c \in Nat /\ c' \in Nat /\ (Answered \subseteq Answered' => c <= c')
      /\ {FirstReqSeq, Clock} \subseteq Nat
      /\ session.req \in Nat /\ session'.req \in Nat /\ session.seq \in Nat
      /\ \A s \in Sends : pc[s] \in Stages
  <2>1. Answered \in SUBSET Sends /\ Answered' \in SUBSET Sends
    BY DEF Answered
  <2>2. c \in Nat /\ c' \in Nat /\ (Answered \subseteq Answered' => c <= c')
    BY <2>1, AnsweredFacts
  <2>3. session.req \in Nat /\ session'.req \in Nat /\ session.seq \in Nat
    BY BoundsAssumption DEF Types, Numbers
  <2> QED BY <2>1, <2>2, <2>3, Basics, BoundsAssumption DEF Types
\* What LINE has of a message stays.
<1>k. ASSUME NEW s \in Sends, msgOf[s] # None, msgOf'[s] = msgOf[s]
      PROVE  OpOf(s)' = OpOf(s) /\ OpOf(s).req \in Nat /\ OpOf(s).seq \in Nat
  <2>1. msgOf[s] \in Messages /\ Messages \subseteq DOMAIN log
    BY <1>k DEF LogInv, Messages
  <2>2. log[msgOf[s]] \in Op /\ log[msgOf[s]].type = "message"
    BY <2>1, Basics DEF Messages
  <2>3. log[msgOf[s]].req \in Nat /\ log[msgOf[s]].seq \in Nat
    BY <2>2 DEF Op
  <2> QED BY <1>k, <2>1, <2>3, LogKept DEF OpOf
<1> HIDE DEF c
\* A step that takes no number.
<1>q. ASSUME UNCHANGED <<msgOf, session>>, Answered \subseteq Answered',
             \A s \in Sends : pc'[s] \in {"upload", "post", "reply"} => snap'[s] = session,
             \A s \in Sends : pc'[s] = "reply" <=> pc[s] = "reply"
      PROVE  NumberInv'
  <2>1. Below(session'.req, c')
    BY <1>a, <1>c, <1>q
  <2>2. \A s \in Sends : msgOf[s] # None => OpOf(s)' = OpOf(s)
    BY <1>k, <1>q
  <2>3. \A s \in Sends : pc[s] = "reply" => msgOf[s] # None
    BY DEF LogInv, Posted
  <2>4. \A s \in Sends : pc'[s] = "reply" =>
          OpOf(s)'.req = NextReqSeq(session'.req) /\ OpOf(s)'.seq = session'.seq
    BY <1>a, <1>q, <2>2, <2>3
  <2>5. \A s \in Sends : msgOf'[s] # None /\ pc'[s] # "reply" =>
          /\ 0 < OpOf(s)'.req /\ OpOf(s)'.req <= session'.req
          /\ UsesSequence(OpOf(s))' => OpOf(s)'.seq < session'.seq
    BY <1>a, <1>b, <1>q, <2>2
  <2>6. \A s, t \in Sends : s < t /\ msgOf'[s] # None /\ msgOf'[t] # None =>
          /\ OpOf(s)'.req # OpOf(t)'.req
          /\ UsesSequence(OpOf(s))' /\ UsesSequence(OpOf(t))' => OpOf(s)'.seq # OpOf(t)'.seq
    BY <1>a, <1>b, <1>q, <2>2
  <2> QED BY <1>b, <1>q, <2>1, <2>4, <2>5, <2>6 DEF NumberInv, c
<1>1. ASSUME NEW s \in Sends, NEW x \in Stages, pc' = [pc EXCEPT ![s] = x],
             pc[s] # "reply" /\ x # "reply", s \in Answered => x \notin Unposted,
             UNCHANGED <<msgOf, session>>,
             \/ UNCHANGED snap /\ (x \in {"upload", "post"} => pc[s] \in {"upload", "post"})
             \/ snap' = [snap EXCEPT ![s] = session]
      PROVE  NumberInv'
  <2>1. \A t \in Sends : pc'[t] = IF t = s THEN x ELSE pc[t]
    BY <1>1 DEF Types
  <2>2. Answered \subseteq Answered'
    BY <1>1, <2>1 DEF Answered
  <2>3. \A t \in Sends : pc'[t] \in {"upload", "post", "reply"} => snap'[t] = session
    <3>1. CASE UNCHANGED snap /\ (x \in {"upload", "post"} => pc[s] \in {"upload", "post"})
      BY <1>a, <1>1, <2>1, <3>1
    <3>2. CASE snap' = [snap EXCEPT ![s] = session]
      <4>1. \A t \in Sends : snap'[t] = IF t = s THEN session ELSE snap[t]
        BY <3>2 DEF Types
      <4> QED BY <1>a, <1>1, <2>1, <4>1
    <3> QED BY <1>1, <3>1, <3>2
  <2> QED BY <1>1, <1>q, <2>1, <2>2, <2>3
<1>2. ASSUME NEW s \in Sends, NEW c1 \in bound.contents, UserSend(s, c1) PROVE NumberInv'
  <2>1. PICK x \in {"flow", "load"} : pc' = [pc EXCEPT ![s] = x]
    BY <1>2 DEF UserSend
  <2>2. pc[s] = "idle" /\ UNCHANGED <<snap, msgOf, session>>
    BY <1>2 DEF UserSend
  <2> QED BY <1>1, <2>1, <2>2 DEF Answered, Unposted, Stages
<1>3. ASSUME NEW s \in Sends, Prepare(s) PROVE NumberInv'
  <2>1. PICK x \in {"load", "upload", "post", "fail"} : pc' = [pc EXCEPT ![s] = x]
    BY <1>3 DEF Prepare
  <2>2. /\ pc[s] \in {"flow", "load", "upload", "post"} /\ UNCHANGED <<msgOf, session>>
        /\ \/ UNCHANGED snap /\ (x \in {"upload", "post"} => pc[s] \in {"upload", "post"})
           \/ snap' = [snap EXCEPT ![s] = session]
    <3>1. pc'[s] = x
      BY <2>1 DEF Types
    <3>2. \A y : pc' = [pc EXCEPT ![s] = y] => x = y
      BY <3>1 DEF Types
    <3> QED BY <1>3, <3>2 DEF Prepare
  <2> QED BY <1>1, <2>1, <2>2 DEF Answered, Unposted, Stages
<1>4. ASSUME NEW s \in Sends, NEW e \in BOOLEAN, Accept(s, e) PROVE NumberInv'
  <2> DEFINE n == Len(log) + 1
             op == PostedOp(s, e)
  <2>1. /\ \A t \in Sends : pc'[t] = IF t = s THEN "reply" ELSE pc[t]
        /\ \A t \in Sends : msgOf'[t] = IF t = s THEN n ELSE msgOf[t]
        /\ pc[s] = "post" /\ msgOf[s] = None /\ UNCHANGED <<snap, session>>
    BY <1>4 DEF Accept, Types, LogInv, Unposted
  <2>2. OpOf(s)' = op /\ op.req = NextReqSeq(session.req) /\ op.seq = session.seq
    <3>1. log'[n] = op
      BY <1>4, AppendProperties DEF Accept, Types
    <3>2. snap[s] = session
      BY <1>a, <2>1
    <3> QED BY <2>1, <3>1, <3>2 DEF OpOf, PostedOp
  <2>3. /\ s \notin Answered /\ Answered' = Answered
        /\ op.req > session.req
    <3>1. s \in Sends \ Answered /\ Answered' = Answered
      BY <2>1 DEF Answered, Unposted
    <3> QED BY <1>a, <2>2, <3>1, NextGrows DEF c
  <2>4. \A t \in Sends \ {s} : pc[t] \in Ended \union {"idle"}
    BY <2>1, Single DEF Ended
  <2>5. \A t \in Sends \ {s} : msgOf[t] # None =>
          OpOf(t)' = OpOf(t) /\ OpOf(t).req \in Nat /\ OpOf(t).seq \in Nat
    BY <1>k, <2>1
  <2> HIDE DEF op, n
  \* The other numbers are all smaller.
  <2>6. \A t \in Sends \ {s} : msgOf'[t] # None =>
          /\ 0 < OpOf(t)'.req /\ OpOf(t)'.req <= session.req /\ OpOf(t)'.req < op.req
          /\ UsesSequence(OpOf(t))' => OpOf(t)'.seq < session.seq
    <3> SUFFICES ASSUME NEW t \in Sends \ {s}, msgOf'[t] # None
                 PROVE  /\ 0 < OpOf(t)'.req /\ OpOf(t)'.req <= session.req
                        /\ OpOf(t)'.req < op.req
                        /\ UsesSequence(OpOf(t))' => OpOf(t)'.seq < session.seq
      OBVIOUS
    <3>1. msgOf[t] # None /\ pc[t] # "reply"
      BY <2>1, <2>4 DEF Ended
    <3>2. /\ 0 < OpOf(t).req /\ OpOf(t).req <= session.req
          /\ UsesSequence(OpOf(t)) => OpOf(t).seq < session.seq
      BY <1>a, <3>1
    <3>3. op.req \in Nat
      <4>1. session.req \in 0 .. (ReqSeqs - 1)
        BY DEF Types, Numbers
      <4>2. NextReqSeq(session.req) \in 0 .. (ReqSeqs - 1)
        BY <4>1, NextReqSeqType
      <4> QED BY <2>2, <4>2
    <3>4. OpOf(t)' = OpOf(t) /\ OpOf(t).req \in Nat
      BY <2>5, <3>1
    <3>5. OpOf(t)'.req <= session.req /\ OpOf(t)'.req < op.req
      BY <1>c, <2>3, <3>2, <3>3, <3>4
    <3> QED BY <1>b, <3>2, <3>4, <3>5
  <2>7. \A t, u \in Sends : t < u /\ msgOf'[t] # None /\ msgOf'[u] # None =>
          /\ OpOf(t)'.req # OpOf(u)'.req
          /\ UsesSequence(OpOf(t))' /\ UsesSequence(OpOf(u))' => OpOf(t)'.seq # OpOf(u)'.seq
    <3> SUFFICES ASSUME NEW t \in Sends, NEW u \in Sends, t < u,
                        msgOf'[t] # None, msgOf'[u] # None
                 PROVE  /\ OpOf(t)'.req # OpOf(u)'.req
                        /\ UsesSequence(OpOf(t))' /\ UsesSequence(OpOf(u))' =>
                             OpOf(t)'.seq # OpOf(u)'.seq
      OBVIOUS
    <3>1. CASE t # s /\ u # s
      BY <1>a, <1>b, <2>1, <2>5, <3>1
    <3>2. CASE t = s
      <4>1. u # s
        BY <1>c, <3>2
      <4>2. OpOf(u)'.req \in Nat /\ OpOf(u)'.seq \in Nat
        BY <2>1, <2>5, <4>1
      <4> QED BY <1>c, <2>2, <2>6, <3>2, <4>1, <4>2
    <3>3. CASE u = s
      <4>1. t # s
        BY <1>c, <3>3
      <4>2. OpOf(t)'.req \in Nat /\ OpOf(t)'.seq \in Nat
        BY <2>1, <2>5, <4>1
      <4> QED BY <1>c, <2>2, <2>6, <3>3, <4>1, <4>2
    <3> QED BY <3>1, <3>2, <3>3
  <2>8. \A t \in Sends : pc'[t] \in {"upload", "post", "reply"} => snap'[t] = session'
    BY <1>a, <2>1
  <2>9. /\ \A t \in Sends : pc'[t] = "reply" =>
             OpOf(t)'.req = NextReqSeq(session'.req) /\ OpOf(t)'.seq = session'.seq
        /\ Below(session'.req, c')
    BY <1>a, <2>1, <2>2, <2>3, <2>4 DEF Ended, c
  <2> QED BY <1>b, <2>1, <2>6, <2>7, <2>8, <2>9 DEF NumberInv, c
<1>5. ASSUME NEW s \in Sends, SendReply(s) PROVE NumberInv'
  <2>1. ~Spend("lost")
    BY <1>a DEF Spend
  <2>2. PICK x \in {"media", "store"} : pc' = [pc EXCEPT ![s] = x]
    BY <1>5, <2>1 DEF SendReply
  <2>3. /\ \A t \in Sends : pc'[t] = IF t = s THEN x ELSE pc[t]
        /\ pc[s] = "reply" /\ UNCHANGED <<snap, msgOf>>
        /\ session' = UpdateSendState(s)
    BY <1>5, <2>1, <2>2 DEF SendReply, Types
  <2>4. /\ snap[s] = session /\ msgOf[s] # None
        /\ OpOf(s).req = NextReqSeq(session.req) /\ OpOf(s).seq = session.seq
    BY <1>a, <2>3 DEF LogInv, Posted
  <2>5. \A t \in Sends \ {s} : pc[t] \in Ended \union {"idle"}
    BY <2>3, Single DEF Ended
  <2>6. s \in Sends \ Answered /\ c' = c + 1
    <3>1. Answered' = Answered \union {s} /\ s \notin Answered
      BY <2>3 DEF Answered, Unposted
    <3>2. IsFiniteSet(Answered)
      <4>1. MaxSends \in Nat
        BY BoundsAssumption
      <4>2. IsFiniteSet(1 .. MaxSends)
        BY <4>1, FS_Interval
      <4> QED BY <1>c, <4>2, FS_Subset DEF Sends
    <3> QED BY <3>1, <3>2, FS_AddElement DEF c
  <2>7. session'.req > session.req /\ Below(session'.req, c') /\ session'.req = OpOf(s).req
    <3>1. session'.req = NextReqSeq(session.req)
      BY <2>3, <2>4 DEF UpdateSendState
    <3> QED BY <1>a, <2>4, <2>6, <3>1, NextGrows DEF c
  <2>8. /\ session'.seq = IF UsesSequence(OpOf(s)) THEN session.seq + 1 ELSE session.seq
        /\ session'.seq >= session.seq
    BY <1>c, <2>3, <2>4 DEF UpdateSendState, OpOf
  <2>9. \A t \in Sends : msgOf[t] # None =>
          OpOf(t)' = OpOf(t) /\ OpOf(t).req \in Nat /\ OpOf(t).seq \in Nat
    BY <1>k, <2>3
  <2>10. \A t \in Sends : msgOf'[t] # None =>
           /\ 0 < OpOf(t)'.req /\ OpOf(t)'.req <= session'.req
           /\ UsesSequence(OpOf(t))' => OpOf(t)'.seq < session'.seq
    <3> SUFFICES ASSUME NEW t \in Sends, msgOf'[t] # None
                 PROVE  /\ 0 < OpOf(t)'.req /\ OpOf(t)'.req <= session'.req
                        /\ UsesSequence(OpOf(t))' => OpOf(t)'.seq < session'.seq
      OBVIOUS
    <3>1. msgOf[t] # None /\ OpOf(t)' = OpOf(t)
      BY <2>3, <2>9
    <3>2. CASE t = s
      BY <1>b, <1>c, <2>4, <2>7, <2>8, <3>1, <3>2
    <3>3. CASE t # s
      <4>1. pc[t] # "reply"
        BY <2>5, <3>3 DEF Ended
      <4>2. /\ 0 < OpOf(t).req /\ OpOf(t).req <= session.req
            /\ UsesSequence(OpOf(t)) => OpOf(t).seq < session.seq
        BY <1>a, <3>1, <4>1
      <4>3. session'.seq \in Nat
        BY <1>c, <2>8
      <4> QED BY <1>b, <1>c, <2>7, <2>8, <2>9, <3>1, <4>2, <4>3
    <3> QED BY <3>2, <3>3
  <2>11. \A t, u \in Sends : t < u /\ msgOf'[t] # None /\ msgOf'[u] # None =>
           /\ OpOf(t)'.req # OpOf(u)'.req
           /\ UsesSequence(OpOf(t))' /\ UsesSequence(OpOf(u))' => OpOf(t)'.seq # OpOf(u)'.seq
    BY <1>a, <1>b, <2>3, <2>9
  <2>12. \A t \in Sends : pc'[t] \notin {"upload", "post", "reply"}
    BY <2>3, <2>5 DEF Ended
  <2> QED BY <1>b, <2>7, <2>10, <2>11, <2>12 DEF NumberInv, c
<1>6. ASSUME NEW s \in Sends, \/ UploadPlain(s) \/ FinishSend(s) \/ ConfirmTempId(s)
                              \/ FailTempId(s)
      PROVE  NumberInv'
  <2>1. PICK x \in {"store", "confirm", "fail", "done", "failed"} : pc' = [pc EXCEPT ![s] = x]
    BY <1>6 DEF UploadPlain, FinishSend, ConfirmTempId, FailTempId
  <2>2. pc[s] \in {"media", "store", "confirm", "fail"} /\ UNCHANGED <<snap, msgOf, session>>
    BY <1>6 DEF UploadPlain, FinishSend, ConfirmTempId, FailTempId
  <2> QED BY <1>1, <2>1, <2>2 DEF Unposted, Stages
<1>7. ASSUME UNCHANGED sendVars PROVE NumberInv'
  <2>1. Answered' = Answered /\ UNCHANGED <<pc, snap, msgOf, session>>
    BY <1>7 DEF sendVars, Answered
  <2> QED BY <1>a, <1>q, <2>1
<1>8. ASSUME \/ \E m \in seenRpc : MarkChatSeen(m)
             \/ \E o \in bound.senders : OtherMessage(o)
             \/ MatchEvent \/ ProcessEvent \/ ConsumeEvent \/ RunMain \/ FlushCoalesced \/ Reload
             \/ UNCHANGED vars
      PROVE  UNCHANGED sendVars
  BY <1>8 DEF MarkChatSeen, OtherMessage, MatchEvent, ProcessEvent, ConsumeEvent, RunMain,
              FlushCoalesced, Reload, vars
<1> QED BY <1>2, <1>3, <1>4, <1>5, <1>6, <1>7, <1>8, StepCases

LEMMA NumberInitial ==
  ASSUME Init
  PROVE  NumberInv
<1>1. /\ \A s \in Sends : pc[s] = "idle" /\ msgOf[s] = None
      /\ session.req = FirstReqSeq /\ FirstReqSeq \in Nat
  BY BoundsAssumption DEF Init
<1>2. bound.lost = 0 => budget.left["lost"] = 0
  BY DEF Init, bound
<1>3. Cardinality(Answered) \in Nat
  BY AnsweredFacts DEF Answered
<1> QED BY <1>1, <1>2, <1>3 DEF NumberInv

\* While sends do not overlap, none is lost and the sequence does not wrap
\* around, no two messages that LINE took carry one request number, and no two
\* encrypted for the same peer key one E2EE sequence number: each send loads the
\* numbers its predecessor saved (update_send_state, next_req_seq,
\* enil_session_save).
THEOREM NoNumberTwice == ASSUME NoWrap PROVE Spec => []FreshSequence
<1>1. Init => IInv /\ NumberInv
  BY Initial, NumberInitial
<1>2. IInv /\ NumberInv /\ [Next]_vars => (IInv /\ NumberInv)'
  <2> SUFFICES ASSUME IInv, NumberInv, [Next]_vars PROVE IInv' /\ NumberInv'
    OBVIOUS
  <2>1. IInv'
    BY Preserved
  <2>2. NumberInv'
    BY <2>1, NumberStep DEF IInv
  <2> QED BY <2>1, <2>2
<1>3. IInv /\ NumberInv => FreshSequence
  BY DEF NumberInv, FreshSequence, OpOf
<1> QED BY <1>1, <1>2, <1>3, PTL DEF Spec
=============================================================================
