------------------------ MODULE RouteDiscoveryProofs ------------------------
(***************************************************************************)
(* RouteDiscovery for every mesh, every set of messages, every size of the *)
(* queues and every width of the clock: a pending message is sent at most  *)
(* once and in time, the queue counts what it holds, and a route claims no *)
(* fewer hops than the mesh has and leads to a node that knew the way.     *)
(***************************************************************************)
EXTENDS RouteDiscovery, BasicProofs

-----------------------------------------------------------------------------
(***************************************************************************)
(* Queues of frames.                                                       *)
(***************************************************************************)

\* Queues of at most TxDepth frames of S.
Queue(S) == {q \in Seq(S) : Len(q) <= TxDepth}

LEMMA SeqGrows ==
  ASSUME NEW S, NEW T, S \subseteq T, NEW q \in Seq(S)
  PROVE  q \in Seq(T)
  OBVIOUS

LEMMA PushQueue ==
  ASSUME NEW S, NEW q \in Queue(S), NEW f \in S
  PROVE  TryPush(q, f) \in Queue(S)
<1>1. CASE Len(q) < TxDepth
  <2>1. Append(q, f) \in Seq(S) /\ Len(Append(q, f)) = Len(q) + 1
    BY DEF Queue
  <2>. QED  BY <1>1, <2>1, LimitsAssumption DEF Queue, TryPush
<1>2. CASE ~(Len(q) < TxDepth)
  BY <1>2 DEF TryPush
<1>. QED  BY <1>1, <1>2

LEMMA TailSeq ==
  ASSUME NEW S, NEW q \in Seq(S), q # <<>>
  PROVE  Head(q) \in S /\ Tail(q) \in Seq(S) /\ Len(Tail(q)) = Len(q) - 1
  OBVIOUS

LEMMA SlotsFinite == IsFiniteSet(Slots) /\ Cardinality(Slots) = PendingSize
  BY FS_Interval, LimitsAssumption DEF Slots

\* The fold of a drain pushes one frame of each slot it sends.
LEMMA SendingQueue ==
  ASSUME NEW n, NEW d, NEW next, NEW S, NEW q \in Queue(S),
         \A i \in Sendable(n, d) : Unicast(pend[n][i].msg, next, pend[n][i].pid) \in S
  PROVE  Sending(n, d, next, q) \in Queue(S)
<1>. DEFINE V == Queue(S)
            U(i) == Unicast(pend[n][i].msg, next, pend[n][i].pid)
            Step(i, t) == IF i \in Sendable(n, d) THEN TryPush(t, U(i)) ELSE t
            pick == [s \in SUBSET Slots |-> Max(s)]
            step == [i \in Slots |-> [t \in V |-> Step(i, t)]]
            order == [i \in Slots |-> i]
            Fold(F) == F = [s \in SUBSET DOMAIN order |->
                              IF s = {} THEN q ELSE Step(order[Max(s)], F[s \ {Max(s)}])]
<1>1. \A i \in Slots, t \in V : Step(i, t) \in V
  <2>. HIDE DEF U
  <2>. QED  BY PushQueue DEF U
<1>2. \A s \in (SUBSET Slots) \ {{}} : Max(s) \in s
  <2>. SUFFICES ASSUME NEW s \in SUBSET Slots, s # {} PROVE Max(s) \in s
    OBVIOUS
  <2>1. PendingSize \in Nat /\ s \subseteq 0 .. PendingSize
    BY LimitsAssumption DEF Slots
  <2>2. \E x \in s : \A y \in s : x >= y
    BY <2>1, GreatestMember
  <2>. QED  BY <2>2 DEF Max
<1>. HIDE DEF V, U, Step
<1>3. Picks(pick, Slots)
  BY <1>2 DEF Picks
<1>4. \A x \in Slots, v \in V : step[x][v] \in V
  BY <1>1
<1>5. DOMAIN order = Slots /\ \A i \in Slots : order[i] = i
  OBVIOUS
<1>6. \E F : Fold(F)
  <2>1. PICK F : F = [s \in SUBSET Slots |-> F[s]] /\ IsFold(F, Slots, q, pick, step)
    <3>. HIDE DEF pick, step
    <3>. QED  BY <1>3, SlotsFinite, FoldExists
  <2>2. \A s \in SUBSET Slots : F[s] \in V
    <3>. HIDE DEF pick, step
    <3>1. q \in V
      BY DEF V
    <3>. QED  BY <1>3, <1>4, <2>1, <3>1, SlotsFinite, FoldType
  <2>3. ASSUME NEW s \in SUBSET Slots
        PROVE  F[s] = IF s = {} THEN q ELSE Step(order[Max(s)], F[s \ {Max(s)}])
    BY <1>2, <1>5, <2>1, <2>2 DEF IsFold
  <2>. DEFINE W(s) == IF s = {} THEN q ELSE Step(order[Max(s)], F[s \ {Max(s)}])
  <2>4. [s \in SUBSET Slots |-> F[s]] = [s \in SUBSET Slots |-> W(s)]
    BY <2>3
  <2>5. SUBSET Slots = SUBSET DOMAIN order
    BY <1>5
  <2>6. Fold(F)
    <3>. HIDE DEF order, W
    <3>1. F = [s \in SUBSET DOMAIN order |-> W(s)]
      BY <2>1, <2>4, <2>5
    <3>. QED  BY <3>1 DEF W
  <2>. HIDE DEF Fold
  <2>. QED  BY <2>6
<1>7. ASSUME NEW F, Fold(F)
      PROVE  F[Slots] \in V
  <2>. DEFINE Bad == {s \in SUBSET Slots : F[s] \notin V}
  <2>. SUFFICES ASSUME Bad # {} PROVE FALSE
    OBVIOUS
  <2>1. PICK t \in Bad : \A u \in Bad : u \subseteq t => u = t
    <3>1. Bad \subseteq SUBSET Slots
      OBVIOUS
    <3>. HIDE DEF Bad
    <3>. QED  BY <3>1, SlotsFinite, MinimalSubset
  <2>2. t \in SUBSET Slots /\ F[t] \notin V
    BY <2>1
  <2>3. F[t] = IF t = {} THEN q ELSE Step(order[Max(t)], F[t \ {Max(t)}])
    BY <1>5, <1>7, <2>2
  <2>4. t # {} /\ Max(t) \in t /\ order[Max(t)] = Max(t)
    BY <1>2, <1>5, <2>2, <2>3 DEF V
  <2>5. F[t \ {Max(t)}] \in V
    BY <2>1, <2>2, <2>4
  <2>. QED  BY <1>1, <2>2, <2>3, <2>4, <2>5
<1>8. Sending(n, d, next, q) = (CHOOSE F : Fold(F))[Slots]
  <2>1. Sending(n, d, next, q) = (CHOOSE F : Fold(F))[DOMAIN order]
    BY DEF Sending, FoldLeft, MapThenFoldSet, Step, U
  <2>. QED  BY <1>5, <2>1
<1>. HIDE DEF Fold
<1>. QED  BY <1>6, <1>7, <1>8 DEF V

-----------------------------------------------------------------------------
(***************************************************************************)
(* The pending queue: a message waits in slots of its source only, all for *)
(* its destination, was never sent while it waits, and is not older than   *)
(* its slot says.                                                          *)
(***************************************************************************)
PendType ==
  /\ pend \in [Node -> [Slots -> Entry]]
  /\ count \in [Node -> 0 .. PendingSize]
  /\ ctr \in [Node -> Nat]
  /\ now \in Clock
  /\ sent \in SUBSET Msgs
  /\ waited \in [Msgs -> 0 .. PendingExpiry + 1]
  /\ put \in [Msgs -> Nat]

WaitsTrue(n, i) ==
  /\ pend[n][i].msg \in sent
  /\ Src[pend[n][i].msg] = n
  /\ Dst[pend[n][i].msg] = pend[n][i].dst
  /\ put[pend[n][i].msg] = 0
  /\ waited[pend[n][i].msg] <= Age(n, i)

PendTrue == \A n \in Node : \A i \in Used(n) : WaitsTrue(n, i)

UnsentTrue == \A m \in Msgs \ sent : put[m] = 0 /\ waited[m] = 0

PendInv == PendType /\ PendTrue /\ UnsentTrue /\ SentOnce

\* The steps that leave the pending queue alone.
PendRests ==
  /\ UNCHANGED <<pend, count, now, sent, waited, put>>
  /\ ctr' \in [Node -> Nat]

LEMMA NextPend ==
  ASSUME PendType, [Next]_vars
  PROVE  \/ PendRests
         \/ \E m \in Msgs : \E next : SubmitVia(m, next)
         \/ \E m \in Msgs : SubmitPending(m)
         \/ \E n \in Node, ok, fwd \in BOOLEAN : ReceiveRpl(n, ok, fwd)
         \/ Advance
<1>1. ASSUME NEW n \in Node, NEW fwd \in BOOLEAN, ReceiveData(n, fwd)
      PROVE  PendRests
  BY <1>1 DEF ReceiveData, PendRests, PendType, queues
<1>2. ASSUME NEW n \in Node, NEW good \in BOOLEAN, NEW fwd \in BOOLEAN, ReceiveReq(n, good, fwd)
      PROVE  PendRests
  <2>1. UNCHANGED <<pend, count, now, sent, waited, put>>
    BY <1>2 DEF ReceiveReq, queues
  <2>2. ctr' = [ctr EXCEPT ![n] = ctr[n] + 1] \/ ctr' = ctr
    BY <1>2 DEF ReceiveReq, PendType
  <2>. QED  BY <2>1, <2>2 DEF PendRests, PendType
<1>3. ASSUME NEW n \in Node,
             DropDuplicate(n) \/ (\E heard \in SUBSET Neighbors[n] : Transmit(n, heard))
               \/ (\E d \in Node : LoseRoute(n, d))
      PROVE  PendRests
  BY <1>3 DEF DropDuplicate, Transmit, LoseRoute, PendRests, PendType, queues
<1>4. CASE UNCHANGED vars
  BY <1>4 DEF vars, queues, PendRests, PendType
<1>. QED  BY <1>1, <1>2, <1>3, <1>4 DEF Next

LEMMA FreeType == Free \in Entry
  BY ExpiryAssumption DEF Free, Entry, Clock

LEMMA UsedSlots == \A n : Used(n) \subseteq Slots /\ Expired(n) \subseteq Used(n)
  BY DEF Used, Expired

\* A count is never more than the queue holds.
LEMMA LessType ==
  ASSUME NEW c \in 0 .. PendingSize, NEW S \in SUBSET Slots
  PROVE  Less(c, S) \in 0 .. PendingSize
<1>1. Cardinality(S) \in Nat
  BY SlotsFinite, FS_Subset, FS_CardinalityType
<1>. QED  BY <1>1, LimitsAssumption DEF Less

-----------------------------------------------------------------------------
\* What enqueueing makes of the queue of n: the expired slots are free, and one
\* slot that was free or expired, if there is one, holds the message.
Enqueued(n, m, pid, slot) ==
  /\ slot \subseteq Slots \ (Used(n) \ Expired(n))
  /\ \A i, j \in slot : i = j
  /\ slot = {} => Slots \ (Used(n) \ Expired(n)) = {}
  /\ pend' = [pend EXCEPT ![n] = [i \in Slots |->
                IF i \in slot THEN [dst |-> Dst[m], msg |-> m, pid |-> pid, at |-> now]
                ELSE IF i \in Expired(n) THEN Free ELSE pend[n][i]]]
  /\ count' = [count EXCEPT ![n] =
                 IF slot # {} /\ Less(count[n], Expired(n)) < PendingSize
                 THEN Less(count[n], Expired(n)) + 1 ELSE Less(count[n], Expired(n))]

LEMMA EnqueueEffect ==
  ASSUME PendType, NEW n \in Node, NEW m \in Msgs, NEW pid \in Nat, Enqueue(n, m, pid)
  PROVE  \E slot : Enqueued(n, m, pid, slot)
<1>. DEFINE free == Slots \ (Used(n) \ Expired(n))
            slot == {i \in free : \A j \in free : i <= j}
<1>1. slot \in SUBSET free /\ \A i, j \in slot : i = j
  BY LimitsAssumption DEF Slots
<1>2. slot = {} => free = {}
  <2>. SUFFICES ASSUME free # {} PROVE slot # {}
    OBVIOUS
  <2>. DEFINE f == [i \in free |-> i]
  <2>1. \A i \in free : f[i] \in Nat
    BY DEF Slots
  <2>2. PICK x \in free : \A y \in free : f[x] <= f[y]
    <3>. HIDE DEF free, f
    <3>. QED  BY <2>1, LeastMember
  <2>. QED  BY <2>2
<1>3. pend' = [pend EXCEPT ![n] = [i \in Slots |->
                  IF i \in slot THEN [dst |-> Dst[m], msg |-> m, pid |-> pid, at |-> now]
                  ELSE IF i \in Expired(n) THEN Free ELSE pend[n][i]]]
  <2>1. pend' = [pend EXCEPT ![n] = [i \in Slots |->
                  IF i \in slot THEN [dst |-> Dst[m], msg |-> m, pid |-> pid, at |-> now]
                  ELSE Without(pend[n], Expired(n))[i]]]
    BY DEF Enqueue, PendType
  <2>. HIDE DEF slot
  <2>. QED  BY <2>1 DEF Without
<1>4. count' = [count EXCEPT ![n] =
                  IF slot # {} /\ Less(count[n], Expired(n)) < PendingSize
                  THEN Less(count[n], Expired(n)) + 1 ELSE Less(count[n], Expired(n))]
  BY DEF Enqueue
<1>. HIDE DEF slot
<1>. QED  BY <1>1, <1>2, <1>3, <1>4 DEF Enqueued

-----------------------------------------------------------------------------
\* The queue keeps its facts as long as no entry is new and no message in it is
\* touched.
LEMMA PendKeeps ==
  ASSUME PendInv, PendType', now' = now,
         \A n \in Node : \A i \in Used(n)' : pend'[n][i] = pend[n][i] /\ i \in Used(n),
         \A n \in Node : \A i \in Used(n)' :
           put'[pend[n][i].msg] = 0 /\ waited'[pend[n][i].msg] <= waited[pend[n][i].msg],
         sent \subseteq sent'
  PROVE  PendTrue'
<1>. SUFFICES ASSUME NEW n \in Node, NEW i \in Used(n)' PROVE WaitsTrue(n, i)'
  BY DEF PendTrue
<1>1. WaitsTrue(n, i) /\ i \in Slots /\ pend'[n][i] = pend[n][i]
  BY UsedSlots DEF PendInv, PendTrue
<1>2. Age(n, i)' = Age(n, i)
  BY <1>1 DEF Age
<1>3. /\ waited'[pend[n][i].msg] <= waited[pend[n][i].msg]
      /\ put'[pend[n][i].msg] = 0
  OBVIOUS
<1>4. pend[n][i].at \in Nat /\ Age(n, i) \in Nat
  BY <1>1, ExpiryAssumption DEF PendInv, PendType, Entry, Clock, Age
<1>5. pend[n][i].msg \in Msgs
  BY <1>1 DEF WaitsTrue, PendInv, PendType
<1>6. waited[pend[n][i].msg] \in Nat /\ waited'[pend[n][i].msg] \in Nat
  BY <1>5, ExpiryAssumption DEF PendInv, PendType
<1>. QED  BY <1>1, <1>2, <1>3, <1>4, <1>6 DEF WaitsTrue

LEMMA SubmitViaPend ==
  ASSUME PendInv, NEW m \in Msgs, NEW next, SubmitVia(m, next)
  PROVE  PendInv'
<1>1. m \notin sent /\ sent' = sent \cup {m} /\ UNCHANGED <<pend, count, now, waited>>
  BY DEF SubmitVia, Unsent, queues
<1>2. put' = [put EXCEPT ![m] = put[m] + 1] /\ put[m] = 0
  BY <1>1 DEF SubmitVia, PendInv, UnsentTrue, PendType
<1>3. ctr' \in [Node -> Nat]
  BY EndsAssumption DEF SubmitVia, PendInv, PendType
<1>4. PendType'
  BY <1>1, <1>2, <1>3 DEF PendInv, PendType
<1>5. SentOnce'
  BY <1>2 DEF PendInv, PendType, SentOnce
<1>6. UnsentTrue'
  BY <1>1, <1>2 DEF PendInv, PendType, UnsentTrue
<1>7. ASSUME NEW n \in Node, NEW i \in Used(n)'
      PROVE  /\ pend'[n][i] = pend[n][i] /\ i \in Used(n)
             /\ put'[pend[n][i].msg] = 0
             /\ waited'[pend[n][i].msg] <= waited[pend[n][i].msg]
  <2>1. i \in Used(n) /\ WaitsTrue(n, i)
    BY <1>1 DEF Used, PendInv, PendTrue
  <2>2. pend[n][i].msg # m /\ pend[n][i].msg \in Msgs
    BY <1>1, <2>1 DEF WaitsTrue, PendInv, PendType
  <2>3. waited[pend[n][i].msg] \in Nat
    BY <2>2, ExpiryAssumption DEF PendInv, PendType
  <2>. QED  BY <1>1, <1>2, <2>1, <2>2, <2>3 DEF WaitsTrue, PendInv, PendType
<1>8. PendTrue'
  BY <1>1, <1>4, <1>7, PendKeeps
<1>. QED  BY <1>4, <1>5, <1>6, <1>8 DEF PendInv

LEMMA SubmitPendingPend ==
  ASSUME PendInv, NEW m \in Msgs, SubmitPending(m)
  PROVE  PendInv'
<1>. DEFINE n == Src[m]
            e == [dst |-> Dst[m], msg |-> m, pid |-> ctr[n] + 1, at |-> now]
<1>1. m \notin sent /\ sent' = sent \cup {m} /\ UNCHANGED <<now, waited, put>>
  BY DEF SubmitPending, Unsent
<1>2. n \in Node /\ ctr[n] + 1 \in Nat /\ Enqueue(n, m, ctr[n] + 1) /\ PendType
  BY EndsAssumption DEF SubmitPending, PendInv, PendType
<1>3. PICK slot : Enqueued(n, m, ctr[n] + 1, slot)
  <2>. HIDE DEF n
  <2>. QED  BY <1>2, EnqueueEffect
<1>4. e \in Entry
  BY <1>2, EndsAssumption DEF Entry, PendType
<1>queue. pend' = [pend EXCEPT ![n] = [i \in Slots |->
                  IF i \in slot THEN e ELSE IF i \in Expired(n) THEN Free ELSE pend[n][i]]]
  BY <1>3 DEF Enqueued
<1>5. PendType'
  <2>1. pend' \in [Node -> [Slots -> Entry]]
    <3>. HIDE DEF e
    <3>. QED  BY <1>2, <1>queue, <1>4, FreeType DEF PendType
  <2>2. count' \in [Node -> 0 .. PendingSize]
    <3>1. Expired(n) \in SUBSET Slots
      BY UsedSlots
    <3>2. Less(count[n], Expired(n)) \in 0 .. PendingSize
      BY <1>2, <3>1, LessType DEF PendType
    <3>. QED  BY <1>2, <1>3, <3>2, LimitsAssumption DEF PendType, Enqueued
  <2>3. ctr' \in [Node -> Nat]
    BY <1>2 DEF SubmitPending, PendType
  <2>. QED  BY <1>1, <1>2, <2>1, <2>2, <2>3 DEF PendType
<1>6. UnsentTrue' /\ SentOnce'
  BY <1>1 DEF PendInv, UnsentTrue, SentOnce
<1>7. ASSUME NEW k \in Node, NEW i \in Used(k)'
      PROVE  WaitsTrue(k, i)'
  <2>0. i \in Slots /\ pend'[k][i].dst # Nobody
    BY <1>7 DEF Used
  <2>1. CASE k = n /\ i \in slot
    <3>1. pend'[k][i] = e
      <4>. HIDE DEF e
      <4>. QED  BY <1>2, <1>queue, <1>3, <2>0, <2>1 DEF PendType
    <3>2. Age(k, i)' = 0
      BY <1>1, <1>2, <3>1, AgeZero, ExpiryAssumption DEF Age, PendType, Clock
    <3>3. put[m] = 0 /\ waited[m] = 0
      BY <1>1 DEF PendInv, UnsentTrue
    <3>. QED  BY <1>1, <2>1, <3>1, <3>2, <3>3 DEF WaitsTrue
  <2>2. CASE ~(k = n /\ i \in slot)
    <3>1. pend'[k][i] = pend[k][i] \/ pend'[k][i] = Free
      <4>. HIDE DEF e
      <4>. QED  BY <1>2, <1>queue, <2>0, <2>2 DEF PendType
    <3>2. pend'[k][i] = pend[k][i] /\ i \in Used(k)
      BY <2>0, <3>1 DEF Free, Used
    <3>. QED  BY <1>1, <3>2 DEF PendInv, PendTrue, WaitsTrue, Age
  <2>. QED  BY <2>1, <2>2
<1>. QED  BY <1>5, <1>6, <1>7 DEF PendInv, PendTrue

LEMMA DrainPend ==
  ASSUME PendInv, NEW n \in Node, NEW d, Drain(n, d),
         waited' = [m \in Msgs |-> IF \E i \in Drained(n, d) : pend[n][i].msg = m THEN 0
                                   ELSE waited[m]],
         UNCHANGED <<ctr, now, sent>>
  PROVE  PendInv'
<1>1. \A i \in Sendable(n, d) : i \in Drained(n, d) /\ i \in Used(n) /\ i \in Slots
  BY DEF Sendable, Drained, Waiting, Used
<1>2. pend' = [pend EXCEPT ![n] = [i \in Slots |-> IF i \in Drained(n, d) THEN Free ELSE pend[n][i]]]
  BY DEF Drain, Without, PendInv, PendType
<1>3. PendType'
  <2>1. pend' \in [Node -> [Slots -> Entry]]
    BY <1>2, FreeType DEF PendInv, PendType
  <2>2. count' \in [Node -> 0 .. PendingSize]
    <3>1. Drained(n, d) \in SUBSET Slots
      BY DEF Drained, Waiting, Used
    <3>2. Less(count[n], Drained(n, d)) \in 0 .. PendingSize
      BY <3>1, LessType DEF PendInv, PendType
    <3>. QED  BY <3>2 DEF Drain, PendInv, PendType
  <2>3. waited' \in [Msgs -> 0 .. PendingExpiry + 1]
    BY ExpiryAssumption DEF PendInv, PendType
  <2>4. put' \in [Msgs -> Nat]
    BY DEF Drain, PendInv, PendType
  <2>. QED  BY <2>1, <2>2, <2>3, <2>4 DEF PendInv, PendType
<1>4. ASSUME NEW m \in Msgs, put'[m] # put[m]
      PROVE  /\ \E i \in Sendable(n, d) : pend[n][i].msg = m
             /\ put[m] = 0 /\ put'[m] = 1 /\ m \in sent
             /\ \A k \in Node : \A j \in Used(k) :
                  pend[k][j].msg = m => k = n /\ j \in Drained(n, d)
  <2>1. PICK i \in Sendable(n, d) : pend[n][i].msg = m
    BY <1>4 DEF Drain, PendInv, PendType
  <2>2. WaitsTrue(n, i) /\ pend[n][i].dst = d
    BY <1>1, <2>1 DEF PendInv, PendTrue, Sendable, Waiting
  <2>3. put'[m] = put[m] + 1
    BY <2>1 DEF Drain, PendInv, PendType
  <2>4. ASSUME NEW k \in Node, NEW j \in Used(k), pend[k][j].msg = m
        PROVE  k = n /\ j \in Drained(n, d)
    BY <2>1, <2>2, <2>4 DEF PendInv, PendTrue, WaitsTrue, Drained, Waiting
  <2>. QED  BY <2>1, <2>2, <2>3, <2>4 DEF WaitsTrue
<1>5. SentOnce'
  <2>. SUFFICES ASSUME NEW m \in Msgs PROVE put'[m] <= 1
    BY DEF SentOnce
  <2>. QED  BY <1>4 DEF PendInv, SentOnce
<1>6. UnsentTrue'
  <2>. SUFFICES ASSUME NEW m \in Msgs \ sent PROVE put'[m] = 0 /\ waited'[m] = 0
    BY DEF UnsentTrue
  <2>1. put[m] = 0 /\ waited[m] = 0
    BY DEF PendInv, UnsentTrue
  <2>. QED  BY <1>4, <2>1
<1>7. ASSUME NEW k \in Node, NEW i \in Used(k)'
      PROVE  /\ pend'[k][i] = pend[k][i] /\ i \in Used(k)
             /\ put'[pend[k][i].msg] = 0
             /\ waited'[pend[k][i].msg] <= waited[pend[k][i].msg]
  <2>0. i \in Slots /\ pend'[k][i].dst # Nobody
    BY <1>7 DEF Used
  <2>1. ~(k = n /\ i \in Drained(n, d)) /\ pend'[k][i] = pend[k][i] /\ i \in Used(k)
    BY <1>2, <2>0 DEF Free, Used, PendInv, PendType
  <2>2. WaitsTrue(k, i) /\ pend[k][i].msg \in Msgs
    BY <2>1 DEF PendInv, PendTrue, PendType, WaitsTrue
  <2>3. put'[pend[k][i].msg] = 0
    BY <1>4, <2>1, <2>2 DEF WaitsTrue
  <2>4. waited[pend[k][i].msg] \in Nat
    BY <2>2, ExpiryAssumption DEF PendInv, PendType
  <2>. QED  BY <2>1, <2>2, <2>3, <2>4
<1>8. PendTrue'
  BY <1>3, <1>7, PendKeeps
<1>. QED  BY <1>3, <1>5, <1>6, <1>8 DEF PendInv

LEMMA AdvancePend ==
  ASSUME PendInv, Advance
  PROVE  PendInv'
<1>1. UNCHANGED <<pend, count, ctr, sent, put>> /\ now' = (now + 1) % ClockMod
  BY DEF Advance, queues
<1>2. PendType'
  <2>1. now' \in Clock
    BY <1>1, ExpiryAssumption DEF PendInv, PendType, Clock
  <2>2. waited' \in [Msgs -> 0 .. PendingExpiry + 1]
    BY ExpiryAssumption DEF Advance, PendInv, PendType
  <2>. QED  BY <1>1, <2>1, <2>2 DEF PendInv, PendType
<1>3. UnsentTrue'
  <2>. SUFFICES ASSUME NEW m \in Msgs \ sent PROVE put[m] = 0 /\ waited'[m] = 0
    BY <1>1 DEF UnsentTrue
  <2>1. ~Pending(m)
    BY EndsAssumption DEF Pending, PendInv, PendTrue, WaitsTrue
  <2>. QED  BY <2>1 DEF Advance, PendInv, UnsentTrue
<1>4. ASSUME NEW n \in Node, NEW i \in Used(n)'
      PROVE  WaitsTrue(n, i)'
  <2>1. i \in Used(n) /\ i \in Slots /\ WaitsTrue(n, i) /\ Age(n, i) < ClockMod - 1
    BY <1>1 DEF Used, PendInv, PendTrue, Advance
  <2>2. pend[n][i].at \in Clock /\ pend[n][i].msg \in Msgs
    BY <2>1 DEF WaitsTrue, PendInv, PendType, Entry
  <2>3. Age(n, i)' = Age(n, i) + 1
    BY <1>1, <2>1, <2>2, ClockStep, ExpiryAssumption DEF Age, Clock, PendInv, PendType
  <2>4. waited'[pend[n][i].msg] <= waited[pend[n][i].msg] + 1
    BY <2>2, ExpiryAssumption DEF Advance, PendInv, PendType
  <2>5. waited[pend[n][i].msg] \in Nat /\ waited'[pend[n][i].msg] \in Nat /\ Age(n, i) \in Nat
    BY <1>2, <2>2, ExpiryAssumption DEF PendInv, PendType, Age, Clock
  <2>6. waited'[pend[n][i].msg] <= Age(n, i)'
    BY <2>1, <2>3, <2>4, <2>5 DEF WaitsTrue
  <2>. QED  BY <1>1, <2>1, <2>6 DEF WaitsTrue
<1>. QED  BY <1>1, <1>2, <1>3, <1>4 DEF PendInv, PendTrue, SentOnce

-----------------------------------------------------------------------------
(***************************************************************************)
(* The count of the queue.                                                 *)
(***************************************************************************)
CountInv == PendType /\ CountExact

\* The slots in use are counted one by one.
LEMMA UsedFinite ==
  ASSUME NEW n
  PROVE  IsFiniteSet(Used(n)) /\ Cardinality(Used(n)) \in 0 .. PendingSize
<1>1. Used(n) \subseteq Slots
  BY DEF Used
<1>2. IsFiniteSet(Used(n)) /\ Cardinality(Used(n)) <= PendingSize
  BY <1>1, SlotsFinite, FS_Subset
<1>3. Cardinality(Used(n)) \in Nat
  BY <1>2, FS_CardinalityType
<1>. QED  BY <1>2, <1>3, LimitsAssumption

\* Clearing occupied slots takes as many from the count.
LEMMA LessExact ==
  ASSUME NEW n, NEW S \in SUBSET Used(n)
  PROVE  Less(Cardinality(Used(n)), S) = Cardinality(Used(n) \ S)
<1>1. IsFiniteSet(Used(n)) /\ Cardinality(Used(n)) \in Nat
  BY UsedFinite
<1>2. IsFiniteSet(S) /\ Cardinality(S) \in Nat /\ Cardinality(S) <= Cardinality(Used(n))
  BY <1>1, FS_Subset, FS_CardinalityType
<1>3. Cardinality(Used(n) \ S) = Cardinality(Used(n)) - Cardinality(S)
  <2>1. Cardinality(Used(n) \ S) = Cardinality(Used(n)) - Cardinality(Used(n) \cap S)
    BY <1>1, FS_Difference
  <2>2. Used(n) \cap S = S
    OBVIOUS
  <2>. QED  BY <2>1, <2>2
<1>. QED  BY <1>1, <1>2, <1>3 DEF Less

LEMMA SubmitPendingCount ==
  ASSUME CountInv, NEW m \in Msgs, SubmitPending(m)
  PROVE  CountExact'
<1>. DEFINE n == Src[m]
            e == [dst |-> Dst[m], msg |-> m, pid |-> ctr[n] + 1, at |-> now]
            kept == Used(n) \ Expired(n)
<1>1. n \in Node /\ ctr[n] + 1 \in Nat /\ Enqueue(n, m, ctr[n] + 1) /\ PendType
  BY EndsAssumption DEF SubmitPending, CountInv, PendType
<1>2. e.dst # Nobody
  BY EndsAssumption, NobodyAssumption
<1>3. PICK slot : Enqueued(n, m, ctr[n] + 1, slot)
  <2>. HIDE DEF n
  <2>. QED  BY <1>1, EnqueueEffect
<1>queue. pend' = [pend EXCEPT ![n] = [i \in Slots |->
                  IF i \in slot THEN e ELSE IF i \in Expired(n) THEN Free ELSE pend[n][i]]]
  BY <1>3 DEF Enqueued
<1>4. ASSUME NEW k \in Node, k # n
      PROVE  count'[k] = Cardinality(Used(k)')
  <2>1. Used(k)' = Used(k) /\ count'[k] = count[k]
    BY <1>1, <1>3, <1>4 DEF Used, PendType, Enqueued
  <2>. QED  BY <2>1 DEF CountInv, CountExact
<1>5. Used(n)' = kept \cup slot
  <2>1. \A i \in Slots : pend'[n][i] = IF i \in slot THEN e
                                       ELSE IF i \in Expired(n) THEN Free ELSE pend[n][i]
    <3>. HIDE DEF e, n
    <3>. QED  BY <1>1, <1>queue DEF PendType
  <2>2. Free.dst = Nobody
    BY DEF Free
  <2>3. Expired(n) \subseteq Used(n) /\ slot \subseteq Slots
    BY <1>3 DEF Expired, Enqueued
  <2>. HIDE DEF e, n
  <2>. QED  BY <1>2, <2>1, <2>2, <2>3 DEF Used, kept
<1>6. Less(count[n], Expired(n)) = Cardinality(kept) /\ IsFiniteSet(kept)
      /\ Cardinality(kept) \in Nat
  <2>1. Expired(n) \in SUBSET Used(n) /\ count[n] = Cardinality(Used(n))
    BY <1>1 DEF Expired, CountInv, CountExact
  <2>2. IsFiniteSet(kept)
    BY UsedFinite, FS_Subset
  <2>. QED  BY <2>1, <2>2, LessExact, FS_CardinalityType
<1>7. count'[n] = Cardinality(kept \cup slot)
  <2>1. CASE slot = {}
    <3>1. kept \cup slot = kept /\ count'[n] = Less(count[n], Expired(n))
      BY <1>1, <1>3, <2>1 DEF PendType, Enqueued
    <3>. QED  BY <1>6, <3>1
  <2>2. CASE slot # {}
    <3>1. PICK x \in slot : slot = {x}
      BY <1>3, <2>2 DEF Enqueued
    <3>2. x \in Slots /\ x \notin kept
      BY <1>3, <3>1 DEF Enqueued
    <3>3. Cardinality(kept \cup slot) = Cardinality(kept) + 1
      BY <1>6, <3>1, <3>2, FS_AddElement
    <3>4. Cardinality(kept) < PendingSize
      <4>1. kept \cup slot \subseteq Slots
        BY <1>3, UsedSlots DEF Enqueued
      <4>2. Cardinality(kept \cup slot) <= PendingSize
        BY <4>1, SlotsFinite, FS_Subset
      <4>. QED  BY <1>6, <3>3, <4>2, LimitsAssumption
    <3>5. count'[n] = Cardinality(kept) + 1
      BY <1>1, <1>3, <1>6, <2>2, <3>4 DEF PendType, Enqueued
    <3>. QED  BY <3>3, <3>5
  <2>. QED  BY <2>1, <2>2
<1>. HIDE DEF n, kept
<1>8. ASSUME NEW k \in Node
      PROVE  count'[k] = Cardinality(Used(k)')
  BY <1>4, <1>5, <1>7
<1>. QED  BY <1>8 DEF CountExact

LEMMA DrainCount ==
  ASSUME CountInv, NEW n \in Node, NEW d, Drain(n, d)
  PROVE  CountExact'
<1>1. ASSUME NEW k \in Node, k # n
      PROVE  count'[k] = Cardinality(Used(k)')
  <2>1. Used(k)' = Used(k) /\ count'[k] = count[k]
    BY <1>1 DEF Drain, Used, CountInv, PendType
  <2>. QED  BY <2>1 DEF CountInv, CountExact
<1>2. Used(n)' = Used(n) \ Drained(n, d)
  <2>1. \A i \in Slots : pend'[n][i] = IF i \in Drained(n, d) THEN Free ELSE pend[n][i]
    BY DEF Drain, Without, CountInv, PendType
  <2>2. Free.dst = Nobody
    BY DEF Free
  <2>. QED  BY <2>1, <2>2 DEF Used
<1>3. count'[n] = Cardinality(Used(n) \ Drained(n, d))
  <2>1. Drained(n, d) \in SUBSET Used(n) /\ count[n] = Cardinality(Used(n))
    BY DEF Drained, Waiting, CountInv, CountExact
  <2>2. count'[n] = Less(count[n], Drained(n, d))
    BY DEF Drain, CountInv, PendType
  <2>. QED  BY <2>1, <2>2, LessExact
<1>4. ASSUME NEW k \in Node
      PROVE  count'[k] = Cardinality(Used(k)')
  BY <1>1, <1>2, <1>3
<1>. QED  BY <1>4 DEF CountExact

-----------------------------------------------------------------------------
LEMMA PendInitially == Init => PendInv /\ CountExact
<1>. SUFFICES ASSUME Init PROVE PendInv /\ CountExact
  OBVIOUS
<1>1. \A n \in Node : Used(n) = {}
  BY DEF Init, Used, Free
<1>2. PendType
  BY FreeType, LimitsAssumption, ExpiryAssumption DEF Init, PendType, Clock
<1>3. PendInv
  BY <1>1, <1>2 DEF Init, PendInv, PendTrue, UnsentTrue, SentOnce
<1>4. CountExact
  <2>. SUFFICES ASSUME NEW n \in Node PROVE count[n] = Cardinality(Used(n))
    BY DEF CountExact
  <2>1. count[n] = 0 /\ Used(n) = {}
    BY <1>1 DEF Init
  <2>. QED  BY <2>1, FS_EmptySet
<1>. QED  BY <1>3, <1>4

LEMMA PendStep ==
  ASSUME PendInv, CountExact, [Next]_vars
  PROVE  PendInv' /\ CountExact'
<1>. USE DEF CountInv
<1>0. PendType
  BY DEF PendInv
<1>1. CASE PendRests
  <2>1. UNCHANGED <<pend, count, now, sent, waited, put>> /\ PendType'
    BY <1>0, <1>1 DEF PendRests, PendType
  <2>. QED  BY <2>1 DEF PendInv, PendTrue, WaitsTrue, UnsentTrue, SentOnce, CountExact, Used, Age
<1>2. CASE \E m \in Msgs : \E next : SubmitVia(m, next)
  <2>1. PendInv'
    BY <1>2, SubmitViaPend
  <2>2. UNCHANGED <<pend, count>>
    BY <1>2 DEF SubmitVia, queues
  <2>. QED  BY <2>1, <2>2 DEF CountExact, Used
<1>3. CASE \E m \in Msgs : SubmitPending(m)
  BY <1>0, <1>3, SubmitPendingPend, SubmitPendingCount
<1>4. CASE \E n \in Node, ok, fwd \in BOOLEAN : ReceiveRpl(n, ok, fwd)
  <2>1. PICK n \in Node, ok \in BOOLEAN, fwd \in BOOLEAN : ReceiveRpl(n, ok, fwd)
    BY <1>4
  <2>. DEFINE d == Head(rxq[n]).target
  <2>2. /\ Drain(n, d) /\ UNCHANGED <<ctr, now, sent>>
        /\ waited' = [m \in Msgs |-> IF \E i \in Drained(n, d) : pend[n][i].msg = m THEN 0
                                     ELSE waited[m]]
    BY <2>1 DEF ReceiveRpl
  <2>. HIDE DEF d
  <2>. QED  BY <1>0, <2>2, DrainPend, DrainCount
<1>5. CASE Advance
  <2>1. PendInv'
    BY <1>5, AdvancePend
  <2>2. UNCHANGED <<pend, count>>
    BY <1>5 DEF Advance, queues
  <2>. QED  BY <2>1, <2>2 DEF CountExact, Used
<1>. QED  BY <1>0, <1>1, <1>2, <1>3, <1>4, <1>5, NextPend

(***************************************************************************)
(* A message that waits for a route is offered to the TX ring at most      *)
(* once, however many answers its request gets, and is counted exactly     *)
(* while it waits (pending_queue.c lines 28-142).                          *)
(***************************************************************************)
THEOREM PendingKeptAlways == Spec => []PendingKept
<1>1. PendInv /\ CountExact => PendingKept
  BY DEF PendInv, PendingKept
<1>. QED  BY <1>1, PendInitially, PendStep, PTL DEF Spec

LEMMA StepInTime ==
  ASSUME PendInv, [Next]_vars, NEW m \in Msgs, put'[m] > put[m]
  PROVE  waited[m] <= PendingExpiry
<1>0. PendType /\ put[m] \in Nat /\ put'[m] # put[m]
  BY PendStep DEF PendInv, PendType
<1>1. CASE PendRests
  BY <1>0, <1>1 DEF PendRests
<1>2. CASE \E k \in Msgs : \E next : SubmitVia(k, next)
  <2>1. PICK k \in Msgs : \E next : SubmitVia(k, next)
    BY <1>2
  <2>2. k \notin sent /\ k = m
    BY <1>0, <2>1 DEF SubmitVia, Unsent, PendType
  <2>. QED  BY <2>2, ExpiryAssumption DEF PendInv, UnsentTrue
<1>3. CASE \E k \in Msgs : SubmitPending(k)
  BY <1>0, <1>3 DEF SubmitPending
<1>4. CASE \E n \in Node, ok, fwd \in BOOLEAN : ReceiveRpl(n, ok, fwd)
  <2>1. PICK n \in Node : \E d : Drain(n, d)
    BY <1>4 DEF ReceiveRpl
  <2>2. PICK d : Drain(n, d)
    BY <2>1
  <2>3. PICK i \in Sendable(n, d) : pend[n][i].msg = m
    BY <1>0, <2>2 DEF Drain, PendType
  <2>4. i \in Used(n) /\ i \in Slots /\ ~(Age(n, i) > PendingExpiry)
    BY <2>3 DEF Sendable, Waiting, Expired, Old, Used
  <2>5. waited[m] <= Age(n, i)
    BY <2>3, <2>4 DEF PendInv, PendTrue, WaitsTrue
  <2>6. Age(n, i) \in Nat /\ waited[m] \in Nat
    BY <1>0, <2>4, ExpiryAssumption DEF PendType, Entry, Clock, Age
  <2>. QED  BY <2>4, <2>5, <2>6, ExpiryAssumption
<1>5. CASE Advance
  BY <1>0, <1>5 DEF Advance
<1>. QED  BY <1>0, <1>1, <1>2, <1>3, <1>4, <1>5, NextPend

(***************************************************************************)
(* No message that waited longer than PENDING_EXPIRY_MS is sent, whatever  *)
(* the width of the clock and wherever it wraps                            *)
(* (pending_queue_drain_for_dst line 122).                                 *)
(***************************************************************************)
THEOREM SentInTimeAlways == Spec => SentInTime
<1>1. PendInv /\ CountExact /\ [Next]_vars
        => [\A m \in Msgs : put'[m] > put[m] => waited[m] <= PendingExpiry]_vars
  BY StepInTime
<1>. QED  BY <1>1, PendInitially, PendStep, PTL DEF Spec, SentInTime

-----------------------------------------------------------------------------
(***************************************************************************)
(* What the frames in the queues of a node tell of the mesh: the radio     *)
(* hops from its source, and for a reply those from its source to its      *)
(* target.  extra: a frame in the RX ring has made one hop more than it    *)
(* says.                                                                   *)
(***************************************************************************)
ReplyTrue(f, K) ==
  f.kind = "rpl" => /\ Dist[f.src][f.target] <= f.hops
                    /\ f.target = f.src \/ f.target \in K[f.src]

FramesAt(n, extra, K) ==
  {f \in Frames : Dist[n][f.src] <= f.hop + extra /\ ReplyTrue(f, K)}

FramesTrue ==
  \A n \in Node : /\ txq[n] \in Queue(FramesAt(n, 0, knew))
                  /\ rxq[n] \in Seq(FramesAt(n, 1, knew)) /\ Len(rxq[n]) <= RxDepth

\* A route tells as much.
RouteTrue(n, d, r, K) ==
  r # NoRoute => Dist[n][d] <= r.hops /\ (r.next = d \/ d \in K[r.next])

Tables(n, K) ==
  {t \in [Node -> Route \cup {NoRoute}] : \A d \in Node : RouteTrue(n, d, t[d], K)}

RoutesTrue == \A n \in Node : routes[n] \in Tables(n, knew)

RouteType ==
  /\ bus \in [Node -> SUBSET (Node \X Nat)]
  /\ routes \in [Node -> [Node -> Route \cup {NoRoute}]]
  /\ near \in [Node -> SUBSET Node]
  /\ knew \in [Node -> SUBSET Node]
  /\ txq = [n \in Node |-> txq[n]] /\ rxq = [n \in Node |-> rxq[n]]

RouteInv == RouteType /\ FramesTrue /\ RoutesTrue

\* Who had a route once is never forgotten.
Grows(K, L) == \A n \in Node : K[n] \subseteq L[n]

LEMMA FrameFields ==
  ASSUME NEW f \in Frames
  PROVE  /\ f.kind \in {"data", "req", "rpl"} /\ f.src \in Node /\ f.dst \in Node
         /\ f.ttl \in Nat /\ f.hop \in 0 .. DefaultTtl /\ f.hop \in Nat /\ f.pid \in Nat
         /\ f.kind = "data" => f.msg \in Msgs
         /\ f.kind = "rpl" => f.target \in Node /\ f.hops \in 0 .. ReplyMaxHops /\ f.hops \in Nat
  BY LimitsAssumption DEF Frames

LEMMA RelayedFrame ==
  ASSUME NEW K, NEW n \in Node, NEW f \in FramesAt(n, 1, K), f.ttl > 0, f.hop < DefaultTtl
  PROVE  Relayed(f) \in FramesAt(n, 0, K)
<1>. DEFINE r == Relayed(f)
<1>1. f \in Frames /\ Dist[n][f.src] <= f.hop + 1 /\ ReplyTrue(f, K)
  BY DEF FramesAt
<1>2. r \in Frames
  <2>. DEFINE D == [kind : {"data"}, src : Node, dst : Node, ttl : 0 .. 1,
                    hop : 0 .. DefaultTtl, pid : Nat, msg : Msgs]
              Q == [kind : {"req"}, src : Node, dst : Node, ttl : 0 .. ReqTtl,
                    hop : 0 .. DefaultTtl, pid : Nat]
              P == [kind : {"rpl"}, src : Node, dst : Node, ttl : 0 .. ReqTtl,
                    hop : 0 .. DefaultTtl, pid : Nat, target : Node, hops : 0 .. ReplyMaxHops]
  <2>1. Frames = D \cup Q \cup P
    BY DEF Frames
  <2>2. DefaultTtl \in Nat /\ ReqTtl \in Nat
    BY LimitsAssumption
  <2>3. CASE f \in D
    <3>1. f.ttl - 1 \in 0 .. 1 /\ f.hop + 1 \in 0 .. DefaultTtl
      BY <2>3, <2>2
    <3>2. r \in D
      BY <2>3, <3>1 DEF Relayed
    <3>. QED  BY <2>1, <3>2
  <2>4. CASE f \in Q
    <3>1. f.ttl - 1 \in 0 .. ReqTtl /\ f.hop + 1 \in 0 .. DefaultTtl
      BY <2>4, <2>2
    <3>2. r \in Q
      BY <2>4, <3>1 DEF Relayed
    <3>. QED  BY <2>1, <3>2
  <2>5. CASE f \in P
    <3>1. f.ttl - 1 \in 0 .. ReqTtl /\ f.hop + 1 \in 0 .. DefaultTtl
      BY <2>5, <2>2
    <3>2. r \in P
      BY <2>5, <3>1 DEF Relayed
    <3>. QED  BY <2>1, <3>2
  <2>. HIDE DEF D, Q, P
  <2>. QED  BY <1>1, <2>1, <2>3, <2>4, <2>5
<1>3. r.src = f.src /\ r.hop = f.hop + 1 /\ r.kind = f.kind
  BY <1>1 DEF Frames, Relayed
<1>4. f.kind = "rpl" => r.hops = f.hops /\ r.target = f.target
  BY <1>1 DEF Frames, Relayed
<1>5. ReplyTrue(r, K)
  BY <1>1, <1>3, <1>4 DEF ReplyTrue
<1>6. Dist[n][r.src] <= r.hop + 0
  BY <1>1, <1>3, FrameFields
<1>. HIDE DEF r
<1>. QED  BY <1>2, <1>5, <1>6 DEF FramesAt, r

\* A frame that n sends is heard by a neighbour one hop further.
LEMMA HeardFrame ==
  ASSUME NEW K, NEW n \in Node, NEW k \in Neighbors[n], NEW f \in FramesAt(n, 0, K)
  PROVE  f \in FramesAt(k, 1, K)
<1>1. f \in Frames /\ Dist[n][f.src] <= f.hop + 0 /\ ReplyTrue(f, K) /\ f.src \in Node /\ f.hop \in Nat
  BY FrameFields DEF FramesAt
<1>2. k \in Node /\ Dist[k][n] <= 1
  BY RangeAssumption
<1>3. /\ Dist[k][f.src] <= Dist[k][n] + Dist[n][f.src]
      /\ Dist[k][f.src] \in Nat /\ Dist[k][n] \in Nat /\ Dist[n][f.src] \in Nat
  BY <1>1, <1>2, DistAssumption
<1>4. Dist[k][f.src] <= f.hop + 1
  BY <1>1, <1>2, <1>3
<1>. QED  BY <1>1, <1>4 DEF FramesAt

\* A frame that its source makes.
LEMMA UnicastFrame ==
  ASSUME NEW K, NEW m \in Msgs, NEW next \in Node, NEW pid \in Nat
  PROVE  Unicast(m, next, pid) \in FramesAt(Src[m], 0, K)
<1>. DEFINE f == Unicast(m, next, pid)
<1>1. f \in Frames
  BY EndsAssumption, LimitsAssumption DEF Frames, Unicast
<1>2. f.src = Src[m] /\ f.hop = 0 /\ f.kind = "data"
  BY DEF Unicast
<1>3. Dist[Src[m]][Src[m]] = 0
  BY EndsAssumption, DistAssumption
<1>. HIDE DEF f
<1>. QED  BY <1>1, <1>2, <1>3 DEF FramesAt, ReplyTrue, f

LEMMA ReqFrame ==
  ASSUME NEW K, NEW n \in Node, NEW d \in Node, NEW pid \in Nat
  PROVE  RouteReq(n, d, pid) \in FramesAt(n, 0, K)
<1>. DEFINE f == RouteReq(n, d, pid)
<1>1. f \in Frames
  BY LimitsAssumption DEF Frames, RouteReq
<1>2. f.src = n /\ f.hop = 0 /\ f.kind = "req"
  BY DEF RouteReq
<1>3. Dist[n][n] = 0
  BY DistAssumption
<1>. HIDE DEF f
<1>. QED  BY <1>1, <1>2, <1>3 DEF FramesAt, ReplyTrue, f

LEMMA RplFrame ==
  ASSUME NEW K, NEW n \in Node, NEW k \in Node, NEW d \in Node, NEW hops \in 0 .. ReplyMaxHops,
         NEW pid \in Nat, Dist[n][d] <= hops, d = n \/ d \in K[n]
  PROVE  RouteRpl(n, k, d, hops, pid) \in FramesAt(n, 0, K)
<1>. DEFINE f == RouteRpl(n, k, d, hops, pid)
<1>1. f \in Frames
  BY LimitsAssumption DEF Frames, RouteRpl
<1>2. f.src = n /\ f.hop = 0 /\ f.kind = "rpl" /\ f.target = d /\ f.hops = hops
  BY DEF RouteRpl
<1>3. Dist[n][n] = 0
  BY DistAssumption
<1>. HIDE DEF f
<1>. QED  BY <1>1, <1>2, <1>3 DEF FramesAt, ReplyTrue, f

-----------------------------------------------------------------------------
(***************************************************************************)
(* Knowing more keeps every frame and every route true.                    *)
(***************************************************************************)
LEMMA ReplyGrows ==
  ASSUME NEW K, NEW L, Grows(K, L), NEW f \in Frames, ReplyTrue(f, K)
  PROVE  ReplyTrue(f, L)
  BY FrameFields DEF ReplyTrue, Grows

LEMMA FramesGrow ==
  ASSUME NEW K, NEW L, Grows(K, L), NEW n, NEW extra
  PROVE  FramesAt(n, extra, K) \subseteq FramesAt(n, extra, L)
  BY ReplyGrows DEF FramesAt

LEMMA QueueGrows ==
  ASSUME NEW K, NEW L, Grows(K, L), NEW n, NEW q \in Queue(FramesAt(n, 0, K))
  PROVE  q \in Queue(FramesAt(n, 0, L))
  BY FramesGrow, SeqGrows DEF Queue

LEMMA TablesGrow ==
  ASSUME NEW K, NEW L, Grows(K, L), NEW n, NEW t \in Tables(n, K)
  PROVE  t \in Tables(n, L)
<1>. SUFFICES ASSUME NEW d \in Node, t[d] # NoRoute
              PROVE  Dist[n][d] <= t[d].hops /\ (t[d].next = d \/ d \in L[t[d].next])
  BY DEF Tables, RouteTrue
<1>1. Dist[n][d] <= t[d].hops /\ (t[d].next = d \/ d \in K[t[d].next])
  BY DEF Tables, RouteTrue
<1>2. t[d].next \in Node
  BY DEF Tables, Route
<1>. QED  BY <1>1, <1>2 DEF Grows

LEMMA AdoptTrue ==
  ASSUME NEW K, NEW n \in Node, NEW t \in Tables(n, K), NEW d \in Node, NEW next \in Node,
         NEW hops \in 0 .. ReplyMaxHops + DefaultTtl + 1, NEW ok,
         Dist[n][d] <= hops, next = d \/ d \in K[next]
  PROVE  Adopt(t, d, next, hops, ok) \in Tables(n, K)
<1>1. CASE ~Better(t, d, hops, ok)
  BY <1>1 DEF Adopt
<1>2. CASE Better(t, d, hops, ok)
  <2>. DEFINE r == [next |-> next, hops |-> hops]
              u == [t EXCEPT ![d] = r]
  <2>1. r \in Route
    BY DEF Route
  <2>2. RouteTrue(n, d, r, K)
    BY DEF RouteTrue
  <2>. HIDE DEF r
  <2>3. u \in [Node -> Route \cup {NoRoute}]
    BY <2>1 DEF Tables
  <2>4. \A k \in Node : RouteTrue(n, k, u[k], K)
    BY <2>2 DEF Tables
  <2>5. u \in Tables(n, K)
    BY <2>3, <2>4 DEF Tables
  <2>. QED  BY <1>2, <2>5 DEF Adopt, r
<1>. QED  BY <1>1, <1>2

\* What a node learns of a frame it receives.
LEMMA LearntTrue ==
  ASSUME RouteInv, NEW n \in Node, NEW f \in FramesAt(n, 1, knew)
  PROVE  Learnt(n, f) \in Tables(n, knew)
<1>1. routes[n] \in Tables(n, knew)
  BY DEF RouteInv, RoutesTrue
<1>2. f \in Frames /\ f.src \in Node /\ Dist[n][f.src] <= f.hop + 1
  BY FrameFields DEF FramesAt
<1>3. CASE f.hop = 0
  <2>1. Dist[n][f.src] <= 1 /\ 1 \in 0 .. ReplyMaxHops + DefaultTtl + 1
    BY <1>2, <1>3, LimitsAssumption
  <2>2. Adopt(routes[n], f.src, f.src, 1, FALSE) \in Tables(n, knew)
    BY <1>1, <1>2, <2>1, AdoptTrue
  <2>. QED  BY <1>3, <2>2 DEF Learnt
<1>4. CASE f.hop # 0
  BY <1>1, <1>4 DEF Learnt
<1>. QED  BY <1>3, <1>4

LEMMA SetRoutesEffect ==
  ASSUME RouteInv, NEW n \in Node, NEW t \in Tables(n, knew), SetRoutes(n, t)
  PROVE  /\ Grows(knew, knew') /\ RoutesTrue'
         /\ routes' \in [Node -> [Node -> Route \cup {NoRoute}]]
         /\ knew' \in [Node -> SUBSET Node]
         /\ t \in Tables(n, knew')
         /\ \A d \in Node : t[d] # NoRoute => d \in knew'[n]
<1>1. /\ routes \in [Node -> [Node -> Route \cup {NoRoute}]]
      /\ knew \in [Node -> SUBSET Node]
      /\ t \in [Node -> Route \cup {NoRoute}]
  BY DEF RouteInv, RouteType, Tables
<1>2. knew' = [knew EXCEPT ![n] = knew[n] \cup {d \in Node : t[d] # NoRoute}]
  BY <1>1 DEF SetRoutes
<1>3. Grows(knew, knew') /\ knew' \in [Node -> SUBSET Node]
  BY <1>1, <1>2 DEF Grows
<1>4. t \in Tables(n, knew')
  BY <1>3, TablesGrow
<1>5. ASSUME NEW k \in Node PROVE routes'[k] \in Tables(k, knew')
  <2>1. routes[k] \in Tables(k, knew')
    BY <1>3, TablesGrow DEF RouteInv, RoutesTrue
  <2>2. routes'[k] = IF k = n THEN t ELSE routes[k]
    BY <1>1 DEF SetRoutes
  <2>. QED  BY <1>4, <2>1, <2>2
<1>6. routes' \in [Node -> [Node -> Route \cup {NoRoute}]]
  BY <1>1 DEF SetRoutes
<1>. QED  BY <1>1, <1>2, <1>3, <1>4, <1>5, <1>6 DEF RoutesTrue

LEMMA AcceptEffect ==
  ASSUME RouteInv, NEW n \in Node, NEW kind, Accept(n, kind)
  PROVE  /\ Head(rxq[n]) \in FramesAt(n, 1, knew) /\ Head(rxq[n]).kind = kind
         /\ rxq' = [rxq EXCEPT ![n] = Tail(rxq[n])]
         /\ bus' \in [Node -> SUBSET (Node \X Nat)] /\ near' \in [Node -> SUBSET Node]
<1>. DEFINE f == Head(rxq[n])
<1>1. f \in FramesAt(n, 1, knew)
  BY TailSeq DEF RouteInv, FramesTrue, Accept
<1>2. f.src \in Node /\ f.pid \in Nat
  BY <1>1, FrameFields DEF FramesAt
<1>3. bus' \in [Node -> SUBSET (Node \X Nat)]
  <2>1. bus' = [bus EXCEPT ![n] = bus[n] \cup {<<f.src, f.pid>>}]
    BY DEF Accept, Key, RouteInv, RouteType
  <2>. HIDE DEF f
  <2>. QED  BY <1>2, <2>1 DEF RouteInv, RouteType
<1>4. near' \in [Node -> SUBSET Node]
  <2>1. near' = [near EXCEPT ![n] = near[n] \cup {f.src}] \/ near' = near
    BY DEF Accept, Near, RouteInv, RouteType
  <2>. HIDE DEF f
  <2>. QED  BY <1>2, <2>1 DEF RouteInv, RouteType
<1>. QED  BY <1>1, <1>3, <1>4 DEF Accept, RouteInv, RouteType

\* What a node does with its two queues.
LEMMA QueuesStep ==
  ASSUME RouteInv, Grows(knew, knew'), NEW n \in Node,
         NEW q \in Queue(FramesAt(n, 0, knew')), txq' = [txq EXCEPT ![n] = q],
         (rxq' = [rxq EXCEPT ![n] = Tail(rxq[n])] /\ rxq[n] # <<>>) \/ rxq' = rxq
  PROVE  /\ FramesTrue'
         /\ txq' = [k \in Node |-> txq'[k]] /\ rxq' = [k \in Node |-> rxq'[k]]
<1>1. /\ txq' = [k \in Node |-> IF k = n THEN q ELSE txq[k]]
      /\ \A k \in Node : rxq'[k] = rxq[k] \/ (rxq'[k] = Tail(rxq[k]) /\ rxq[k] # <<>>)
      /\ rxq' = [k \in Node |-> rxq'[k]]
  BY DEF RouteInv, RouteType
<1>2. ASSUME NEW k \in Node
      PROVE  /\ txq'[k] \in Queue(FramesAt(k, 0, knew'))
             /\ rxq'[k] \in Seq(FramesAt(k, 1, knew')) /\ Len(rxq'[k]) <= RxDepth
  <2>1. txq'[k] \in Queue(FramesAt(k, 0, knew'))
    BY <1>1, QueueGrows DEF RouteInv, FramesTrue
  <2>2. rxq[k] \in Seq(FramesAt(k, 1, knew')) /\ Len(rxq[k]) <= RxDepth
    BY FramesGrow, SeqGrows DEF RouteInv, FramesTrue
  <2>3. rxq'[k] \in Seq(FramesAt(k, 1, knew')) /\ Len(rxq'[k]) <= RxDepth
    <3>1. CASE rxq'[k] = rxq[k]
      BY <2>2, <3>1
    <3>2. CASE rxq'[k] = Tail(rxq[k]) /\ rxq[k] # <<>>
      <4>1. Tail(rxq[k]) \in Seq(FramesAt(k, 1, knew')) /\ Len(Tail(rxq[k])) = Len(rxq[k]) - 1
        BY <2>2, <3>2, TailSeq
      <4>. QED  BY <2>2, <3>2, <4>1, LimitsAssumption
    <3>. QED  BY <1>1, <3>1, <3>2
  <2>. QED  BY <2>1, <2>3
<1>. QED  BY <1>1, <1>2 DEF FramesTrue

\* The frames of a node after a relay, or none.
LEMMA RelayQueue ==
  ASSUME NEW K, NEW n \in Node, NEW f \in FramesAt(n, 1, K),
         NEW q \in Queue(FramesAt(n, 0, K)), NEW fwd \in BOOLEAN, Relay(n, f, q, fwd)
  PROVE  \E p \in Queue(FramesAt(n, 0, K)) : txq' = [txq EXCEPT ![n] = p]
<1>1. CASE fwd
  <2>1. Relayed(f) \in FramesAt(n, 0, K)
    BY <1>1, RelayedFrame DEF Relay
  <2>2. TryPush(q, Relayed(f)) \in Queue(FramesAt(n, 0, K))
    BY <2>1, PushQueue
  <2>. QED  BY <1>1, <2>2 DEF Relay
<1>2. CASE ~fwd
  BY <1>2 DEF Relay
<1>. QED  BY <1>1, <1>2

-----------------------------------------------------------------------------
(***************************************************************************)
(* One lemma for each step of the mesh.                                    *)
(***************************************************************************)
LEMMA GrowsSelf == \A K : Grows(K, K)
  BY DEF Grows

\* A source sends a frame it made; its routes stay.
LEMMA SendRoutes ==
  ASSUME RouteInv, NEW n \in Node, NEW f \in FramesAt(n, 0, knew),
         txq' = [txq EXCEPT ![n] = TryPush(txq[n], f)],
         UNCHANGED <<rxq, bus, routes, near, knew>>
  PROVE  RouteInv'
<1>1. Grows(knew, knew') /\ knew' = knew
  BY GrowsSelf
<1>2. TryPush(txq[n], f) \in Queue(FramesAt(n, 0, knew'))
  BY <1>1, PushQueue DEF RouteInv, FramesTrue
<1>3. /\ FramesTrue'
      /\ txq' = [k \in Node |-> txq'[k]] /\ rxq' = [k \in Node |-> rxq'[k]]
  BY <1>1, <1>2, QueuesStep
<1>. QED  BY <1>3 DEF RouteInv, RouteType, RoutesTrue

LEMMA SubmitViaRoutes ==
  ASSUME PendInv, RouteInv, NEW m \in Msgs, NEW next \in Node, SubmitVia(m, next)
  PROVE  RouteInv'
<1>. DEFINE n == Src[m]
<1>1. n \in Node /\ ctr[n] + 1 \in Nat
  BY EndsAssumption DEF PendInv, PendType
<1>2. Unicast(m, next, ctr[n] + 1) \in FramesAt(n, 0, knew)
  BY <1>1, UnicastFrame
<1>3. txq' = [txq EXCEPT ![n] = TryPush(txq[n], Unicast(m, next, ctr[n] + 1))]
  BY <1>1 DEF SubmitVia, RouteInv, RouteType
<1>4. UNCHANGED <<rxq, bus, routes, near, knew>>
  BY DEF SubmitVia
<1>. HIDE DEF n
<1>. QED  BY <1>1, <1>2, <1>3, <1>4, SendRoutes

LEMMA SubmitPendingRoutes ==
  ASSUME PendInv, RouteInv, NEW m \in Msgs, SubmitPending(m)
  PROVE  RouteInv'
<1>. DEFINE n == Src[m]
<1>1. n \in Node /\ Dst[m] \in Node /\ ctr[n] + 2 \in Nat
  BY EndsAssumption DEF PendInv, PendType
<1>2. RouteReq(n, Dst[m], ctr[n] + 2) \in FramesAt(n, 0, knew)
  BY <1>1, ReqFrame
<1>3. txq' = [txq EXCEPT ![n] = TryPush(txq[n], RouteReq(n, Dst[m], ctr[n] + 2))]
  BY <1>1 DEF SubmitPending, RouteInv, RouteType
<1>4. UNCHANGED <<rxq, bus, routes, near, knew>>
  BY DEF SubmitPending
<1>. HIDE DEF n
<1>. QED  BY <1>1, <1>2, <1>3, <1>4, SendRoutes

LEMMA DropRoutes ==
  ASSUME RouteInv, NEW n \in Node, DropDuplicate(n)
  PROVE  RouteInv'
<1>1. Grows(knew, knew') /\ UNCHANGED <<txq, bus, routes, near, knew>>
  BY GrowsSelf DEF DropDuplicate
<1>2. txq' = [txq EXCEPT ![n] = txq[n]] /\ txq[n] \in Queue(FramesAt(n, 0, knew'))
  BY <1>1 DEF RouteInv, RouteType, FramesTrue
<1>3. rxq' = [rxq EXCEPT ![n] = Tail(rxq[n])] /\ rxq[n] # <<>>
  BY DEF DropDuplicate, RouteInv, RouteType
<1>4. /\ FramesTrue'
      /\ txq' = [k \in Node |-> txq'[k]] /\ rxq' = [k \in Node |-> rxq'[k]]
  BY <1>1, <1>2, <1>3, QueuesStep
<1>. QED  BY <1>1, <1>4 DEF RouteInv, RouteType, RoutesTrue

\* A frame is taken, the routes become t, the frames of q and perhaps the relayed
\* frame wait for the radio.
LEMMA ReceiveRoutes ==
  ASSUME RouteInv, NEW n \in Node, NEW kind, Accept(n, kind),
         NEW t \in Tables(n, knew), SetRoutes(n, t),
         NEW q \in Queue(FramesAt(n, 0, knew')),
         NEW fwd \in BOOLEAN, Relay(n, Head(rxq[n]), q, fwd)
  PROVE  RouteInv'
<1>1. /\ Grows(knew, knew') /\ RoutesTrue'
      /\ routes' \in [Node -> [Node -> Route \cup {NoRoute}]]
      /\ knew' \in [Node -> SUBSET Node]
  BY SetRoutesEffect
<1>2. /\ Head(rxq[n]) \in FramesAt(n, 1, knew)
      /\ rxq' = [rxq EXCEPT ![n] = Tail(rxq[n])] /\ rxq[n] # <<>>
      /\ bus' \in [Node -> SUBSET (Node \X Nat)] /\ near' \in [Node -> SUBSET Node]
  BY AcceptEffect DEF Accept
<1>3. Head(rxq[n]) \in FramesAt(n, 1, knew')
  BY <1>1, <1>2, FramesGrow
<1>4. PICK p \in Queue(FramesAt(n, 0, knew')) : txq' = [txq EXCEPT ![n] = p]
  BY <1>3, RelayQueue
<1>5. /\ FramesTrue'
      /\ txq' = [k \in Node |-> txq'[k]] /\ rxq' = [k \in Node |-> rxq'[k]]
  BY <1>1, <1>2, <1>4, QueuesStep
<1>. QED  BY <1>1, <1>2, <1>5 DEF RouteInv, RouteType

LEMMA ReceiveDataRoutes ==
  ASSUME RouteInv, NEW n \in Node, NEW fwd \in BOOLEAN, ReceiveData(n, fwd)
  PROVE  RouteInv'
<1>. DEFINE f == Head(rxq[n])
            t == Learnt(n, f)
<1>1. Accept(n, "data") /\ SetRoutes(n, t) /\ Relay(n, f, txq[n], fwd)
  BY DEF ReceiveData
<1>2. t \in Tables(n, knew)
  BY <1>1, AcceptEffect, LearntTrue
<1>. HIDE DEF t
<1>3. txq[n] \in Queue(FramesAt(n, 0, knew'))
  BY <1>1, <1>2, SetRoutesEffect, QueueGrows DEF RouteInv, FramesTrue
<1>. QED  BY <1>1, <1>2, <1>3, ReceiveRoutes

LEMMA ReceiveReqRoutes ==
  ASSUME PendInv, RouteInv, NEW n \in Node, NEW good \in BOOLEAN, NEW fwd \in BOOLEAN,
         ReceiveReq(n, good, fwd)
  PROVE  RouteInv'
<1>. DEFINE f == Head(rxq[n])
            t == Learnt(n, f)
            reply == ShouldReply(n, f.dst, t, good)
            hops == IF n = f.dst THEN 0 ELSE t[f.dst].hops
            rpl == RouteRpl(n, f.src, f.dst, hops, ctr[n] + 1)
            q == IF reply THEN TryPush(txq[n], rpl) ELSE txq[n]
<1>1. Accept(n, "req") /\ SetRoutes(n, t) /\ Relay(n, f, q, fwd)
  BY DEF ReceiveReq
<1>2. f \in FramesAt(n, 1, knew) /\ f.src \in Node /\ f.dst \in Node
  BY <1>1, AcceptEffect, FrameFields DEF FramesAt
<1>3. t \in Tables(n, knew)
  BY <1>2, LearntTrue
<1>. HIDE DEF f, t
<1>4. /\ txq[n] \in Queue(FramesAt(n, 0, knew'))
      /\ t \in Tables(n, knew')
      /\ \A d \in Node : t[d] # NoRoute => d \in knew'[n]
  BY <1>1, <1>3, SetRoutesEffect, QueueGrows DEF RouteInv, FramesTrue
<1>5. reply => rpl \in FramesAt(n, 0, knew')
  <2>. SUFFICES ASSUME reply PROVE rpl \in FramesAt(n, 0, knew')
    OBVIOUS
  <2>1. ctr[n] + 1 \in Nat
    BY DEF PendInv, PendType
  <2>2. CASE n = f.dst
    <3>1. hops = 0 /\ 0 \in 0 .. ReplyMaxHops /\ Dist[n][f.dst] <= 0
      BY <2>2, LimitsAssumption, DistAssumption
    <3>. QED  BY <1>2, <2>1, <2>2, <3>1, RplFrame
  <2>3. CASE n # f.dst
    <3>1. t[f.dst] # NoRoute /\ t[f.dst].hops <= ReplyMaxHops /\ hops = t[f.dst].hops
      BY <2>3 DEF ShouldReply
    <3>2. t[f.dst] \in Route /\ RouteTrue(n, f.dst, t[f.dst], knew')
      BY <1>2, <1>4, <3>1 DEF Tables
    <3>3. hops \in 0 .. ReplyMaxHops /\ Dist[n][f.dst] <= hops
      BY <3>1, <3>2, LimitsAssumption DEF RouteTrue, Route
    <3>4. f.dst \in knew'[n]
      BY <1>2, <1>4, <3>1
    <3>. HIDE DEF hops
    <3>. QED  BY <1>2, <2>1, <3>3, <3>4, RplFrame
  <2>. QED  BY <2>2, <2>3
<1>6. q \in Queue(FramesAt(n, 0, knew'))
  <2>. HIDE DEF rpl, reply
  <2>. QED  BY <1>4, <1>5, PushQueue
<1>. HIDE DEF q
<1>. QED  BY <1>1, <1>3, <1>6, ReceiveRoutes DEF f

LEMMA ReceiveRplRoutes ==
  ASSUME PendInv, RouteInv, NEW n \in Node, NEW ok \in BOOLEAN, NEW fwd \in BOOLEAN,
         ReceiveRpl(n, ok, fwd)
  PROVE  RouteInv'
<1>. DEFINE f == Head(rxq[n])
            t == Adopt(Learnt(n, f), f.target, f.src, RplHops(f), ok)
            q == Sending(n, f.target, f.src, txq[n])
<1>1. Accept(n, "rpl") /\ SetRoutes(n, t) /\ Relay(n, f, q, fwd)
  BY DEF ReceiveRpl
<1>2. /\ f \in FramesAt(n, 1, knew) /\ f \in Frames /\ f.kind = "rpl"
      /\ Dist[n][f.src] <= f.hop + 1
      /\ Dist[f.src][f.target] <= f.hops /\ (f.target = f.src \/ f.target \in knew[f.src])
  BY <1>1, AcceptEffect DEF FramesAt, ReplyTrue
<1>3. /\ f.src \in Node /\ f.target \in Node /\ f.hop \in 0 .. DefaultTtl
      /\ f.hops \in 0 .. ReplyMaxHops
  BY <1>2, FrameFields
<1>4. t \in Tables(n, knew)
  <2>1. Learnt(n, f) \in Tables(n, knew)
    BY <1>2, LearntTrue
  <2>2. RplHops(f) \in 0 .. ReplyMaxHops + DefaultTtl + 1
    BY <1>3, LimitsAssumption DEF RplHops
  <2>3. /\ Dist[n][f.target] <= Dist[n][f.src] + Dist[f.src][f.target]
        /\ {Dist[n][f.target], Dist[n][f.src], Dist[f.src][f.target]} \subseteq Nat
    BY <1>3, DistAssumption
  <2>4. Dist[n][f.target] <= RplHops(f)
    BY <1>2, <1>3, <2>3, LimitsAssumption DEF RplHops
  <2>. HIDE DEF f
  <2>. QED  BY <1>2, <1>3, <2>1, <2>2, <2>4, AdoptTrue
<1>5. q \in Queue(FramesAt(n, 0, knew'))
  <2>1. ASSUME NEW i \in Sendable(n, f.target)
        PROVE  Unicast(pend[n][i].msg, f.src, pend[n][i].pid) \in FramesAt(n, 0, knew')
    <3>1. i \in Used(n) /\ i \in Slots
      BY DEF Sendable, Waiting, Used
    <3>2. pend[n][i].msg \in Msgs /\ Src[pend[n][i].msg] = n /\ pend[n][i].pid \in Nat
      BY <3>1 DEF PendInv, PendTrue, PendType, WaitsTrue, Entry
    <3>. HIDE DEF f
    <3>. QED  BY <1>3, <3>2, UnicastFrame
  <2>2. txq[n] \in Queue(FramesAt(n, 0, knew'))
    <3>. HIDE DEF t
    <3>. QED  BY <1>1, <1>4, SetRoutesEffect, QueueGrows DEF RouteInv, FramesTrue
  <2>. HIDE DEF f
  <2>. QED  BY <2>1, <2>2, SendingQueue
<1>. HIDE DEF q, t
<1>. QED  BY <1>1, <1>4, <1>5, ReceiveRoutes

LEMMA TransmitRoutes ==
  ASSUME RouteInv, NEW n \in Node, NEW heard \in SUBSET Neighbors[n], Transmit(n, heard)
  PROVE  RouteInv'
<1>. DEFINE f == Head(txq[n])
<1>1. UNCHANGED <<bus, routes, near, knew>> /\ txq[n] # <<>>
  BY DEF Transmit
<1>2. /\ f \in FramesAt(n, 0, knew)
      /\ Tail(txq[n]) \in Queue(FramesAt(n, 0, knew))
  <2>1. txq[n] \in Seq(FramesAt(n, 0, knew)) /\ Len(txq[n]) <= TxDepth
    BY DEF RouteInv, FramesTrue, Queue
  <2>2. /\ f \in FramesAt(n, 0, knew)
        /\ Tail(txq[n]) \in Seq(FramesAt(n, 0, knew)) /\ Len(Tail(txq[n])) = Len(txq[n]) - 1
    BY <1>1, <2>1, TailSeq
  <2>. QED  BY <2>1, <2>2, LimitsAssumption DEF Queue
<1>3. /\ txq' = [k \in Node |-> IF k = n THEN Tail(txq[n]) ELSE txq[k]]
      /\ rxq' = [k \in Node |-> IF k \in heard /\ Len(rxq[k]) < RxDepth
                                THEN Append(rxq[k], f) ELSE rxq[k]]
  BY DEF Transmit, RouteInv, RouteType
<1>. HIDE DEF f
<1>4. ASSUME NEW k \in Node
      PROVE  /\ txq'[k] \in Queue(FramesAt(k, 0, knew))
             /\ rxq'[k] \in Seq(FramesAt(k, 1, knew)) /\ Len(rxq'[k]) <= RxDepth
  <2>1. /\ txq[k] \in Queue(FramesAt(k, 0, knew))
        /\ rxq[k] \in Seq(FramesAt(k, 1, knew)) /\ Len(rxq[k]) <= RxDepth
    BY DEF RouteInv, FramesTrue
  <2>2. txq'[k] \in Queue(FramesAt(k, 0, knew))
    BY <1>2, <1>3, <2>1
  <2>3. CASE k \in heard /\ Len(rxq[k]) < RxDepth
    <3>1. f \in FramesAt(k, 1, knew)
      BY <1>2, <2>3, HeardFrame
    <3>2. Append(rxq[k], f) \in Seq(FramesAt(k, 1, knew)) /\ Len(Append(rxq[k], f)) = Len(rxq[k]) + 1
      BY <2>1, <3>1
    <3>3. rxq'[k] = Append(rxq[k], f)
      BY <1>3, <2>3
    <3>4. Len(rxq[k]) \in Nat
      BY <2>1
    <3>. QED  BY <2>2, <2>3, <3>2, <3>3, <3>4, LimitsAssumption
  <2>4. CASE ~(k \in heard /\ Len(rxq[k]) < RxDepth)
    BY <1>3, <2>1, <2>2, <2>4
  <2>. QED  BY <2>3, <2>4
<1>5. /\ txq' = [k \in Node |-> txq'[k]] /\ rxq' = [k \in Node |-> rxq'[k]]
  BY <1>3
<1>. QED  BY <1>1, <1>4, <1>5 DEF RouteInv, RouteType, FramesTrue, RoutesTrue

LEMMA LoseRouteRoutes ==
  ASSUME RouteInv, NEW n \in Node, NEW d \in Node, LoseRoute(n, d)
  PROVE  RouteInv'
<1>1. UNCHANGED <<txq, rxq, bus, near, knew>>
  BY DEF LoseRoute
<1>2. routes' = [k \in Node |-> [e \in Node |-> IF k = n /\ e = d THEN NoRoute ELSE routes[k][e]]]
  BY DEF LoseRoute, RouteInv, RouteType
<1>3. routes' \in [Node -> [Node -> Route \cup {NoRoute}]]
  BY <1>2 DEF RouteInv, RouteType
<1>4. ASSUME NEW k \in Node PROVE routes'[k] \in Tables(k, knew)
  <2>1. \A e \in Node : routes'[k][e] = NoRoute \/ routes'[k][e] = routes[k][e]
    BY <1>2
  <2>. QED  BY <1>3, <2>1 DEF RouteInv, RoutesTrue, Tables, RouteTrue
<1>. QED  BY <1>1, <1>3, <1>4 DEF RouteInv, RouteType, FramesTrue, RoutesTrue

-----------------------------------------------------------------------------
LEMMA RoutesInitially == Init => RouteInv
<1>. SUFFICES ASSUME Init PROVE RouteInv
  OBVIOUS
<1>1. RouteType
  BY DEF Init, RouteType
<1>2. FramesTrue
  <2>. SUFFICES ASSUME NEW n \in Node
                PROVE  /\ txq[n] \in Queue(FramesAt(n, 0, knew))
                       /\ rxq[n] \in Seq(FramesAt(n, 1, knew)) /\ Len(rxq[n]) <= RxDepth
    BY DEF FramesTrue
  <2>1. txq[n] = <<>> /\ rxq[n] = <<>>
    BY DEF Init
  <2>. QED  BY <2>1, LimitsAssumption DEF Queue
<1>3. RoutesTrue
  BY DEF Init, RoutesTrue, Tables, RouteTrue
<1>. QED  BY <1>1, <1>2, <1>3 DEF RouteInv

LEMMA RoutesStep ==
  ASSUME PendInv, RouteInv, [Next]_vars
  PROVE  RouteInv'
<1>1. ASSUME NEW m \in Msgs, Has(Src[m], Dst[m]), SubmitVia(m, routes[Src[m]][Dst[m]].next)
      PROVE  RouteInv'
  <2>1. routes[Src[m]][Dst[m]] \in Route
    BY <1>1, EndsAssumption DEF Has, RouteInv, RouteType
  <2>2. routes[Src[m]][Dst[m]].next \in Node
    BY <2>1 DEF Route
  <2>. QED  BY <1>1, <2>2, SubmitViaRoutes
<1>2. ASSUME NEW m \in Msgs, NEW k \in near[Src[m]], SubmitVia(m, k)
      PROVE  RouteInv'
  <2>1. k \in Node
    BY EndsAssumption DEF RouteInv, RouteType
  <2>. QED  BY <1>2, <2>1, SubmitViaRoutes
<1>3. ASSUME NEW m \in Msgs, SubmitPending(m) PROVE RouteInv'
  BY <1>3, SubmitPendingRoutes
<1>4. ASSUME NEW n \in Node, DropDuplicate(n) PROVE RouteInv'
  BY <1>4, DropRoutes
<1>5. ASSUME NEW n \in Node, NEW fwd \in BOOLEAN, ReceiveData(n, fwd) PROVE RouteInv'
  BY <1>5, ReceiveDataRoutes
<1>6. ASSUME NEW n \in Node, NEW good \in BOOLEAN, NEW fwd \in BOOLEAN, ReceiveReq(n, good, fwd)
      PROVE  RouteInv'
  BY <1>6, ReceiveReqRoutes
<1>7. ASSUME NEW n \in Node, NEW ok \in BOOLEAN, NEW fwd \in BOOLEAN, ReceiveRpl(n, ok, fwd)
      PROVE  RouteInv'
  BY <1>7, ReceiveRplRoutes
<1>8. ASSUME NEW n \in Node, NEW heard \in SUBSET Neighbors[n], Transmit(n, heard)
      PROVE  RouteInv'
  BY <1>8, TransmitRoutes
<1>9. ASSUME NEW n \in Node, NEW d \in Node, LoseRoute(n, d) PROVE RouteInv'
  BY <1>9, LoseRouteRoutes
<1>10. CASE UNCHANGED <<txq, rxq, bus, routes, near, knew>>
  BY <1>10 DEF RouteInv, RouteType, FramesTrue, RoutesTrue
<1>11. Advance \/ UNCHANGED vars => UNCHANGED <<txq, rxq, bus, routes, near, knew>>
  BY DEF Advance, vars
<1>. QED  BY <1>1, <1>2, <1>3, <1>4, <1>5, <1>6, <1>7, <1>8, <1>9, <1>10, <1>11 DEF Next

Inv == PendInv /\ CountExact /\ RouteInv

LEMMA InvAlways == Spec => []Inv
<1>1. Init => Inv
  BY PendInitially, RoutesInitially DEF Inv
<1>2. Inv /\ [Next]_vars => Inv'
  BY PendStep, RoutesStep DEF Inv
<1>. QED  BY <1>1, <1>2, PTL DEF Spec

(***************************************************************************)
(* The types of the module, the lengths of the queues among them.          *)
(***************************************************************************)
THEOREM TypeCorrect == Spec => []TypeOK
<1>1. ASSUME Inv PROVE TypeOK
  <2>1. \A n \in Node : /\ txq[n] \in Seq(Frames) /\ Len(txq[n]) <= TxDepth
                        /\ rxq[n] \in Seq(Frames) /\ Len(rxq[n]) <= RxDepth
    <3>1. \A n, e, K : FramesAt(n, e, K) \subseteq Frames
      BY DEF FramesAt
    <3>. QED  BY <1>1, <3>1, SeqGrows DEF Inv, RouteInv, FramesTrue, Queue
  <2>2. txq = [n \in Node |-> txq[n]] /\ rxq = [n \in Node |-> rxq[n]]
    BY <1>1 DEF Inv, RouteInv, RouteType
  <2>3. txq \in [Node -> Seq(Frames)] /\ rxq \in [Node -> Seq(Frames)]
    BY <2>1, <2>2
  <2>. QED  BY <1>1, <2>1, <2>3 DEF TypeOK, Inv, PendInv, PendType, RouteInv, RouteType
<1>. QED  BY <1>1, InvAlways, PTL

(***************************************************************************)
(* A live route never claims fewer hops than the mesh has, whoever relayed *)
(* or answered from a cache (rivr_sources.c line 831).                     *)
(***************************************************************************)
THEOREM HopsAlwaysAtLeastDist == Spec => []HopsAtLeastDist
<1>1. Inv => HopsAtLeastDist
  BY DEF Inv, RouteInv, RoutesTrue, Tables, RouteTrue, HopsAtLeastDist, Has
<1>. QED  BY <1>1, InvAlways, PTL

(***************************************************************************)
(* The next hop of a route is the destination or had a route to it itself  *)
(* (routing_should_reply_route_req, rivr_sources.c line 810).              *)
(***************************************************************************)
THEOREM NextHopAlwaysKnew == Spec => []NextHopKnew
<1>1. Inv => NextHopKnew
  BY DEF Inv, RouteInv, RoutesTrue, Tables, RouteTrue, NextHopKnew, Has
<1>. QED  BY <1>1, InvAlways, PTL
=============================================================================
