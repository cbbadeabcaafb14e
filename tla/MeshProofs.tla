----------------------------- MODULE MeshProofs -----------------------------
(***************************************************************************)
(* Mesh for every mesh of nodes, every set of messages and every size of   *)
(* the queues, of the retry table and of the duplicate cache: types;       *)
(* relays that happen once; acknowledgements that tell the truth; and      *)
(* duplicates that are what they seem.  The last two hold until a packet   *)
(* id is used again: by a counter that came round, by a restart, which     *)
(* sets it to 0 (g_ctrl_seq is not stored), or by an app that chose it     *)
(* (source_handle_ble_origination keeps the pkt_id of an app's frame).     *)
(***************************************************************************)
EXTENDS Mesh, BasicProofs

-----------------------------------------------------------------------------
(***************************************************************************)
(* What is in flight: of every frame in a queue, the part that no relay    *)
(* changes.                                                                *)
(***************************************************************************)
Ident(f) == [kind |-> f.kind, src |-> f.src, dst |-> f.dst, areq |-> f.areq,
             pid |-> f.pid, msg |-> f.msg, apid |-> f.apid]

Idents(q) == {Ident(q[i]) : i \in DOMAIN q}

Queued(n) == Idents(txq[n]) \cup Idents(rxq[n]) \cup Idents(outbox[n])

InFlight == UNION {Queued(n) : n \in Node}

Known(n) == Range(bus[n])

\* The unicasts whose packet id an app chose.
AppMsgs == {m \in Msgs : Dst[m] # Broadcast /\ AppId[m] # 0}

\* The packet ids taken at n, from its counter and by its apps.
Taken(n) == 1 .. ctr[n] \cup {AppId[m] : m \in {k \in sent \cap AppMsgs : Src[k] = n}}

\* No counter of packet ids has come round; the apps of a node choose different
\* ids, that its counter has not reached; and no node lost its memory.
Unwrapped == \A n \in Node : ctr[n] < PktIdMod
Apart ==
  \A m \in AppMsgs :
    /\ ctr[Src[m]] < AppId[m]
    /\ \A k \in AppMsgs : Src[k] = Src[m] /\ AppId[k] = AppId[m] => k = m
FirstIds == restarts = 0 /\ Unwrapped /\ Apart

\* A frame has a packet id its source took; an acknowledgement is asked of the
\* next hop of a message only, and names a packet id of its destination.
Sound(f) ==
  /\ f.kind \in {"data", "ack"}
  /\ f.src \in Node
  /\ f.pid \in Taken(f.src)
  /\ f.kind = "data" => f.msg \in Msgs
  /\ f.areq => f.kind = "data" /\ f.dst = Via[f.msg]
  /\ f.kind = "ack" => f.dst \in Node /\ f.apid \in Taken(f.dst)

FlightSound == \A f \in InFlight : Sound(f)

\* One packet id, one message.
KeysTell == \A f, g \in InFlight : Key(f) = Key(g) => f.kind = g.kind /\ f.msg = g.msg

\* A duplicate cache holds keys that exist, and the data it would refuse has
\* reached the application.
KnownOld == \A n \in Node : \A k \in Known(n) : k[1] \in Node /\ k[2] \in Taken(k[1])

KnownReached ==
  \A n \in Node : \A f \in InFlight :
    f.kind = "data" /\ Key(f) \in Known(n) => got[n][f.msg] > 0

\* A retry entry names a packet id and a message of its node.
EntrySound(n, i) ==
  LET e == tbl[n][i]
  IN  e.data \in Msgs /\ Src[e.data] = n /\ Dst[e.data] # Broadcast /\ e.pid \in Taken(n)

\* The frames with its packet id carry its message, and an acknowledgement of
\* it comes from a next hop that the message has reached.
EntryTells(n, i) ==
  LET e == tbl[n][i]
  IN  \A f \in InFlight :
        /\ Key(f) = <<n, e.pid>> => f.kind = "data" /\ f.msg = e.data
        /\ f.kind = "ack" /\ f.dst = n /\ f.apid = e.pid => got[Via[e.data]][e.data] > 0

EntriesTrue ==
  \A n \in Node : \A i \in Live(tbl[n]) : EntrySound(n, i) /\ EntryTells(n, i)

AckedSound == \A m \in acked : Dst[m] # Broadcast /\ got[Via[m]][m] > 0

FlightInv ==
  /\ FlightSound
  /\ KeysTell
  /\ KnownOld
  /\ KnownReached
  /\ EntriesTrue
  /\ AckedSound
-----------------------------------------------------------------------------
(***************************************************************************)
(* Frames and queues of frames.                                            *)
(***************************************************************************)

\* Queues of at most d frames that carry members of S only.
Queue(d, S) == {q \in Seq(Frames) : Len(q) <= d /\ Idents(q) \subseteq S}

LEMMA QueueGrows ==
  ASSUME NEW d, NEW S, NEW T, S \subseteq T
  PROVE  Queue(d, S) \subseteq Queue(d, T)
  BY DEF Queue

LEMMA QueueEmpty ==
  ASSUME NEW d \in Nat, NEW S
  PROVE  <<>> \in Queue(d, S)
  BY DEF Queue, Idents

LEMMA QueueAppend ==
  ASSUME NEW d \in Nat, NEW S, NEW q \in Queue(d, S), NEW f \in Frames, Ident(f) \in S,
         Len(q) < d
  PROVE  Append(q, f) \in Queue(d, S)
<1>1. q \in Seq(Frames)
  BY DEF Queue
<1>2. Append(q, f) \in Seq(Frames) /\ Len(Append(q, f)) = Len(q) + 1
  BY <1>1
<1>3. ASSUME NEW i \in DOMAIN Append(q, f)
      PROVE  Ident(Append(q, f)[i]) \in S
  <2>1. i \in 1 .. Len(q) + 1
    BY <1>1, <1>2, <1>3
  <2>2. CASE i = Len(q) + 1
    BY <1>1, <2>2
  <2>3. CASE i # Len(q) + 1
    <3>1. i \in DOMAIN q /\ Append(q, f)[i] = q[i]
      BY <1>1, <2>1, <2>3
    <3>. QED  BY <3>1 DEF Queue, Idents
  <2>. QED  BY <2>2, <2>3
<1>4. Len(Append(q, f)) <= d
  BY <1>1, <1>2
<1>5. Idents(Append(q, f)) \subseteq S
  BY <1>3 DEF Idents
<1>. QED  BY <1>2, <1>4, <1>5 DEF Queue

LEMMA QueuePush ==
  ASSUME NEW d \in Nat, NEW S, NEW q \in Queue(d, S), NEW f \in Frames, Ident(f) \in S
  PROVE  TryPush(q, f, d) \in Queue(d, S)
  BY QueueAppend DEF TryPush

LEMMA QueueHead ==
  ASSUME NEW d, NEW S, NEW q \in Queue(d, S), q # <<>>
  PROVE  Head(q) \in Frames /\ Ident(Head(q)) \in S
<1>1. q \in Seq(Frames) /\ 1 \in DOMAIN q /\ Head(q) = q[1]
  BY DEF Queue
<1>. QED  BY <1>1 DEF Queue, Idents

LEMMA QueueTail ==
  ASSUME NEW d \in Nat, NEW S, NEW q \in Queue(d, S), q # <<>>
  PROVE  Tail(q) \in Queue(d, S) /\ Len(Tail(q)) = Len(q) - 1 /\ Len(q) \in Nat
<1>1. q \in Seq(Frames) /\ Len(q) <= d
  BY DEF Queue
<1>2. Tail(q) \in Seq(Frames) /\ Len(Tail(q)) = Len(q) - 1 /\ Len(q) \in Nat
  BY <1>1
<1>3. ASSUME NEW i \in DOMAIN Tail(q)
      PROVE  Ident(Tail(q)[i]) \in S
  <2>1. i + 1 \in DOMAIN q /\ Tail(q)[i] = q[i + 1]
    BY <1>1, <1>2
  <2>. QED  BY <2>1 DEF Queue, Idents
<1>4. Len(Tail(q)) <= d
  BY <1>1, <1>2
<1>5. Idents(Tail(q)) \subseteq S
  BY <1>3 DEF Idents
<1>. QED  BY <1>2, <1>4, <1>5 DEF Queue

LEMMA QueueRest ==
  ASSUME NEW d \in Nat, NEW S, NEW q \in Queue(d, S), NEW k \in 0 .. Len(q)
  PROVE  SubSeq(q, k + 1, Len(q)) \in Queue(d, S)
<1>1. q \in Seq(Frames) /\ Len(q) <= d /\ Len(q) \in Nat
  BY DEF Queue
<1>. DEFINE r == SubSeq(q, k + 1, Len(q))
<1>2. r \in Seq(Frames) /\ Len(r) = Len(q) - k
  BY <1>1
<1>3. ASSUME NEW i \in DOMAIN r
      PROVE  Ident(r[i]) \in S
  <2>1. i \in 1 .. Len(q) - k
    BY <1>2
  <2>2. i + k \in DOMAIN q /\ r[i] = q[i + k]
    BY <1>1, <2>1
  <2>. QED  BY <2>2 DEF Queue, Idents
<1>4. Len(r) <= d
  BY <1>1, <1>2
<1>. QED  BY <1>2, <1>3, <1>4 DEF Queue, Idents

PktIds == 0 .. PktIdMod - 1

LEMMA PidType ==
  ASSUME NEW c \in Nat
  PROVE  /\ c % PktIdMod \in PktIds
         /\ c < PktIdMod => c % PktIdMod = c
<1>1. PktIdMod \in Nat /\ PktIdMod > 0
  BY PktIdAssumption
<1>2. c % PktIdMod \in 0 .. PktIdMod - 1
  BY <1>1
<1>3. c < PktIdMod => c % PktIdMod = c
  BY <1>1
<1>. QED  BY <1>2, <1>3 DEF PktIds

\* A message of n that the retry table protects.
Owned(n, m) == m \in Msgs /\ Src[m] = n /\ Dst[m] # Broadcast

LEMMA ChatType ==
  ASSUME NEW m \in Msgs, NEW pid \in PktIds
  PROVE  /\ Chat(m, pid) \in Frames
         /\ Fallback(m, pid) \in Frames
         /\ Dst[m] # Broadcast => Via[m] \in Node /\ Unicast(m, pid) \in Frames
<1>. DEFINE no == FALSE
            yes == TRUE
<1>1. no \in BOOLEAN /\ yes \in BOOLEAN
  OBVIOUS
<1>2. /\ {DefaultTtl, FallbackTtl} \subseteq 0 .. DefaultTtl
      /\ 0 \in 0 .. DefaultTtl /\ 1 \in 0 .. DefaultTtl
  BY CountsAssumption, TtlAssumption
<1>3. Src[m] \in Node /\ (Dst[m] # Broadcast => Via[m] \in Node)
  BY RoutesAssumption, NeighborsAssumption
<1>4. 0 \in PktIds
  BY PktIdAssumption DEF PktIds
<1>5. Chat(m, pid) = [kind |-> "data", src |-> Src[m], dst |-> Broadcast, ttl |-> DefaultTtl,
                      hop |-> 0, relay |-> no, areq |-> no, pid |-> pid, msg |-> m, apid |-> 0]
  BY DEF Chat
<1>. DEFINE chat == Chat(m, pid)
<1>11. /\ Unicast(m, pid) = [chat EXCEPT !.dst = Via[m], !.ttl = 1, !.areq = yes]
       /\ Fallback(m, pid) = [chat EXCEPT !.ttl = FallbackTtl]
  BY DEF Unicast, Fallback
<1>. HIDE DEF no, yes
<1>6. Unicast(m, pid) =
        [kind |-> "data", src |-> Src[m], dst |-> Via[m], ttl |-> 1,
         hop |-> 0, relay |-> no, areq |-> yes, pid |-> pid, msg |-> m, apid |-> 0]
  <2>. DEFINE u1 == [chat EXCEPT !.dst = Via[m]]
              u2 == [u1 EXCEPT !.ttl = 1]
  <2>1. u1 = [kind |-> "data", src |-> Src[m], dst |-> Via[m], ttl |-> DefaultTtl,
              hop |-> 0, relay |-> no, areq |-> no, pid |-> pid, msg |-> m, apid |-> 0]
    BY <1>1, <1>5
  <2>2. u2 = [kind |-> "data", src |-> Src[m], dst |-> Via[m], ttl |-> 1,
              hop |-> 0, relay |-> no, areq |-> no, pid |-> pid, msg |-> m, apid |-> 0]
    <3>. HIDE DEF u1
    <3>. QED  BY <1>1, <2>1
  <2>3. Unicast(m, pid) = [u2 EXCEPT !.areq = yes]
    BY <1>11
  <2>. HIDE DEF u1, u2
  <2>. QED  BY <1>1, <2>2, <2>3
<1>7. Fallback(m, pid) =
        [kind |-> "data", src |-> Src[m], dst |-> Broadcast, ttl |-> FallbackTtl,
         hop |-> 0, relay |-> no, areq |-> no, pid |-> pid, msg |-> m, apid |-> 0]
  BY <1>5, <1>11
<1>8. Chat(m, pid) \in Frames
  BY <1>1, <1>2, <1>3, <1>4, <1>5 DEF Frames, PktIds
<1>9. Fallback(m, pid) \in Frames
  BY <1>1, <1>2, <1>3, <1>4, <1>7 DEF Frames, PktIds
<1>10. Dst[m] # Broadcast => Unicast(m, pid) \in Frames
  BY <1>1, <1>2, <1>3, <1>4, <1>6 DEF Frames, PktIds
<1>. QED  BY <1>3, <1>8, <1>9, <1>10

LEMMA AckType ==
  ASSUME NEW n \in Node, NEW f \in Frames, NEW pid \in PktIds
  PROVE  AckFor(n, f, pid) \in Frames
<1>. DEFINE no == FALSE
<1>1. no \in BOOLEAN /\ AckTtl \in 0 .. DefaultTtl /\ 0 \in 0 .. DefaultTtl
  BY CountsAssumption, TtlAssumption
<1>2. AckFor(n, f, pid) =
        [kind |-> "ack", src |-> n, dst |-> f.src, ttl |-> AckTtl, hop |-> 0,
         relay |-> no, areq |-> no, pid |-> pid, msg |-> 0, apid |-> f.pid]
  BY DEF AckFor
<1>3. f.src \in Node /\ f.pid \in PktIds
  BY DEF Frames, PktIds
<1>. HIDE DEF no
<1>. QED  BY <1>1, <1>2, <1>3 DEF Frames, PktIds

\* A relay leaves the identity of a frame alone.
LEMMA RelayedType ==
  ASSUME NEW n, NEW f \in Frames, MayRelay(n, f)
  PROVE  Relayed(f) \in Frames /\ Ident(Relayed(f)) = Ident(f)
<1>. DEFINE yes == TRUE
            ttl == IF f.kind = "data" /\ f.ttl - 1 > TtlCap THEN TtlCap ELSE f.ttl - 1
            g == [f EXCEPT !.ttl = ttl, !.hop = f.hop + 1, !.relay = yes]
<1>1. yes \in BOOLEAN /\ Relayed(f) = g
  BY DEF Relayed
<1>2. ttl \in 0 .. DefaultTtl /\ f.hop + 1 \in 0 .. DefaultTtl
  <2>1. f.ttl \in 0 .. DefaultTtl /\ f.hop \in 0 .. DefaultTtl /\ f.ttl > 0 /\ f.hop < DefaultTtl
    BY DEF Frames, MayRelay
  <2>2. TtlCap \in Nat /\ DefaultTtl \in Nat
    BY CountsAssumption
  <2>. QED  BY <2>1, <2>2
<1>. HIDE DEF yes, ttl
<1>3. g \in Frames
  BY <1>1, <1>2 DEF Frames
<1>4. /\ g.kind = f.kind /\ g.src = f.src /\ g.dst = f.dst
      /\ g.pid = f.pid /\ g.msg = f.msg /\ g.apid = f.apid
  BY DEF Frames
<1>5. g.areq = f.areq
  BY Zenon DEF Frames
<1>6. Ident(g) = Ident(f)
  <2>. HIDE DEF g
  <2>. QED  BY <1>4, <1>5 DEF Ident
<1>. QED  BY <1>1, <1>3, <1>6

-----------------------------------------------------------------------------
(***************************************************************************)
(* The tick of the retry table.                                            *)
(***************************************************************************)

LEMMA SlotsFinite == IsFiniteSet(RetrySlots) /\ Cardinality(RetrySlots) = RetryTableSize
  BY RetrySizeAssumption, FS_Interval DEF RetrySlots

LEMMA SlotsSubset ==
  ASSUME NEW S \in SUBSET RetrySlots
  PROVE  IsFiniteSet(S) /\ Cardinality(S) \in Nat
  BY SlotsFinite, FS_Subset, FS_CardinalityType

LEMMA DueRankBelow ==
  ASSUME NEW due \in SUBSET RetrySlots, NEW i \in due
  PROVE  DueRank(due, i) \in Nat /\ DueRank(due, i) < Cardinality(due)
<1>. DEFINE before == {j \in due : j < i}
<1>1. before \in SUBSET due /\ before # due /\ before \in SUBSET RetrySlots
  <2>1. i \notin before
    BY DEF RetrySlots
  <2>. QED  BY <2>1
<1>2. IsFiniteSet(due) /\ Cardinality(due) \in Nat /\ Cardinality(before) \in Nat
  BY <1>1, SlotsSubset
<1>3. Cardinality(before) <= Cardinality(due) /\ Cardinality(before) # Cardinality(due)
  BY <1>1, <1>2, FS_Subset
<1>. QED  BY <1>2, <1>3 DEF DueRank

LEMMA DueRankGrows ==
  ASSUME NEW due \in SUBSET RetrySlots, NEW i \in due, NEW j \in due, i < j
  PROVE  DueRank(due, i) < DueRank(due, j)
<1>. DEFINE below(x) == {y \in due : y < x}
<1>1. /\ below(i) \in SUBSET below(j) /\ below(i) # below(j)
      /\ below(i) \in SUBSET RetrySlots /\ below(j) \in SUBSET RetrySlots
  <2>1. \A x \in below(i) : x \in below(j)
    BY DEF RetrySlots
  <2>2. i \in below(j) /\ i \notin below(i)
    BY DEF RetrySlots
  <2>. QED  BY <2>1, <2>2
<1>2. IsFiniteSet(below(j)) /\ Cardinality(below(j)) \in Nat /\ Cardinality(below(i)) \in Nat
  BY <1>1, SlotsSubset
<1>3. Cardinality(below(i)) <= Cardinality(below(j)) /\ Cardinality(below(i)) # Cardinality(below(j))
  BY <1>1, <1>2, FS_Subset
<1>. QED  BY <1>2, <1>3 DEF DueRank

\* Before the counter comes round, every due slot takes a packet id of its own.
LEMMA TickPids ==
  ASSUME NEW c \in Nat, NEW due \in SUBSET RetrySlots, NEW i \in due
  PROVE  /\ TickPid(c, due, i) \in PktIds
         /\ c + Cardinality(due) < PktIdMod =>
              /\ TickPid(c, due, i) \in c + 1 .. c + Cardinality(due)
              /\ \A j \in due : TickPid(c, due, j) = TickPid(c, due, i) => j = i
<1>1. \A j \in due : DueRank(due, j) \in Nat /\ DueRank(due, j) < Cardinality(due)
  BY DueRankBelow
<1>2. Cardinality(due) \in Nat /\ PktIdMod \in Nat
  BY SlotsSubset, PktIdAssumption
<1>3. \A j \in due : c + DueRank(due, j) + 1 \in Nat
  BY <1>1
<1>4. TickPid(c, due, i) \in PktIds
  <2>. DEFINE k == c + DueRank(due, i) + 1
  <2>1. k \in Nat
    BY <1>3
  <2>. HIDE DEF k
  <2>2. k % PktIdMod \in PktIds
    BY <2>1, PidType
  <2>. QED  BY <2>2 DEF TickPid, k
<1>5. ASSUME c + Cardinality(due) < PktIdMod, NEW j \in due
      PROVE  TickPid(c, due, j) = c + DueRank(due, j) + 1
  <2>. DEFINE k == c + DueRank(due, j) + 1
  <2>1. k \in Nat /\ k < PktIdMod
    <3>1. DueRank(due, j) \in Nat /\ DueRank(due, j) + 1 <= Cardinality(due)
      BY <1>1, <1>2
    <3>. QED  BY <1>2, <1>5, <3>1
  <2>. HIDE DEF k
  <2>2. k % PktIdMod = k
    BY <2>1, PidType
  <2>. QED  BY <2>2 DEF TickPid, k
<1>6. ASSUME c + Cardinality(due) < PktIdMod
      PROVE  TickPid(c, due, i) \in c + 1 .. c + Cardinality(due)
  <2>1. TickPid(c, due, i) = c + DueRank(due, i) + 1
    BY <1>5, <1>6
  <2>. QED  BY <1>1, <1>2, <2>1
<1>7. ASSUME c + Cardinality(due) < PktIdMod, NEW j \in due,
             TickPid(c, due, j) = TickPid(c, due, i)
      PROVE  j = i
  <2>1. DueRank(due, i) = DueRank(due, j)
    <3>1. c + DueRank(due, i) + 1 = c + DueRank(due, j) + 1
      BY <1>5, <1>7
    <3>. QED  BY <1>1, <3>1
  <2>2. i \in Nat /\ j \in Nat
    BY DEF RetrySlots
  <2>3. ~ (i < j) /\ ~ (j < i)
    BY <1>1, <2>1, DueRankGrows
  <2>. QED  BY <2>2, <2>3
<1>. QED  BY <1>4, <1>6, <1>7

\* The fold of the tick adds one frame at most for each due slot.
LEMMA TickQueue ==
  ASSUME NEW n, NEW due, NEW S, NEW q \in Queue(TxDepth, S),
         \A i \in due : TickFrame(n, due, i) \in Frames /\ Ident(TickFrame(n, due, i)) \in S
  PROVE  TickPushes(n, due, q) \in Queue(TxDepth, S)
<1>. DEFINE V == Queue(TxDepth, S)
            U(i) == TickFrame(n, due, i)
            Step(i, t) == IF i \in due THEN TryPush(t, U(i), TxDepth) ELSE t
            pick == [s \in SUBSET RetrySlots |-> Max(s)]
            step == [i \in RetrySlots |-> [t \in V |-> Step(i, t)]]
            order == [i \in RetrySlots |-> i]
            Fold(F) == F = [s \in SUBSET DOMAIN order |->
                              IF s = {} THEN q ELSE Step(order[Max(s)], F[s \ {Max(s)}])]
<1>1. \A i \in RetrySlots, t \in V : Step(i, t) \in V
  <2>1. TxDepth \in Nat
    BY CountsAssumption
  <2>. HIDE DEF U
  <2>. QED  BY <2>1, QueuePush DEF U
<1>2. \A s \in (SUBSET RetrySlots) \ {{}} : Max(s) \in s
  <2>. SUFFICES ASSUME NEW s \in SUBSET RetrySlots, s # {} PROVE Max(s) \in s
    OBVIOUS
  <2>1. RetryTableSize \in Nat /\ s \subseteq 0 .. RetryTableSize
    BY RetrySizeAssumption DEF RetrySlots
  <2>2. \E x \in s : \A y \in s : x >= y
    BY <2>1, GreatestMember
  <2>. QED  BY <2>2 DEF Max
<1>. HIDE DEF V, U, Step
<1>3. Picks(pick, RetrySlots)
  BY <1>2 DEF Picks
<1>4. \A x \in RetrySlots, v \in V : step[x][v] \in V
  BY <1>1
<1>5. DOMAIN order = RetrySlots /\ \A i \in RetrySlots : order[i] = i
  OBVIOUS
<1>6. \E F : Fold(F)
  <2>1. PICK F : F = [s \in SUBSET RetrySlots |-> F[s]] /\ IsFold(F, RetrySlots, q, pick, step)
    <3>. HIDE DEF pick, step
    <3>. QED  BY <1>3, SlotsFinite, FoldExists
  <2>2. \A s \in SUBSET RetrySlots : F[s] \in V
    <3>. HIDE DEF pick, step
    <3>1. q \in V
      BY DEF V
    <3>. QED  BY <1>3, <1>4, <2>1, <3>1, SlotsFinite, FoldType
  <2>3. ASSUME NEW s \in SUBSET RetrySlots
        PROVE  F[s] = IF s = {} THEN q ELSE Step(order[Max(s)], F[s \ {Max(s)}])
    BY <1>2, <1>5, <2>1, <2>2 DEF IsFold
  <2>. DEFINE W(s) == IF s = {} THEN q ELSE Step(order[Max(s)], F[s \ {Max(s)}])
  <2>4. [s \in SUBSET RetrySlots |-> F[s]] = [s \in SUBSET RetrySlots |-> W(s)]
    BY <2>3
  <2>5. SUBSET RetrySlots = SUBSET DOMAIN order
    BY <1>5
  <2>6. Fold(F)
    <3>. HIDE DEF order, W
    <3>1. F = [s \in SUBSET DOMAIN order |-> W(s)]
      BY <2>1, <2>4, <2>5
    <3>. QED  BY <3>1 DEF W
  <2>. HIDE DEF Fold
  <2>. QED  BY <2>6
<1>7. ASSUME NEW F, Fold(F)
      PROVE  F[RetrySlots] \in V
  <2>. DEFINE Bad == {s \in SUBSET RetrySlots : F[s] \notin V}
  <2>. SUFFICES ASSUME Bad # {} PROVE FALSE
    OBVIOUS
  <2>1. PICK t \in Bad : \A u \in Bad : u \subseteq t => u = t
    <3>1. Bad \subseteq SUBSET RetrySlots
      OBVIOUS
    <3>. HIDE DEF Bad
    <3>. QED  BY <3>1, SlotsFinite, MinimalSubset
  <2>2. t \in SUBSET RetrySlots /\ F[t] \notin V
    BY <2>1
  <2>3. F[t] = IF t = {} THEN q ELSE Step(order[Max(t)], F[t \ {Max(t)}])
    BY <1>5, <1>7, <2>2
  <2>4. t # {} /\ Max(t) \in t /\ order[Max(t)] = Max(t)
    BY <1>2, <1>5, <2>2, <2>3 DEF V
  <2>5. F[t \ {Max(t)}] \in V
    BY <2>1, <2>2, <2>4
  <2>. QED  BY <1>1, <2>2, <2>3, <2>4, <2>5
<1>8. TickPushes(n, due, q) = (CHOOSE F : Fold(F))[RetrySlots]
  <2>1. TickPushes(n, due, q) = (CHOOSE F : Fold(F))[DOMAIN order]
    BY DEF TickPushes, FoldLeft, MapThenFoldSet, Step, U
  <2>. QED  BY <1>5, <2>1
<1>. HIDE DEF Fold
<1>. QED  BY <1>6, <1>7, <1>8 DEF V

-----------------------------------------------------------------------------
(***************************************************************************)
(* Types: what every step keeps, whatever set S the frames in flight and   *)
(* those the step adds are taken from.                                     *)
(***************************************************************************)
Keys == Node \X Nat

Caches == {b \in Seq(Keys) : Len(b) <= BusSize}

Entries == [valid : BOOLEAN, data : Msgs \cup {0}, pid : PktIds,
            left : 0 .. RetryMax, interval : Nat, next : Nat]

\* The entries that the table of n may hold.
EntriesOf(n) == {e \in Entries : e.valid => Owned(n, e.data)}

MeshType ==
  /\ bus \in [Node -> Caches]
  /\ DOMAIN tbl = Node /\ (\A n \in Node : tbl[n] \in [RetrySlots -> EntriesOf(n)])
  /\ tbl = [n \in Node |-> tbl[n]]
  /\ ctr \in [Node -> Nat]
  /\ restarts \in 0 .. MaxRestarts
  /\ sent \in SUBSET Msgs
  /\ acked \in SUBSET Msgs
  /\ got \in [Node -> [Msgs -> Nat]]
  /\ relayed \in [Node -> Seq(Keys)]

Carries(S) ==
  /\ txq \in [Node -> Queue(TxDepth, S)]
  /\ rxq \in [Node -> Queue(RxDepth, S)]
  /\ outbox \in [Node -> Queue(OutDepth, S)]

LEMMA DepthsType == TxDepth \in Nat /\ RxDepth \in Nat /\ OutDepth \in Nat
  BY CountsAssumption

\* What is in flight is what the queues carry.
LEMMA CarriedInFlight ==
  ASSUME NEW S, Carries(S)
  PROVE  InFlight \subseteq S /\ Carries(InFlight)
<1>1. \A n \in Node : Queued(n) \subseteq S
  BY DEF Carries, Queue, Queued
<1>2. \A n \in Node : Queued(n) \subseteq InFlight
  BY DEF InFlight
<1>3. Carries(InFlight)
  <2>1. ASSUME NEW n \in Node
        PROVE  /\ txq[n] \in Queue(TxDepth, InFlight)
               /\ rxq[n] \in Queue(RxDepth, InFlight)
               /\ outbox[n] \in Queue(OutDepth, InFlight)
    BY <1>2 DEF Carries, Queue, Queued
  <2>. QED  BY <2>1 DEF Carries
<1>. QED  BY <1>1, <1>3 DEF InFlight

\* The same after a step.
LEMMA CarriedNext ==
  ASSUME NEW S, Carries(S)'
  PROVE  InFlight' \subseteq S
<1>1. \A n \in Node : Queued(n)' \subseteq S
  BY DEF Carries, Queue, Queued
<1>. QED  BY <1>1 DEF InFlight

LEMMA CarriesGrows ==
  ASSUME NEW S, NEW T, S \subseteq T, Carries(S)
  PROVE  Carries(T)
<1>1. /\ Queue(TxDepth, S) \subseteq Queue(TxDepth, T)
      /\ Queue(RxDepth, S) \subseteq Queue(RxDepth, T)
      /\ Queue(OutDepth, S) \subseteq Queue(OutDepth, T)
  BY QueueGrows
<1>. QED  BY <1>1 DEF Carries

LEMMA KeyType ==
  ASSUME NEW f \in Frames
  PROVE  Key(f) \in Keys
<1>1. f.src \in Node /\ f.pid \in Nat
  BY PktIdAssumption DEF Frames
<1>. QED  BY <1>1 DEF Key, Keys

\* The cache takes the key of f, and holds no other new one.
LEMMA RememberType ==
  ASSUME MeshType, NEW n \in Node, NEW f \in Frames, Remember(n, f)
  PROVE  /\ bus' \in [Node -> Caches]
         /\ \A k \in Node : k # n => bus'[k] = bus[k]
         /\ Range(bus'[n]) \subseteq Range(bus[n]) \cup {Key(f)}
         /\ Key(f) \in Range(bus'[n])
         /\ Len(bus[n]) < BusSize => Range(bus'[n]) = Range(bus[n]) \cup {Key(f)}
                                     /\ Len(bus'[n]) = Len(bus[n]) + 1
         /\ Len(bus[n]) = BusSize => Len(bus'[n]) = BusSize
<1>. DEFINE b == bus[n]
            kept == IF Len(b) = BusSize THEN Tail(b) ELSE b
            c == Append(kept, Key(f))
<1>1. b \in Seq(Keys) /\ Len(b) <= BusSize /\ Len(b) \in Nat
  BY DEF MeshType, Caches
<1>2. BusSize \in Nat /\ BusSize >= 1 /\ Key(f) \in Keys
  BY KeyType, BusAssumption
<1>3. /\ kept \in Seq(Keys) /\ Len(kept) < BusSize /\ Range(kept) \subseteq Range(b)
      /\ Len(b) < BusSize => kept = b
      /\ Len(b) = BusSize => Len(kept) = BusSize - 1
  <2>1. CASE Len(b) = BusSize
    <3>1. kept = Tail(b) /\ Len(b) >= 1
      BY <1>2, <2>1
    <3>2. b # <<>>
      BY <1>1, <3>1
    <3>3. Tail(b) \in Seq(Keys) /\ Len(Tail(b)) = Len(b) - 1
      BY <1>1, <3>2
    <3>4. ASSUME NEW i \in DOMAIN Tail(b) PROVE Tail(b)[i] \in Range(b)
      <4>1. i + 1 \in DOMAIN b /\ Tail(b)[i] = b[i + 1]
        BY <1>1, <3>2, <3>3
      <4>. QED  BY <4>1 DEF Range
    <3>. QED  BY <1>1, <1>2, <2>1, <3>1, <3>3, <3>4 DEF Range
  <2>2. CASE Len(b) # BusSize
    <3>1. kept = b
      BY <2>2
    <3>2. Len(b) < BusSize
      BY <1>1, <1>2, <2>2
    <3>. HIDE DEF kept, b
    <3>. QED  BY <1>1, <2>2, <3>1, <3>2
  <2>. QED  BY <2>1, <2>2
<1>. HIDE DEF kept, b
<1>4. c \in Seq(Keys) /\ Len(c) = Len(kept) + 1 /\ Len(kept) \in Nat
  BY <1>2, <1>3
<1>5. Range(c) = Range(kept) \cup {Key(f)}
  <2>1. DOMAIN c = 1 .. Len(kept) + 1 /\ DOMAIN kept = 1 .. Len(kept)
    BY <1>3, <1>4
  <2>2. \A i \in 1 .. Len(kept) : c[i] = kept[i]
    BY <1>3
  <2>3. c[Len(kept) + 1] = Key(f)
    BY <1>3
  <2>. HIDE DEF c
  <2>. QED  BY <1>4, <2>1, <2>2, <2>3 DEF Range
<1>6. bus' = [bus EXCEPT ![n] = c]
  BY DEF Remember, kept, b
<1>. HIDE DEF c
<1>7. bus'[n] = c /\ \A k \in Node : k # n => bus'[k] = bus[k]
  BY <1>6 DEF MeshType
<1>8. c \in Caches
  BY <1>2, <1>3, <1>4 DEF Caches
<1>9. bus' \in [Node -> Caches]
  BY <1>6, <1>8 DEF MeshType
<1>10. Len(b) < BusSize => Len(c) = Len(b) + 1
  BY <1>3, <1>4
<1>11. Len(b) = BusSize => Len(c) = BusSize
  BY <1>2, <1>3, <1>4
<1>. QED  BY <1>3, <1>5, <1>7, <1>9, <1>10, <1>11 DEF b

LEMMA LiveType ==
  ASSUME MeshType, NEW n \in Node, NEW i \in Live(tbl[n])
  PROVE  /\ i \in RetrySlots /\ tbl[n][i] \in Entries
         /\ Owned(n, tbl[n][i].data) /\ tbl[n][i].data \in Msgs
         /\ Via[tbl[n][i].data] \in Node
<1>1. i \in RetrySlots /\ tbl[n][i].valid /\ tbl[n][i] \in EntriesOf(n)
  BY DEF Live, MeshType
<1>2. tbl[n][i] \in Entries /\ Owned(n, tbl[n][i].data)
  BY <1>1 DEF EntriesOf
<1>. QED  BY <1>1, <1>2, RoutesAssumption, NeighborsAssumption DEF Owned

LEMMA FreeEntryType == \A n : FreeEntry \in EntriesOf(n) /\ FreeEntry.valid = FALSE
<1>. DEFINE no == FALSE
<1>1. no \in BOOLEAN /\ 0 \in PktIds /\ 0 \in 0 .. RetryMax
  BY PktIdAssumption, RetryMaxAssumption DEF PktIds
<1>2. FreeEntry = [valid |-> no, data |-> 0, pid |-> 0, left |-> 0, interval |-> 0, next |-> 0]
  BY DEF FreeEntry
<1>. HIDE DEF no
<1>3. FreeEntry \in Entries
  BY <1>1, <1>2 DEF Entries
<1>4. FreeEntry.valid = FALSE
  BY Zenon DEF FreeEntry
<1>. QED  BY <1>3, <1>4 DEF EntriesOf

LEMMA NewEntryType ==
  ASSUME NEW n, NEW m, Owned(n, m), NEW pid \in PktIds
  PROVE  /\ NewEntry(m, pid, 0) \in EntriesOf(n)
         /\ NewEntry(m, pid, 0).data = m /\ NewEntry(m, pid, 0).pid = pid
<1>. DEFINE yes == TRUE
            at == (0 + RetryTimeout) % ClockMod
<1>1. yes \in BOOLEAN /\ at \in Nat
  BY RetryTimeoutAssumption, ClockAssumption
<1>2. NewEntry(m, pid, 0) = [valid |-> yes, data |-> m, pid |-> pid, left |-> RetryMax,
                             interval |-> RetryTimeout, next |-> at]
  BY DEF NewEntry
<1>. HIDE DEF yes, at
<1>3. NewEntry(m, pid, 0) \in Entries
  BY <1>1, <1>2, RetryMaxAssumption, RetryTimeoutAssumption DEF Entries, Owned
<1>4. NewEntry(m, pid, 0).data = m /\ NewEntry(m, pid, 0).pid = pid
  BY <1>2
<1>. QED  BY <1>3, <1>4 DEF EntriesOf

LEMMA RetriedType ==
  ASSUME NEW n, NEW e \in EntriesOf(n), e.left > 0, NEW pid \in PktIds
  PROVE  /\ Retried(e, pid, 0) \in EntriesOf(n)
         /\ Retried(e, pid, 0).data = e.data /\ Retried(e, pid, 0).pid = pid
         /\ Retried(e, pid, 0).valid = e.valid
<1>. DEFINE at == (0 + 2 * e.interval) % ClockMod
            left == e.left - 1
            interval == 2 * e.interval
            r1 == [e EXCEPT !.pid = pid, !.left = left]
            r2 == [r1 EXCEPT !.interval = interval, !.next = at]
<1>1. e \in Entries
  BY DEF EntriesOf
<1>2. left \in 0 .. RetryMax /\ interval \in Nat /\ at \in Nat
  <2>1. e.left \in 0 .. RetryMax /\ e.interval \in Nat
    BY <1>1 DEF Entries
  <2>. QED  BY <2>1, ClockAssumption, RetryMaxAssumption
<1>3. Retried(e, pid, 0) = r2
  BY DEF Retried
<1>. HIDE DEF at, left, interval
<1>4. r1 \in Entries /\ r1.data = e.data /\ r1.pid = pid
  BY <1>1, <1>2 DEF Entries
<1>5. r1.valid = e.valid
  BY <1>1, Zenon DEF Entries
<1>. HIDE DEF r1
<1>6. r2 \in Entries /\ r2.data = e.data /\ r2.pid = pid
  BY <1>2, <1>4 DEF Entries
<1>7. r2.valid = e.valid
  BY <1>4, <1>5, Zenon DEF Entries
<1>. HIDE DEF r2
<1>. QED  BY <1>3, <1>6, <1>7 DEF EntriesOf

-----------------------------------------------------------------------------
\* A message is submitted to the outbox.
LEMMA SubmitChatType ==
  ASSUME MeshType, NEW S, Carries(S), NEW m \in Msgs, NEW k \in 0 .. Len(outbox[Src[m]]),
         SubmitChat(m, k), Ident(Chat(m, (ctr[Src[m]] + 1) % PktIdMod)) \in S
  PROVE  MeshType' /\ Carries(S)'
<1>. DEFINE n == Src[m]
            f == Chat(m, (ctr[n] + 1) % PktIdMod)
<1>1. n \in Node /\ ctr[n] + 1 \in Nat
  BY RoutesAssumption DEF MeshType
<1>2. f \in Frames
  <2>1. (ctr[n] + 1) % PktIdMod \in PktIds
    BY <1>1, PidType
  <2>. QED  BY <2>1, ChatType
<1>3. outbox[n] \in Queue(OutDepth, S)
  BY <1>1 DEF Carries
<1>4. Unexpired(n, k) \in Queue(OutDepth, S)
  BY <1>1, <1>3, QueueRest, DepthsType DEF Unexpired
<1>5. outbox' = [outbox EXCEPT ![n] = TryPush(Unexpired(n, k), f, OutDepth)]
  BY DEF SubmitChat
<1>. HIDE DEF f
<1>6. TryPush(Unexpired(n, k), f, OutDepth) \in Queue(OutDepth, S)
  BY <1>2, <1>4, QueuePush, DepthsType DEF f
<1>7. Carries(S)'
  BY <1>1, <1>5, <1>6 DEF Carries, SubmitChat
<1>8. MeshType'
  BY <1>1 DEF MeshType, SubmitChat
<1>. QED  BY <1>7, <1>8

\* The outbox gives up its expired messages and its oldest one.
LEMMA OutboxTickType ==
  ASSUME MeshType, NEW S, Carries(S), NEW n \in Node, NEW k \in 0 .. Len(outbox[n]),
         OutboxTick(n, k)
  PROVE  MeshType' /\ Carries(S)'
<1>. DEFINE rest == Unexpired(n, k)
            moves == rest # <<>> /\ Len(txq[n]) < TxDepth
            t == IF moves THEN Append(txq[n], Head(rest)) ELSE txq[n]
            o == IF moves THEN Tail(rest) ELSE rest
<1>1. outbox[n] \in Queue(OutDepth, S) /\ txq[n] \in Queue(TxDepth, S)
  BY DEF Carries
<1>2. rest \in Queue(OutDepth, S)
  BY <1>1, QueueRest, DepthsType DEF Unexpired
<1>3. /\ txq' = [txq EXCEPT ![n] = t] /\ outbox' = [outbox EXCEPT ![n] = o]
      /\ UNCHANGED <<rxq, bus, tbl, ctr, restarts, sent, acked, got, relayed>>
  BY DEF OutboxTick
<1>. HIDE DEF rest
<1>4. o \in Queue(OutDepth, S)
  BY <1>2, QueueTail, DepthsType
<1>5. t \in Queue(TxDepth, S)
  <2>1. CASE moves
    <3>1. Head(rest) \in Frames /\ Ident(Head(rest)) \in S
      BY <1>2, <2>1, QueueHead
    <3>. QED  BY <1>1, <2>1, <3>1, QueueAppend, DepthsType
  <2>2. CASE ~moves
    BY <1>1, <2>2
  <2>. QED  BY <2>1, <2>2
<1>. HIDE DEF t, o
<1>. QED  BY <1>3, <1>4, <1>5 DEF MeshType, Carries

LEMMA PidForType ==
  ASSUME MeshType, NEW m \in Msgs
  PROVE  PidFor(m) \in PktIds
<1>1. CASE AppId[m] = 0
  <2>1. ctr[Src[m]] \in Nat
    BY RoutesAssumption DEF MeshType
  <2>2. CtrFor(m) \in Nat
    BY <1>1, <2>1 DEF CtrFor
  <2>. QED  BY <1>1, <2>2, PidType DEF PidFor
<1>2. CASE AppId[m] # 0
  BY <1>2, AppIdAssumption DEF PidFor, PktIds
<1>. QED  BY <1>1, <1>2

\* A message enters the retry table and the TX ring.
LEMMA SubmitUnicastType ==
  ASSUME MeshType, NEW S, Carries(S), NEW m \in Msgs, SubmitUnicast(m),
         Ident(Unicast(m, PidFor(m))) \in S
  PROVE  MeshType' /\ Carries(S)'
<1>. DEFINE n == Src[m]
            pid == PidFor(m)
            ids == IF Len(txq[n]) >= TxDepth THEN CtrFor(m) + 1 ELSE CtrFor(m)
            pid2 == ids % PktIdMod
            u == Unicast(m, pid)
            f == Fallback(m, pid2)
            full == Len(txq[n]) >= TxDepth
            q1 == TryPush(txq[n], u, TxDepth)
            q2 == TryPush(q1, f, TxDepth)
<1>1. n \in Node /\ Dst[m] # Broadcast /\ ids \in Nat
  <2>1. n \in Node /\ Dst[m] # Broadcast /\ CtrFor(m) \in Nat
    BY RoutesAssumption DEF MeshType, SubmitUnicast, CtrFor
  <2>. QED  BY <2>1
<1>2. pid \in PktIds /\ pid2 \in PktIds
  BY <1>1, PidForType, PidType
<1>3. u \in Frames /\ f \in Frames
  BY <1>1, <1>2, ChatType
<1>4. /\ tbl' = [tbl EXCEPT ![n] = RetryEnqueue(tbl[n], m, pid, 0)]
      /\ ctr' = [ctr EXCEPT ![n] = ids]
      /\ txq' = [txq EXCEPT ![n] = IF full THEN q2 ELSE q1]
      /\ sent' = sent \cup {m}
      /\ UNCHANGED <<rxq, outbox, bus, restarts, acked, got, relayed>>
  BY <1>1 DEF SubmitUnicast, MeshType, Carries
<1>5. Ident(u) \in S
  OBVIOUS
<1>6. txq[n] \in Queue(TxDepth, S)
  BY <1>1 DEF Carries
<1>. HIDE DEF u
<1>7. q1 \in Queue(TxDepth, S)
  BY <1>3, <1>5, <1>6, QueuePush, DepthsType
<1>8. full => q2 = txq[n]
  BY <1>6, DepthsType DEF TryPush, Queue
<1>. HIDE DEF q1, q2, f
<1>9. RetryEnqueue(tbl[n], m, pid, 0) \in [RetrySlots -> EntriesOf(n)]
  <2>1. Owned(n, m)
    BY <1>1 DEF Owned
  <2>2. NewEntry(m, pid, 0) \in EntriesOf(n)
    BY <1>2, <2>1, NewEntryType
  <2>3. tbl[n] \in [RetrySlots -> EntriesOf(n)]
    BY <1>1 DEF MeshType
  <2>. QED  BY <2>2, <2>3 DEF RetryEnqueue
<1>. HIDE DEF pid, ids
<1>10. /\ DOMAIN tbl' = Node /\ tbl' = [k \in Node |-> tbl'[k]]
       /\ \A k \in Node : tbl'[k] \in [RetrySlots -> EntriesOf(k)]
  <2>. DEFINE r == RetryEnqueue(tbl[n], m, pid, 0)
  <2>. HIDE DEF r
  <2>. QED  BY <1>1, <1>4, <1>9 DEF MeshType, r
<1>11. ctr' \in [Node -> Nat]
  BY <1>1, <1>4 DEF MeshType
<1>12. MeshType'
  BY <1>4, <1>10, <1>11 DEF MeshType
<1>13. Carries(S)'
  BY <1>1, <1>4, <1>6, <1>7, <1>8 DEF Carries
<1>. QED  BY <1>12, <1>13

\* The entries due are tried again or given up.
LEMMA TickType ==
  ASSUME MeshType, NEW S, Carries(S), NEW n \in Node, NEW due \in SUBSET Live(tbl[n]),
         Tick(n, due), \A i \in due : Ident(TickFrame(n, due, i)) \in S
  PROVE  MeshType' /\ Carries(S)'
<1>. DEFINE q == TickPushes(n, due, txq[n])
            r == RetryTick(tbl[n], due, ctr[n], 0)
<1>1. due \in SUBSET RetrySlots /\ ctr[n] \in Nat /\ Cardinality(due) \in Nat
  <2>1. due \in SUBSET RetrySlots
    BY DEF Live
  <2>. QED  BY <2>1, SlotsSubset DEF MeshType
<1>2. \A i \in due : TickPid(ctr[n], due, i) \in PktIds
  BY <1>1, TickPids
<1>3. \A i \in due : TickFrame(n, due, i) \in Frames
  <2>. SUFFICES ASSUME NEW i \in due PROVE TickFrame(n, due, i) \in Frames
    OBVIOUS
  <2>1. tbl[n][i].data \in Msgs /\ Dst[tbl[n][i].data] # Broadcast
    BY LiveType DEF Owned
  <2>. QED  BY <1>2, <2>1, ChatType DEF TickFrame
<1>4. q \in Queue(TxDepth, S)
  BY <1>3, TickQueue DEF Carries
<1>5. r \in [RetrySlots -> EntriesOf(n)]
  <2>1. ASSUME NEW i \in due, tbl[n][i].left > 0
        PROVE  Retried(tbl[n][i], TickPid(ctr[n], due, i), 0) \in EntriesOf(n)
    <3>1. tbl[n][i] \in EntriesOf(n)
      BY <1>1 DEF MeshType
    <3>. QED  BY <1>2, <2>1, <3>1, RetriedType
  <2>2. \A i \in RetrySlots : tbl[n][i] \in EntriesOf(n)
    BY DEF MeshType
  <2>. QED  BY <2>1, <2>2, FreeEntryType DEF RetryTick
<1>6. /\ tbl' = [tbl EXCEPT ![n] = r] /\ txq' = [txq EXCEPT ![n] = q]
      /\ ctr' = [ctr EXCEPT ![n] = ctr[n] + Cardinality(due)]
      /\ UNCHANGED <<rxq, outbox, bus, restarts, sent, acked, got, relayed>>
  BY DEF Tick, MeshType, Carries
<1>. HIDE DEF q, r
<1>7. ctr' \in [Node -> Nat]
  BY <1>1, <1>6 DEF MeshType
<1>8. /\ DOMAIN tbl' = Node /\ tbl' = [k \in Node |-> tbl'[k]]
      /\ \A k \in Node : tbl'[k] \in [RetrySlots -> EntriesOf(k)]
  BY <1>5, <1>6 DEF MeshType
<1>9. MeshType'
  BY <1>6, <1>7, <1>8 DEF MeshType
<1>10. Carries(S)'
  BY <1>4, <1>6 DEF Carries
<1>. QED  BY <1>9, <1>10

\* A frame received leaves the RX ring.
LEMMA TakeHead ==
  ASSUME MeshType, NEW S, Carries(S), NEW n \in Node, rxq[n] # <<>>,
         rxq' = [rxq EXCEPT ![n] = Tail(rxq[n])]
  PROVE  /\ Head(rxq[n]) \in Frames /\ Ident(Head(rxq[n])) \in S
         /\ rxq' \in [Node -> Queue(RxDepth, S)]
<1>1. rxq[n] \in Queue(RxDepth, S)
  BY DEF Carries
<1>2. Tail(rxq[n]) \in Queue(RxDepth, S)
  BY <1>1, QueueTail, DepthsType
<1>3. Head(rxq[n]) \in Frames /\ Ident(Head(rxq[n])) \in S
  BY <1>1, QueueHead
<1>. QED  BY <1>2, <1>3 DEF Carries

\* A relay adds a copy of the frame, and its key to the history.
LEMMA RelayType ==
  ASSUME MeshType, NEW S, Carries(S), NEW n \in Node, NEW f \in Frames, Ident(f) \in S,
         NEW q \in Queue(TxDepth, S), NEW fwd \in BOOLEAN, Relay(n, f, q, fwd)
  PROVE  /\ txq' \in [Node -> Queue(TxDepth, S)]
         /\ relayed' \in [Node -> Seq(Keys)]
<1>. DEFINE t == IF fwd THEN TryPush(q, Relayed(f), TxDepth) ELSE q
            h == IF fwd /\ Len(q) < TxDepth THEN Append(relayed[n], Key(f)) ELSE relayed[n]
<1>1. t \in Queue(TxDepth, S)
  <2>1. CASE fwd
    <3>1. Relayed(f) \in Frames /\ Ident(Relayed(f)) \in S
      BY <2>1, RelayedType DEF Relay
    <3>2. TryPush(q, Relayed(f), TxDepth) \in Queue(TxDepth, S)
      BY <3>1, QueuePush, DepthsType
    <3>. QED  BY <2>1, <3>2
  <2>2. CASE ~fwd
    BY <2>2
  <2>. QED  BY <2>1, <2>2
<1>2. h \in Seq(Keys)
  BY KeyType DEF MeshType
<1>3. txq' = [txq EXCEPT ![n] = t] /\ relayed' = [relayed EXCEPT ![n] = h]
  BY DEF Relay
<1>. HIDE DEF t, h
<1>. QED  BY <1>1, <1>2, <1>3 DEF MeshType, Carries

\* An acknowledgement is received.
LEMMA ReceiveAckType ==
  ASSUME MeshType, NEW S, Carries(S), NEW n \in Node, NEW fwd \in BOOLEAN,
         ReceiveAck(n, fwd)
  PROVE  MeshType' /\ Carries(S)'
<1>. DEFINE f == Head(rxq[n])
            r == IF f.dst = n THEN RetryAck(tbl[n], f.apid) ELSE tbl[n]
            cleared == IF f.dst = n THEN AckSlot(tbl[n], f.apid) ELSE {}
<1>1. f \in Frames /\ Ident(f) \in S /\ rxq' \in [Node -> Queue(RxDepth, S)]
  BY TakeHead DEF ReceiveAck
<1>2. /\ Remember(n, f) /\ Relay(n, f, txq[n], fwd)
      /\ tbl' = [tbl EXCEPT ![n] = r]
      /\ acked' = acked \cup {tbl[n][i].data : i \in cleared}
      /\ UNCHANGED <<outbox, ctr, restarts, sent, got>>
  BY DEF ReceiveAck, MeshType
<1>3. txq[n] \in Queue(TxDepth, S)
  BY DEF Carries
<1>. HIDE DEF f
<1>4. bus' \in [Node -> Caches]
  BY <1>1, <1>2, RememberType
<1>5. txq' \in [Node -> Queue(TxDepth, S)] /\ relayed' \in [Node -> Seq(Keys)]
  BY <1>1, <1>2, <1>3, RelayType
<1>6. r \in [RetrySlots -> EntriesOf(n)]
  BY FreeEntryType DEF MeshType, RetryAck
<1>7. acked' \in SUBSET Msgs
  <2>1. \A i \in cleared : tbl[n][i].data \in Msgs
    BY LiveType DEF AckSlot
  <2>. HIDE DEF cleared
  <2>. QED  BY <1>2, <2>1 DEF MeshType
<1>. HIDE DEF r
<1>8. /\ DOMAIN tbl' = Node /\ tbl' = [k \in Node |-> tbl'[k]]
      /\ \A k \in Node : tbl'[k] \in [RetrySlots -> EntriesOf(k)]
  BY <1>2, <1>6 DEF MeshType
<1>9. MeshType'
  BY <1>2, <1>4, <1>5, <1>7, <1>8 DEF MeshType
<1>10. Carries(S)'
  BY <1>1, <1>2, <1>5 DEF Carries
<1>. QED  BY <1>9, <1>10

\* Data is received.
LEMMA ReceiveDataType ==
  ASSUME MeshType, NEW S, Carries(S), NEW n \in Node, NEW fwd \in BOOLEAN,
         ReceiveData(n, fwd),
         Answers(n, Head(rxq[n])) =>
           Ident(AckFor(n, Head(rxq[n]), (ctr[n] + 1) % PktIdMod)) \in S
  PROVE  MeshType' /\ Carries(S)'
<1>. DEFINE f == Head(rxq[n])
            pid == (ctr[n] + 1) % PktIdMod
            a == AckFor(n, f, pid)
            answer == Answers(n, f)
            q == IF answer THEN TryPush(txq[n], a, TxDepth) ELSE txq[n]
<1>1. f \in Frames /\ Ident(f) \in S /\ rxq' \in [Node -> Queue(RxDepth, S)]
  BY TakeHead DEF ReceiveData
<1>2. /\ Remember(n, f) /\ Relay(n, f, q, fwd)
      /\ ctr' = [ctr EXCEPT ![n] = IF answer THEN ctr[n] + 1 ELSE ctr[n]]
      /\ got' = [got EXCEPT ![n] = [got[n] EXCEPT ![f.msg] = got[n][f.msg] + 1]]
      /\ UNCHANGED <<outbox, tbl, restarts, sent, acked>>
  BY DEF ReceiveData, MeshType
<1>3. answer => a \in Frames /\ Ident(a) \in S
  <2>1. ctr[n] + 1 \in Nat
    BY DEF MeshType
  <2>2. pid \in PktIds
    BY <2>1, PidType
  <2>. QED  BY <1>1, <2>2, AckType
<1>. HIDE DEF f, a
<1>4. q \in Queue(TxDepth, S)
  <2>1. txq[n] \in Queue(TxDepth, S)
    BY DEF Carries
  <2>. QED  BY <1>3, <2>1, QueuePush, DepthsType
<1>. HIDE DEF q
<1>5. bus' \in [Node -> Caches]
  BY <1>1, <1>2, RememberType
<1>6. txq' \in [Node -> Queue(TxDepth, S)] /\ relayed' \in [Node -> Seq(Keys)]
  BY <1>1, <1>2, <1>4, RelayType
<1>7. got' \in [Node -> [Msgs -> Nat]]
  <2>. DEFINE g == [got[n] EXCEPT ![f.msg] = got[n][f.msg] + 1]
  <2>1. got[n] \in [Msgs -> Nat]
    BY DEF MeshType
  <2>2. g \in [Msgs -> Nat]
    <3>1. CASE f.msg \in Msgs
      <4>1. got[n][f.msg] + 1 \in Nat
        BY <2>1, <3>1
      <4>. QED  BY <2>1, <4>1
    <3>2. CASE f.msg \notin Msgs
      <4>1. g = got[n]
        BY <2>1, <3>2
      <4>. QED  BY <2>1, <4>1
    <3>. QED  BY <3>1, <3>2
  <2>3. got' = [got EXCEPT ![n] = g]
    BY <1>2
  <2>. HIDE DEF g
  <2>. QED  BY <2>2, <2>3 DEF MeshType
<1>8. ctr' \in [Node -> Nat]
  BY <1>2 DEF MeshType
<1>9. MeshType'
  BY <1>2, <1>5, <1>6, <1>7, <1>8 DEF MeshType
<1>10. Carries(S)'
  BY <1>1, <1>2, <1>6 DEF Carries
<1>. QED  BY <1>9, <1>10

\* A duplicate is dropped.
LEMMA DropType ==
  ASSUME MeshType, NEW S, Carries(S), NEW n \in Node, DropDuplicate(n)
  PROVE  MeshType' /\ Carries(S)'
<1>1. rxq' \in [Node -> Queue(RxDepth, S)]
  BY TakeHead DEF DropDuplicate
<1>. QED  BY <1>1 DEF DropDuplicate, MeshType, Carries

\* A frame goes out: the neighbours that hear it take a copy.
LEMMA TransmitType ==
  ASSUME MeshType, NEW S, Carries(S), NEW n \in Node, NEW heard \in SUBSET Neighbors[n],
         Transmit(n, heard)
  PROVE  MeshType' /\ Carries(S)'
<1>. DEFINE f == Head(txq[n])
            R(k) == IF k \in heard THEN TryPush(rxq[k], f, RxDepth) ELSE rxq[k]
<1>1. txq[n] \in Queue(TxDepth, S) /\ txq[n] # <<>>
  BY DEF Carries, Transmit
<1>2. f \in Frames /\ Ident(f) \in S /\ Tail(txq[n]) \in Queue(TxDepth, S)
  BY <1>1, QueueHead, QueueTail, DepthsType
<1>3. /\ txq' = [txq EXCEPT ![n] = Tail(txq[n])] /\ rxq' = [k \in Node |-> R(k)]
      /\ UNCHANGED <<outbox, bus, tbl, ctr, restarts, sent, acked, got, relayed>>
  BY DEF Transmit
<1>. HIDE DEF f
<1>4. \A k \in Node : R(k) \in Queue(RxDepth, S)
  BY <1>2, QueuePush, DepthsType DEF Carries
<1>. HIDE DEF R
<1>. QED  BY <1>2, <1>3, <1>4 DEF MeshType, Carries

\* A frame held back goes to the end of the ring.
LEMMA HoldType ==
  ASSUME MeshType, NEW S, Carries(S), NEW n \in Node, Hold(n)
  PROVE  MeshType' /\ Carries(S)'
<1>. DEFINE q == txq[n]
            t == Append(Tail(q), Head(q))
<1>1. q \in Queue(TxDepth, S) /\ Len(q) > 1
  BY DEF Carries, Hold
<1>2. q # <<>>
  BY <1>1
<1>3. Head(q) \in Frames /\ Ident(Head(q)) \in S /\ Tail(q) \in Queue(TxDepth, S)
      /\ Len(Tail(q)) = Len(q) - 1 /\ Len(q) \in Nat /\ Len(q) <= TxDepth
  BY <1>1, <1>2, QueueHead, QueueTail, DepthsType DEF Queue
<1>4. Len(Tail(q)) < TxDepth
  BY <1>3, DepthsType
<1>5. t \in Queue(TxDepth, S)
  BY <1>3, <1>4, QueueAppend, DepthsType
<1>6. /\ txq' = [txq EXCEPT ![n] = t]
      /\ UNCHANGED <<rxq, outbox, bus, tbl, ctr, restarts, sent, acked, got, relayed>>
  BY DEF Hold, Carries
<1>. HIDE DEF t
<1>. QED  BY <1>5, <1>6 DEF MeshType, Carries

LEMMA EmptyTableType == \A n : EmptyTable \in [RetrySlots -> EntriesOf(n)]
  BY FreeEntryType DEF EmptyTable

\* A node starts again from nothing.
LEMMA RestartType ==
  ASSUME MeshType, NEW S, Carries(S), NEW n \in Node, Restart(n)
  PROVE  MeshType' /\ Carries(S)'
<1>1. /\ <<>> \in Queue(TxDepth, S) /\ <<>> \in Queue(RxDepth, S)
      /\ <<>> \in Queue(OutDepth, S)
  BY QueueEmpty, DepthsType
<1>2. <<>> \in Caches
  BY BusAssumption DEF Caches
<1>3. restarts' \in 0 .. MaxRestarts
  BY CountsAssumption DEF Restart, MeshType
<1>4. ctr' \in [Node -> Nat]
  BY DEF Restart, MeshType
<1>5. /\ DOMAIN tbl' = Node /\ tbl' = [k \in Node |-> tbl'[k]]
      /\ \A k \in Node : tbl'[k] \in [RetrySlots -> EntriesOf(k)]
  BY EmptyTableType DEF MeshType, Restart
<1>6. Carries(S)'
  BY <1>1 DEF Carries, Restart
<1>7. MeshType'
  BY <1>2, <1>3, <1>4, <1>5 DEF MeshType, Restart
<1>. QED  BY <1>6, <1>7

-----------------------------------------------------------------------------
(***************************************************************************)
(* The identities that frames of the right type can have, and the types of *)
(* every reachable state.                                                  *)
(***************************************************************************)
Ids == {Ident(f) : f \in Frames}

TypeInv == MeshType /\ Carries(Ids)

LEMMA InitType == Init => TypeInv
<1>. SUFFICES ASSUME Init PROVE TypeInv
  OBVIOUS
<1>1. /\ <<>> \in Queue(TxDepth, Ids) /\ <<>> \in Queue(RxDepth, Ids)
      /\ <<>> \in Queue(OutDepth, Ids)
  BY QueueEmpty, DepthsType
<1>2. <<>> \in Caches /\ <<>> \in Seq(Keys)
  BY BusAssumption DEF Caches
<1>3. restarts \in 0 .. MaxRestarts
  BY CountsAssumption DEF Init
<1>4. /\ DOMAIN tbl = Node /\ tbl = [n \in Node |-> tbl[n]]
      /\ \A n \in Node : tbl[n] \in [RetrySlots -> EntriesOf(n)]
  BY EmptyTableType DEF Init
<1>5. Carries(Ids)
  BY <1>1 DEF Carries, Init
<1>6. MeshType
  BY <1>2, <1>3, <1>4 DEF MeshType, Init
<1>. QED  BY <1>5, <1>6 DEF TypeInv

LEMMA NextType ==
  ASSUME TypeInv, [Next]_vars
  PROVE  TypeInv'
<1>. USE DEF TypeInv
<1>1. ASSUME NEW m \in Msgs, NEW k \in 0 .. Len(outbox[Src[m]]), SubmitChat(m, k)
      PROVE  TypeInv'
  <2>1. (ctr[Src[m]] + 1) % PktIdMod \in PktIds
    <3>1. ctr[Src[m]] + 1 \in Nat
      BY RoutesAssumption DEF MeshType
    <3>. QED  BY <3>1, PidType
  <2>2. Ident(Chat(m, (ctr[Src[m]] + 1) % PktIdMod)) \in Ids
    BY <2>1, ChatType DEF Ids
  <2>. QED  BY <1>1, <2>2, SubmitChatType
<1>2. ASSUME NEW m \in Msgs, SubmitUnicast(m)
      PROVE  TypeInv'
  <2>1. PidFor(m) \in PktIds
    BY PidForType
  <2>2. Ident(Unicast(m, PidFor(m))) \in Ids
    BY <1>2, <2>1, ChatType DEF Ids, SubmitUnicast
  <2>. QED  BY <1>2, <2>2, SubmitUnicastType
<1>3. ASSUME NEW n \in Node, Timeout(n)
      PROVE  TypeInv'
  <2>1. PICK due \in SUBSET Live(tbl[n]) : Tick(n, due)
    BY <1>3 DEF Timeout
  <2>2. ASSUME NEW i \in due PROVE Ident(TickFrame(n, due, i)) \in Ids
    <3>1. due \in SUBSET RetrySlots /\ ctr[n] \in Nat
      BY DEF Live, MeshType
    <3>2. TickPid(ctr[n], due, i) \in PktIds
      BY <3>1, TickPids
    <3>3. tbl[n][i].data \in Msgs /\ Dst[tbl[n][i].data] # Broadcast
      BY LiveType DEF Owned
    <3>. QED  BY <3>2, <3>3, ChatType DEF TickFrame, Ids
  <2>. QED  BY <2>1, <2>2, TickType
<1>4. ASSUME NEW n \in Node, Receive(n)
      PROVE  TypeInv'
  <2>1. CASE DropDuplicate(n)
    BY <2>1, DropType
  <2>2. ASSUME NEW fwd \in BOOLEAN, ReceiveAck(n, fwd) PROVE TypeInv'
    BY <2>2, ReceiveAckType
  <2>3. ASSUME NEW fwd \in BOOLEAN, ReceiveData(n, fwd) PROVE TypeInv'
    <3>1. Head(rxq[n]) \in Frames
      BY <2>3, TakeHead DEF ReceiveData
    <3>2. (ctr[n] + 1) % PktIdMod \in PktIds
      <4>1. ctr[n] + 1 \in Nat
        BY DEF MeshType
      <4>. QED  BY <4>1, PidType
    <3>3. Ident(AckFor(n, Head(rxq[n]), (ctr[n] + 1) % PktIdMod)) \in Ids
      BY <3>1, <3>2, AckType DEF Ids
    <3>. QED  BY <2>3, <3>3, ReceiveDataType
  <2>. QED  BY <1>4, <2>1, <2>2, <2>3 DEF Receive
<1>5. ASSUME NEW n \in Node, NEW k \in 0 .. Len(outbox[n]), OutboxTick(n, k)
      PROVE  TypeInv'
  BY <1>5, OutboxTickType
<1>6. ASSUME NEW n \in Node, NEW heard \in SUBSET Neighbors[n], Transmit(n, heard)
      PROVE  TypeInv'
  BY <1>6, TransmitType
<1>7. ASSUME NEW n \in Node, Hold(n) PROVE TypeInv'
  BY <1>7, HoldType
<1>8. ASSUME NEW n \in Node, Restart(n) PROVE TypeInv'
  BY <1>8, RestartType
<1>9. CASE UNCHANGED vars
  <2>1. MeshType'
    BY <1>9 DEF vars, MeshType
  <2>2. Carries(Ids)'
    BY <1>9 DEF vars, Carries
  <2>. QED  BY <2>1, <2>2
<1>. QED  BY <1>1, <1>2, <1>3, <1>4, <1>5, <1>6, <1>7, <1>8, <1>9 DEF Next

LEMMA TypesKept == Spec => []TypeInv
  BY InitType, NextType, PTL DEF Spec

LEMMA TypeInvTypeOK == TypeInv => TypeOK
<1>. SUFFICES ASSUME TypeInv PROVE TypeOK
  OBVIOUS
<1>1. ASSUME NEW n \in Node
      PROVE  /\ txq[n] \in Seq(Frames) /\ Len(txq[n]) <= TxDepth
             /\ rxq[n] \in Seq(Frames) /\ Len(rxq[n]) <= RxDepth
             /\ outbox[n] \in Seq(Frames) /\ Len(outbox[n]) <= OutDepth
  BY DEF TypeInv, Carries, Queue
<1>2. ASSUME NEW n \in Node
      PROVE  /\ bus[n] \in Seq(Node \X Nat) /\ Len(bus[n]) <= BusSize
             /\ relayed[n] \in Seq(Node \X Nat)
  BY DEF TypeInv, MeshType, Caches, Keys
<1>3. ASSUME NEW n \in Node, NEW i \in RetrySlots, tbl[n][i].valid
      PROVE  tbl[n][i].data \in Msgs /\ tbl[n][i].left \in 0 .. RetryMax
  <2>1. tbl[n][i] \in EntriesOf(n)
    BY DEF TypeInv, MeshType
  <2>. QED  BY <1>3, <2>1 DEF EntriesOf, Entries, Owned
<1>. QED  BY <1>1, <1>2, <1>3 DEF TypeOK, TypeInv, MeshType

(***************************************************************************)
(* The queues, the duplicate cache and the retry table of every node stay  *)
(* within their sizes and hold what they should, whatever is lost, however *)
(* the steps of the nodes interleave, across restarts and when the packet  *)
(* ids come round (rb_try_push, send_queue_enqueue, rivr_bus_receive,      *)
(* retry_table_tick).                                                      *)
(***************************************************************************)
THEOREM TypeCorrect == Spec => []TypeOK
  BY TypesKept, TypeInvTypeOK, PTL

-----------------------------------------------------------------------------
(***************************************************************************)
(* Relays.  While a duplicate cache is not full, it holds the key of every *)
(* frame its node relayed.                                                 *)
(***************************************************************************)
NothingForgotten == restarts = 0 /\ \A n \in Node : Len(bus[n]) < BusSize

RelaysKnown(n) == IsInjective(relayed[n]) /\ Range(relayed[n]) \subseteq Known(n)

RelaysInv == \A n \in Node : restarts = 0 /\ Len(bus[n]) < BusSize => RelaysKnown(n)

LEMMA SeenKnown ==
  ASSUME MeshType, NEW n \in Node, NEW f
  PROVE  Seen(n, f) <=> Key(f) \in Known(n)
<1>1. bus[n] \in Seq(Keys)
  BY DEF MeshType, Caches
<1>. QED  BY <1>1 DEF Seen, Contains, Known, Range

\* A sequence without repetitions takes a new member at its end.
LEMMA AppendOnce ==
  ASSUME NEW S, NEW s \in Seq(S), IsInjective(s), NEW x \in S, x \notin Range(s)
  PROVE  IsInjective(Append(s, x)) /\ Range(Append(s, x)) = Range(s) \cup {x}
<1>0. PICK t : t = Append(s, x)
  OBVIOUS
<1>1. /\ DOMAIN s = 1 .. Len(s) /\ DOMAIN t = 1 .. Len(s) + 1 /\ Len(s) \in Nat
      /\ t[Len(s) + 1] = x /\ \A i \in 1 .. Len(s) : t[i] = s[i]
  BY <1>0
<1>2. Range(t) = Range(s) \cup {x}
  BY <1>1 DEF Range
<1>3. IsInjective(t)
  <2>. SUFFICES ASSUME NEW i \in 1 .. Len(s) + 1, NEW j \in 1 .. Len(s) + 1, t[i] = t[j]
                PROVE  i = j
    BY <1>1 DEF IsInjective
  <2>1. CASE i \in 1 .. Len(s) /\ j \in 1 .. Len(s)
    BY <1>1, <2>1 DEF IsInjective
  <2>2. CASE i = Len(s) + 1 \/ j = Len(s) + 1
    <3>1. \A k \in 1 .. Len(s) : t[k] # x
      BY <1>1 DEF Range
    <3>2. t[i] = x /\ t[j] = x
      BY <1>1, <2>2
    <3>3. i \notin 1 .. Len(s) /\ j \notin 1 .. Len(s)
      BY <3>1, <3>2
    <3>. QED  BY <1>1, <3>3
  <2>. QED  BY <1>1, <2>1, <2>2
<1>. QED  BY <1>0, <1>2, <1>3

\* A frame is received for the first time.
LEMMA ReceiveRelays ==
  ASSUME MeshType, RelaysInv, NEW n \in Node, NEW f \in Frames, NEW q, NEW fwd \in BOOLEAN,
         ~Seen(n, f), Remember(n, f), Relay(n, f, q, fwd), restarts' = restarts, MeshType'
  PROVE  RelaysInv'
<1>. SUFFICES ASSUME NEW k \in Node, restarts = 0, Len(bus'[k]) < BusSize
              PROVE  RelaysKnown(k)'
  BY DEF RelaysInv
<1>1. CASE k # n
  <2>1. bus'[k] = bus[k] /\ relayed'[k] = relayed[k]
    BY <1>1, RememberType DEF Relay, MeshType
  <2>. QED  BY <2>1 DEF RelaysInv, RelaysKnown, Known
<1>2. CASE k = n
  <2>1. Len(bus[n]) < BusSize
    <3>1. bus[n] \in Seq(Keys) /\ Len(bus[n]) <= BusSize
      BY DEF MeshType, Caches
    <3>2. Len(bus[n]) # BusSize
      BY <1>2, RememberType
    <3>. QED  BY <3>1, <3>2, BusAssumption
  <2>2. IsInjective(relayed[n]) /\ Range(relayed[n]) \subseteq Range(bus[n])
    BY <2>1 DEF RelaysInv, RelaysKnown, Known
  <2>3. Range(bus'[n]) = Range(bus[n]) \cup {Key(f)} /\ Key(f) \notin Range(bus[n])
    BY <2>1, RememberType, SeenKnown DEF Known
  <2>4. CASE relayed'[n] = relayed[n]
    BY <1>2, <2>2, <2>3, <2>4 DEF RelaysKnown, Known
  <2>5. CASE relayed'[n] = Append(relayed[n], Key(f))
    <3>1. relayed[n] \in Seq(Keys) /\ Key(f) \in Keys
      BY KeyType DEF MeshType
    <3>2. IsInjective(relayed'[n]) /\ Range(relayed'[n]) = Range(relayed[n]) \cup {Key(f)}
      <4>. DEFINE t == Append(relayed[n], Key(f))
      <4>1. IsInjective(t) /\ Range(t) = Range(relayed[n]) \cup {Key(f)}
        <5>1. Key(f) \notin Range(relayed[n])
          BY <2>2, <2>3
        <5>. QED  BY <2>2, <3>1, <5>1, AppendOnce, ZenonT(60)
      <4>2. relayed'[n] = t
        BY <2>5
      <4>. HIDE DEF t
      <4>. QED  BY <4>1, <4>2
    <3>. QED  BY <1>2, <2>2, <2>3, <3>2 DEF RelaysKnown, Known
  <2>6. relayed'[n] = relayed[n] \/ relayed'[n] = Append(relayed[n], Key(f))
    BY DEF Relay, MeshType
  <2>. QED  BY <2>4, <2>5, <2>6
<1>. QED  BY <1>1, <1>2

LEMMA NextRelays ==
  ASSUME TypeInv, TypeInv', RelaysInv, [Next]_vars
  PROVE  RelaysInv'
<1>. USE DEF TypeInv
<1>1. ASSUME UNCHANGED <<bus, relayed, restarts>>
      PROVE  RelaysInv'
  BY <1>1 DEF RelaysInv, RelaysKnown, Known
<1>2. ASSUME NEW n \in Node, NEW fwd \in BOOLEAN, ReceiveAck(n, fwd)
      PROVE  RelaysInv'
  <2>1. Head(rxq[n]) \in Frames
    BY <1>2, TakeHead DEF ReceiveAck
  <2>. QED  BY <1>2, <2>1, ReceiveRelays DEF ReceiveAck
<1>3. ASSUME NEW n \in Node, NEW fwd \in BOOLEAN, ReceiveData(n, fwd)
      PROVE  RelaysInv'
  <2>1. Head(rxq[n]) \in Frames
    BY <1>3, TakeHead DEF ReceiveData
  <2>. QED  BY <1>3, <2>1, ReceiveRelays DEF ReceiveData
<1>4. ASSUME NEW n \in Node, Restart(n)
      PROVE  RelaysInv'
  <2>1. restarts' # 0
    BY <1>4 DEF Restart, MeshType
  <2>. QED  BY <2>1 DEF RelaysInv
<1>5. ASSUME NEW n \in Node, DropDuplicate(n) PROVE RelaysInv'
  BY <1>1, <1>5 DEF DropDuplicate
<1>. QED
  BY <1>1, <1>2, <1>3, <1>4, <1>5
     DEF Next, vars, Receive, Timeout, SubmitUnicast, SubmitChat, OutboxTick, Tick, Transmit, Hold

(***************************************************************************)
(* As long as no node restarts and no duplicate cache is full, a node      *)
(* queues a relay of a (src_id, pkt_id) at most once, in every mesh and    *)
(* whatever copies come back (rivr_bus_receive before maybe_relay).  Past  *)
(* that the cache forgets, and only the TTL stops a flood.                 *)
(***************************************************************************)
THEOREM RelaysOnceAlways == Spec => [](NothingForgotten => RelaysOnce)
<1>1. Init => RelaysInv
  <2>1. Init => \A n \in Node : relayed[n] = <<>>
    BY DEF Init
  <2>. QED  BY <2>1 DEF RelaysInv, RelaysKnown, IsInjective, Range
<1>2. TypeInv /\ TypeInv' /\ RelaysInv /\ [Next]_vars => RelaysInv'
  BY NextRelays
<1>3. RelaysInv => (NothingForgotten => RelaysOnce)
  BY DEF RelaysInv, RelaysKnown, NothingForgotten, RelaysOnce
<1>. QED  BY <1>1, <1>2, <1>3, TypesKept, PTL DEF Spec

-----------------------------------------------------------------------------
(***************************************************************************)
(* Packet ids.  A step keeps FlightInv when it puts only the frames of a   *)
(* set N in flight that were not there, and:                               *)
(***************************************************************************)

\* the frames of N take packet ids that are new, no two messages one;
NewIds(N) ==
  /\ \A f \in N : Sound(f)' /\ f.pid \notin Taken(f.src)
  /\ \A f, g \in N : Key(f) = Key(g) => f.kind = g.kind /\ f.msg = g.msg

\* ids taken and deliveries only grow;
Grows ==
  /\ \A n \in Node : Taken(n) \subseteq Taken(n)'
  /\ \A n \in Node, m \in Msgs : got[n][m] <= got'[n][m]

\* a cache learns the keys of frames in flight, and data with one is delivered;
Learns(F) ==
  \A n \in Node : \A k \in Known(n)' :
    k \in Known(n) \/ \E h \in F : k = Key(h) /\ (h.kind = "data" => got'[n][h.msg] > 0)

\* an entry is an old one, or has a new packet id, that of its frames in N;
Old(n, i) ==
  i \in Live(tbl[n]) /\ tbl'[n][i].data = tbl[n][i].data /\ tbl'[n][i].pid = tbl[n][i].pid

Renewed(n, i, N) ==
  /\ tbl'[n][i].pid \in Taken(n)' /\ tbl'[n][i].pid \notin Taken(n)
  /\ \A f \in N : Key(f) = <<n, tbl'[n][i].pid>> => f.kind = "data" /\ f.msg = tbl'[n][i].data

\* an acknowledgement of N names an id already taken, and if an entry has it,
\* the next hop of the entry has the message.
Reports(N) ==
  \A f \in N : f.kind = "ack" =>
    /\ f.apid \in Taken(f.dst)
    /\ \A i \in Live(tbl[f.dst]) :
         tbl[f.dst][i].pid = f.apid =>
           got'[Via[tbl[f.dst][i].data]][tbl[f.dst][i].data] > 0

LEMMA FlightStep ==
  ASSUME MeshType, MeshType', FlightInv,
         NEW F, F = InFlight, NEW N, InFlight' \subseteq F \cup N,
         NewIds(N), Grows, Learns(F), Reports(N),
         \A n \in Node : \A i \in Live(tbl'[n]) : Old(n, i) \/ Renewed(n, i, N),
         \A m \in acked' : m \in acked \/ (Dst[m] # Broadcast /\ got[Via[m]][m] > 0)
  PROVE  FlightInv'
<1>1. \A n \in Node : Taken(n) \subseteq Taken(n)'
  BY DEF Grows
<1>2. \A n \in Node, m \in Msgs :
        got[n][m] \in Nat /\ got'[n][m] \in Nat /\ got[n][m] <= got'[n][m]
  BY DEF MeshType, Grows
<1>3. \A f \in F : Sound(f)
  BY DEF FlightInv, FlightSound
<1>4. \A f \in F : f.src \in Node /\ f.pid \in Taken(f.src)
  BY <1>3 DEF Sound
<1>5. \A f \in N : f.src \in Node /\ f.pid \notin Taken(f.src)
  BY DEF NewIds, Sound
<1>6. FlightSound'
  <2>1. ASSUME NEW f \in F PROVE Sound(f)'
    <3>1. f.pid \in Taken(f.src)'
      BY <1>1, <1>4
    <3>2. f.kind = "ack" => f.dst \in Node /\ f.apid \in Taken(f.dst)'
      BY <1>1, <1>3 DEF Sound
    <3>. QED  BY <1>3, <3>1, <3>2 DEF Sound
  <2>. QED  BY <2>1 DEF FlightSound, NewIds
<1>7. KeysTell'
  <2>. SUFFICES ASSUME NEW f \in F \cup N, NEW g \in F \cup N, Key(f) = Key(g)
                PROVE  f.kind = g.kind /\ f.msg = g.msg
    BY DEF KeysTell, Key
  <2>1. f.src = g.src /\ f.pid = g.pid
    BY DEF Key
  <2>2. CASE f \in F /\ g \in F
    BY <2>2 DEF FlightInv, KeysTell
  <2>3. CASE f \in N /\ g \in N
    BY <2>3 DEF NewIds
  <2>4. CASE ~ (f \in F /\ g \in F) /\ ~ (f \in N /\ g \in N)
    BY <1>4, <1>5, <2>1, <2>4
  <2>. QED  BY <2>2, <2>3, <2>4
<1>8. KnownOld'
  <2>. SUFFICES ASSUME NEW n \in Node, NEW k \in Known(n)'
                PROVE  k[1] \in Node /\ k[2] \in Taken(k[1])'
    BY DEF KnownOld
  <2>1. CASE k \in Known(n)
    <3>1. k[1] \in Node /\ k[2] \in Taken(k[1])
      BY <2>1 DEF FlightInv, KnownOld
    <3>. QED  BY <1>1, <3>1
  <2>2. ASSUME NEW h \in F, k = Key(h) PROVE k[1] \in Node /\ k[2] \in Taken(k[1])'
    <3>1. h.src \in Node /\ h.pid \in Taken(h.src)'
      BY <1>1, <1>4
    <3>2. k[1] = h.src /\ k[2] = h.pid
      BY <2>2 DEF Key
    <3>. QED  BY <3>1, <3>2
  <2>. QED  BY <2>1, <2>2 DEF Learns
<1>9. KnownReached'
  <2>. SUFFICES ASSUME NEW n \in Node, NEW f \in F \cup N, f.kind = "data", Key(f) \in Known(n)'
                PROVE  got'[n][f.msg] > 0
    BY DEF KnownReached, Key
  <2>1. CASE f \in F /\ Key(f) \in Known(n)
    <3>1. got[n][f.msg] > 0
      BY <2>1 DEF FlightInv, KnownReached
    <3>2. f.msg \in Msgs
      BY <1>3, <2>1 DEF Sound
    <3>. QED  BY <1>2, <3>1, <3>2
  <2>2. ASSUME f \in F, NEW h \in F, Key(f) = Key(h), h.kind = "data" => got'[n][h.msg] > 0
        PROVE  got'[n][f.msg] > 0
    <3>1. f.kind = h.kind /\ f.msg = h.msg
      BY <2>2 DEF FlightInv, KeysTell
    <3>. QED  BY <2>2, <3>1
  <2>3. CASE f \in N
    <3>1. f.src \in Node /\ f.pid \notin Taken(f.src)
      BY <1>5, <2>3
    <3>2. Key(f) \notin Known(n)
      <4>1. Key(f)[1] = f.src /\ Key(f)[2] = f.pid
        BY DEF Key
      <4>. QED  BY <3>1, <4>1 DEF FlightInv, KnownOld
    <3>3. ASSUME NEW h \in F, Key(f) = Key(h) PROVE FALSE
      <4>1. h.src = f.src /\ h.pid = f.pid
        BY <3>3 DEF Key
      <4>. QED  BY <1>4, <3>1, <4>1
    <3>. QED  BY <3>2, <3>3 DEF Learns
  <2>. QED  BY <2>1, <2>2, <2>3 DEF Learns
<1>10. EntriesTrue'
  <2>. SUFFICES ASSUME NEW n \in Node, NEW i \in Live(tbl'[n])
                PROVE  EntrySound(n, i)' /\ EntryTells(n, i)'
    BY DEF EntriesTrue
  <2>. DEFINE e == tbl'[n][i]
  <2>1. /\ e \in Entries /\ Owned(n, e.data)
    <3>1. i \in RetrySlots /\ e.valid /\ e \in EntriesOf(n)
      BY DEF Live, MeshType
    <3>. QED  BY <3>1 DEF EntriesOf
  <2>2. e.data \in Msgs /\ Src[e.data] = n /\ Dst[e.data] # Broadcast /\ Via[e.data] \in Node
    BY <2>1, RoutesAssumption, NeighborsAssumption DEF Owned
  <2>4. CASE Old(n, i)
    <3>. DEFINE d == tbl[n][i]
    <3>1. EntrySound(n, i) /\ EntryTells(n, i) /\ e.data = d.data /\ e.pid = d.pid /\ i \in Live(tbl[n])
      BY <2>4 DEF Old, FlightInv, EntriesTrue
    <3>. HIDE DEF d, e
    <3>2. e.pid \in Taken(n)
      BY <3>1 DEF EntrySound, d
    <3>3. e.pid \in Taken(n)'
      BY <1>1, <3>2
    <3>4. EntrySound(n, i)'
      BY <2>2, <3>3 DEF EntrySound, e
    <3>5. ASSUME NEW f \in F
          PROVE  /\ Key(f) = <<n, e.pid>> => f.kind = "data" /\ f.msg = e.data
                 /\ f.kind = "ack" /\ f.dst = n /\ f.apid = e.pid
                      => got'[Via[e.data]][e.data] > 0
      <4>1. /\ Key(f) = <<n, e.pid>> => f.kind = "data" /\ f.msg = e.data
            /\ f.kind = "ack" /\ f.dst = n /\ f.apid = e.pid
                 => got[Via[e.data]][e.data] > 0
        BY <3>1, <3>5 DEF EntryTells, d
      <4>. QED  BY <1>2, <2>2, <4>1
    <3>6. ASSUME NEW f \in N
          PROVE  /\ Key(f) = <<n, e.pid>> => f.kind = "data" /\ f.msg = e.data
                 /\ f.kind = "ack" /\ f.dst = n /\ f.apid = e.pid
                      => got'[Via[e.data]][e.data] > 0
      <4>1. Key(f) # <<n, e.pid>>
        <5>. SUFFICES ASSUME Key(f) = <<n, e.pid>> PROVE FALSE
          OBVIOUS
        <5>1. f.src = n /\ f.pid = e.pid
          BY DEF Key
        <5>. QED  BY <1>5, <3>2, <5>1
      <4>2. f.kind = "ack" /\ f.dst = n /\ f.apid = e.pid => got'[Via[e.data]][e.data] > 0
        BY <3>1 DEF Reports, d
      <4>. QED  BY <4>1, <4>2
    <3>7. EntryTells(n, i)'
      BY <3>5, <3>6 DEF EntryTells, Key, e
    <3>. QED  BY <3>4, <3>7 DEF e
  <2>5. CASE Renewed(n, i, N)
    <3>1. e.pid \in Taken(n)' /\ e.pid \notin Taken(n)
          /\ \A f \in N : Key(f) = <<n, e.pid>> => f.kind = "data" /\ f.msg = e.data
      BY <2>5 DEF Renewed
    <3>. HIDE DEF e
    <3>2. EntrySound(n, i)'
      BY <2>2, <3>1 DEF EntrySound, e
    <3>3. ASSUME NEW f \in F
          PROVE  /\ Key(f) # <<n, e.pid>>
                 /\ ~ (f.kind = "ack" /\ f.dst = n /\ f.apid = e.pid)
      <4>1. Key(f) = <<n, e.pid>> => f.src = n /\ f.pid = e.pid
        BY DEF Key
      <4>2. f.kind = "ack" => f.dst \in Node /\ f.apid \in Taken(f.dst)
        BY <1>3 DEF Sound
      <4>. QED  BY <1>4, <3>1, <4>1, <4>2
    <3>4. ASSUME NEW f \in N
          PROVE  ~ (f.kind = "ack" /\ f.dst = n /\ f.apid = e.pid)
      BY <3>1 DEF Reports
    <3>5. EntryTells(n, i)'
      BY <3>1, <3>3, <3>4 DEF EntryTells, Key, e
    <3>. QED  BY <3>2, <3>5 DEF e
  <2>. QED  BY <2>4, <2>5
<1>11. AckedSound'
  <2>. SUFFICES ASSUME NEW m \in acked' PROVE Dst[m] # Broadcast /\ got'[Via[m]][m] > 0
    BY DEF AckedSound
  <2>1. Dst[m] # Broadcast /\ got[Via[m]][m] > 0 /\ m \in Msgs
    BY DEF FlightInv, AckedSound, MeshType
  <2>2. Via[m] \in Node
    BY <2>1, RoutesAssumption, NeighborsAssumption
  <2>. QED  BY <1>2, <2>1, <2>2
<1>. QED  BY <1>6, <1>7, <1>8, <1>9, <1>10, <1>11 DEF FlightInv

\* A counter that goes on takes ids that no app chose.
LEMMA TakenGrows ==
  ASSUME MeshType, MeshType', \A n \in Node : ctr[n] <= ctr'[n], sent \subseteq sent'
  PROVE  /\ \A n \in Node : Taken(n) \subseteq Taken(n)'
         /\ Apart' => \A n \in Node : \A p \in ctr[n] + 1 .. ctr'[n] :
                        p \in Taken(n)' /\ p \notin Taken(n)
<1>1. \A n \in Node : ctr[n] \in Nat /\ ctr'[n] \in Nat /\ ctr[n] <= ctr'[n]
  BY DEF MeshType
<1>2. ASSUME NEW n \in Node PROVE Taken(n) \subseteq Taken(n)'
  <2>1. 1 .. ctr[n] \subseteq 1 .. ctr'[n]
    BY <1>1
  <2>. QED  BY <2>1 DEF Taken
<1>3. ASSUME Apart', NEW n \in Node, NEW p \in ctr[n] + 1 .. ctr'[n]
      PROVE  p \in Taken(n)' /\ p \notin Taken(n)
  <2>1. p \in 1 .. ctr'[n] /\ p \notin 1 .. ctr[n]
    BY <1>1
  <2>2. ASSUME NEW m \in AppMsgs, Src[m] = n PROVE p # AppId[m]
    <3>1. AppId[m] \in Nat
      BY AppIdAssumption, PktIdAssumption DEF AppMsgs
    <3>2. ctr'[n] < AppId[m]
      BY <1>3, <2>2 DEF Apart
    <3>. QED  BY <1>1, <3>1, <3>2
  <2>. QED  BY <2>1, <2>2 DEF Taken
<1>. QED  BY <1>2, <1>3

\* So does a unicast, whether its packet id is the node's or an app's.
LEMMA TakenByUnicast ==
  ASSUME MeshType, MeshType', Unwrapped', Apart', NEW m \in Msgs, SubmitUnicast(m)
  PROVE  /\ \A n \in Node : Taken(n) \subseteq Taken(n)'
         /\ PidFor(m) \in Taken(Src[m])' /\ PidFor(m) \notin Taken(Src[m])
<1>. DEFINE n == Src[m]
<1>1. /\ n \in Node /\ ctr[n] \in Nat /\ ctr'[n] \in Nat /\ CtrFor(m) <= ctr'[n]
      /\ CtrFor(m) \in {ctr[n], ctr[n] + 1}
      /\ \A k \in Node : k # n => ctr'[k] = ctr[k]
      /\ m \notin sent /\ sent' = sent \cup {m} /\ Dst[m] # Broadcast
  BY RoutesAssumption DEF MeshType, SubmitUnicast, CtrFor
<1>2. ASSUME NEW k \in Node PROVE ctr[k] <= ctr'[k]
  <2>1. CASE k = n
    BY <1>1, <2>1
  <2>2. CASE k # n
    BY <1>1, <2>2 DEF MeshType
  <2>. QED  BY <2>1, <2>2
<1>3. sent \subseteq sent'
  BY <1>1
<1>4. CASE AppId[m] = 0
  <2>1. CtrFor(m) = ctr[n] + 1
    BY <1>4 DEF CtrFor
  <2>2. CtrFor(m) \in Nat /\ CtrFor(m) < PktIdMod
    BY <1>1, PktIdAssumption DEF Unwrapped
  <2>3. PidFor(m) = CtrFor(m)
    BY <1>4, <2>2, PidType DEF PidFor
  <2>4. PidFor(m) \in ctr[n] + 1 .. ctr'[n]
    BY <1>1, <2>1, <2>3
  <2>. QED  BY <1>1, <1>2, <1>3, <2>4, TakenGrows
<1>5. CASE AppId[m] # 0
  <2>1. PidFor(m) = AppId[m] /\ m \in AppMsgs /\ AppId[m] \in Nat
    BY <1>1, <1>5, AppIdAssumption, PktIdAssumption DEF PidFor, AppMsgs
  <2>2. ctr'[n] < AppId[m] /\ \A k \in AppMsgs : Src[k] = n /\ AppId[k] = AppId[m] => k = m
    BY <2>1 DEF Apart
  <2>3. AppId[m] \notin 1 .. ctr[n]
    BY <1>1, <1>2, <2>1, <2>2
  <2>4. AppId[m] \notin Taken(n)
    BY <1>1, <2>2, <2>3 DEF Taken
  <2>5. AppId[m] \in Taken(n)'
    BY <1>1, <2>1 DEF Taken
  <2>. QED  BY <1>2, <1>3, <2>1, <2>4, <2>5, TakenGrows
<1>. QED  BY <1>4, <1>5

\* What the data frames of a message, and an acknowledgement, say.
LEMMA DataIdent ==
  ASSUME NEW m, NEW pid,
         NEW f \in {Ident(Chat(m, pid)), Ident(Fallback(m, pid)), Ident(Unicast(m, pid))}
  PROVE  /\ f.kind = "data" /\ f.src = Src[m] /\ f.pid = pid /\ f.msg = m
         /\ f.areq => f.dst = Via[m]
<1>1. CASE f = Ident(Chat(m, pid))
  <2>1. f.kind = "data" /\ f.src = Src[m] /\ f.pid = pid /\ f.msg = m
    BY <1>1 DEF Ident, Chat
  <2>2. ~ f.areq
    BY <1>1, Zenon DEF Ident, Chat
  <2>. QED  BY <2>1, <2>2
<1>2. CASE f = Ident(Fallback(m, pid))
  <2>1. f.kind = "data" /\ f.src = Src[m] /\ f.pid = pid /\ f.msg = m
    BY <1>2 DEF Ident, Chat, Fallback
  <2>2. ~ f.areq
    BY <1>2, Zenon DEF Ident, Chat, Fallback
  <2>. QED  BY <2>1, <2>2
<1>3. CASE f = Ident(Unicast(m, pid))
  <2>1. f.kind = "data" /\ f.src = Src[m] /\ f.pid = pid /\ f.msg = m /\ f.dst = Via[m]
    BY <1>3 DEF Ident, Chat, Unicast
  <2>. QED  BY <2>1
<1>. QED  BY <1>1, <1>2, <1>3

LEMMA AckIdent ==
  ASSUME NEW n, NEW g, NEW pid, NEW f, f = Ident(AckFor(n, g, pid))
  PROVE  /\ f.kind = "ack" /\ f.src = n /\ f.dst = g.src /\ f.pid = pid /\ f.apid = g.pid
         /\ ~ f.areq
<1>1. f.kind = "ack" /\ f.src = n /\ f.dst = g.src /\ f.pid = pid /\ f.apid = g.pid
  BY DEF Ident, AckFor
<1>2. ~ f.areq
  BY Zenon DEF Ident, AckFor
<1>. QED  BY <1>1, <1>2

\* A step that only moves frames.
LEMMA FlightRests ==
  ASSUME MeshType, MeshType', FlightInv, NEW F, F = InFlight, Carries(F)',
         UNCHANGED <<bus, tbl, ctr, sent, acked, got>>
  PROVE  FlightInv'
<1>. DEFINE N == {}
<1>1. InFlight' \subseteq F \cup N
  BY CarriedNext
<1>2. NewIds(N) /\ Reports(N)
  BY DEF NewIds, Reports
<1>3. Grows
  BY DEF Grows, MeshType, Taken
<1>4. Learns(F)
  BY DEF Learns, Known
<1>5. \A n \in Node : \A i \in Live(tbl'[n]) : Old(n, i) \/ Renewed(n, i, N)
  BY DEF Old
<1>6. \A m \in acked' : m \in acked \/ (Dst[m] # Broadcast /\ got[Via[m]][m] > 0)
  OBVIOUS
<1>. HIDE DEF N
<1>. QED  BY <1>1, <1>2, <1>3, <1>4, <1>5, <1>6, FlightStep

LEMMA FlightCarried ==
  ASSUME TypeInv
  PROVE  \E F : F = InFlight /\ Carries(F)
<1>1. Carries(InFlight)
  BY CarriedInFlight DEF TypeInv
<1>. QED  BY <1>1

LEMMA SubmitChatFlight ==
  ASSUME TypeInv, TypeInv', FlightInv, Unwrapped', Apart', NEW m \in Msgs,
         NEW k \in 0 .. Len(outbox[Src[m]]), SubmitChat(m, k)
  PROVE  FlightInv'
<1>. USE DEF TypeInv
<1>1. PICK F : F = InFlight /\ Carries(F)
  BY FlightCarried
<1>2. PICK n : n = Src[m]
  OBVIOUS
<1>3. PICK pid : pid = (ctr[n] + 1) % PktIdMod
  OBVIOUS
<1>4. n \in Node /\ ctr[n] \in Nat /\ ctr' = [ctr EXCEPT ![n] = ctr[n] + 1]
  BY <1>2, RoutesAssumption DEF MeshType, SubmitChat
<1>5. pid = ctr[n] + 1 /\ ctr'[n] = ctr[n] + 1
  <2>1. ctr'[n] = ctr[n] + 1 /\ ctr'[n] < PktIdMod
    BY <1>4 DEF Unwrapped, MeshType
  <2>2. ctr[n] + 1 \in Nat
    BY <1>4
  <2>3. (ctr[n] + 1) % PktIdMod = ctr[n] + 1
    BY <2>1, <2>2, PidType
  <2>. QED  BY <1>3, <2>1, <2>3
<1>6. PICK N : N = {Ident(Chat(m, pid))}
  OBVIOUS
<1>7. InFlight' \subseteq F \cup N
  <2>1. Carries(F \cup N)
    BY <1>1, CarriesGrows
  <2>2. Ident(Chat(m, (ctr[Src[m]] + 1) % PktIdMod)) \in F \cup N
    BY <1>2, <1>3, <1>6
  <2>3. PICK S : S = F \cup N
    OBVIOUS
  <2>4. Carries(S) /\ Ident(Chat(m, (ctr[Src[m]] + 1) % PktIdMod)) \in S
    BY <2>1, <2>2, <2>3
  <2>5. Carries(S)'
    BY <2>4, SubmitChatType
  <2>. QED  BY <2>3, <2>5, CarriedNext
<1>8. \A f \in N : f.kind = "data" /\ f.src = n /\ f.pid = pid /\ f.msg = m
                   /\ (f.areq => f.dst = Via[m])
  BY <1>2, <1>6, DataIdent
<1>8a. \A x \in Node : ctr[x] <= ctr'[x]
  <2>. SUFFICES ASSUME NEW x \in Node PROVE ctr[x] <= ctr'[x]
    OBVIOUS
  <2>1. CASE x = n
    BY <1>4, <1>5, <2>1
  <2>2. CASE x # n
    BY <1>4, <2>2 DEF MeshType
  <2>. QED  BY <2>1, <2>2
<1>8b. sent \subseteq sent'
  BY DEF SubmitChat
<1>9. NewIds(N)
  <2>1. pid \in Taken(n)' /\ pid \notin Taken(n)
    <3>1. pid \in ctr[n] + 1 .. ctr'[n]
      BY <1>4, <1>5
    <3>. QED  BY <1>4, <1>8a, <1>8b, <3>1, TakenGrows
  <2>2. \A f \in N : Sound(f)'
    BY <1>4, <1>8, <2>1 DEF Sound
  <2>3. \A f \in N : f.pid \notin Taken(f.src)
    BY <1>8, <2>1
  <2>. QED  BY <1>8, <2>2, <2>3 DEF NewIds
<1>10. Reports(N)
  BY <1>8 DEF Reports
<1>11. Grows
  <2>1. \A x \in Node : Taken(x) \subseteq Taken(x)'
    BY <1>8a, <1>8b, TakenGrows
  <2>2. got' = got
    BY DEF SubmitChat
  <2>. QED  BY <2>1, <2>2 DEF Grows, MeshType
<1>12. Learns(F)
  BY DEF Learns, Known, SubmitChat
<1>13. \A j \in Node : \A i \in Live(tbl'[j]) : Old(j, i) \/ Renewed(j, i, N)
  BY DEF Old, SubmitChat
<1>14. \A x \in acked' : x \in acked \/ (Dst[x] # Broadcast /\ got[Via[x]][x] > 0)
  BY DEF SubmitChat
<1>. QED  BY <1>1, <1>7, <1>9, <1>10, <1>11, <1>12, <1>13, <1>14, FlightStep

LEMMA SubmitUnicastFlight ==
  ASSUME TypeInv, TypeInv', FlightInv, Unwrapped', Apart', NEW m \in Msgs, SubmitUnicast(m)
  PROVE  FlightInv'
<1>. USE DEF TypeInv
<1>1. PICK F : F = InFlight /\ Carries(F)
  BY FlightCarried
<1>2. PICK n : n = Src[m]
  OBVIOUS
<1>3. PICK pid : pid = PidFor(m)
  OBVIOUS
<1>4. n \in Node
  BY <1>2, RoutesAssumption
<1>5. /\ pid \in Taken(n)' /\ pid \notin Taken(n)
      /\ \A x \in Node : Taken(x) \subseteq Taken(x)'
  BY <1>2, <1>3, TakenByUnicast
<1>6. PICK N : N = {Ident(Unicast(m, pid))}
  OBVIOUS
<1>7. InFlight' \subseteq F \cup N
  <2>1. PICK S : S = F \cup N
    OBVIOUS
  <2>2. Carries(S) /\ Ident(Unicast(m, PidFor(m))) \in S
    BY <1>1, <1>2, <1>3, <1>6, <2>1, CarriesGrows
  <2>3. Carries(S)'
    BY <2>2, SubmitUnicastType
  <2>. QED  BY <2>1, <2>3, CarriedNext
<1>8. \A f \in N : f.kind = "data" /\ f.src = n /\ f.pid = pid /\ f.msg = m
                   /\ (f.areq => f.dst = Via[m])
  BY <1>2, <1>6, DataIdent
<1>9. NewIds(N)
  <2>1. \A f \in N : Sound(f)'
    BY <1>4, <1>5, <1>8 DEF Sound
  <2>2. \A f \in N : f.pid \notin Taken(f.src)
    BY <1>5, <1>8
  <2>. QED  BY <1>8, <2>1, <2>2 DEF NewIds
<1>10. Reports(N)
  BY <1>8 DEF Reports
<1>11. Grows
  <2>1. got' = got
    BY DEF SubmitUnicast
  <2>. QED  BY <1>5, <2>1 DEF Grows, MeshType
<1>12. Learns(F)
  BY DEF Learns, Known, SubmitUnicast
<1>13. \A j \in Node : \A i \in Live(tbl'[j]) : Old(j, i) \/ Renewed(j, i, N)
  <2>. SUFFICES ASSUME NEW j \in Node, NEW i \in Live(tbl'[j])
                PROVE  Old(j, i) \/ Renewed(j, i, N)
    OBVIOUS
  <2>1. tbl' = [tbl EXCEPT ![n] = RetryEnqueue(tbl[n], m, pid, 0)]
    BY <1>2, <1>3 DEF SubmitUnicast, MeshType
  <2>2. CASE j # n
    <3>1. tbl'[j] = tbl[j]
      BY <2>1, <2>2 DEF MeshType
    <3>. QED  BY <3>1 DEF Old
  <2>3. CASE j = n
    <3>1. tbl'[j] = RetryEnqueue(tbl[n], m, pid, 0) /\ i \in RetrySlots
      BY <2>1, <2>3 DEF MeshType, Live
    <3>2. CASE i \in FreeSlot(tbl[n])
      <4>1. tbl'[j][i] = NewEntry(m, pid, 0)
        BY <3>1, <3>2 DEF RetryEnqueue
      <4>2. tbl'[j][i].data = m /\ tbl'[j][i].pid = pid
        BY <4>1 DEF NewEntry
      <4>. QED  BY <1>5, <1>8, <2>3, <4>2 DEF Renewed
    <3>3. CASE i \notin FreeSlot(tbl[n])
      <4>1. tbl'[j][i] = tbl[j][i]
        BY <2>3, <3>1, <3>3 DEF RetryEnqueue
      <4>. QED  BY <4>1 DEF Old, Live
    <3>. QED  BY <3>2, <3>3
  <2>. QED  BY <2>2, <2>3
<1>14. \A x \in acked' : x \in acked \/ (Dst[x] # Broadcast /\ got[Via[x]][x] > 0)
  BY DEF SubmitUnicast
<1>. QED  BY <1>1, <1>7, <1>9, <1>10, <1>11, <1>12, <1>13, <1>14, FlightStep

LEMMA TickFlight ==
  ASSUME TypeInv, TypeInv', FlightInv, Unwrapped', Apart', NEW n \in Node,
         NEW due \in SUBSET Live(tbl[n]), Tick(n, due)
  PROVE  FlightInv'
<1>. USE DEF TypeInv
<1>1. PICK F : F = InFlight /\ Carries(F)
  BY FlightCarried
<1>2. PICK c : c = ctr[n]
  OBVIOUS
<1>3. due \in SUBSET RetrySlots /\ Cardinality(due) \in Nat
  <2>1. due \in SUBSET RetrySlots
    BY DEF Live
  <2>. QED  BY <2>1, SlotsSubset
<1>4. /\ c \in Nat /\ ctr' = [ctr EXCEPT ![n] = c + Cardinality(due)]
      /\ tbl' = [tbl EXCEPT ![n] = RetryTick(tbl[n], due, c, 0)]
      /\ UNCHANGED <<rxq, outbox, bus, restarts, sent, acked, got, relayed>>
  BY <1>2 DEF MeshType, Tick
<1>5. ctr'[n] = c + Cardinality(due) /\ c + Cardinality(due) < PktIdMod
  BY <1>4 DEF Unwrapped, MeshType
<1>6. PICK p : p = [i \in due |-> TickPid(c, due, i)]
  OBVIOUS
<1>7. /\ \A i \in due : p[i] \in c + 1 .. c + Cardinality(due)
      /\ \A i, j \in due : p[i] = p[j] => i = j
  BY <1>3, <1>4, <1>5, <1>6, TickPids
<1>8. PICK e : e = [i \in due |-> tbl[n][i]]
  OBVIOUS
<1>9. \A i \in due : Owned(n, e[i].data)
  BY <1>8, LiveType
<1>10. PICK W : W = [i \in due |-> Ident(TickFrame(n, due, i))]
  OBVIOUS
<1>11. ASSUME NEW i \in due
       PROVE  /\ W[i].kind = "data" /\ W[i].src = n /\ W[i].pid = p[i] /\ W[i].msg = e[i].data
              /\ W[i].areq => W[i].dst = Via[W[i].msg]
  <2>1. W[i] \in {Ident(Chat(e[i].data, p[i])), Ident(Fallback(e[i].data, p[i])),
                  Ident(Unicast(e[i].data, p[i]))}
    BY <1>2, <1>6, <1>8, <1>10 DEF TickFrame
  <2>2. Src[e[i].data] = n
    BY <1>9 DEF Owned
  <2>. QED  BY <2>1, <2>2, DataIdent
<1>12. PICK N : N = {W[i] : i \in due}
  OBVIOUS
<1>13. InFlight' \subseteq F \cup N
  <2>1. PICK S : S = F \cup N
    OBVIOUS
  <2>2. Carries(S) /\ \A i \in due : Ident(TickFrame(n, due, i)) \in S
    BY <1>1, <1>10, <1>12, <2>1, CarriesGrows
  <2>3. Carries(S)'
    BY <2>2, TickType
  <2>. QED  BY <2>1, <2>3, CarriedNext
<1>13a. /\ \A x \in Node : Taken(x) \subseteq Taken(x)'
       /\ \A i \in due : p[i] \in Taken(n)' /\ p[i] \notin Taken(n)
  <2>1. ASSUME NEW x \in Node PROVE ctr[x] <= ctr'[x]
    <3>1. CASE x = n
      BY <1>2, <1>3, <1>4, <1>5, <3>1
    <3>2. CASE x # n
      BY <1>4, <3>2 DEF MeshType
    <3>. QED  BY <3>1, <3>2
  <2>2. \A i \in due : p[i] \in ctr[n] + 1 .. ctr'[n]
    BY <1>2, <1>5, <1>7
  <2>3. sent \subseteq sent'
    BY <1>4
  <2>. QED  BY <2>1, <2>2, <2>3, TakenGrows
<1>14. NewIds(N)
  <2>1. ASSUME NEW i \in due PROVE Sound(W[i])' /\ W[i].pid \notin Taken(W[i].src)
    <3>1. p[i] \in Taken(n)' /\ p[i] \notin Taken(n)
      BY <1>13a
    <3>2. e[i].data \in Msgs
      BY <1>9 DEF Owned
    <3>. QED  BY <1>11, <3>1, <3>2 DEF Sound
  <2>2. ASSUME NEW i \in due, NEW j \in due, Key(W[i]) = Key(W[j])
        PROVE  i = j
    BY <1>7, <1>11, <2>2 DEF Key
  <2>. QED  BY <1>12, <2>1, <2>2 DEF NewIds
<1>15. Reports(N)
  BY <1>11, <1>12 DEF Reports
<1>16. Grows
  BY <1>4, <1>13a DEF Grows, MeshType
<1>17. Learns(F)
  BY <1>4 DEF Learns, Known
<1>18. \A j \in Node : \A i \in Live(tbl'[j]) : Old(j, i) \/ Renewed(j, i, N)
  <2>. SUFFICES ASSUME NEW j \in Node, NEW i \in Live(tbl'[j])
                PROVE  Old(j, i) \/ Renewed(j, i, N)
    OBVIOUS
  <2>2. CASE j # n
    <3>1. tbl'[j] = tbl[j]
      BY <1>4, <2>2 DEF MeshType
    <3>. QED  BY <3>1 DEF Old
  <2>3. CASE j = n
    <3>1. tbl'[n] = RetryTick(tbl[n], due, c, 0) /\ i \in RetrySlots
      BY <1>4 DEF MeshType, Live
    <3>2. CASE i \notin due
      <4>1. tbl'[j][i] = tbl[j][i]
        BY <2>3, <3>1, <3>2 DEF RetryTick
      <4>. QED  BY <4>1 DEF Old, Live
    <3>3. CASE i \in due /\ tbl[n][i].left > 0
      <4>1. tbl'[n][i] = Retried(tbl[n][i], p[i], 0)
        BY <1>6, <3>1, <3>3 DEF RetryTick
      <4>2. tbl[n][i] \in EntriesOf(n) /\ p[i] \in PktIds
        <5>1. TickPid(c, due, i) \in PktIds
          BY <1>3, <1>4, <3>3, TickPids
        <5>. QED  BY <1>6, <3>1, <3>3, <5>1 DEF MeshType
      <4>3. tbl'[n][i].data = e[i].data /\ tbl'[n][i].pid = p[i]
        BY <1>8, <3>3, <4>1, <4>2, RetriedType
      <4>4. ASSUME NEW f \in N, Key(f) = <<n, p[i]>>
            PROVE  f.kind = "data" /\ f.msg = e[i].data
        <5>1. PICK k \in due : f = W[k]
          BY <1>12
        <5>2. p[k] = p[i]
          BY <1>11, <4>4, <5>1 DEF Key
        <5>. QED  BY <1>7, <1>11, <3>3, <5>1, <5>2
      <4>. QED  BY <1>13a, <2>3, <3>3, <4>3, <4>4 DEF Renewed
    <3>4. CASE i \in due /\ ~ (tbl[n][i].left > 0)
      <4>1. tbl'[n][i] = FreeEntry
        BY <3>1, <3>4 DEF RetryTick
      <4>. QED  BY <2>3, <4>1, FreeEntryType DEF Live
    <3>. QED  BY <3>2, <3>3, <3>4
  <2>. QED  BY <2>2, <2>3
<1>19. \A x \in acked' : x \in acked \/ (Dst[x] # Broadcast /\ got[Via[x]][x] > 0)
  BY <1>4
<1>. QED  BY <1>1, <1>13, <1>14, <1>15, <1>16, <1>17, <1>18, <1>19, FlightStep

\* The key of the frame received is that of a frame in flight.
LEMMA LearnsHead ==
  ASSUME MeshType, NEW F, NEW n \in Node, NEW f \in Frames, Ident(f) \in F,
         f.kind = "data" => got'[n][f.msg] > 0, Remember(n, f)
  PROVE  Learns(F)
<1>1. Key(Ident(f)) = Key(f) /\ Ident(f).kind = f.kind /\ Ident(f).msg = f.msg
  BY DEF Key, Ident
<1>2. ASSUME NEW k \in Node, NEW x \in Known(k)'
      PROVE  x \in Known(k) \/ \E h \in F : x = Key(h) /\ (h.kind = "data" => got'[k][h.msg] > 0)
  <2>1. CASE k # n
    <3>1. bus'[k] = bus[k]
      BY <2>1, RememberType
    <3>. QED  BY <1>2, <3>1 DEF Known
  <2>2. CASE k = n
    <3>1. x \in Range(bus[n]) \cup {Key(f)}
      BY <1>2, <2>2, RememberType DEF Known
    <3>. QED  BY <1>1, <2>2, <3>1 DEF Known
  <2>. QED  BY <2>1, <2>2
<1>. QED  BY <1>2 DEF Learns

LEMMA ReceiveAckFlight ==
  ASSUME TypeInv, TypeInv', FlightInv, NEW n \in Node, NEW fwd \in BOOLEAN,
         ReceiveAck(n, fwd)
  PROVE  FlightInv'
<1>. USE DEF TypeInv
<1>1. PICK F : F = InFlight /\ Carries(F)
  BY FlightCarried
<1>2. PICK f : f = Head(rxq[n])
  OBVIOUS
<1>3. f \in Frames /\ Ident(f) \in F /\ f.kind = "ack"
  BY <1>1, <1>2, TakeHead DEF ReceiveAck
<1>4. PICK cleared : cleared = IF f.dst = n THEN AckSlot(tbl[n], f.apid) ELSE {}
  OBVIOUS
<1>5. /\ Remember(n, f)
      /\ tbl' = [tbl EXCEPT ![n] = IF f.dst = n THEN RetryAck(tbl[n], f.apid) ELSE tbl[n]]
      /\ acked' = acked \cup {tbl[n][i].data : i \in cleared}
      /\ UNCHANGED <<outbox, ctr, restarts, sent, got>>
  BY <1>2, <1>4 DEF ReceiveAck, MeshType
<1>6. PICK N : N = {}
  OBVIOUS
<1>7. InFlight' \subseteq F \cup N
  <2>1. Carries(F)'
    BY <1>1, ReceiveAckType
  <2>. QED  BY <1>6, <2>1, CarriedNext
<1>8. NewIds(N) /\ Reports(N)
  BY <1>6 DEF NewIds, Reports
<1>9. Grows
  BY <1>5 DEF Grows, MeshType, Taken
<1>10. Learns(F)
  BY <1>3, <1>5, LearnsHead
<1>11. \A j \in Node : \A i \in Live(tbl'[j]) : Old(j, i) \/ Renewed(j, i, N)
  <2>. SUFFICES ASSUME NEW j \in Node, NEW i \in Live(tbl'[j])
                PROVE  Old(j, i)
    OBVIOUS
  <2>1. CASE tbl'[j] = tbl[j]
    BY <2>1 DEF Old
  <2>2. CASE tbl'[j] # tbl[j]
    <3>1. j = n /\ tbl'[n] = RetryAck(tbl[n], f.apid) /\ i \in RetrySlots
      BY <1>5, <2>2 DEF MeshType, Live
    <3>2. tbl'[n][i].valid
      BY <3>1 DEF Live
    <3>3. tbl'[n][i] = tbl[n][i]
      BY <3>1, <3>2, FreeEntryType DEF RetryAck
    <3>. QED  BY <3>1, <3>2, <3>3 DEF Old, Live
  <2>. QED  BY <2>1, <2>2
<1>12. \A x \in acked' : x \in acked \/ (Dst[x] # Broadcast /\ got[Via[x]][x] > 0)
  <2>1. ASSUME NEW i \in cleared
        PROVE  Dst[tbl[n][i].data] # Broadcast /\ got[Via[tbl[n][i].data]][tbl[n][i].data] > 0
    <3>1. f.dst = n /\ i \in Live(tbl[n]) /\ tbl[n][i].pid = f.apid
      BY <1>4 DEF AckSlot
    <3>2. EntryTells(n, i) /\ EntrySound(n, i)
      BY <3>1 DEF FlightInv, EntriesTrue
    <3>3. Ident(f).kind = "ack" /\ Ident(f).dst = n /\ Ident(f).apid = tbl[n][i].pid
      BY <1>3, <3>1 DEF Ident
    <3>. QED  BY <1>1, <1>3, <3>2, <3>3 DEF EntryTells, EntrySound
  <2>. QED  BY <1>5, <2>1
<1>. QED  BY <1>1, <1>7, <1>8, <1>9, <1>10, <1>11, <1>12, FlightStep

LEMMA ReceiveDataFlight ==
  ASSUME TypeInv, TypeInv', FlightInv, Unwrapped', Apart', NEW n \in Node, NEW fwd \in BOOLEAN,
         ReceiveData(n, fwd)
  PROVE  FlightInv'
<1>. USE DEF TypeInv
<1>1. PICK F : F = InFlight /\ Carries(F)
  BY FlightCarried
<1>2. PICK f : f = Head(rxq[n])
  OBVIOUS
<1>3. f \in Frames /\ Ident(f) \in F /\ f.kind = "data"
  BY <1>1, <1>2, TakeHead DEF ReceiveData
<1>4. PICK pid : pid = (ctr[n] + 1) % PktIdMod
  OBVIOUS
<1>5. /\ Remember(n, f)
      /\ ctr' = [ctr EXCEPT ![n] = IF Answers(n, f) THEN ctr[n] + 1 ELSE ctr[n]]
      /\ got' = [got EXCEPT ![n] = [got[n] EXCEPT ![f.msg] = got[n][f.msg] + 1]]
      /\ UNCHANGED <<outbox, tbl, restarts, sent, acked>>
  BY <1>2 DEF ReceiveData, MeshType
<1>6. Sound(Ident(f))
  BY <1>1, <1>3 DEF FlightInv, FlightSound
<1>7. /\ f.src \in Node /\ f.pid \in Taken(f.src) /\ f.msg \in Msgs
      /\ Answers(n, f) => f.dst = n /\ f.dst = Via[f.msg]
  <2>1. /\ Ident(f).kind = f.kind /\ Ident(f).src = f.src /\ Ident(f).pid = f.pid
        /\ Ident(f).msg = f.msg /\ Ident(f).dst = f.dst
    BY DEF Ident
  <2>2. f.areq => Ident(f).areq
    BY Zenon DEF Ident
  <2>. QED  BY <1>3, <1>6, <2>1, <2>2 DEF Sound, Answers
<1>8. /\ got'[n][f.msg] > 0
      /\ \A k \in Node, m \in Msgs : got[k][m] <= got'[k][m]
  <2>1. got[n][f.msg] \in Nat /\ got'[n][f.msg] = got[n][f.msg] + 1
    BY <1>5, <1>7 DEF MeshType
  <2>2. got'[n][f.msg] > 0
    BY <2>1
  <2>3. ASSUME NEW k \in Node, NEW m \in Msgs PROVE got[k][m] <= got'[k][m]
    <3>1. CASE k = n /\ m = f.msg
      BY <2>1, <3>1
    <3>2. CASE ~ (k = n /\ m = f.msg)
      <4>1. got'[k][m] = got[k][m] /\ got[k][m] \in Nat
        BY <1>5, <3>2 DEF MeshType
      <4>. QED  BY <4>1
    <3>. QED  BY <3>1, <3>2
  <2>. QED  BY <2>2, <2>3
<1>9. Answers(n, f) => pid = ctr[n] + 1 /\ ctr'[n] = ctr[n] + 1
  <2>. SUFFICES ASSUME Answers(n, f) PROVE pid = ctr[n] + 1 /\ ctr'[n] = ctr[n] + 1
    OBVIOUS
  <2>1. ctr'[n] = ctr[n] + 1 /\ ctr[n] + 1 \in Nat
    BY <1>5 DEF MeshType
  <2>2. ctr[n] + 1 < PktIdMod
    BY <2>1 DEF Unwrapped
  <2>3. (ctr[n] + 1) % PktIdMod = ctr[n] + 1
    BY <2>1, <2>2, PidType
  <2>. QED  BY <1>4, <2>1, <2>3
<1>10. PICK N : N = IF Answers(n, f) THEN {Ident(AckFor(n, f, pid))} ELSE {}
  OBVIOUS
<1>11. InFlight' \subseteq F \cup N
  <2>1. PICK S : S = F \cup N
    OBVIOUS
  <2>2. /\ Carries(S)
        /\ Answers(n, Head(rxq[n])) =>
             Ident(AckFor(n, Head(rxq[n]), (ctr[n] + 1) % PktIdMod)) \in S
    BY <1>1, <1>2, <1>4, <1>10, <2>1, CarriesGrows
  <2>3. Carries(S)'
    BY <2>2, ReceiveDataType
  <2>. QED  BY <2>1, <2>3, CarriedNext
<1>12. \A g \in N : /\ g.kind = "ack" /\ g.src = n /\ g.dst = f.src
                    /\ g.pid = pid /\ g.apid = f.pid /\ ~ g.areq /\ Answers(n, f)
  BY <1>10, AckIdent
<1>13. \A k \in Node : ctr[k] <= ctr'[k]
  <2>. SUFFICES ASSUME NEW k \in Node PROVE ctr[k] <= ctr'[k]
    OBVIOUS
  <2>1. ctr[k] \in Nat /\ (ctr'[k] = ctr[k] \/ ctr'[k] = ctr[k] + 1)
    BY <1>5 DEF MeshType
  <2>. QED  BY <2>1
<1>13a. /\ \A k \in Node : Taken(k) \subseteq Taken(k)'
       /\ \A k \in Node : \A p \in ctr[k] + 1 .. ctr'[k] : p \in Taken(k)' /\ p \notin Taken(k)
  <2>1. sent \subseteq sent'
    BY <1>5
  <2>. QED  BY <1>13, <2>1, TakenGrows
<1>14. NewIds(N)
  <2>. SUFFICES ASSUME NEW g \in N PROVE Sound(g)' /\ g.pid \notin Taken(g.src)
    <3>1. \A g, h \in N : g = h
      BY <1>10
    <3>. QED  BY <3>1 DEF NewIds
  <2>1. Answers(n, f) /\ pid = ctr[n] + 1 /\ ctr'[n] = ctr[n] + 1 /\ ctr[n] \in Nat
    BY <1>9, <1>12 DEF MeshType
  <2>2. pid \in Taken(n)' /\ pid \notin Taken(n)
    <3>1. pid \in ctr[n] + 1 .. ctr'[n]
      BY <2>1
    <3>. QED  BY <1>13a, <3>1
  <2>3. f.pid \in Taken(f.src)'
    BY <1>7, <1>13a
  <2>. QED  BY <1>7, <1>12, <2>2, <2>3 DEF Sound
<1>15. Reports(N)
  <2>. SUFFICES ASSUME NEW g \in N, NEW i \in Live(tbl[f.src]), tbl[f.src][i].pid = f.pid
                PROVE  got'[Via[tbl[f.src][i].data]][tbl[f.src][i].data] > 0
    BY <1>7, <1>12, SMTT(30) DEF Reports
  <2>1. EntryTells(f.src, i)
    <3>1. \A k \in Node : \A e \in Live(tbl[k]) : EntryTells(k, e)
      BY Zenon DEF FlightInv, EntriesTrue
    <3>2. f.src \in Node
      BY <1>7
    <3>. QED  BY <3>1, <3>2, Zenon
  <2>2. Key(Ident(f)) = <<f.src, tbl[f.src][i].pid>> /\ Ident(f).msg = f.msg
    BY DEF Key, Ident
  <2>3. f.msg = tbl[f.src][i].data
    BY <1>1, <1>3, <2>1, <2>2 DEF EntryTells
  <2>4. Via[f.msg] = n
    BY <1>7, <1>12
  <2>. QED  BY <1>8, <2>3, <2>4
<1>16. Grows
  BY <1>8, <1>13a DEF Grows
<1>17. Learns(F)
  BY <1>3, <1>5, <1>8, LearnsHead
<1>18. \A j \in Node : \A i \in Live(tbl'[j]) : Old(j, i) \/ Renewed(j, i, N)
  BY <1>5 DEF Old
<1>19. \A x \in acked' : x \in acked \/ (Dst[x] # Broadcast /\ got[Via[x]][x] > 0)
  BY <1>5
<1>. QED  BY <1>1, <1>11, <1>14, <1>15, <1>16, <1>17, <1>18, <1>19, FlightStep

\* While no node restarts, the counters only grow.
LEMMA FirstIdsBefore ==
  ASSUME TypeInv, TypeInv', FirstIds', [Next]_vars
  PROVE  FirstIds
<1>. USE DEF TypeInv
<1>1. ASSUME \A n \in Node : ctr[n] <= ctr'[n], restarts' = restarts
      PROVE  FirstIds
  <2>1. ASSUME NEW n \in Node PROVE ctr[n] \in Nat /\ ctr'[n] \in Nat /\ ctr[n] <= ctr'[n]
    BY <1>1 DEF MeshType
  <2>2. Unwrapped
    BY <2>1, PktIdAssumption DEF FirstIds, Unwrapped
  <2>3. ASSUME NEW m \in AppMsgs PROVE ctr[Src[m]] < AppId[m]
    <3>1. Src[m] \in Node /\ AppId[m] \in Nat /\ ctr'[Src[m]] < AppId[m]
      BY RoutesAssumption, AppIdAssumption, PktIdAssumption DEF AppMsgs, FirstIds, Apart
    <3>. QED  BY <2>1, <3>1
  <2>4. Apart
    BY <2>3 DEF FirstIds, Apart
  <2>. QED  BY <1>1, <2>2, <2>4 DEF FirstIds
<1>2. ASSUME NEW n \in Node, NEW d \in Nat, ctr' = [ctr EXCEPT ![n] = ctr[n] + d],
             restarts' = restarts
      PROVE  FirstIds
  <2>1. \A k \in Node : ctr[k] \in Nat /\ ctr[k] <= ctr'[k]
    BY <1>2 DEF MeshType
  <2>. QED  BY <1>1, <1>2, <2>1
<1>3. ASSUME UNCHANGED <<ctr, restarts>>
      PROVE  FirstIds
  BY <1>3 DEF FirstIds, Unwrapped, Apart
<1>4. ASSUME NEW m \in Msgs, SubmitUnicast(m) \/ \E k \in 0 .. Len(outbox[Src[m]]) : SubmitChat(m, k)
      PROVE  FirstIds
  <2>1. Src[m] \in Node /\ ctr[Src[m]] \in Nat
    BY RoutesAssumption DEF MeshType
  <2>2. PICK d \in Nat : ctr' = [ctr EXCEPT ![Src[m]] = ctr[Src[m]] + d]
    <3>1. \E d \in {0, 1, 2} : ctr' = [ctr EXCEPT ![Src[m]] = ctr[Src[m]] + d]
      BY <1>4, <2>1 DEF SubmitUnicast, SubmitChat, CtrFor
    <3>. QED  BY <3>1
  <2>3. restarts' = restarts
    BY <1>4 DEF SubmitUnicast, SubmitChat
  <2>. QED  BY <1>2, <2>1, <2>2, <2>3
<1>5. ASSUME NEW n \in Node, Timeout(n)
      PROVE  FirstIds
  <2>1. PICK due \in SUBSET Live(tbl[n]) : Tick(n, due)
    BY <1>5 DEF Timeout
  <2>2. due \in SUBSET RetrySlots
    BY DEF Live
  <2>3. Cardinality(due) \in Nat
    BY <2>2, SlotsSubset
  <2>4. ctr' = [ctr EXCEPT ![n] = ctr[n] + Cardinality(due)] /\ restarts' = restarts
    BY <2>1 DEF Tick
  <2>. QED  BY <1>2, <2>3, <2>4
<1>6. ASSUME NEW n \in Node, Receive(n)
      PROVE  FirstIds
  <2>1. CASE DropDuplicate(n)
    BY <1>3, <2>1 DEF DropDuplicate
  <2>2. ASSUME NEW fwd \in BOOLEAN, ReceiveAck(n, fwd) PROVE FirstIds
    BY <1>3, <2>2 DEF ReceiveAck
  <2>3. ASSUME NEW fwd \in BOOLEAN, ReceiveData(n, fwd) PROVE FirstIds
    <3>1. CASE Answers(n, Head(rxq[n]))
      <4>1. ctr' = [ctr EXCEPT ![n] = ctr[n] + 1] /\ restarts' = restarts
        BY <2>3, <3>1 DEF ReceiveData
      <4>. QED  BY <1>2, <4>1
    <3>2. CASE ~ Answers(n, Head(rxq[n]))
      <4>1. ctr' = ctr /\ restarts' = restarts
        BY <2>3, <3>2 DEF ReceiveData, MeshType
      <4>. QED  BY <1>3, <4>1
    <3>. QED  BY <3>1, <3>2
  <2>. QED  BY <1>6, <2>1, <2>2, <2>3 DEF Receive
<1>7. ASSUME NEW n \in Node, Restart(n)
      PROVE  FirstIds
  BY <1>7 DEF Restart, MeshType, FirstIds
<1>8. ASSUME NEW n \in Node,
             \/ \E k \in 0 .. Len(outbox[n]) : OutboxTick(n, k)
             \/ \E heard \in SUBSET Neighbors[n] : Transmit(n, heard)
             \/ Hold(n)
      PROVE  FirstIds
  BY <1>3, <1>8 DEF OutboxTick, Transmit, Hold
<1>. QED  BY <1>3, <1>4, <1>5, <1>6, <1>7, <1>8 DEF Next, vars

LEMMA NextFlight ==
  ASSUME TypeInv, TypeInv', FlightInv, FirstIds', [Next]_vars
  PROVE  FlightInv'
<1>1. Unwrapped' /\ Apart'
  BY DEF FirstIds
<1>2. PICK F : F = InFlight /\ Carries(F)
  BY FlightCarried
<1>3. MeshType /\ MeshType'
  BY DEF TypeInv
<1>4. ASSUME NEW n \in Node, DropDuplicate(n) PROVE FlightInv'
  <2>1. Carries(F)'
    BY <1>2, <1>3, <1>4, DropType
  <2>. QED  BY <1>2, <1>3, <1>4, <2>1, FlightRests DEF DropDuplicate
<1>5. ASSUME NEW n \in Node, NEW k \in 0 .. Len(outbox[n]), OutboxTick(n, k) PROVE FlightInv'
  <2>1. Carries(F)'
    BY <1>2, <1>3, <1>5, OutboxTickType
  <2>. QED  BY <1>2, <1>3, <1>5, <2>1, FlightRests DEF OutboxTick
<1>6. ASSUME NEW n \in Node, NEW heard \in SUBSET Neighbors[n], Transmit(n, heard)
      PROVE  FlightInv'
  <2>1. Carries(F)'
    BY <1>2, <1>3, <1>6, TransmitType
  <2>. QED  BY <1>2, <1>3, <1>6, <2>1, FlightRests DEF Transmit
<1>7. ASSUME NEW n \in Node, Hold(n) PROVE FlightInv'
  <2>1. Carries(F)'
    BY <1>2, <1>3, <1>7, HoldType
  <2>. QED  BY <1>2, <1>3, <1>7, <2>1, FlightRests DEF Hold
<1>8. CASE UNCHANGED vars
  <2>1. Carries(F)'
    BY <1>2, <1>8 DEF Carries, vars
  <2>. QED  BY <1>2, <1>3, <1>8, <2>1, FlightRests DEF vars
<1>9. ASSUME NEW n \in Node, Restart(n) PROVE FALSE
  BY <1>3, <1>9 DEF Restart, MeshType, FirstIds
<1>10. ASSUME NEW n \in Node, Timeout(n) PROVE FlightInv'
  <2>1. PICK due \in SUBSET Live(tbl[n]) : Tick(n, due)
    BY <1>10 DEF Timeout
  <2>. QED  BY <1>1, <2>1, TickFlight
<1>11. ASSUME NEW n \in Node, Receive(n) PROVE FlightInv'
  BY <1>1, <1>4, <1>11, ReceiveAckFlight, ReceiveDataFlight DEF Receive
<1>12. ASSUME NEW m \in Msgs, SubmitUnicast(m) PROVE FlightInv'
  BY <1>1, <1>12, SubmitUnicastFlight
<1>13. ASSUME NEW m \in Msgs, NEW k \in 0 .. Len(outbox[Src[m]]), SubmitChat(m, k)
       PROVE  FlightInv'
  BY <1>1, <1>13, SubmitChatFlight
<1>. QED
  BY <1>5, <1>6, <1>7, <1>8, <1>9, <1>10, <1>11, <1>12, <1>13 DEF Next

LEMMA InitFlight == Init => FlightInv
<1>. SUFFICES ASSUME Init PROVE FlightInv
  OBVIOUS
<1>1. InFlight = {}
  BY DEF Init, InFlight, Queued, Idents
<1>2. \A n \in Node : Known(n) = {} /\ Live(tbl[n]) = {}
  <2>1. FreeEntry.valid = FALSE
    BY FreeEntryType
  <2>2. \A n \in Node : Known(n) = {}
    BY DEF Init, Known, Range
  <2>3. \A n \in Node : Live(tbl[n]) = {}
    BY <2>1 DEF Init, EmptyTable, Live
  <2>. QED  BY <2>2, <2>3
<1>3. acked = {}
  BY DEF Init
<1>. QED
  BY <1>1, <1>2, <1>3
     DEF FlightInv, FlightSound, KeysTell, KnownOld, KnownReached, EntriesTrue, AckedSound

LEMMA FlightKept == Spec => [](FirstIds => FlightInv)
<1>1. Init => (FirstIds => FlightInv)
  BY InitFlight
<1>2. TypeInv /\ TypeInv' /\ (FirstIds => FlightInv) /\ [Next]_vars => (FirstIds => FlightInv)'
  BY FirstIdsBefore, NextFlight
<1>. QED  BY <1>1, <1>2, TypesKept, PTL DEF Spec

(***************************************************************************)
(* Until a node restarts, a counter of packet ids comes round or an app    *)
(* chooses an id of the node's or another's (FirstIds): a message          *)
(* whose retry entry an acknowledgement cleared has reached the            *)
(* application of its next hop, in every mesh, for every table and queue   *)
(* size, whatever is lost, late or relayed (rivr_sources.c lines 446-493,  *)
(* retry_table_ack).                                                       *)
(***************************************************************************)
THEOREM AckedReachedNextHopAlways == Spec => [](FirstIds => AckedReachedNextHop)
<1>1. (FirstIds => FlightInv) => (FirstIds => AckedReachedNextHop)
  BY DEF FlightInv, AckedSound, AckedReachedNextHop
<1>. QED  BY <1>1, FlightKept, PTL

(***************************************************************************)
(* Under the same condition, a data frame that a node would drop as a      *)
(* duplicate carries a message its application has: no two messages share  *)
(* a (src_id, pkt_id), retries and fallback floods included (protocol.md   *)
(* line 107, retry_table_tick).                                            *)
(***************************************************************************)
THEOREM DuplicateIsKnownAlways == Spec => [](FirstIds => DuplicateIsKnown)
<1>1. TypeInv /\ (FirstIds => FlightInv) => (FirstIds => DuplicateIsKnown)
  <2>. SUFFICES ASSUME TypeInv, FlightInv, NEW n \in Node, NEW i \in DOMAIN rxq[n],
                       rxq[n][i].kind = "data", Seen(n, rxq[n][i])
                PROVE  got[n][rxq[n][i].msg] > 0
    BY DEF DuplicateIsKnown
  <2>1. PICK f : f = rxq[n][i]
    OBVIOUS
  <2>2. Ident(f) \in InFlight
    BY <2>1 DEF InFlight, Queued, Idents
  <2>3. Key(f) \in Known(n)
    BY <2>1, SeenKnown DEF TypeInv
  <2>4. Ident(f).kind = "data" /\ Ident(f).msg = f.msg /\ Key(Ident(f)) = Key(f)
    BY <2>1 DEF Ident, Key
  <2>. QED  BY <2>1, <2>2, <2>3, <2>4 DEF FlightInv, KnownReached
<1>. QED  BY <1>1, FlightKept, TypesKept, PTL
=============================================================================
