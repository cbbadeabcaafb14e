-------------------------- MODULE RetryTableProofs --------------------------
(***************************************************************************)
(* RetryTable for every table size, timeout, clock width and number of     *)
(* packet ids: types, the entry count, the distinctness of the ids that    *)
(* acknowledgements are matched by, and, for the code's three retries, the *)
(* exactness of the wrap-safe deadline test.                               *)
(***************************************************************************)
EXTENDS RetryTable, FiniteSetTheorems, TLAPS

\* Remainders of values below the modulus, and in general.
LEMMA ModBelow ==
  ASSUME NEW a \in Nat, NEW m \in Nat \ {0}, a < m
  PROVE  a % m = a
  OBVIOUS

LEMMA ModRange ==
  ASSUME NEW a \in Nat, NEW m \in Nat \ {0}
  PROVE  a % m \in 0 .. m - 1
  OBVIOUS

\* The remainder of a value between the modulus and its double.
LEMMA ModOnce ==
  ASSUME NEW r \in Nat, NEW m \in Nat \ {0}, r < m
  PROVE  (m + r) % m = r
  OBVIOUS

\* The unsigned difference of two clock values.
LEMMA ClockDiff ==
  ASSUME NEW a \in 0 .. ClockMod - 1, NEW b \in 0 .. ClockMod - 1
  PROVE  (a + ClockMod - b) % ClockMod = IF a >= b THEN a - b ELSE a + ClockMod - b
<1>0. ClockMod \in Nat \ {0}
  BY ClockAssumption
<1>1. CASE a >= b
  <2>1. a - b \in Nat /\ a - b < ClockMod /\ a + ClockMod - b = ClockMod + (a - b)
    BY <1>0, <1>1
  <2>2. (ClockMod + (a - b)) % ClockMod = a - b
    BY <1>0, <2>1, ModOnce
  <2>. QED  BY <1>1, <2>1, <2>2
<1>2. CASE a < b
  <2>1. a + ClockMod - b \in Nat /\ a + ClockMod - b < ClockMod
    BY <1>0, <1>2
  <2>2. (a + ClockMod - b) % ClockMod = a + ClockMod - b
    BY <1>0, <2>1, ModBelow
  <2>3. ~(a >= b)
    BY <1>2
  <2>. QED  BY <2>2, <2>3
<1>. QED  BY <1>1, <1>2

\* A clock value d milliseconds later, d within one turn of the clock.
LEMMA ClockLater ==
  ASSUME NEW a \in 0 .. ClockMod - 1, NEW d \in 0 .. ClockMod - 1
  PROVE  /\ (a + d) % ClockMod \in 0 .. ClockMod - 1
         /\ (a + d) % ClockMod = IF a + d < ClockMod THEN a + d ELSE a + d - ClockMod
<1>0. ClockMod \in Nat \ {0}
  BY ClockAssumption
<1>1. CASE a + d < ClockMod
  <2>1. a + d \in Nat
    BY <1>0
  <2>2. (a + d) % ClockMod = a + d
    BY <1>0, <1>1, <2>1, ModBelow
  <2>. QED  BY <1>0, <1>1, <2>1, <2>2
<1>2. CASE a + d >= ClockMod
  <2>1. a + d - ClockMod \in Nat /\ a + d - ClockMod < ClockMod
        /\ a + d = ClockMod + (a + d - ClockMod)
    BY <1>0, <1>2
  <2>2. (ClockMod + (a + d - ClockMod)) % ClockMod = a + d - ClockMod
    BY <1>0, <2>1, ModOnce
  <2>3. (a + d) % ClockMod = a + d - ClockMod
    BY <2>1, <2>2
  <2>4. ~(a + d < ClockMod)
    BY <1>2, <1>0
  <2>. QED  BY <2>1, <2>3, <2>4, <1>0
<1>. QED  BY <1>0, <1>1, <1>2

-----------------------------------------------------------------------------
(***************************************************************************)
(* The slots of the table.                                                 *)
(***************************************************************************)

LEMMA SlotsFinite ==
  /\ IsFiniteSet(RetrySlots)
  /\ Cardinality(RetrySlots) = RetryTableSize
  BY RetrySizeAssumption, FS_Interval DEF RetrySlots

LEMMA SubsetFinite ==
  ASSUME NEW S \in SUBSET RetrySlots
  PROVE  IsFiniteSet(S) /\ Cardinality(S) \in Nat /\ Cardinality(S) <= RetryTableSize
  BY SlotsFinite, FS_Subset, FS_CardinalityType

\* A scan finds one free slot, or none.
LEMMA FreeSlotOne ==
  ASSUME NEW t, NEW i \in FreeSlot(t), NEW j \in FreeSlot(t)
  PROVE  i = j
  BY RetrySizeAssumption DEF FreeSlot, RetrySlots

LEMMA AckSlotOne ==
  ASSUME NEW t, NEW p, NEW i \in AckSlot(t, p), NEW j \in AckSlot(t, p)
  PROVE  i = j
  BY RetrySizeAssumption DEF AckSlot, Live, RetrySlots

\* The rank of a due slot: below the number of due slots, and increasing.
LEMMA RankBelow ==
  ASSUME NEW due \in SUBSET RetrySlots, NEW i \in due
  PROVE  DueRank(due, i) \in Nat /\ DueRank(due, i) < Cardinality(due)
<1>. DEFINE before == {j \in due : j < i}
<1>1. IsFiniteSet(due) /\ Cardinality(due) \in Nat
  BY SubsetFinite
<1>2. before \in SUBSET due /\ before # due
  BY DEF RetrySlots
<1>3. Cardinality(before) <= Cardinality(due) /\ Cardinality(before) # Cardinality(due)
  BY <1>1, <1>2, FS_Subset
<1>4. before \in SUBSET RetrySlots
  BY <1>2
<1>5. Cardinality(before) \in Nat
  BY <1>4, SubsetFinite
<1>. QED  BY <1>1, <1>3, <1>5 DEF DueRank

LEMMA RankIncreases ==
  ASSUME NEW due \in SUBSET RetrySlots, NEW i \in due, NEW j \in due, i < j
  PROVE  DueRank(due, i) < DueRank(due, j)
<1>. DEFINE bi == {x \in due : x < i}
            bj == {x \in due : x < j}
<1>1. bi \in SUBSET bj /\ bi # bj /\ bj \in SUBSET RetrySlots /\ bi \in SUBSET RetrySlots
  <2>1. bj \in SUBSET RetrySlots /\ bi \in SUBSET RetrySlots
    OBVIOUS
  <2>2. ASSUME NEW x \in bi PROVE x \in bj
    BY DEF RetrySlots
  <2>3. i \in bj /\ i \notin bi
    BY DEF RetrySlots
  <2>. QED  BY <2>1, <2>2, <2>3
<1>2. IsFiniteSet(bj) /\ Cardinality(bj) \in Nat /\ Cardinality(bi) \in Nat
  BY <1>1, SubsetFinite
<1>3. Cardinality(bi) <= Cardinality(bj) /\ Cardinality(bi) # Cardinality(bj)
  BY <1>1, <1>2, FS_Subset
<1>. QED  BY <1>2, <1>3 DEF DueRank

\* The ids of a tick, within one cycle of the packet ids.
LEMMA TickPidValue ==
  ASSUME NEW c \in Nat, NEW due \in SUBSET RetrySlots, NEW i \in due,
         c + Cardinality(due) <= MaxCtr
  PROVE  /\ TickPid(c, due, i) = c + DueRank(due, i) + 1
         /\ TickPid(c, due, i) \in c + 1 .. c + Cardinality(due)
         /\ TickPid(c, due, i) \in 0 .. PktIdMod - 1
<1>1. DueRank(due, i) \in Nat /\ DueRank(due, i) < Cardinality(due)
  BY RankBelow
<1>2. Cardinality(due) \in Nat
  BY SubsetFinite
<1>3. c + DueRank(due, i) + 1 \in Nat /\ c + DueRank(due, i) + 1 < PktIdMod
  BY <1>1, <1>2, MaxCtrAssumption, PktIdAssumption
<1>4. TickPid(c, due, i) = c + DueRank(due, i) + 1
  BY <1>3, ModBelow, PktIdAssumption DEF TickPid
<1>. QED  BY <1>1, <1>2, <1>3, <1>4, PktIdAssumption

-----------------------------------------------------------------------------
(***************************************************************************)
(* Types.                                                                  *)
(***************************************************************************)

LEMMA InitTypeOK == Init => TypeOK
<1>. SUFFICES ASSUME Init PROVE TypeOK
  OBVIOUS
<1>1. FreeEntry \in Entries
  BY RetryMaxAssumption, ClockAssumption, PktIdAssumption DEF FreeEntry, Entries
<1>2. count \in 0 .. RetryTableSize /\ ctr \in 0 .. MaxCtr
  BY RetrySizeAssumption, MaxCtrAssumption DEF Init
<1>. QED  BY <1>1, <1>2 DEF Init, TypeOK, Zero

LEMMA NewEntryType ==
  ASSUME TypeOK, NEW p \in 0 .. PktIdMod - 1
  PROVE  NewEntry(0, p, now) \in Entries
<1>1. now + RetryTimeout \in Nat
  BY RetryTimeoutAssumption, ClockAssumption DEF TypeOK
<1>2. (now + RetryTimeout) % ClockMod \in 0 .. ClockMod - 1
  BY <1>1, ModRange, ClockAssumption
<1>. QED  BY <1>2, RetryMaxAssumption, RetryTimeoutAssumption DEF NewEntry, Entries

LEMMA RetriedType ==
  ASSUME TypeOK, NEW e \in Entries, e.left > 0, NEW p \in 0 .. PktIdMod - 1
  PROVE  Retried(e, p, now) \in Entries
<1>1. now + 2 * e.interval \in Nat
  BY ClockAssumption DEF TypeOK, Entries
<1>2. (now + 2 * e.interval) % ClockMod \in 0 .. ClockMod - 1
  BY <1>1, ModRange, ClockAssumption
<1>3. e.left - 1 \in 0 .. RetryMax /\ 2 * e.interval \in Nat
  BY RetryMaxAssumption DEF Entries
<1>. QED  BY <1>2, <1>3 DEF Retried, Entries

LEMMA EnqueueTypeOK == TypeOK /\ Enqueue => TypeOK'
<1>. SUFFICES ASSUME TypeOK, Enqueue PROVE TypeOK'
  OBVIOUS
<1>1. ctr + 1 \in 0 .. MaxCtr
  <2>1. RetryTableSize * (RetryMax + 1) \in Nat
    BY RetrySizeAssumption, RetryMaxAssumption
  <2>. QED  BY <2>1, MaxCtrAssumption DEF TypeOK, Enqueue, Originates
<1>2. (ctr + 1) % PktIdMod \in 0 .. PktIdMod - 1
  <2>1. ctr + 1 \in Nat /\ PktIdMod \in Nat \ {0}
    BY PktIdAssumption, MaxCtrAssumption DEF TypeOK
  <2>. QED  BY <2>1, ModRange
<1>3. NewEntry(0, (ctr + 1) % PktIdMod, now) \in Entries
  BY <1>2, NewEntryType
<1>4. tbl' \in [RetrySlots -> Entries]
  BY <1>3 DEF Enqueue, RetryEnqueue, TypeOK
<1>5. count' \in 0 .. RetryTableSize
  BY RetrySizeAssumption DEF Enqueue, TypeOK
<1>6. age' \in [RetrySlots -> Nat] /\ life' \in [RetrySlots -> Nat]
  BY DEF Enqueue, TypeOK
<1>. QED  BY <1>1, <1>4, <1>5, <1>6 DEF Enqueue, TypeOK

LEMMA AckTypeOK ==
  ASSUME TypeOK, NEW p, Ack(p)
  PROVE  TypeOK'
<1>1. FreeEntry \in Entries
  BY RetryMaxAssumption, ClockAssumption, PktIdAssumption DEF FreeEntry, Entries
<1>2. tbl' \in [RetrySlots -> Entries]
  BY <1>1 DEF Ack, RetryAck, TypeOK
<1>3. count' \in 0 .. RetryTableSize
  BY RetrySizeAssumption DEF Ack, TypeOK
<1>. QED  BY <1>2, <1>3 DEF Ack, TypeOK

LEMMA DueSubset ==
  /\ DueSlots \in SUBSET RetrySlots
  /\ Exhausted \in SUBSET RetrySlots
  BY DEF DueSlots, Exhausted, Live

LEMMA TickTypeOK == TypeOK /\ Tick => TypeOK'
<1>. SUFFICES ASSUME TypeOK, Tick PROVE TypeOK'
  OBVIOUS
<1>1. FreeEntry \in Entries
  BY RetryMaxAssumption, ClockAssumption, PktIdAssumption DEF FreeEntry, Entries
<1>2. ctr \in Nat /\ ctr + Cardinality(DueSlots) <= MaxCtr /\ Cardinality(DueSlots) \in Nat
      /\ Cardinality(Exhausted) \in Nat
  BY DueSubset, SubsetFinite, MaxCtrAssumption DEF TypeOK, Tick
<1>3. ASSUME NEW i \in RetrySlots
      PROVE  RetryTick(tbl, DueSlots, ctr, now)[i] \in Entries
  <2>1. CASE i \notin DueSlots
    BY <2>1 DEF RetryTick, TypeOK
  <2>2. CASE i \in DueSlots /\ tbl[i].left > 0
    <3>1. TickPid(ctr, DueSlots, i) \in 0 .. PktIdMod - 1
      BY <1>2, <2>2, DueSubset, TickPidValue
    <3>2. tbl[i] \in Entries
      BY DEF TypeOK
    <3>3. Retried(tbl[i], TickPid(ctr, DueSlots, i), now) \in Entries
      BY <2>2, <3>1, <3>2, RetriedType
    <3>. QED  BY <2>2, <3>3 DEF RetryTick
  <2>3. CASE i \in DueSlots /\ ~(tbl[i].left > 0)
    BY <1>1, <2>3 DEF RetryTick
  <2>. QED  BY <2>1, <2>2, <2>3
<1>4. tbl' \in [RetrySlots -> Entries]
  <2>1. tbl' = RetryTick(tbl, DueSlots, ctr, now)
    BY DEF Tick
  <2>. QED  BY <1>3, <2>1 DEF RetryTick
<1>5. count' \in 0 .. RetryTableSize
  BY <1>2, RetrySizeAssumption DEF Tick, TypeOK
<1>6. ctr' \in 0 .. MaxCtr
  BY <1>2, MaxCtrAssumption DEF Tick
<1>7. age' \in [RetrySlots -> Nat]
  BY DEF Tick, TypeOK
<1>. QED  BY <1>4, <1>5, <1>6, <1>7 DEF Tick, TypeOK

LEMMA AdvanceTypeOK == TypeOK /\ Advance => TypeOK'
<1>. SUFFICES ASSUME TypeOK, Advance PROVE TypeOK'
  OBVIOUS
<1>1. now' \in 0 .. ClockMod - 1
  BY ModRange, ClockAssumption DEF Advance, TypeOK
<1>2. age' \in [RetrySlots -> Nat] /\ life' \in [RetrySlots -> Nat]
  BY DEF Advance, TypeOK
<1>. QED  BY <1>1, <1>2 DEF Advance, TypeOK

LEMMA NextTypeOK == TypeOK /\ [Next]_vars => TypeOK'
<1>. SUFFICES ASSUME TypeOK, [Next]_vars PROVE TypeOK'
  OBVIOUS
<1>1. CASE OtherPacket
  <2>1. RetryTableSize * (RetryMax + 1) \in Nat
    BY RetrySizeAssumption, RetryMaxAssumption
  <2>2. ctr' \in 0 .. MaxCtr
    BY <1>1, <2>1, MaxCtrAssumption DEF TypeOK, OtherPacket, Originates
  <2>. QED  BY <1>1, <2>2 DEF TypeOK, OtherPacket
<1>2. CASE UNCHANGED vars
  BY <1>2 DEF TypeOK, vars
<1>. QED
  BY <1>1, <1>2, EnqueueTypeOK, AckTypeOK, TickTypeOK, AdvanceTypeOK DEF Next

(***************************************************************************)
(* The table, the counters and the clock keep their types.                 *)
(***************************************************************************)
THEOREM RetryTypeOK == Spec => []TypeOK
  BY InitTypeOK, NextTypeOK, PTL DEF Spec

-----------------------------------------------------------------------------
(***************************************************************************)
(* The count of live entries.                                              *)
(***************************************************************************)

LEMMA LiveFinite ==
  /\ Live(tbl) \in SUBSET RetrySlots
  /\ IsFiniteSet(Live(tbl))
  /\ Cardinality(Live(tbl)) \in Nat
  BY SubsetFinite DEF Live

\* Removing a subset.
LEMMA CardinalityDiff ==
  ASSUME NEW S, IsFiniteSet(S), NEW T \in SUBSET S
  PROVE  Cardinality(S \ T) = Cardinality(S) - Cardinality(T)
<1>. DEFINE R == S \ T
<1>1. IsFiniteSet(R) /\ IsFiniteSet(T)
  BY FS_Subset
<1>2. R \cup T = S /\ R \cap T = {}
  OBVIOUS
<1>3. Cardinality(R \cup T) = Cardinality(R) + Cardinality(T) - Cardinality(R \cap T)
  BY <1>1, FS_Union
<1>4. Cardinality(R \cap T) = 0
  BY <1>2, FS_EmptySet
<1>5. Cardinality(R \cup T) = Cardinality(S)
  BY <1>2
<1>6. Cardinality(R) \in Nat /\ Cardinality(T) \in Nat /\ Cardinality(S) \in Nat
  BY <1>1, FS_CardinalityType
<1>. HIDE DEF R
<1>7. Cardinality(R) = Cardinality(S) - Cardinality(T)
  BY <1>3, <1>4, <1>5, <1>6
<1>. QED  BY <1>7 DEF R

LEMMA EnqueueCount == TypeOK /\ CountExact /\ Enqueue => CountExact'
<1>. SUFFICES ASSUME TypeOK, CountExact, Enqueue PROVE CountExact'
  OBVIOUS
<1>1. CASE FreeSlot(tbl) = {}
  <2>1. Live(tbl)' = Live(tbl)
    BY <1>1 DEF Enqueue, RetryEnqueue, Live
  <2>. QED  BY <1>1, <2>1 DEF Enqueue, CountExact
<1>2. CASE FreeSlot(tbl) # {}
  <2>1. PICK i \in FreeSlot(tbl) : TRUE
    BY <1>2
  <2>2. i \in RetrySlots /\ i \notin Live(tbl) /\ FreeSlot(tbl) = {i}
    BY <2>1, FreeSlotOne DEF FreeSlot, Live
  <2>3. Live(tbl)' = Live(tbl) \cup {i}
    BY <2>2 DEF Enqueue, RetryEnqueue, Live, NewEntry
  <2>4. Cardinality(Live(tbl) \cup {i}) = Cardinality(Live(tbl)) + 1
    BY <2>2, LiveFinite, FS_AddElement
  <2>5. Cardinality(Live(tbl) \cup {i}) <= RetryTableSize
    <3>1. Live(tbl) \cup {i} \in SUBSET RetrySlots
      BY <2>2, LiveFinite
    <3>. QED  BY <3>1, SubsetFinite
  <2>6. count < RetryTableSize
    BY <2>4, <2>5, LiveFinite, RetrySizeAssumption DEF CountExact
  <2>. QED  BY <1>2, <2>3, <2>4, <2>6 DEF Enqueue, CountExact
<1>. QED  BY <1>1, <1>2

LEMMA AckCount ==
  ASSUME TypeOK, CountExact, NEW p, Ack(p)
  PROVE  CountExact'
<1>1. CASE AckSlot(tbl, p) = {}
  <2>1. Live(tbl)' = Live(tbl)
    BY <1>1 DEF Ack, RetryAck, Live
  <2>. QED  BY <1>1, <2>1 DEF Ack, CountExact
<1>2. CASE AckSlot(tbl, p) # {}
  <2>1. PICK i \in AckSlot(tbl, p) : TRUE
    BY <1>2
  <2>2. i \in Live(tbl) /\ AckSlot(tbl, p) = {i}
    BY <2>1, AckSlotOne DEF AckSlot
  <2>3. Live(tbl)' = Live(tbl) \ {i}
    BY <2>2 DEF Ack, RetryAck, Live, FreeEntry
  <2>4. Cardinality(Live(tbl) \ {i}) = Cardinality(Live(tbl)) - 1
    BY <2>2, LiveFinite, FS_RemoveElement
  <2>5. Cardinality(Live(tbl)) # 0
    BY <2>2, LiveFinite, FS_EmptySet
  <2>. QED  BY <1>2, <2>3, <2>4, <2>5, LiveFinite DEF Ack, CountExact
<1>. QED  BY <1>1, <1>2

LEMMA TickCount == TypeOK /\ CountExact /\ Tick => CountExact'
<1>. SUFFICES ASSUME TypeOK, CountExact, Tick PROVE CountExact'
  OBVIOUS
<1>1. Live(tbl)' = Live(tbl) \ Exhausted
  <2>1. ASSUME NEW i \in RetrySlots
        PROVE  tbl'[i].valid <=> tbl[i].valid /\ i \notin Exhausted
    <3>1. tbl'[i] = RetryTick(tbl, DueSlots, ctr, now)[i]
      BY DEF Tick
    <3>2. tbl[i] \in Entries
      BY DEF TypeOK
    <3>3. CASE i \notin DueSlots
      BY <3>1, <3>3 DEF RetryTick, Exhausted
    <3>4. CASE i \in DueSlots /\ tbl[i].left > 0
      <4>1. tbl'[i] = Retried(tbl[i], TickPid(ctr, DueSlots, i), now)
        BY <3>1, <3>4 DEF RetryTick
      <4>2. tbl'[i].valid = tbl[i].valid
        BY <3>2, <4>1 DEF Retried, Entries
      <4>. QED  BY <3>4, <4>2 DEF Exhausted
    <3>5. CASE i \in DueSlots /\ ~(tbl[i].left > 0)
      <4>1. tbl'[i] = FreeEntry
        BY <3>1, <3>5 DEF RetryTick
      <4>2. tbl[i].left = 0
        BY <3>2, <3>5, RetryMaxAssumption DEF Entries
      <4>. QED  BY <3>5, <4>1, <4>2 DEF Exhausted, FreeEntry
    <3>. QED  BY <3>3, <3>4, <3>5
  <2>. QED  BY <2>1 DEF Live
<1>2. Exhausted \in SUBSET Live(tbl)
  BY DEF Exhausted, DueSlots
<1>3. IsFiniteSet(Exhausted) /\ Cardinality(Exhausted) \in Nat
      /\ Cardinality(Exhausted) <= Cardinality(Live(tbl))
  BY <1>2, LiveFinite, FS_Subset, FS_CardinalityType
<1>4. Cardinality(Live(tbl) \ Exhausted) = Cardinality(Live(tbl)) - Cardinality(Exhausted)
  BY <1>2, <1>3, LiveFinite, CardinalityDiff
<1>. QED  BY <1>1, <1>3, <1>4, LiveFinite DEF Tick, CountExact

(***************************************************************************)
(* rt->count is the number of live entries (retry_table.c lines 114, 134   *)
(* and 203, against the scan of retry_table_count).                        *)
(***************************************************************************)
THEOREM RetryCountExact == Spec => []CountExact
<1>1. Init => CountExact
  <2>. SUFFICES ASSUME Init PROVE CountExact
    OBVIOUS
  <2>1. Live(tbl) = {}
    BY DEF Init, Live, FreeEntry
  <2>. QED  BY <2>1, FS_EmptySet DEF Init, CountExact
<1>2. TypeOK /\ CountExact /\ [Next]_vars => CountExact'
  <2>. SUFFICES ASSUME TypeOK, CountExact, [Next]_vars PROVE CountExact'
    OBVIOUS
  <2>1. CASE OtherPacket \/ Advance \/ UNCHANGED vars
    <3>1. tbl' = tbl /\ count' = count
      BY <2>1 DEF OtherPacket, Advance, vars
    <3>. QED  BY <3>1 DEF CountExact, Live
  <2>. QED  BY <2>1, EnqueueCount, AckCount, TickCount DEF Next
<1>. QED  BY <1>1, <1>2, RetryTypeOK, PTL DEF Spec

-----------------------------------------------------------------------------
(***************************************************************************)
(* The packet ids of the live entries.                                     *)
(***************************************************************************)

LEMMA EnqueueIds ==
  TypeOK /\ IdsTaken /\ IdsDistinct /\ Enqueue => IdsTaken' /\ IdsDistinct'
<1>. SUFFICES ASSUME TypeOK, IdsTaken, IdsDistinct, Enqueue
              PROVE  IdsTaken' /\ IdsDistinct'
  OBVIOUS
<1>1. ctr \in Nat /\ ctr' = ctr + 1 /\ (ctr + 1) % PktIdMod = ctr + 1
  <2>1. RetryTableSize * (RetryMax + 1) \in Nat
    BY RetrySizeAssumption, RetryMaxAssumption
  <2>2. ctr \in Nat /\ ctr + 1 \in Nat /\ ctr + 1 < PktIdMod
    BY <2>1, MaxCtrAssumption, PktIdAssumption DEF TypeOK, Enqueue, Originates
  <2>3. (ctr + 1) % PktIdMod = ctr + 1
    BY <2>2, ModBelow, PktIdAssumption
  <2>. QED  BY <2>2, <2>3 DEF Enqueue
<1>2. \A i \in RetrySlots :
        tbl'[i] = IF i \in FreeSlot(tbl) THEN NewEntry(0, ctr + 1, now) ELSE tbl[i]
  BY <1>1 DEF Enqueue, RetryEnqueue
<1>3. \A i \in Live(tbl') :
        \/ i \in FreeSlot(tbl) /\ tbl'[i].pid = ctr + 1
        \/ i \in Live(tbl) /\ tbl'[i] = tbl[i]
  <2>. SUFFICES ASSUME NEW i \in Live(tbl')
                PROVE  \/ i \in FreeSlot(tbl) /\ tbl'[i].pid = ctr + 1
                       \/ i \in Live(tbl) /\ tbl'[i] = tbl[i]
    OBVIOUS
  <2>1. i \in RetrySlots /\ tbl'[i].valid
    BY DEF Live
  <2>2. CASE i \in FreeSlot(tbl)
    <3>1. tbl'[i] = NewEntry(0, ctr + 1, now)
      BY <1>2, <2>1, <2>2
    <3>. QED  BY <2>2, <3>1 DEF NewEntry
  <2>3. CASE i \notin FreeSlot(tbl)
    <3>1. tbl'[i] = tbl[i]
      BY <1>2, <2>1, <2>3
    <3>. QED  BY <2>1, <3>1 DEF Live
  <2>. QED  BY <2>2, <2>3
<1>4. IdsTaken'
  BY <1>1, <1>3 DEF IdsTaken
<1>5. IdsDistinct'
  <2>. SUFFICES ASSUME NEW i \in Live(tbl'), NEW j \in Live(tbl'), i # j
                PROVE  tbl'[i].pid # tbl'[j].pid
    BY DEF IdsDistinct
  <2>. QED  BY <1>1, <1>3, FreeSlotOne DEF IdsDistinct, IdsTaken
<1>. QED  BY <1>4, <1>5

LEMMA AckIds ==
  ASSUME TypeOK, IdsTaken, IdsDistinct, NEW p, Ack(p)
  PROVE  IdsTaken' /\ IdsDistinct'
<1>1. \A i \in Live(tbl') : i \in Live(tbl) /\ tbl'[i] = tbl[i]
  BY DEF Ack, RetryAck, Live, FreeEntry
<1>2. ctr' = ctr
  BY DEF Ack
<1>. QED  BY <1>1, <1>2 DEF IdsTaken, IdsDistinct

LEMMA TickIds ==
  TypeOK /\ IdsTaken /\ IdsDistinct /\ Tick => IdsTaken' /\ IdsDistinct'
<1>. SUFFICES ASSUME TypeOK, IdsTaken, IdsDistinct, Tick
              PROVE  IdsTaken' /\ IdsDistinct'
  OBVIOUS
<1>1. ctr \in Nat /\ Cardinality(DueSlots) \in Nat /\ ctr' = ctr + Cardinality(DueSlots)
      /\ ctr + Cardinality(DueSlots) <= MaxCtr
  BY DueSubset, SubsetFinite, MaxCtrAssumption DEF TypeOK, Tick
<1>2. ASSUME NEW i \in Live(tbl')
      PROVE  \/ i \in DueSlots /\ tbl'[i].pid = TickPid(ctr, DueSlots, i)
             \/ i \notin DueSlots /\ i \in Live(tbl) /\ tbl'[i] = tbl[i]
  <2>1. i \in RetrySlots /\ tbl'[i] = RetryTick(tbl, DueSlots, ctr, now)[i] /\ tbl'[i].valid
    BY DEF Tick, Live
  <2>2. tbl[i] \in Entries
    BY <2>1 DEF TypeOK
  <2>3. CASE i \notin DueSlots
    BY <2>1, <2>3 DEF RetryTick, Live
  <2>4. CASE i \in DueSlots /\ tbl[i].left > 0
    <3>1. tbl'[i] = Retried(tbl[i], TickPid(ctr, DueSlots, i), now)
      BY <2>1, <2>4 DEF RetryTick
    <3>. QED  BY <2>2, <2>4, <3>1 DEF Retried, Entries
  <2>5. CASE i \in DueSlots /\ ~(tbl[i].left > 0)
    BY <2>1, <2>5 DEF RetryTick, FreeEntry
  <2>. QED  BY <2>3, <2>4, <2>5
<1>3. \A i \in DueSlots : TickPid(ctr, DueSlots, i) = ctr + DueRank(DueSlots, i) + 1
                         /\ TickPid(ctr, DueSlots, i) \in ctr + 1 .. ctr + Cardinality(DueSlots)
                         /\ DueRank(DueSlots, i) \in Nat
  BY <1>1, DueSubset, TickPidValue, RankBelow
<1>4. IdsTaken'
  <2>. SUFFICES ASSUME NEW i \in Live(tbl') PROVE tbl'[i].pid \in 1 .. ctr'
    BY DEF IdsTaken
  <2>. QED  BY <1>1, <1>2, <1>3 DEF IdsTaken
<1>5. IdsDistinct'
  <2>. SUFFICES ASSUME NEW i \in Live(tbl'), NEW j \in Live(tbl'), i < j
                PROVE  tbl'[i].pid # tbl'[j].pid
    BY DEF IdsDistinct, Live, RetrySlots
  <2>1. CASE i \in DueSlots /\ j \in DueSlots
    <3>1. DueRank(DueSlots, i) < DueRank(DueSlots, j)
      BY <2>1, DueSubset, RankIncreases
    <3>2. tbl'[i].pid = ctr + DueRank(DueSlots, i) + 1
          /\ tbl'[j].pid = ctr + DueRank(DueSlots, j) + 1
      BY <1>2, <1>3, <2>1
    <3>. QED  BY <1>1, <1>3, <2>1, <3>1, <3>2
  <2>2. CASE i \in DueSlots /\ j \notin DueSlots
    BY <1>1, <1>2, <1>3, <2>2 DEF IdsTaken
  <2>3. CASE i \notin DueSlots /\ j \in DueSlots
    BY <1>1, <1>2, <1>3, <2>3 DEF IdsTaken
  <2>4. CASE i \notin DueSlots /\ j \notin DueSlots
    BY <1>2, <2>4 DEF IdsDistinct, Live, RetrySlots
  <2>. QED  BY <2>1, <2>2, <2>3, <2>4
<1>. QED  BY <1>4, <1>5

(***************************************************************************)
(* No two live entries wait for the same packet id: an acknowledgement     *)
(* clears the one entry it answers (retry_table.c lines 124-139, 159).     *)
(***************************************************************************)
THEOREM RetryIdsDistinct == Spec => []IdsDistinct
<1>1. Init => IdsTaken /\ IdsDistinct
  BY DEF Init, IdsTaken, IdsDistinct, Live, FreeEntry
<1>2. TypeOK /\ IdsTaken /\ IdsDistinct /\ [Next]_vars => (IdsTaken /\ IdsDistinct)'
  <2>. SUFFICES ASSUME TypeOK, IdsTaken, IdsDistinct, [Next]_vars
                PROVE  IdsTaken' /\ IdsDistinct'
    OBVIOUS
  <2>1. CASE OtherPacket
    <3>1. tbl' = tbl /\ ctr' = ctr + 1 /\ ctr \in Nat
      BY <2>1, MaxCtrAssumption DEF OtherPacket, TypeOK
    <3>. QED  BY <3>1 DEF IdsTaken, IdsDistinct, Live
  <2>2. CASE Advance \/ UNCHANGED vars
    <3>1. tbl' = tbl /\ ctr' = ctr
      BY <2>2 DEF Advance, vars
    <3>. QED  BY <3>1 DEF IdsTaken, IdsDistinct, Live
  <2>. QED  BY <2>1, <2>2, EnqueueIds, AckIds, TickIds DEF Next
<1>. QED  BY <1>1, <1>2, RetryTypeOK, PTL DEF Spec

-----------------------------------------------------------------------------
(***************************************************************************)
(* The deadline test, across the wrap of the clock.                        *)
(***************************************************************************)

\* A window of the schedule is positive, at most 8 timeouts, and the next
\* attempt's window is its double.
LEMMA Windows ==
  ASSUME ClockWide, NEW l \in 0 .. RetryMax
  PROVE  /\ WindowOf(l) \in Nat \ {0}
         /\ WindowOf(l) + MaxLag < ClockMod \div 2
         /\ l > 0 => WindowOf(l - 1) = 2 * WindowOf(l)
  BY RetryMaxAssumption, RetryTimeoutAssumption, MaxLagAssumption, ClockAssumption
     DEF ClockWide, WindowOf

\* The half range of the clock.
LEMMA Half ==
  ClockMod \div 2 \in Nat /\ ClockMod \div 2 < ClockMod
  BY ClockAssumption

\* Where the clock stands relative to a deadline set one window ahead.
LEMMA FreshDeadline ==
  ASSUME NEW n \in 0 .. ClockMod - 1, NEW w \in Nat \ {0}, w < ClockMod
  PROVE  (n + ClockMod - ((n + w) % ClockMod)) % ClockMod = ClockMod - w
<1>. DEFINE d == (n + w) % ClockMod
<1>0. ClockMod \in Nat \ {0} /\ w \in 0 .. ClockMod - 1
  BY ClockAssumption
<1>1. d \in 0 .. ClockMod - 1
      /\ d = IF n + w < ClockMod THEN n + w ELSE n + w - ClockMod
  BY <1>0, ClockLater
<1>2. (n + ClockMod - d) % ClockMod = IF n >= d THEN n - d ELSE n + ClockMod - d
  BY <1>1, ClockDiff
<1>. HIDE DEF d
<1>3. (n + ClockMod - d) % ClockMod = ClockMod - w
  <2>1. CASE n + w < ClockMod
    BY <1>0, <1>1, <1>2, <2>1
  <2>2. CASE ~(n + w < ClockMod)
    BY <1>0, <1>1, <1>2, <2>2
  <2>. QED  BY <2>1, <2>2
<1>. QED  BY <1>3 DEF d

\* A tick of the clock moves it one on relative to any deadline.
LEMMA ClockStep ==
  ASSUME NEW n \in 0 .. ClockMod - 1, NEW d \in 0 .. ClockMod - 1
  PROVE  LET was == (n + ClockMod - d) % ClockMod
             is == (((n + 1) % ClockMod) + ClockMod - d) % ClockMod
         IN  is = IF was = ClockMod - 1 THEN 0 ELSE was + 1
<1>. DEFINE n1 == (n + 1) % ClockMod
<1>0. ClockMod \in Nat \ {0} /\ 1 \in 0 .. ClockMod - 1
  BY ClockAssumption
<1>1. n1 \in 0 .. ClockMod - 1
      /\ n1 = IF n + 1 < ClockMod THEN n + 1 ELSE n + 1 - ClockMod
  BY <1>0, ClockLater
<1>2. (n1 + ClockMod - d) % ClockMod = IF n1 >= d THEN n1 - d ELSE n1 + ClockMod - d
  BY <1>1, ClockDiff
<1>3. (n + ClockMod - d) % ClockMod = IF n >= d THEN n - d ELSE n + ClockMod - d
  BY ClockDiff
<1>. HIDE DEF n1
<1>4. (n1 + ClockMod - d) % ClockMod =
        IF (n + ClockMod - d) % ClockMod = ClockMod - 1
        THEN 0 ELSE ((n + ClockMod - d) % ClockMod) + 1
  <2>1. CASE n + 1 < ClockMod
    <3>1. CASE n >= d
      BY <1>0, <1>1, <1>2, <1>3, <2>1, <3>1
    <3>2. CASE ~(n >= d)
      BY <1>0, <1>1, <1>2, <1>3, <2>1, <3>2
    <3>. QED  BY <3>1, <3>2
  <2>2. CASE ~(n + 1 < ClockMod)
    BY <1>0, <1>1, <1>2, <1>3, <2>2
  <2>. QED  BY <2>1, <2>2
<1>. QED  BY <1>4 DEF n1

\* The clause of Timing for one entry.
InTime(e, a, n) ==
  /\ e.interval = WindowOf(e.left)
  /\ a <= e.interval + MaxLag
  /\ (n + ClockMod - e.next) % ClockMod =
       IF a >= e.interval THEN a - e.interval ELSE ClockMod + a - e.interval

LEMMA TimingIsInTime ==
  Timing <=> \A i \in Live(tbl) : InTime(tbl[i], age[i], now)
  BY DEF Timing, InTime

LEMMA TimingIsInTimePrime ==
  Timing' <=> \A i \in Live(tbl') : InTime(tbl'[i], age'[i], now')
  BY DEF Timing, InTime

\* An entry whose attempt was just made.
LEMMA FreshInTime ==
  ASSUME TypeOK, ClockWide, NEW e, e.left \in 0 .. RetryMax,
         e.interval = WindowOf(e.left), e.next = (now + e.interval) % ClockMod
  PROVE  InTime(e, 0, now)
<1>. DEFINE w == WindowOf(e.left)
<1>1. w \in Nat \ {0} /\ w < ClockMod
  BY Windows, Half, MaxLagAssumption, ClockAssumption
<1>2. now \in 0 .. ClockMod - 1
  BY DEF TypeOK
<1>. HIDE DEF w
<1>3. (now + ClockMod - ((now + w) % ClockMod)) % ClockMod = ClockMod - w
  BY <1>1, <1>2, FreshDeadline
<1>4. e.interval = w /\ e.next = (now + w) % ClockMod
  BY DEF w
<1>5. (now + ClockMod - e.next) % ClockMod = ClockMod - w
  BY <1>3, <1>4
<1>6. 0 <= w + MaxLag /\ ~(0 >= w) /\ ClockMod + 0 - w = ClockMod - w
  BY <1>1, MaxLagAssumption, ClockAssumption
<1>. QED  BY <1>4, <1>5, <1>6 DEF InTime, w

LEMMA EnqueueTiming == ClockWide /\ TypeOK /\ Timing /\ Enqueue => Timing'
<1>. SUFFICES ASSUME ClockWide, TypeOK, Timing, Enqueue, NEW i \in Live(tbl')
              PROVE  InTime(tbl'[i], age'[i], now')
  BY TimingIsInTimePrime
<1>0. i \in RetrySlots /\ tbl'[i].valid /\ now' = now
  BY DEF Live, Enqueue
<1>1. CASE i \in FreeSlot(tbl)
  <2>1. tbl'[i] = NewEntry(0, (ctr + 1) % PktIdMod, now) /\ age'[i] = 0
    BY <1>0, <1>1 DEF Enqueue, RetryEnqueue
  <2>2. tbl'[i].left = RetryMax /\ tbl'[i].interval = RetryTimeout
        /\ tbl'[i].next = (now + tbl'[i].interval) % ClockMod
    BY <2>1 DEF NewEntry
  <2>3. RetryMax \in 0 .. RetryMax /\ WindowOf(RetryMax) = RetryTimeout
    BY RetryMaxAssumption DEF WindowOf
  <2>. QED  BY <1>0, <2>1, <2>2, <2>3, FreshInTime
<1>2. CASE i \notin FreeSlot(tbl)
  <2>1. tbl'[i] = tbl[i] /\ age'[i] = age[i]
    BY <1>0, <1>2 DEF Enqueue, RetryEnqueue
  <2>2. i \in Live(tbl)
    BY <1>0, <2>1 DEF Live
  <2>. QED  BY <1>0, <2>1, <2>2, TimingIsInTime
<1>. QED  BY <1>1, <1>2

LEMMA AckTiming ==
  ASSUME ClockWide, TypeOK, Timing, NEW p, Ack(p)
  PROVE  Timing'
<1>. SUFFICES ASSUME NEW i \in Live(tbl')
              PROVE  InTime(tbl'[i], age'[i], now')
  BY TimingIsInTimePrime
<1>1. i \in Live(tbl) /\ tbl'[i] = tbl[i] /\ age'[i] = age[i] /\ now' = now
  BY DEF Ack, RetryAck, Live, FreeEntry
<1>. QED  BY <1>1, TimingIsInTime

LEMMA TickTiming == ClockWide /\ TypeOK /\ Timing /\ Tick => Timing'
<1>. SUFFICES ASSUME ClockWide, TypeOK, Timing, Tick, NEW i \in Live(tbl')
              PROVE  InTime(tbl'[i], age'[i], now')
  BY TimingIsInTimePrime
<1>0. /\ i \in RetrySlots /\ tbl'[i].valid /\ now' = now
      /\ tbl'[i] = RetryTick(tbl, DueSlots, ctr, now)[i]
      /\ age'[i] = IF i \in DueSlots THEN 0 ELSE age[i]
  BY DEF Live, Tick
<1>1. tbl[i] \in Entries
  BY <1>0 DEF TypeOK
<1>2. CASE i \notin DueSlots
  <2>1. tbl'[i] = tbl[i] /\ age'[i] = age[i]
    BY <1>0, <1>2 DEF RetryTick
  <2>2. i \in Live(tbl)
    BY <1>0, <2>1 DEF Live
  <2>. QED  BY <1>0, <2>1, <2>2, TimingIsInTime
<1>3. CASE i \in DueSlots /\ tbl[i].left > 0
  <2>1. tbl'[i] = Retried(tbl[i], TickPid(ctr, DueSlots, i), now) /\ age'[i] = 0
    BY <1>0, <1>3 DEF RetryTick
  <2>2. /\ tbl'[i].left = tbl[i].left - 1 /\ tbl'[i].interval = 2 * tbl[i].interval
        /\ tbl'[i].next = (now + 2 * tbl[i].interval) % ClockMod
    BY <1>1, <2>1 DEF Retried, Entries
  <2>3. tbl[i].left \in 0 .. RetryMax /\ tbl[i].left - 1 \in 0 .. RetryMax
    BY <1>1, <1>3, RetryMaxAssumption DEF Entries
  <2>4. tbl[i].interval = WindowOf(tbl[i].left)
    BY <1>3 DEF DueSlots, Timing
  <2>5. WindowOf(tbl[i].left - 1) = 2 * WindowOf(tbl[i].left)
    BY <1>3, <2>3, Windows
  <2>6. tbl'[i].interval = WindowOf(tbl'[i].left)
        /\ tbl'[i].next = (now + tbl'[i].interval) % ClockMod
        /\ tbl'[i].left \in 0 .. RetryMax
    BY <2>2, <2>3, <2>4, <2>5
  <2>. QED  BY <1>0, <2>1, <2>6, FreshInTime
<1>4. CASE i \in DueSlots /\ ~(tbl[i].left > 0)
  BY <1>0, <1>4 DEF RetryTick, FreeEntry
<1>. QED  BY <1>2, <1>3, <1>4

LEMMA AdvanceTiming == ClockWide /\ TypeOK /\ Timing /\ Advance => Timing'
<1>. SUFFICES ASSUME ClockWide, TypeOK, Timing, Advance, NEW i \in Live(tbl')
              PROVE  InTime(tbl'[i], age'[i], now')
  BY TimingIsInTimePrime
<1>1. /\ i \in Live(tbl) /\ tbl'[i] = tbl[i] /\ now' = (now + 1) % ClockMod
      /\ age'[i] = age[i] + 1 /\ age[i] < tbl[i].interval + MaxLag
  BY DEF Advance, Live
<1>2. /\ tbl[i].next \in 0 .. ClockMod - 1 /\ tbl[i].left \in 0 .. RetryMax
      /\ age[i] \in Nat /\ now \in 0 .. ClockMod - 1
  BY <1>1 DEF TypeOK, Entries, Live
<1>3. /\ tbl[i].interval = WindowOf(tbl[i].left)
      /\ (now + ClockMod - tbl[i].next) % ClockMod =
           IF age[i] >= tbl[i].interval THEN age[i] - tbl[i].interval
           ELSE ClockMod + age[i] - tbl[i].interval
  BY <1>1 DEF Timing
<1>. DEFINE w == tbl[i].interval
            was == (now + ClockMod - tbl[i].next) % ClockMod
            is == (((now + 1) % ClockMod) + ClockMod - tbl[i].next) % ClockMod
<1>4. w \in Nat \ {0} /\ w + MaxLag < ClockMod \div 2 /\ ClockMod \div 2 < ClockMod
      /\ ClockMod \div 2 \in Nat
  BY <1>2, <1>3, Windows, Half
<1>5. is = IF was = ClockMod - 1 THEN 0 ELSE was + 1
  BY <1>2, ClockStep
<1>6. was = IF age[i] >= w THEN age[i] - w ELSE ClockMod + age[i] - w
  BY <1>3
<1>7. age[i] < w + MaxLag
  BY <1>1
<1>. HIDE DEF w, was, is
<1>8. is = IF age[i] + 1 >= w THEN (age[i] + 1) - w ELSE ClockMod + (age[i] + 1) - w
  BY <1>2, <1>4, <1>5, <1>6, <1>7, ClockAssumption, MaxLagAssumption
<1>9. age[i] + 1 <= w + MaxLag
  BY <1>2, <1>4, <1>7, MaxLagAssumption
<1>10. InTime(tbl[i], age[i] + 1, (now + 1) % ClockMod)
  <2>1. tbl[i].interval = WindowOf(tbl[i].left)
    BY <1>3
  <2>2. age[i] + 1 <= tbl[i].interval + MaxLag
    BY <1>9 DEF w
  <2>3. (((now + 1) % ClockMod) + ClockMod - tbl[i].next) % ClockMod =
          IF age[i] + 1 >= tbl[i].interval THEN (age[i] + 1) - tbl[i].interval
          ELSE ClockMod + (age[i] + 1) - tbl[i].interval
    BY <1>8, Zenon DEF is, w
  <2>. QED  BY <2>1, <2>2, <2>3, Zenon DEF InTime
<1>. QED  BY <1>1, <1>10, Zenon

(***************************************************************************)
(* When the half range of the clock holds the longest window and the       *)
(* longest stall, an entry is due exactly when its window has passed since *)
(* its last attempt, wherever the clock wraps (retry_table.c line 155).    *)
(***************************************************************************)
THEOREM RetryDueExact == ClockWide => (Spec => []DueExact)
<1>1. SUFFICES ASSUME ClockWide PROVE Spec => []DueExact
  OBVIOUS
<1>2. Init => Timing
  BY DEF Init, Timing, Live, FreeEntry
<1>3. TypeOK /\ Timing /\ [Next]_vars => Timing'
  <2>. SUFFICES ASSUME TypeOK, Timing, [Next]_vars PROVE Timing'
    OBVIOUS
  <2>1. CASE OtherPacket \/ UNCHANGED vars
    <3>1. tbl' = tbl /\ age' = age /\ now' = now
      BY <2>1 DEF OtherPacket, vars
    <3>. QED  BY <3>1 DEF Timing, Live
  <2>. QED
    BY <1>1, <2>1, EnqueueTiming, AckTiming, TickTiming, AdvanceTiming DEF Next
<1>4. TypeOK /\ Timing => DueExact
  <2>. SUFFICES ASSUME TypeOK, Timing, NEW i \in Live(tbl)
                PROVE  i \in DueSlots <=> age[i] >= tbl[i].interval
    BY DEF DueExact
  <2>. DEFINE w == tbl[i].interval
              past == (now + ClockMod - tbl[i].next) % ClockMod
  <2>1. w = WindowOf(tbl[i].left) /\ age[i] <= w + MaxLag
        /\ past = IF age[i] >= w THEN age[i] - w ELSE ClockMod + age[i] - w
    BY DEF Timing
  <2>2. tbl[i].left \in 0 .. RetryMax /\ age[i] \in Nat
    BY DEF TypeOK, Entries, Live
  <2>3. w \in Nat \ {0} /\ w + MaxLag < ClockMod \div 2
    BY <1>1, <2>1, <2>2, Windows
  <2>4. i \in DueSlots <=> past < ClockMod \div 2
    BY DEF DueSlots, Reached
  <2>. HIDE DEF w, past
  <2>5. past < ClockMod \div 2 <=> age[i] >= w
    BY <2>1, <2>2, <2>3, Half, ClockAssumption, MaxLagAssumption
  <2>. QED  BY <2>4, <2>5 DEF w
<1>. QED  BY <1>2, <1>3, <1>4, RetryTypeOK, PTL DEF Spec
=============================================================================
