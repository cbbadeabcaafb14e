---------------------------- MODULE ReceiveProofs ----------------------------
(***************************************************************************)
(* What the parts that take in frames and bytes promise for every number   *)
(* of keys, peers, threads and connections and every size of their rings,  *)
(* tables and queues.  The parts share no state: each has an inductive     *)
(* invariant of its own, and a step of the node is for each part a step of *)
(* the part or a stutter.                                                  *)
(***************************************************************************)
EXTENDS ReceiveMC, BasicProofs

-----------------------------------------------------------------------------
(* The duplicate filters. *)

\* The remainder of a head or a clock is a slot or a time.
LEMMA ModRange ==
  ASSUME NEW n \in Nat \ {0}, NEW x \in Nat
  PROVE  x % n \in 0 .. n - 1
  OBVIOUS

-----------------------------------------------------------------------------

LEMMA InitTypeOK == Init => TypeOK
<1>. SUFFICES ASSUME Init PROVE TypeOK
  OBVIOUS
<1>1. 0 \in Slots /\ 0 \in BusSlots /\ 0 \in SupSlots /\ 0 \in Clock
  BY CacheAssumption, SuppressAssumption, ClockAssumption
     DEF Slots, BusSlots, SupSlots, Clock
<1>2. last \in [key : Keys \cup {NoKey}, relay : BOOLEAN, verdict : Verdicts]
  BY DEF Init, Nothing, Verdicts
<1>3. since \in [Keys -> 0 .. DedupeExpiry + 1]
  BY ExpiryAssumption DEF Init
<1>. QED  BY <1>1, <1>2, <1>3 DEF Init, TypeOK

LEMMA BusAddType ==
  ASSUME TypeOK, NEW k \in Keys, BusAdd(k)
  PROVE  bus' \in [BusSlots -> Keys \cup {NoKey}] /\ busHead' \in BusSlots
<1>1. busHead' \in BusSlots
  BY ModRange, CacheAssumption DEF TypeOK, BusAdd, BusSlots
<1>. QED  BY <1>1 DEF TypeOK, BusAdd

LEMMA SweepType ==
  ASSUME TypeOK, NEW k \in Keys
  PROVE  Sweep(k) \in [Slots -> [key : Keys \cup {NoKey}, at : Clock]]
<1>1. 0 \in Clock
  BY ClockAssumption DEF Clock
<1>. QED  BY <1>1 DEF TypeOK, Sweep

LEMMA HandledType ==
  ASSUME NEW k \in Keys, NEW relay \in BOOLEAN, NEW v \in Verdicts,
         Handled(k, relay, v)
  PROVE  last' \in [key : Keys \cup {NoKey}, relay : BOOLEAN, verdict : Verdicts]
  BY DEF Handled

LEMMA SuppressAddType ==
  ASSUME TypeOK, NEW k \in Keys, SuppressAdd(k)
  PROVE  /\ sup' \in [SupSlots -> [key : Keys \cup {NoKey}, expires : Clock]]
         /\ supNext' \in SupSlots
<1>. DEFINE until == (now + SuppressExpiry) % ClockMod
<1>1. until \in Clock
  <2>1. now + SuppressExpiry \in Nat
    BY ExpiryAssumption, ClockAssumption DEF TypeOK, Clock
  <2>. QED  BY <2>1, ModRange, ClockAssumption DEF Clock
<1>2. CASE \E i \in SupSlots : sup' = [sup EXCEPT ![i].expires = until] /\ UNCHANGED supNext
  BY <1>1, <1>2 DEF TypeOK
<1>3. CASE /\ sup' = [sup EXCEPT ![supNext] = [key |-> k, expires |-> until]]
           /\ supNext' = (supNext + 1) % SuppressSize
  <2>1. supNext' \in SupSlots
    BY <1>3, ModRange, SuppressAssumption DEF TypeOK, SupSlots
  <2>. QED  BY <1>1, <1>3, <2>1 DEF TypeOK
<1>. QED  BY <1>2, <1>3 DEF SuppressAdd

LEMMA NextTypeOK == TypeOK /\ [Next]_vars => TypeOK'
<1>. SUFFICES ASSUME TypeOK, [Next]_vars PROVE TypeOK'
  OBVIOUS
<1>1. ASSUME NEW k \in Keys, NEW relay \in BOOLEAN, BusDrop(k, relay)
      PROVE  TypeOK'
  <2>1. "bus" \in Verdicts
    BY DEF Verdicts
  <2>2. last' \in [key : Keys \cup {NoKey}, relay : BOOLEAN, verdict : Verdicts]
    BY <1>1, <2>1, HandledType DEF BusDrop
  <2>. QED  BY <1>1, <2>2 DEF TypeOK, BusDrop, filterVars, supVars
<1>2. ASSUME NEW k \in Keys, NEW relay \in BOOLEAN, DedupeDrop(k, relay)
      PROVE  TypeOK'
  <2>1. "dedupe" \in Verdicts
    BY DEF Verdicts
  <2>2. last' \in [key : Keys \cup {NoKey}, relay : BOOLEAN, verdict : Verdicts]
    BY <1>2, <2>1, HandledType DEF DedupeDrop
  <2>3. bus' \in [BusSlots -> Keys \cup {NoKey}] /\ busHead' \in BusSlots
    BY <1>2, BusAddType DEF DedupeDrop
  <2>4. ded' \in [Slots -> [key : Keys \cup {NoKey}, at : Clock]]
    BY <1>2, SweepType DEF DedupeDrop
  <2>5. /\ sup' \in [SupSlots -> [key : Keys \cup {NoKey}, expires : Clock]]
        /\ supNext' \in SupSlots
    <3>1. CASE relay
      BY <1>2, <3>1, SuppressAddType DEF DedupeDrop
    <3>2. CASE ~relay
      BY <1>2, <3>2 DEF DedupeDrop, TypeOK, supVars
    <3>. QED  BY <3>1, <3>2
  <2>. QED  BY <1>2, <2>2, <2>3, <2>4, <2>5 DEF TypeOK, DedupeDrop
<1>3. ASSUME NEW k \in Keys, NEW relay \in BOOLEAN, Accept(k, relay)
      PROVE  TypeOK'
  <2>1. "new" \in Verdicts
    BY DEF Verdicts
  <2>2. last' \in [key : Keys \cup {NoKey}, relay : BOOLEAN, verdict : Verdicts]
    BY <1>3, <2>1, HandledType DEF Accept
  <2>3. bus' \in [BusSlots -> Keys \cup {NoKey}] /\ busHead' \in BusSlots
    BY <1>3, BusAddType DEF Accept
  <2>4. ded' \in [Slots -> [key : Keys \cup {NoKey}, at : Clock]]
    BY <1>3, SweepType DEF Accept, TypeOK
  <2>5. dedHead' \in Slots
    BY <1>3, ModRange, CacheAssumption DEF Accept, TypeOK, Slots
  <2>6. since' \in [Keys -> 0 .. DedupeExpiry + 1]
    BY <1>3, ExpiryAssumption DEF Accept, TypeOK
  <2>7. relays' \subseteq Keys
    BY <1>3 DEF Accept, TypeOK
  <2>. QED  BY <1>3, <2>2, <2>3, <2>4, <2>5, <2>6, <2>7 DEF TypeOK, Accept, supVars
<1>4. ASSUME NEW k \in Keys, Drain(k)
      PROVE  TypeOK'
  <2>1. last' \in [key : Keys \cup {NoKey}, relay : BOOLEAN, verdict : Verdicts]
    BY <1>4 DEF Drain, Verdicts
  <2>. QED  BY <1>4, <2>1 DEF TypeOK, Drain, filterVars, supVars
<1>5. CASE Advance
  <2>1. now' \in Clock
    BY <1>5, ModRange, ClockAssumption DEF Advance, TypeOK, Clock
  <2>2. last' \in [key : Keys \cup {NoKey}, relay : BOOLEAN, verdict : Verdicts]
    BY <1>5 DEF Advance, Nothing, Verdicts
  <2>3. since' \in [Keys -> 0 .. DedupeExpiry + 1]
    BY <1>5, ExpiryAssumption DEF Advance, TypeOK
  <2>. QED  BY <1>5, <2>1, <2>2, <2>3 DEF TypeOK, Advance, filterVars, supVars
<1>6. CASE UNCHANGED vars
  BY <1>6 DEF TypeOK, vars
<1>. QED  BY <1>1, <1>2, <1>3, <1>4, <1>5, <1>6 DEF Next, Receive

(***************************************************************************)
(* The rings, the suppression table and the clock keep their types.        *)
(***************************************************************************)
THEOREM FilterTypeOK == Spec => []TypeOK
  BY InitTypeOK, NextTypeOK, PTL DEF Spec

-----------------------------------------------------------------------------

\* A key the dedupe ring holds is a key the bus cache holds.
LEMMA ShadowedKey ==
  ASSUME TypeOK, Lockstep, SameSize, NEW k \in Keys, DedupeHits(k) # {}
  PROVE  BusSeen(k)
<1>1. PICK i \in Slots : ded[i].key = k
  BY DEF DedupeHits
<1>2. bus[i] = k
  BY <1>1, KeysAssumption DEF Lockstep
<1>. QED  BY <1>1, <1>2 DEF BusSeen, SameSize, Slots, BusSlots

\* An empty suppression table suppresses no key.
LEMMA NothingSuppressed ==
  ASSUME SuppressionDead, NEW k \in Keys
  PROVE  ~Suppressed(k)
  BY KeysAssumption DEF SuppressionDead, Suppressed

LEMMA NextLockstep ==
  ASSUME TypeOK, Lockstep, SuppressionDead, SameSize, [Next]_vars
  PROVE  Lockstep' /\ SuppressionDead'
<1>1. ASSUME NEW k \in Keys, NEW relay \in BOOLEAN, BusDrop(k, relay)
      PROVE  Lockstep' /\ SuppressionDead'
  BY <1>1 DEF Lockstep, SuppressionDead, BusDrop, Handled, filterVars, supVars
<1>2. ASSUME NEW k \in Keys, NEW relay \in BOOLEAN, DedupeDrop(k, relay)
      PROVE  FALSE
  BY <1>2, ShadowedKey DEF DedupeDrop
<1>3. ASSUME NEW k \in Keys, NEW relay \in BOOLEAN, Accept(k, relay)
      PROVE  Lockstep' /\ SuppressionDead'
  <2>1. busHead' = dedHead'
    BY <1>3 DEF Accept, BusAdd, Lockstep, SameSize
  <2>2. ASSUME NEW i \in Slots
        PROVE  ded'[i].key \in {bus'[i], NoKey}
    <3>1. bus' = [bus EXCEPT ![dedHead] = k] /\ DOMAIN bus = Slots
      BY <1>3 DEF Accept, BusAdd, Lockstep, TypeOK, SameSize, Slots, BusSlots
    <3>2. Sweep(k)[i].key \in {bus[i], NoKey}
      BY DEF Sweep, Lockstep
    <3>3. ded'[i] = IF i = dedHead THEN [key |-> k, at |-> now] ELSE Sweep(k)[i]
      BY <1>3 DEF Accept, Sweep
    <3>. QED  BY <3>1, <3>2, <3>3
  <2>3. SuppressionDead'
    BY <1>3 DEF SuppressionDead, Accept, Handled, supVars
  <2>. QED  BY <2>1, <2>2, <2>3 DEF Lockstep
<1>4. ASSUME NEW k \in Keys, Drain(k)
      PROVE  Lockstep' /\ SuppressionDead'
  <2>1. ~Suppressed(k)
    BY NothingSuppressed
  <2>. QED  BY <1>4, <2>1 DEF Lockstep, SuppressionDead, Drain, filterVars, supVars
<1>5. CASE Advance
  BY <1>5 DEF Lockstep, SuppressionDead, Advance, Nothing, filterVars, supVars
<1>6. CASE UNCHANGED vars
  BY <1>6 DEF Lockstep, SuppressionDead, vars
<1>. QED  BY <1>1, <1>2, <1>3, <1>4, <1>5, <1>6 DEF Next, Receive

(***************************************************************************)
(* With the sizes the code gives the two rings, the bus cache answers for  *)
(* the dedupe ring (rivr_bus.c lines 136-143 run before routing.c line     *)
(* 431), and the opportunistic suppression behind a dedupe hit             *)
(* (rivr_sources.c lines 335-345, main.c lines 426-436) is unreachable.    *)
(***************************************************************************)
THEOREM BusShadowsDedupe == SameSize => (Spec => [](Lockstep /\ SuppressionDead))
<1>1. SUFFICES ASSUME SameSize PROVE Spec => [](Lockstep /\ SuppressionDead)
  OBVIOUS
<1>2. Init => Lockstep /\ SuppressionDead
  BY DEF Init, Lockstep, SuppressionDead, Nothing
<1>3. TypeOK /\ Lockstep /\ SuppressionDead /\ [Next]_vars
        => (Lockstep /\ SuppressionDead)'
  BY <1>1, NextLockstep
<1>. QED  BY <1>2, <1>3, FilterTypeOK, PTL DEF Spec

-----------------------------------------------------------------------------
(***************************************************************************)
(* The window of the dedupe ring.  A key in its window has a slot; the     *)
(* slots written after that of a key in its window hold keys in theirs, so *)
(* that the oldest slot is one of a window only if all are, which takes a  *)
(* key more than there are.                                                *)
(***************************************************************************)
DedupeHolds ==
  /\ IsFiniteSet(Keys) /\ Cardinality(Keys) <= DedupeSize
  /\ DedupeExpiry < ClockMod

InWindow(i) == ded[i].key # NoKey /\ since[ded[i].key] <= DedupeExpiry

\* Slot j was written after slot i.
Later(i, j) == IF i < dedHead THEN i < j /\ j < dedHead ELSE i < j \/ j < dedHead

WindowInv ==
  /\ TypeOK
  /\ \A i, j \in Slots : ded[i].key = ded[j].key /\ ded[i].key # NoKey => i = j
  /\ \A k \in Keys : since[k] <= DedupeExpiry =>
       \E i \in Slots : /\ ded[i].key = k
                        /\ (now + ClockMod - ded[i].at) % ClockMod = since[k]
  /\ \A i, j \in Slots : InWindow(i) /\ Later(i, j) =>
       InWindow(j) /\ since[ded[j].key] <= since[ded[i].key]

\* A table with a slot for every key has one free as long as a key is not in it.
LEMMA KeyHasRoom ==
  ASSUME NEW n \in Nat, IsFiniteSet(Keys), Cardinality(Keys) <= n,
         NEW f \in [0 .. n - 1 -> Keys \cup {NoKey}],
         \A i, j \in 0 .. n - 1 : f[i] = f[j] /\ f[i] # NoKey => i = j,
         NEW k \in Keys, \A i \in 0 .. n - 1 : f[i] # k
  PROVE  \E i \in 0 .. n - 1 : f[i] = NoKey
<1>. SUFFICES ASSUME \A i \in 0 .. n - 1 : f[i] # NoKey PROVE FALSE
  OBVIOUS
<1>. DEFINE S == 0 .. n - 1
            T == Keys \ {k}
<1>1. IsFiniteSet(S) /\ Cardinality(S) = n
  BY FS_Interval
<1>2. IsFiniteSet(T) /\ Cardinality(T) = Cardinality(Keys) - 1 /\ Cardinality(Keys) \in Nat
  BY FS_RemoveElement, FS_CardinalityType
<1>3. f \in [S -> T]
  OBVIOUS
<1>4. Cardinality(T) < Cardinality(S)
  BY <1>1, <1>2
<1>5. \A i, j \in S : f[i] = f[j] => i = j
  OBVIOUS
<1>. HIDE DEF S, T
<1>6. \E x, y \in S : x # y /\ f[x] = f[y]
  BY <1>1, <1>2, <1>3, <1>4, FS_PigeonHole
<1>. QED  BY <1>5, <1>6

LEMMA SweepIs ==
  ASSUME NEW k, NEW i \in Slots
  PROVE  Sweep(k)[i] = IF i \in Swept(k) THEN [key |-> NoKey, at |-> 0] ELSE ded[i]
  BY DEF Sweep

\* A scan clears no slot of a window, and without a hit all of the key's own.
LEMMA SweepKeeps ==
  ASSUME WindowInv, NEW k \in Keys
  PROVE  /\ \A i \in Slots : Sweep(k)[i] = ded[i] \/ Sweep(k)[i].key = NoKey
         /\ \A i \in Slots : InWindow(i) => Sweep(k)[i] = ded[i]
         /\ DedupeHits(k) = {} => \A i \in Slots : Sweep(k)[i].key # k
         /\ DedupeHits(k) = {} => since[k] > DedupeExpiry
<1>1. ASSUME NEW i \in Slots, InWindow(i)
      PROVE  ~Expired(i)
  <2>1. ded[i].key \in Keys /\ ded[i].key # NoKey /\ since[ded[i].key] <= DedupeExpiry
    BY <1>1 DEF WindowInv, TypeOK, InWindow
  <2>2. PICK j \in Slots : /\ ded[j].key = ded[i].key
                           /\ (now + ClockMod - ded[j].at) % ClockMod = since[ded[i].key]
    BY <2>1 DEF WindowInv
  <2>3. j = i
    BY <2>1, <2>2 DEF WindowInv
  <2>4. since[ded[i].key] \in Nat /\ DedupeExpiry \in Nat
    BY <2>1, ExpiryAssumption DEF WindowInv, TypeOK
  <2>. QED  BY <2>1, <2>2, <2>3, <2>4 DEF Expired
<1>2. \A i \in Slots : i \in Swept(k) => Expired(i)
  BY DEF Swept
<1>3. \A i \in Slots : Sweep(k)[i] = ded[i] \/ Sweep(k)[i].key = NoKey
  BY SweepIs
<1>4. \A i \in Slots : InWindow(i) => Sweep(k)[i] = ded[i]
  BY <1>1, <1>2, SweepIs
<1>5. ASSUME DedupeHits(k) = {}, NEW i \in Slots PROVE Sweep(k)[i].key # k
  <2>1. ded[i].key = k => i \in Swept(k)
    BY <1>5 DEF DedupeHits, Swept
  <2>. QED  BY <2>1, SweepIs, KeysAssumption
<1>6. ASSUME DedupeHits(k) = {} PROVE since[k] > DedupeExpiry
  <2>1. since[k] \in Nat /\ DedupeExpiry \in Nat
    BY ExpiryAssumption DEF WindowInv, TypeOK
  <2>2. CASE since[k] <= DedupeExpiry
    <3>1. PICK i \in Slots : ded[i].key = k
      BY <2>2 DEF WindowInv
    <3>2. InWindow(i)
      BY <2>2, <3>1, KeysAssumption DEF InWindow
    <3>. QED  BY <1>1, <1>6, <3>1, <3>2 DEF DedupeHits
  <2>. QED  BY <2>1, <2>2
<1>. QED  BY <1>3, <1>4, <1>5, <1>6

LEMMA WindowStart == Init => WindowInv
<1>. SUFFICES ASSUME Init PROVE WindowInv
  OBVIOUS
<1>1. \A i \in Slots : ded[i].key = NoKey
  BY DEF Init
<1>2. \A k \in Keys : ~(since[k] <= DedupeExpiry)
  BY ExpiryAssumption DEF Init
<1>. QED  BY <1>1, <1>2, InitTypeOK DEF WindowInv, InWindow

\* A scan that finds the key: nothing but slots out of every window may change.
LEMMA WindowDrop ==
  ASSUME WindowInv, TypeOK', NEW k \in Keys, ded' = Sweep(k), UNCHANGED <<dedHead, now, since>>
  PROVE  WindowInv'
<1>1. /\ \A i \in Slots : ded'[i] = ded[i] \/ ded'[i].key = NoKey
      /\ \A i \in Slots : InWindow(i) => ded'[i] = ded[i]
  BY SweepKeeps
<1>2. \A i, j \in Slots : ded'[i].key = ded'[j].key /\ ded'[i].key # NoKey => i = j
  BY <1>1 DEF WindowInv
<1>3. ASSUME NEW q \in Keys, since[q] <= DedupeExpiry
      PROVE  \E i \in Slots : /\ ded'[i].key = q
                              /\ (now + ClockMod - ded'[i].at) % ClockMod = since[q]
  <2>1. PICK i \in Slots : /\ ded[i].key = q
                           /\ (now + ClockMod - ded[i].at) % ClockMod = since[q]
    BY <1>3 DEF WindowInv
  <2>2. InWindow(i)
    BY <1>3, <2>1, KeysAssumption DEF InWindow
  <2>. QED  BY <1>1, <2>1, <2>2
<1>4. ASSUME NEW i \in Slots, NEW j \in Slots, InWindow(i)', Later(i, j)'
      PROVE  InWindow(j)' /\ since[ded'[j].key] <= since[ded'[i].key]
  <2>1. ded'[i] = ded[i] /\ InWindow(i) /\ Later(i, j)
    BY <1>1, <1>4 DEF InWindow, Later
  <2>2. InWindow(j) /\ since[ded[j].key] <= since[ded[i].key] /\ ded'[j] = ded[j]
    BY <1>1, <2>1 DEF WindowInv
  <2>. QED  BY <2>1, <2>2 DEF InWindow
<1>. QED  BY <1>2, <1>3, <1>4 DEF WindowInv

LEMMA WindowAccept ==
  ASSUME DedupeHolds, WindowInv, TypeOK', NEW k \in Keys, DedupeHits(k) = {},
         ded' = [Sweep(k) EXCEPT ![dedHead] = [key |-> k, at |-> now]],
         dedHead' = (dedHead + 1) % DedupeSize, now' = now,
         since' = [since EXCEPT ![k] = 0]
  PROVE  WindowInv'
<1>1. /\ dedHead \in 0 .. DedupeSize - 1 /\ DedupeSize \in Nat \ {0} /\ Slots = 0 .. DedupeSize - 1
      /\ now \in 0 .. ClockMod - 1 /\ ClockMod \in Nat \ {0} /\ DedupeExpiry \in Nat
      /\ \A q \in Keys : since[q] \in Nat
  BY CacheAssumption, ClockAssumption, ExpiryAssumption DEF WindowInv, TypeOK, Slots, Clock
<1>2. /\ \A i \in Slots : Sweep(k)[i] = ded[i] \/ Sweep(k)[i].key = NoKey
      /\ \A i \in Slots : InWindow(i) => Sweep(k)[i] = ded[i]
      /\ \A i \in Slots : Sweep(k)[i].key # k
      /\ since[k] > DedupeExpiry
  BY SweepKeeps
<1>3. /\ ded'[dedHead].key = k /\ ded'[dedHead].at = now
      /\ \A i \in Slots : i # dedHead => ded'[i] = Sweep(k)[i]
  BY <1>1 DEF Sweep
<1>4. /\ since'[k] = 0
      /\ \A q \in Keys : q # k => since'[q] = since[q]
  BY DEF WindowInv, TypeOK
<1>5. dedHead' = IF dedHead + 1 = DedupeSize THEN 0 ELSE dedHead + 1
  BY <1>1, ClockNext
<1>6. ~InWindow(dedHead)
  <2>. SUFFICES ASSUME InWindow(dedHead) PROVE FALSE
    OBVIOUS
  <2>1. \A j \in Slots : InWindow(j)
    <3>1. \A j \in Slots : j = dedHead \/ Later(dedHead, j)
      BY <1>1 DEF Later
    <3>. QED  BY <1>1, <3>1 DEF WindowInv
  <2>2. \A j \in Slots : ded[j].key # k /\ ded[j].key # NoKey
    BY <1>1, <1>2, <2>1 DEF InWindow
  <2>. DEFINE f == [i \in 0 .. DedupeSize - 1 |-> ded[i].key]
  <2>3. f \in [0 .. DedupeSize - 1 -> Keys \cup {NoKey}]
    BY <1>1 DEF WindowInv, TypeOK
  <2>4. /\ \A i, j \in 0 .. DedupeSize - 1 : f[i] = f[j] /\ f[i] # NoKey => i = j
        /\ \A i \in 0 .. DedupeSize - 1 : f[i] # k /\ f[i] # NoKey
    BY <1>1, <2>2 DEF WindowInv
  <2>. HIDE DEF f
  <2>. QED  BY <1>1, <2>3, <2>4, KeyHasRoom DEF DedupeHolds
<1>7. \A i, j \in Slots : ded'[i].key = ded'[j].key /\ ded'[i].key # NoKey => i = j
  <2>1. \A i, j \in Slots : Sweep(k)[i].key = Sweep(k)[j].key /\ Sweep(k)[i].key # NoKey => i = j
    BY <1>2 DEF WindowInv
  <2>. QED  BY <1>2, <1>3, <2>1
<1>8. ASSUME NEW q \in Keys, since'[q] <= DedupeExpiry
      PROVE  \E i \in Slots : /\ ded'[i].key = q
                              /\ (now' + ClockMod - ded'[i].at) % ClockMod = since'[q]
  <2>1. CASE q = k
    <3>1. (now + ClockMod - now) % ClockMod = 0
      BY <1>1, AgeZero
    <3>. QED  BY <1>1, <1>3, <1>4, <2>1, <3>1
  <2>2. CASE q # k
    <3>1. PICK i \in Slots : /\ ded[i].key = q
                             /\ (now + ClockMod - ded[i].at) % ClockMod = since[q]
      BY <1>4, <1>8, <2>2 DEF WindowInv
    <3>2. InWindow(i)
      BY <1>4, <1>8, <2>2, <3>1, KeysAssumption DEF InWindow
    <3>3. ded'[i] = ded[i]
      BY <1>2, <1>3, <1>6, <3>2
    <3>. QED  BY <1>4, <2>2, <3>1, <3>3
  <2>. QED  BY <2>1, <2>2
<1>9. ASSUME NEW i \in Slots, NEW j \in Slots, InWindow(i)', Later(i, j)'
      PROVE  InWindow(j)' /\ since'[ded'[j].key] <= since'[ded'[i].key]
  <2>1. i # dedHead
    BY <1>1, <1>5, <1>9 DEF Later
  <2>2. ded'[i] = ded[i] /\ ded[i].key # k /\ ded[i].key # NoKey /\ ded[i].key \in Keys
    BY <1>2, <1>3, <1>9, <2>1 DEF InWindow, WindowInv, TypeOK
  <2>3. InWindow(i)
    BY <1>4, <1>9, <2>2 DEF InWindow
  <2>4. CASE j = dedHead
    <3>1. since'[ded'[j].key] = 0 /\ ded'[j].key = k
      BY <1>3, <1>4, <2>4
    <3>2. since'[ded'[i].key] \in Nat
      BY <1>1, <1>4, <2>2
    <3>. QED  BY <1>1, <3>1, <3>2, KeysAssumption DEF InWindow
  <2>5. CASE j # dedHead
    <3>1. Later(i, j)
      BY <1>1, <1>5, <1>9, <2>1, <2>5 DEF Later
    <3>2. InWindow(j) /\ since[ded[j].key] <= since[ded[i].key]
      BY <2>3, <3>1 DEF WindowInv
    <3>3. ded'[j] = ded[j] /\ ded[j].key # k /\ ded[j].key \in Keys
      BY <1>1, <1>2, <1>3, <2>5, <3>2 DEF InWindow, WindowInv, TypeOK
    <3>. QED  BY <1>4, <2>2, <3>2, <3>3 DEF InWindow
  <2>. QED  BY <2>4, <2>5
<1>. QED  BY <1>7, <1>8, <1>9 DEF WindowInv

LEMMA WindowAdvance ==
  ASSUME DedupeHolds, WindowInv, TypeOK', Advance
  PROVE  WindowInv'
<1>1. /\ ded' = ded /\ dedHead' = dedHead /\ now' = (now + 1) % ClockMod
      /\ \A q \in Keys : since'[q] = IF since[q] <= DedupeExpiry THEN since[q] + 1 ELSE since[q]
  BY DEF Advance, filterVars
<1>2. /\ now \in 0 .. ClockMod - 1 /\ ClockMod \in Nat \ {0} /\ DedupeExpiry \in Nat
      /\ DedupeExpiry < ClockMod
      /\ \A q \in Keys : since[q] \in Nat
      /\ \A i \in Slots : ded[i].at \in 0 .. ClockMod - 1 /\ ded[i].key \in Keys \cup {NoKey}
  BY ClockAssumption, ExpiryAssumption DEF WindowInv, TypeOK, Clock, DedupeHolds
<1>3. \A q \in Keys : since'[q] <= DedupeExpiry => since[q] < DedupeExpiry /\ since'[q] = since[q] + 1
  BY <1>1, <1>2
<1>4. ASSUME NEW q \in Keys, since'[q] <= DedupeExpiry
      PROVE  \E i \in Slots : /\ ded'[i].key = q
                              /\ (now' + ClockMod - ded'[i].at) % ClockMod = since'[q]
  <2>1. since[q] < DedupeExpiry /\ since'[q] = since[q] + 1 /\ since[q] \in Nat
    BY <1>2, <1>3, <1>4
  <2>2. PICK i \in Slots : /\ ded[i].key = q
                           /\ (now + ClockMod - ded[i].at) % ClockMod = since[q]
    BY <1>2, <2>1 DEF WindowInv
  <2>3. (now + ClockMod - ded[i].at) % ClockMod < ClockMod - 1
    BY <1>2, <2>1, <2>2
  <2>4. (((now + 1) % ClockMod) + ClockMod - ded[i].at) % ClockMod
          = ((now + ClockMod - ded[i].at) % ClockMod) + 1
    BY <1>2, <2>3, ClockStep
  <2>. QED  BY <1>1, <2>1, <2>2, <2>4
<1>5. ASSUME NEW i \in Slots, NEW j \in Slots, InWindow(i)', Later(i, j)'
      PROVE  InWindow(j)' /\ since'[ded'[j].key] <= since'[ded'[i].key]
  <2>1. ded[i].key \in Keys /\ ded[i].key # NoKey /\ since'[ded[i].key] <= DedupeExpiry /\ Later(i, j)
    BY <1>1, <1>2, <1>5 DEF InWindow, Later
  <2>2. since[ded[i].key] < DedupeExpiry /\ since'[ded[i].key] = since[ded[i].key] + 1
    BY <1>3, <2>1
  <2>3. InWindow(i)
    BY <1>2, <2>1, <2>2 DEF InWindow
  <2>4. /\ ded[j].key # NoKey /\ ded[j].key \in Keys
        /\ since[ded[j].key] <= since[ded[i].key]
    BY <1>2, <2>1, <2>3 DEF WindowInv, InWindow
  <2>5. since'[ded[j].key] = since[ded[j].key] + 1
    BY <1>1, <1>2, <2>1, <2>2, <2>4
  <2>. QED  BY <1>1, <1>2, <2>1, <2>2, <2>4, <2>5 DEF InWindow
<1>6. \A i, j \in Slots : ded'[i].key = ded'[j].key /\ ded'[i].key # NoKey => i = j
  BY <1>1 DEF WindowInv
<1>. QED  BY <1>4, <1>5, <1>6 DEF WindowInv

LEMMA WindowInductive ==
  ASSUME DedupeHolds
  PROVE  WindowInv /\ [Next]_vars => WindowInv'
<1>. SUFFICES ASSUME WindowInv, [Next]_vars PROVE WindowInv'
  OBVIOUS
<1>0. TypeOK'
  BY NextTypeOK DEF WindowInv
<1>1. CASE UNCHANGED <<ded, dedHead, now, since>>
  BY <1>0, <1>1 DEF WindowInv, InWindow, Later
<1>2. ASSUME NEW k \in Keys, NEW relay \in BOOLEAN, DedupeDrop(k, relay)
      PROVE  WindowInv'
  BY <1>0, <1>2, WindowDrop DEF DedupeDrop
<1>3. ASSUME NEW k \in Keys, NEW relay \in BOOLEAN, Accept(k, relay)
      PROVE  WindowInv'
  BY <1>0, <1>3, WindowAccept DEF Accept
<1>4. CASE Advance
  BY <1>0, <1>4, WindowAdvance
<1>5. ASSUME NEW k \in Keys, NEW relay \in BOOLEAN, BusDrop(k, relay)
      PROVE  UNCHANGED <<ded, dedHead, now, since>>
  BY <1>5 DEF BusDrop, filterVars
<1>6. ASSUME NEW k \in Keys, Drain(k)
      PROVE  UNCHANGED <<ded, dedHead, now, since>>
  BY <1>6 DEF Drain, filterVars
<1>. QED  BY <1>1, <1>2, <1>3, <1>4, <1>5, <1>6 DEF Next, Receive, vars

-----------------------------------------------------------------------------
(***************************************************************************)
(* The neighbour tables.  In the list the empty rows come last, so that    *)
(* the first row that is empty or of the peer is its own if it has one;    *)
(* the age of an entry is the time since its peer was heard, until that    *)
(* reaches a whole cycle of the clock.                                     *)
(***************************************************************************)
NbListRow == [id : Peers \cup {Nobody}, last : 0 .. NbMod - 1, hops : 0 .. MaxHop]
NbEntry == [id : Peers \cup {Nobody}, last : 0 .. NbMod - 1, direct : BOOLEAN]

\* No two rows hold the same peer.
RowsDiffer(t) == \A i, j \in Rows : t[i].id = t[j].id /\ t[i].id # Nobody => i = j

EmptyLast(t) == \A i, j \in Rows : i < j /\ t[i].id = Nobody => t[j].id = Nobody

\* An entry's age at the time clock.
NbAgeTrue(e, clock, silent) ==
  e.id # Nobody /\ silent[e.id] < NbMod => (clock + NbMod - e.last) % NbMod = silent[e.id]

NbInv ==
  /\ list \in [Rows -> NbListRow] /\ ntable \in [Rows -> NbEntry]
  /\ nbNow \in 0 .. NbMod - 1 /\ heard \in [Peers -> 0 .. NbMod]
  /\ RowsDiffer(list) /\ EmptyLast(list) /\ RowsDiffer(ntable)
  /\ \A i \in Rows : NbAgeTrue(ntable[i], nbNow, heard)
  /\ ~nbLost

LEMMA NbConstants ==
  /\ NbSize \in Nat \ {0} /\ NbMod \in Nat \ {0} /\ NbStale \in Nat \ {0} /\ MaxHop \in Nat \ {0}
  /\ NbStale < NbMod /\ Nobody \notin Peers /\ 0 \in 0 .. NbMod - 1 /\ NbMod \in 0 .. NbMod
  /\ Rows \subseteq Nat /\ 1 \in Rows
  BY NbAssumption DEF Nobody, Rows

LEMMA FirstRowIn ==
  ASSUME NEW S, S \subseteq Rows, S # {}
  PROVE  FirstRow(S) \in S /\ \A j \in S : FirstRow(S) <= j
<1>1. \E i \in S : \A j \in S : i <= j
  BY LeastOf, NbConstants
<1>. QED  BY <1>1 DEF FirstRow

LEMMA NbStart == NbInit => NbInv
<1>. SUFFICES ASSUME NbInit PROVE NbInv
  OBVIOUS
<1>. DEFINE no == FALSE
<1>1. EmptyRow \in NbListRow /\ EmptyRow.id = Nobody
  BY NbConstants DEF EmptyRow, NbListRow
<1>2. EmptyEntry \in NbEntry /\ EmptyEntry.id = Nobody
  <2>1. EmptyEntry = [id |-> Nobody, last |-> 0, direct |-> no] /\ no \in BOOLEAN
    BY DEF EmptyEntry
  <2>. HIDE DEF no
  <2>. QED  BY <2>1, NbConstants DEF NbEntry
<1>3. /\ \A i \in Rows : list[i] = EmptyRow /\ ntable[i] = EmptyEntry
      /\ list \in [Rows -> NbListRow] /\ ntable \in [Rows -> NbEntry]
      /\ nbNow \in 0 .. NbMod - 1 /\ ~nbLost
  BY <1>1, <1>2 DEF NbInit
<1>4. heard \in [Peers -> 0 .. NbMod]
  BY NbConstants DEF NbInit
<1>. QED  BY <1>1, <1>2, <1>3, <1>4 DEF NbInv, RowsDiffer, EmptyLast, NbAgeTrue

\* The list learns a peer.
LEMMA ListKeeps ==
  ASSUME NbInv, NEW p \in Peers, NEW hop \in 0 .. MaxHop
  PROVE  LET new == ListUpdate(p, hop) IN
         new \in [Rows -> NbListRow] /\ RowsDiffer(new) /\ EmptyLast(new)
<1>. DEFINE stop == Find(list, p) \cup Find(list, Nobody)
            i == ListRow(p)
            r == IF list[i].id = p THEN UpdateExisting(list[i], hop + 1)
                 ELSE FillSlot(list[i], p, hop + 1)
            new == [list EXCEPT ![i] = r]
<1>1. list \in [Rows -> NbListRow] /\ RowsDiffer(list) /\ EmptyLast(list)
      /\ nbNow \in 0 .. NbMod - 1 /\ p # Nobody
  BY NbConstants DEF NbInv
<1>2. \A k \in Rows : k \in stop <=> list[k].id \in {p, Nobody}
  BY DEF Find
<1>3. stop \subseteq Rows
  BY DEF Find
<1>. HIDE DEF stop
<1>4. i \in Rows /\ (stop # {} => i \in stop /\ \A j \in stop : i <= j)
  <2>1. CASE stop # {}
    <3>1. i = FirstRow(stop)
      BY <2>1 DEF ListRow, stop
    <3>. QED  BY <1>3, <2>1, <3>1, FirstRowIn
  <2>2. CASE stop = {}
    <3>. DEFINE age(j) == NbAge(list[j].last)
                f == [j \in Rows |-> NbMod - age(j)]
                old == {k \in Rows : \A j \in Rows : age(j) <= age(k)}
    <3>1. \A j \in Rows : age(j) \in 0 .. NbMod - 1
      <4>. SUFFICES ASSUME NEW j \in Rows PROVE age(j) \in 0 .. NbMod - 1
        OBVIOUS
      <4>0. list[j] \in NbListRow
        BY <1>1
      <4>1. list[j].last \in 0 .. NbMod - 1
        BY <4>0 DEF NbListRow
      <4>. QED  BY <1>1, <4>1, NbConstants, ClockType DEF NbAge
    <3>. HIDE DEF age
    <3>2. \A j \in Rows : f[j] \in Nat
      BY <3>1, NbConstants
    <3>3. \E k \in Rows : \A j \in Rows : f[k] <= f[j]
      <4>. HIDE DEF f
      <4>. QED  BY <3>2, NbConstants, LeastMember
    <3>4. \E k \in Rows : \A j \in Rows : age(j) <= age(k)
      BY <3>1, <3>3, NbConstants
    <3>5. i = FirstRow(old)
      BY <2>2 DEF ListRow, stop, age
    <3>6. old \subseteq Rows /\ old # {}
      BY <3>4
    <3>. HIDE DEF old, i
    <3>7. i \in Rows
      BY <3>5, <3>6, FirstRowIn
    <3>. QED  BY <2>2, <3>7
  <2>. QED  BY <2>1, <2>2
<1>. HIDE DEF i
<1>5. CASE hop + 1 > MaxHop
  BY <1>1, <1>5 DEF ListUpdate
<1>6. CASE ~(hop + 1 > MaxHop)
  <2>1. ListUpdate(p, hop) = new
    BY <1>1, <1>4, <1>6 DEF ListUpdate, i
  <2>2. r \in NbListRow /\ r.id = p
    <3>1. list[i] \in NbListRow /\ hop + 1 \in 0 .. MaxHop
      BY <1>1, <1>4, <1>6, NbConstants
    <3>. QED  BY <1>1, <3>1 DEF NbListRow, UpdateExisting, FillSlot
  <2>. HIDE DEF r
  <2>3. new \in [Rows -> NbListRow] /\ \A j \in Rows : new[j] = IF j = i THEN r ELSE list[j]
    BY <1>1, <2>2
  <2>. HIDE DEF new
  <2>4. \A j \in Rows : list[j].id = p => j = i
    <3>. SUFFICES ASSUME NEW j \in Rows, list[j].id = p PROVE j = i
      OBVIOUS
    <3>1. j \in stop /\ i \in stop /\ i <= j /\ i \in Nat /\ j \in Nat
      BY <1>2, <1>4, NbConstants
    <3>2. list[i].id = p \/ (list[i].id = Nobody /\ i = j)
      BY <1>1, <1>2, <1>4, <3>1 DEF EmptyLast
    <3>. QED  BY <1>1, <1>4, <3>2 DEF RowsDiffer
  <2>5. RowsDiffer(new)
    BY <1>1, <2>2, <2>3, <2>4 DEF RowsDiffer
  <2>6. EmptyLast(new)
    <3>. SUFFICES ASSUME NEW j \in Rows, NEW k \in Rows, j < k, new[j].id = Nobody
                  PROVE  new[k].id = Nobody
      BY DEF EmptyLast
    <3>1. j # i /\ list[j].id = Nobody
      BY <1>1, <2>2, <2>3
    <3>2. i <= j
      BY <1>2, <1>4, <3>1
    <3>3. k # i /\ list[k].id = Nobody
      BY <1>1, <1>4, <3>1, <3>2, NbConstants DEF EmptyLast
    <3>. QED  BY <2>3, <3>3
  <2>. QED  BY <2>1, <2>3, <2>5, <2>6
<1>. QED  BY <1>5, <1>6

\* The table learns a peer; the entry it evicts, if any, is the oldest.
LEMMA TableRowIs ==
  ASSUME NbInv, NEW p \in Peers
  PROVE  LET i == TableRow(p) IN
         /\ i \in Rows
         /\ \A j \in Rows : ntable[j].id = p => j = i
         /\ ntable[i].id \notin {p, Nobody} =>
              \A j \in Rows : ntable[j].id # Nobody /\ ntable[i].last <= ntable[j].last
<1>1. ntable \in [Rows -> NbEntry] /\ RowsDiffer(ntable) /\ p # Nobody
  BY NbConstants DEF NbInv
<1>2. \A q : /\ Find(ntable, q) \subseteq Rows
            /\ \A k \in Rows : k \in Find(ntable, q) <=> ntable[k].id = q
  BY DEF Find
<1>3. CASE Find(ntable, p) # {}
  <2>1. PICK i : i = FirstRow(Find(ntable, p))
    OBVIOUS
  <2>2. TableRow(p) = i
    BY <1>3, <2>1 DEF TableRow
  <2>3. i \in Rows /\ ntable[i].id = p
    BY <1>2, <1>3, <2>1, FirstRowIn
  <2>. QED  BY <1>1, <2>2, <2>3 DEF RowsDiffer
<1>4. CASE Find(ntable, p) = {} /\ Find(ntable, Nobody) # {}
  <2>1. PICK i : i = FirstRow(Find(ntable, Nobody))
    OBVIOUS
  <2>2. TableRow(p) = i
    BY <1>4, <2>1 DEF TableRow
  <2>3. i \in Rows /\ ntable[i].id = Nobody
    BY <1>2, <1>4, <2>1, FirstRowIn
  <2>. QED  BY <1>2, <1>4, <2>2, <2>3
<1>5. CASE Find(ntable, p) = {} /\ Find(ntable, Nobody) = {}
  <2>. DEFINE f == [j \in Rows |-> ntable[j].last]
              old == {i \in Rows : \A j \in Rows : ntable[i].last <= ntable[j].last}
  <2>1. \A j \in Rows : f[j] \in Nat
    <3>1. \A j \in Rows : ntable[j] \in NbEntry
      BY <1>1
    <3>. QED  BY <3>1, NbConstants DEF NbEntry
  <2>2. \E i \in Rows : \A j \in Rows : f[i] <= f[j]
    <3>. HIDE DEF f
    <3>. QED  BY <2>1, NbConstants, LeastMember
  <2>3. old # {} /\ old \subseteq Rows
    BY <2>2
  <2>4. Oldest = FirstRow(old)
    BY DEF Oldest
  <2>. HIDE DEF old
  <2>5. Oldest \in old
    BY <2>3, <2>4, FirstRowIn
  <2>6. TableRow(p) = Oldest
    BY <1>5 DEF TableRow
  <2>. QED  BY <1>2, <1>5, <2>5, <2>6 DEF old
<1>. QED  BY <1>3, <1>4, <1>5

LEMMA HearInv ==
  ASSUME NbInv, NEW p \in Peers, NEW hop \in 0 .. MaxHop, Hear(p, hop)
  PROVE  NbInv'
<1>. DEFINE i == TableRow(p)
            yes == TRUE
            was == IF ntable[i].id = p THEN ntable[i] ELSE [EmptyEntry EXCEPT !.id = p]
            direct == was.direct \/ hop = 0
            e == [was EXCEPT !.last = nbNow, !.direct = direct]
            new == [ntable EXCEPT ![i] = e]
<1>1. /\ ntable \in [Rows -> NbEntry] /\ RowsDiffer(ntable)
      /\ nbNow \in 0 .. NbMod - 1 /\ heard \in [Peers -> 0 .. NbMod]
      /\ \A j \in Rows : NbAgeTrue(ntable[j], nbNow, heard)
      /\ ~nbLost /\ p # Nobody
  BY NbConstants DEF NbInv
<1>2. /\ i \in Rows /\ \A j \in Rows : ntable[j].id = p => j = i
      /\ ntable[i].id \notin {p, Nobody} =>
           \A j \in Rows : ntable[j].id # Nobody /\ ntable[i].last <= ntable[j].last
  BY TableRowIs
<1>3. ntable' = new /\ heard' = [heard EXCEPT ![p] = 0] /\ nbNow' = nbNow
      /\ list' = ListUpdate(p, hop)
  BY DEF Hear, TableUpdate
<1>4. nbLost' = (nbLost \/ EvictsYounger(i, p))
  BY DEF Hear
<1>. HIDE DEF i
<1>5. was \in NbEntry /\ was.id = p
  <2>1. ntable[i] \in NbEntry
    BY <1>1, <1>2
  <2>. DEFINE no == FALSE
  <2>2. EmptyEntry = [id |-> Nobody, last |-> 0, direct |-> no] /\ no \in BOOLEAN
    BY DEF EmptyEntry
  <2>. HIDE DEF no
  <2>3. [EmptyEntry EXCEPT !.id = p] = [id |-> p, last |-> 0, direct |-> no]
    BY <2>2
  <2>4. [EmptyEntry EXCEPT !.id = p] \in NbEntry /\ [EmptyEntry EXCEPT !.id = p].id = p
    BY <2>2, <2>3, NbConstants DEF NbEntry
  <2>. QED  BY <2>1, <2>4
<1>6. direct \in BOOLEAN
  BY <1>5 DEF NbEntry
<1>. HIDE DEF was, direct
<1>7. e \in NbEntry /\ e.id = p /\ e.last = nbNow
  BY <1>1, <1>5, <1>6 DEF NbEntry
<1>. HIDE DEF e
<1>8. new \in [Rows -> NbEntry] /\ \A j \in Rows : new[j] = IF j = i THEN e ELSE ntable[j]
  BY <1>1, <1>2, <1>7
<1>. HIDE DEF new
<1>9. RowsDiffer(new)
  BY <1>1, <1>2, <1>7, <1>8 DEF RowsDiffer
<1>10. /\ heard' \in [Peers -> 0 .. NbMod] /\ heard'[p] = 0
       /\ \A q \in Peers : q # p => heard'[q] = heard[q]
  <2>1. 0 \in 0 .. NbMod
    BY NbConstants
  <2>. QED  BY <1>1, <1>3, <2>1
<1>11. ASSUME NEW j \in Rows
       PROVE  NbAgeTrue(new[j], nbNow, heard')
  <2>1. CASE j = i
    BY <1>1, <1>7, <1>8, <1>10, <2>1, NbConstants, AgeZero DEF NbAgeTrue
  <2>2. CASE j # i
    <3>1. new[j] = ntable[j] /\ ntable[j].id # p
      BY <1>2, <1>8, <2>2
    <3>2. ntable[j].id \in Peers \cup {Nobody}
      <4>1. ntable[j] \in NbEntry
        BY <1>1
      <4>. QED  BY <4>1 DEF NbEntry
    <3>3. NbAgeTrue(ntable[j], nbNow, heard)
      BY <1>1
    <3>. QED  BY <1>10, <3>1, <3>2, <3>3 DEF NbAgeTrue
  <2>. QED  BY <2>1, <2>2
<1>12. ~EvictsYounger(i, p)
  <2>. SUFFICES ASSUME EvictsYounger(i, p) PROVE FALSE
    OBVIOUS
  <2>1. /\ \A j \in Rows : ntable[j].id # Nobody /\ ntable[i].last <= ntable[j].last
        /\ \A j \in Rows : ntable[j].last <= nbNow /\ heard[ntable[j].id] < NbMod
    BY <1>2 DEF EvictsYounger
  <2>2. PICK j \in Rows : heard[ntable[j].id] > heard[ntable[i].id]
    BY DEF EvictsYounger
  <2>3. ASSUME NEW k \in Rows
        PROVE  ntable[k].last \in Nat /\ heard[ntable[k].id] = nbNow - ntable[k].last
    <3>1. ntable[k].last \in 0 .. NbMod - 1
      <4>1. ntable[k] \in NbEntry
        BY <1>1
      <4>. QED  BY <4>1 DEF NbEntry
    <3>2. (nbNow + NbMod - ntable[k].last) % NbMod = heard[ntable[k].id]
      BY <1>1, <2>1 DEF NbAgeTrue
    <3>3. PICK a \in 0 .. NbMod - 1 : a = ntable[k].last
      BY <3>1
    <3>4. a <= nbNow /\ a \in Nat
      BY <2>1, <3>3, NbConstants
    <3>5. (nbNow + NbMod - a) % NbMod = nbNow - a
      BY <1>1, <3>4, NbConstants
    <3>. QED  BY <3>2, <3>3, <3>4, <3>5
  <2>4. ntable[i].last <= ntable[j].last /\ nbNow \in Nat
    BY <1>1, <2>1, NbConstants
  <2>. QED  BY <1>2, <2>2, <2>3, <2>4
<1>13. list' \in [Rows -> NbListRow] /\ RowsDiffer(list') /\ EmptyLast(list')
  BY <1>3, ListKeeps
<1>. QED  BY <1>1, <1>3, <1>4, <1>8, <1>9, <1>10, <1>11, <1>12, <1>13
          DEF NbInv, RowsDiffer, EmptyLast, NbAgeTrue

LEMMA NbTickInv ==
  ASSUME NbInv, NbTick
  PROVE  NbInv'
<1>1. /\ ntable' = ntable /\ list' = list /\ nbLost' = nbLost /\ nbNow' = (nbNow + 1) % NbMod
      /\ heard' = [q \in Peers |-> IF heard[q] < NbMod THEN heard[q] + 1 ELSE NbMod]
  BY DEF NbTick
<1>2. /\ ntable \in [Rows -> NbEntry] /\ nbNow \in 0 .. NbMod - 1
      /\ heard \in [Peers -> 0 .. NbMod]
      /\ \A j \in Rows : NbAgeTrue(ntable[j], nbNow, heard)
  BY DEF NbInv
<1>3. nbNow' \in 0 .. NbMod - 1
  BY <1>1, <1>2, NbConstants
<1>4. heard' \in [Peers -> 0 .. NbMod]
  BY <1>1, <1>2, NbConstants
<1>5. ASSUME NEW j \in Rows
      PROVE  NbAgeTrue(ntable[j], nbNow', heard')
  <2>. SUFFICES ASSUME ntable[j].id # Nobody, heard'[ntable[j].id] < NbMod
                PROVE  (nbNow' + NbMod - ntable[j].last) % NbMod = heard'[ntable[j].id]
    BY DEF NbAgeTrue
  <2>1. ntable[j].id \in Peers /\ ntable[j].last \in 0 .. NbMod - 1
    <3>1. ntable[j] \in NbEntry
      BY <1>2
    <3>. QED  BY <3>1 DEF NbEntry
  <2>2. PICK a \in 0 .. NbMod - 1, q \in Peers : a = ntable[j].last /\ q = ntable[j].id
    BY <2>1
  <2>3. heard'[q] = heard[q] + 1 /\ heard[q] < NbMod - 1 /\ heard[q] \in 0 .. NbMod
    BY <1>1, <1>2, <2>2, NbConstants
  <2>4. (nbNow + NbMod - a) % NbMod = heard[q]
    BY <1>2, <2>2, <2>3, NbConstants DEF NbAgeTrue
  <2>5. (((nbNow + 1) % NbMod) + NbMod - a) % NbMod = heard[q] + 1
    BY <1>2, <2>3, <2>4, NbConstants, ClockStep
  <2>. QED  BY <1>1, <2>2, <2>3, <2>5
<1>. QED  BY <1>1, <1>3, <1>4, <1>5 DEF NbInv, RowsDiffer, EmptyLast, NbAgeTrue

LEMMA NbInductive == NbInv /\ [NbNext]_nbVars => NbInv'
<1>. SUFFICES ASSUME NbInv, [NbNext]_nbVars PROVE NbInv'
  OBVIOUS
<1>1. CASE UNCHANGED nbVars
  BY <1>1 DEF nbVars, NbInv, RowsDiffer, EmptyLast, NbAgeTrue
<1>. QED  BY <1>1, HearInv, NbTickInv DEF NbNext

\* A peer is found in at most one row.
LEMMA FoundOnce ==
  ASSUME NEW t, RowsDiffer(t), NEW p \in Peers
  PROVE  Cardinality(Find(t, p)) <= 1
<1>1. CASE Find(t, p) = {}
  BY <1>1, FS_EmptySet
<1>2. CASE Find(t, p) # {}
  <2>1. PICK i : i \in Find(t, p)
    BY <1>2
  <2>2. Find(t, p) = {i}
    BY <2>1, NbConstants DEF Find, RowsDiffer
  <2>3. Cardinality({i}) = 1
    BY FS_Singleton
  <2>. QED  BY <2>2, <2>3
<1>. QED  BY <1>1, <1>2

LEMMA NbKept == NbInv => NeighboursTrue /\ NbTypeOK
<1>. SUFFICES ASSUME NbInv PROVE NeighboursTrue /\ NbTypeOK
  OBVIOUS
<1>1. NbTypeOK
  BY DEF NbInv, NbTypeOK, NbListRow, NbEntry
<1>2. OneRowEach
  BY FoundOnce DEF NbInv, OneRowEach
<1>3. LiveAreFresh
  <2>. SUFFICES ASSUME NEW i \in Rows, ntable[i].id # Nobody, NbAge(ntable[i].last) < NbStale
                PROVE  heard[ntable[i].id] < NbStale \/ heard[ntable[i].id] = NbMod
    BY DEF LiveAreFresh, LiveRows
  <2>1. ntable[i].id \in Peers
    <3>1. ntable[i] \in NbEntry
      BY DEF NbInv
    <3>. QED  BY <3>1 DEF NbEntry
  <2>2. heard[ntable[i].id] \in 0 .. NbMod
    BY <2>1 DEF NbInv
  <2>3. NbAgeTrue(ntable[i], nbNow, heard)
    BY DEF NbInv
  <2>. QED  BY <2>2, <2>3, NbConstants DEF NbAgeTrue, NbAge
<1>. QED  BY <1>1, <1>2, <1>3 DEF NbInv, NeighboursTrue

-----------------------------------------------------------------------------
(***************************************************************************)
(* The reliable message layer.                                             *)
(***************************************************************************)
RmlSlots == 1 .. ThreadSize

\* A slot in use holds the text its sender gave the message.
RmlEntryTrue(e) ==
  e.used => /\ e.of \in RmlThreads /\ e.edit \in Edits /\ e.at \in 0 .. RmlMod - 1
            /\ e.text = TrueText(e.edit)

RmlThreadTrue(thread) ==
  /\ thread = [slots |-> thread.slots, next |-> thread.next]
  /\ thread.slots = [i \in RmlSlots |-> thread.slots[i]]
  /\ thread.next \in RmlSlots
  /\ \A i \in RmlSlots : RmlEntryTrue(thread.slots[i])

RmlInv ==
  /\ RmlThreadTrue(rmlThread)
  /\ rmlNow \in 0 .. RmlMod - 1
  /\ \E k \in 0 .. MaxEdits : rmlRelay = TrueText(k)

LEMMA RmlConstants ==
  /\ MaxEdits \in Nat \ {0} /\ ThreadSize \in Nat \ {0} /\ RmlMod \in Nat \ {0}
  /\ 0 \in 0 .. RmlMod - 1 /\ 1 \in RmlSlots /\ Edits = 1 .. MaxEdits
  BY RmlAssumption DEF RmlSlots, Edits

LEMMA RmlStart == RmlInit => RmlInv
<1>. SUFFICES ASSUME RmlInit PROVE RmlInv
  OBVIOUS
<1>1. rmlThread = [slots |-> [i \in RmlSlots |-> RmlUnused], next |-> 1] /\ rmlNow = 0
      /\ rmlRelay = <<>>
  BY DEF RmlInit, RmlSlots
<1>2. RmlThreadTrue(rmlThread)
  <2>1. ~RmlUnused.used
    BY DEF RmlUnused
  <2>. QED  BY <1>1, <2>1, RmlConstants DEF RmlThreadTrue, RmlEntryTrue
<1>3. rmlRelay = TrueText(0) /\ 0 \in 0 .. MaxEdits
  <2>1. 1 .. 0 = {}
    OBVIOUS
  <2>2. <<>> = TrueText(0)
    BY <2>1 DEF TrueText
  <2>. QED  BY <1>1, <2>2, RmlConstants
<1>. QED  BY <1>1, <1>2, <1>3, RmlConstants DEF RmlInv

\* What a frame is rebuilt to is the text of its edit.
LEMMA RebuiltTrue ==
  ASSUME RmlInv, NEW m \in RmlFrames, NEW text \in Rebuilt(m)
  PROVE  text = TrueText(m.edit)
<1>1. CASE m.form # "delta"
  BY <1>1 DEF Rebuilt
<1>2. CASE m.form = "delta"
  <2>1. PICK i \in BaseOf(m) : text = rmlThread.slots[i].text \o <<m.edit>>
    BY <1>2 DEF Rebuilt
  <2>. DEFINE e == rmlThread.slots[i]
  <2>2. i \in RmlSlots /\ e.used /\ e.edit + 1 = m.edit
    BY <2>1 DEF BaseOf, EntriesOf, RmlInv, RmlThreadTrue
  <2>3. e.edit \in Edits /\ e.text = TrueText(e.edit)
    BY <2>2 DEF RmlInv, RmlThreadTrue, RmlEntryTrue
  <2>. HIDE DEF e
  <2>4. PICK k \in Nat : k = e.edit
    BY <2>3, RmlConstants
  <2>5. TrueText(k) \o <<k + 1>> = TrueText(k + 1)
    BY DEF TrueText
  <2>6. text = e.text \o <<m.edit>>
    BY <2>1 DEF e
  <2>. QED  BY <2>2, <2>3, <2>4, <2>5, <2>6
<1>. QED  BY <1>1, <1>2

\* A stored frame keeps the cache true and is in it.
LEMMA StoredTrue ==
  ASSUME RmlInv, NEW m \in RmlFrames, NEW text, text = TrueText(m.edit)
  PROVE  /\ RmlThreadTrue(ThreadStored(m, text))
         /\ \E i \in RmlSlots : /\ ThreadStored(m, text).slots[i].used
                                /\ ThreadStored(m, text).slots[i].of = m.thread
<1>. DEFINE yes == TRUE
            entry == [used |-> yes, of |-> m.thread, edit |-> m.edit, text |-> text, at |-> rmlNow]
            kept == [i \in RmlSlots |-> IF m.supersedes /\ i \in EntriesOf(m.thread)
                                        THEN RmlUnused ELSE rmlThread.slots[i]]
            old == rmlThread.slots
            next == rmlThread.next
<1>1. /\ rmlThread = [slots |-> old, next |-> next] /\ old = [i \in RmlSlots |-> old[i]]
      /\ next \in RmlSlots /\ \A i \in RmlSlots : RmlEntryTrue(old[i])
      /\ DOMAIN old = RmlSlots
  BY DEF RmlInv, RmlThreadTrue
<1>2. ThreadStored(m, text) =
        IF SameMsg(m) # {} THEN [rmlThread EXCEPT !.slots[Min(SameMsg(m))] = entry]
        ELSE [slots |-> [kept EXCEPT ![next] = entry], next |-> RingAfter(next, ThreadSize)]
  BY <1>1 DEF ThreadStored
<1>3. yes
  OBVIOUS
<1>4. m.thread \in RmlThreads /\ m.edit \in Edits /\ rmlNow \in 0 .. RmlMod - 1
  BY DEF RmlFrames, RmlInv
<1>. HIDE DEF yes
<1>5. RmlEntryTrue(entry) /\ entry.used /\ entry.of = m.thread
  BY <1>3, <1>4 DEF RmlEntryTrue
<1>. HIDE DEF entry, old, next
<1>6. CASE SameMsg(m) # {}
  <2>. DEFINE i0 == Min(SameMsg(m))
              new == [old EXCEPT ![i0] = entry]
  <2>1. SameMsg(m) \subseteq RmlSlots
    BY <1>1 DEF SameMsg, EntriesOf, old
  <2>2. i0 \in RmlSlots
    <3>. DEFINE S == SameMsg(m)
                f == [i \in S |-> i]
    <3>1. \A i \in S : f[i] \in Nat
      BY <2>1 DEF RmlSlots
    <3>. HIDE DEF S
    <3>2. \E i \in S : \A j \in S : f[i] <= f[j]
      <4>. HIDE DEF f
      <4>. QED  BY <1>6, <3>1, LeastMember DEF S
    <3>3. \E i \in S : \A j \in S : i <= j
      BY <3>2
    <3>4. i0 = CHOOSE i \in S : \A j \in S : i <= j
      BY DEF Min, S
    <3>5. i0 \in S
      BY <3>3, <3>4
    <3>. QED  BY <2>1, <3>5 DEF S
  <2>3. ThreadStored(m, text) = [slots |-> new, next |-> next]
    BY <1>1, <1>2, <1>6
  <2>. HIDE DEF i0
  <2>4. /\ new = [i \in RmlSlots |-> new[i]] /\ new[i0] = entry
        /\ \A i \in RmlSlots : new[i] \in {entry, old[i]}
    BY <1>1, <2>2
  <2>. HIDE DEF new
  <2>5. ThreadStored(m, text).slots = new /\ ThreadStored(m, text).next = next
    BY <2>3
  <2>6. \A i \in RmlSlots : RmlEntryTrue(new[i])
    BY <1>1, <1>5, <2>4
  <2>. QED  BY <1>1, <1>5, <2>2, <2>3, <2>4, <2>5, <2>6 DEF RmlThreadTrue
<1>7. CASE SameMsg(m) = {}
  <2>. DEFINE new == [kept EXCEPT ![next] = entry]
              after == RingAfter(next, ThreadSize)
  <2>1. ThreadStored(m, text) = [slots |-> new, next |-> after]
    BY <1>2, <1>7
  <2>2. after \in RmlSlots
    BY <1>1, RmlConstants DEF RingAfter, RmlSlots
  <2>3. \A i \in RmlSlots : kept[i] \in {RmlUnused, old[i]}
    BY DEF old
  <2>4. DOMAIN kept = RmlSlots
    OBVIOUS
  <2>. HIDE DEF kept, after
  <2>5. /\ new = [i \in RmlSlots |-> new[i]] /\ new[next] = entry
        /\ \A i \in RmlSlots : new[i] \in {entry, RmlUnused, old[i]}
    BY <1>1, <2>3, <2>4
  <2>. HIDE DEF new
  <2>6. ThreadStored(m, text).slots = new /\ ThreadStored(m, text).next = after
    BY <2>1
  <2>7. RmlEntryTrue(RmlUnused)
    BY DEF RmlEntryTrue, RmlUnused
  <2>8. \A i \in RmlSlots : RmlEntryTrue(new[i])
    BY <1>1, <1>5, <2>5, <2>7
  <2>. QED  BY <1>1, <1>5, <2>1, <2>2, <2>5, <2>6, <2>8 DEF RmlThreadTrue
<1>. QED  BY <1>6, <1>7

\* A thread that has entries has a newest one.
LEMMA NewestIs ==
  ASSUME NEW thread, RmlThreadTrue(thread), NEW t, NEW k \in RmlSlots,
         thread.slots[k].used, thread.slots[k].of = t
  PROVE  Newest(thread, t) \in RmlSlots /\ thread.slots[Newest(thread, t)].used
<1>. DEFINE S == {i \in RmlSlots : thread.slots[i].used /\ thread.slots[i].of = t}
            at(i) == thread.slots[i].at
            T == {at(i) : i \in S}
<1>1. \A i \in S : at(i) \in 0 .. RmlMod - 1
  BY DEF RmlThreadTrue, RmlEntryTrue
<1>2. S \subseteq 0 .. ThreadSize /\ k \in S
  BY RmlConstants DEF RmlSlots
<1>3. T \subseteq 0 .. RmlMod /\ T # {}
  <2>1. at(k) \in T
    BY <1>2
  <2>2. ASSUME NEW i \in S PROVE at(i) \in 0 .. RmlMod
    BY <1>1, RmlConstants
  <2>3. \A x \in T : \E i \in S : x = at(i)
    OBVIOUS
  <2>. HIDE DEF T, S, at
  <2>. QED  BY <2>1, <2>2, <2>3
<1>. DEFINE newest(i) == \A j \in S : at(j) <= at(i)
<1>4. PICK x \in T : \A y \in T : x >= y
  <2>. HIDE DEF T
  <2>. QED  BY <1>3, RmlConstants, GreatestMember
<1>5. PICK i \in S : x = at(i)
  BY <1>4
<1>6. newest(i)
  BY <1>1, <1>4, <1>5, RmlConstants
<1>. DEFINE L == {j \in S : newest(j)}
<1>. HIDE DEF T, newest
<1>7. L # {} /\ L \subseteq 0 .. ThreadSize
  BY <1>2, <1>6
<1>8. PICK n \in L : \A j \in L : n >= j
  <2>. HIDE DEF L
  <2>. QED  BY <1>7, RmlConstants, GreatestMember
<1>9. \A j \in S : at(j) < at(n) \/ (at(j) = at(n) /\ j <= n)
  <2>. SUFFICES ASSUME NEW j \in S, ~(at(j) < at(n)) PROVE at(j) = at(n) /\ j <= n
    OBVIOUS
  <2>. HIDE DEF at, S
  <2>0. n \in S /\ n \in Nat /\ j \in Nat
    BY <1>2, <1>8
  <2>1. at(n) \in Nat /\ at(j) \in Nat /\ \A q \in S : at(q) \in Nat
    BY <1>1, <2>0, RmlConstants
  <2>2. at(j) = at(n)
    BY <1>8, <2>1 DEF newest
  <2>3. newest(j)
    BY <1>8, <2>2 DEF newest
  <2>. QED  BY <1>8, <2>0, <2>2, <2>3
<1>10. DOMAIN thread.slots = RmlSlots
  BY DEF RmlThreadTrue
<1>. DEFINE Best(c) == LET e == thread.slots[c] IN
                       /\ e.used /\ e.of = t
                       /\ \A j \in RmlSlots :
                            LET f == thread.slots[j] IN
                            f.used /\ f.of = t => f.at < e.at \/ (f.at = e.at /\ j <= c)
<1>11. Best(n) /\ n \in RmlSlots
  BY <1>8, <1>9
<1>12. Newest(thread, t) = CHOOSE c \in RmlSlots : Best(c)
  BY <1>10 DEF Newest
<1>13. Newest(thread, t) \in RmlSlots /\ Best(Newest(thread, t))
  <2>. HIDE DEF Best
  <2>. QED  BY <1>11, <1>12
<1>. QED  BY <1>13

LEMMA AcceptTrue ==
  ASSUME RmlInv, NEW m \in RmlFrames, NEW relay \in BOOLEAN, RmlAccept(m, relay)
  PROVE  RmlInv'
<1>1. PICK text \in Rebuilt(m) :
        /\ rmlThread' = ThreadStored(m, text)
        /\ rmlRelay' = IF ~relay THEN rmlRelay
                       ELSE IF m.form # "delta" THEN text
                       ELSE rmlThread'.slots[Newest(rmlThread', m.thread)].text
  BY DEF RmlAccept
<1>2. text = TrueText(m.edit)
  BY RebuiltTrue
<1>3. PICK thread : thread = ThreadStored(m, text)
  OBVIOUS
<1>4. /\ RmlThreadTrue(thread)
      /\ \E i \in RmlSlots : thread.slots[i].used /\ thread.slots[i].of = m.thread
  BY <1>2, <1>3, StoredTrue
<1>. DEFINE e == thread.slots[Newest(thread, m.thread)]
<1>5. e.edit \in Edits /\ e.text = TrueText(e.edit)
  <2>1. Newest(thread, m.thread) \in RmlSlots /\ e.used
    BY <1>4, NewestIs
  <2>. QED  BY <1>4, <2>1 DEF RmlThreadTrue, RmlEntryTrue
<1>6. rmlRelay' \in {rmlRelay, text, e.text}
  BY <1>1, <1>3
<1>. HIDE DEF e
<1>7. m.edit \in 0 .. MaxEdits /\ e.edit \in 0 .. MaxEdits
  <2>1. m.edit \in Edits
    BY DEF RmlFrames
  <2>. QED  BY <1>5, <2>1, RmlConstants
<1>8. \E k \in 0 .. MaxEdits : rmlRelay' = TrueText(k)
  BY <1>2, <1>5, <1>6, <1>7 DEF RmlInv
<1>9. rmlNow' = rmlNow /\ rmlThread' = thread
  BY <1>1, <1>3 DEF RmlAccept
<1>10. RmlThreadTrue(rmlThread)'
  BY <1>4, <1>9 DEF RmlThreadTrue
<1>. QED  BY <1>8, <1>9, <1>10 DEF RmlInv, TrueText

LEMMA RmlInductive == RmlInv /\ [RmlNext]_rmlVars => RmlInv'
<1>. SUFFICES ASSUME RmlInv, [RmlNext]_rmlVars PROVE RmlInv'
  OBVIOUS
<1>1. ASSUME rmlThread' = rmlThread, rmlRelay' = rmlRelay, rmlNow' \in 0 .. RmlMod - 1
      PROVE  RmlInv'
  <2>1. RmlThreadTrue(rmlThread)'
    BY <1>1 DEF RmlInv, RmlThreadTrue
  <2>. QED  BY <1>1, <2>1 DEF RmlInv, TrueText
<1>2. rmlNow \in 0 .. RmlMod - 1
  BY DEF RmlInv
<1>3. ASSUME NEW m \in RmlFrames, RmlPressed(m)
      PROVE  RmlInv'
  BY <1>1, <1>2, <1>3 DEF RmlPressed
<1>4. CASE RmlRefuse \/ UNCHANGED rmlVars
  BY <1>1, <1>2, <1>4 DEF RmlRefuse, rmlVars
<1>5. CASE RmlTick
  <2>1. rmlNow' \in 0 .. RmlMod - 1
    BY <1>2, <1>5, RmlConstants DEF RmlTick
  <2>. QED  BY <1>1, <1>5, <2>1 DEF RmlTick
<1>. QED  BY <1>3, <1>4, <1>5, AcceptTrue DEF RmlNext

LEMMA RmlTrue == RmlInv => TextsTrue
<1>. SUFFICES ASSUME RmlInv PROVE TextsTrue
  OBVIOUS
<1>1. DOMAIN rmlThread.slots = RmlSlots
  BY DEF RmlInv, RmlThreadTrue
<1>. QED  BY <1>1 DEF TextsTrue, RmlInv, RmlThreadTrue, RmlEntryTrue

\* The caches of what was seen and of the statuses keep their types.
RmlTyped ==
  /\ rmlSeen = [ids |-> rmlSeen.ids, next |-> rmlSeen.next] /\ rmlSeen.next \in 1 .. SeenSize
  /\ \A i \in 0 .. StatusSize - 1 :
       rmlStatus[i].used => rmlStatus[i].of \in RmlThreads /\ rmlStatus[i].newest \in Edits
  /\ rmlStatus = [i \in 0 .. StatusSize - 1 |-> rmlStatus[i]]

LEMMA RmlTypedStart == RmlInit => RmlTyped
<1>. SUFFICES ASSUME RmlInit PROVE RmlTyped
  OBVIOUS
<1>. DEFINE ids == [i \in 1 .. SeenSize |-> <<>>]
            st == [i \in 0 .. StatusSize - 1 |-> RmlUnused]
<1>1. rmlSeen = [ids |-> ids, next |-> 1] /\ rmlStatus = st
  BY DEF RmlInit
<1>2. /\ st = [i \in 0 .. StatusSize - 1 |-> st[i]]
      /\ \A i \in 0 .. StatusSize - 1 : st[i] = RmlUnused
  OBVIOUS
<1>3. ~RmlUnused.used
  BY DEF RmlUnused
<1>4. 1 \in 1 .. SeenSize
  BY RmlAssumption
<1>. HIDE DEF ids, st
<1>. QED  BY <1>1, <1>2, <1>3, <1>4 DEF RmlTyped

LEMMA StatusTyped ==
  ASSUME RmlTyped, NEW m \in RmlFrames
  PROVE  LET st == StatusNoted(m) IN
         /\ st = [i \in 0 .. StatusSize - 1 |-> st[i]]
         /\ \A i \in 0 .. StatusSize - 1 :
              st[i].used => st[i].of \in RmlThreads /\ st[i].newest \in Edits
<1>1. CASE ~m.status
  BY <1>1 DEF StatusNoted, RmlTyped
<1>2. CASE m.status
  <2>. DEFINE yes == TRUE
              e == [used |-> yes, of |-> m.thread, newest |-> m.edit]
  <2>1. PICK k : k = StatusSlot(m.thread)
    OBVIOUS
  <2>. DEFINE st == [rmlStatus EXCEPT ![k] = e]
  <2>2. StatusNoted(m) = st
    BY <1>2, <2>1 DEF StatusNoted
  <2>3. rmlStatus = [i \in 0 .. StatusSize - 1 |-> rmlStatus[i]]
    BY DEF RmlTyped
  <2>4. m.thread \in RmlThreads /\ m.edit \in Edits
    BY DEF RmlFrames
  <2>. HIDE DEF yes
  <2>5. e.of \in RmlThreads /\ e.newest \in Edits
    BY <2>4
  <2>. HIDE DEF e
  <2>6. /\ st = [i \in 0 .. StatusSize - 1 |-> st[i]]
        /\ \A i \in 0 .. StatusSize - 1 : st[i] \in {e, rmlStatus[i]}
    BY <2>3
  <2>. HIDE DEF st
  <2>. QED  BY <2>2, <2>5, <2>6 DEF RmlTyped
<1>. QED  BY <1>1, <1>2

LEMMA RmlTypedInductive == RmlTyped /\ [RmlNext]_rmlVars => RmlTyped'
<1>. SUFFICES ASSUME RmlTyped, [RmlNext]_rmlVars PROVE RmlTyped'
  OBVIOUS
<1>1. ASSUME NEW m \in RmlFrames, rmlStatus' = StatusNoted(m),
             rmlSeen' = rmlSeen \/ rmlSeen' = MarkSeen(MsgId(m))
      PROVE  RmlTyped'
  <2>1. PICK ids, next : rmlSeen' = [ids |-> ids, next |-> next] /\ next \in 1 .. SeenSize
    <3>1. rmlSeen.next \in 1 .. SeenSize /\ SeenSize \in Nat \ {0}
      BY RmlAssumption DEF RmlTyped
    <3>2. RingAfter(rmlSeen.next, SeenSize) \in 1 .. SeenSize
      BY <3>1 DEF RingAfter
    <3>. QED  BY <1>1, <3>1, <3>2 DEF RmlTyped, MarkSeen
  <2>2. PICK st : st = StatusNoted(m)
    OBVIOUS
  <2>3. /\ st = [i \in 0 .. StatusSize - 1 |-> st[i]]
        /\ \A i \in 0 .. StatusSize - 1 :
             st[i].used => st[i].of \in RmlThreads /\ st[i].newest \in Edits
    BY <2>2, StatusTyped
  <2>. QED  BY <1>1, <2>1, <2>2, <2>3 DEF RmlTyped
<1>2. ASSUME rmlSeen' = rmlSeen, rmlStatus' = rmlStatus
      PROVE  RmlTyped'
  BY <1>2 DEF RmlTyped
<1>. QED  BY <1>1, <1>2 DEF RmlNext, RmlPressed, RmlAccept, RmlRefuse, RmlTick, rmlVars

LEMMA RmlTypes == RmlInv /\ RmlTyped => RmlTypeOK
  BY DEF RmlInv, RmlTyped, RmlTypeOK, RmlThreadTrue, RmlSlots

-----------------------------------------------------------------------------
(***************************************************************************)
(* The BLE transport.  Whatever lies in the companion queue, and the       *)
(* packet of a tick that has begun, came over the connection that is up,   *)
(* since the last disconnect that found the tick at rest.  Without a       *)
(* connection the handle is none, so that no start is put off for it.      *)
(***************************************************************************)
CpPlaces == 0 .. CpLen - 1

BleIs(b) ==
  /\ b = [active |-> b.active, since |-> b.since, timeout |-> b.timeout]
  /\ b.active \in BOOLEAN /\ b.since \in 0 .. BleMod - 1 /\ b.timeout \in 0 .. BleMod - 1

AdvIs(a) ==
  /\ a = [running |-> a.running, retry |-> a.retry, asked |-> a.asked]
  /\ a.running \in BOOLEAN /\ a.retry \in 0 .. BleMod - 1 /\ a.asked \in {"none", "start", "stop"}

LinkIs(l) ==
  /\ l = [up |-> l.up, conn |-> l.conn, handle |-> l.handle, secured |-> l.secured]
  /\ l.conn \in 0 .. MaxConns /\ l.handle \in {"none", "pending", "open"}

CpIs(c) ==
  /\ c = [head |-> c.head, tail |-> c.tail, session |-> c.session, slots |-> c.slots]
  /\ c.head \in CpPlaces /\ c.tail \in CpPlaces /\ c.session \in BOOLEAN
  /\ c.slots = [s \in CpPlaces |-> c.slots[s]]

TickIs(t) ==
  /\ t = [at |-> t.at, pkt |-> t.pkt, tail |-> t.tail]
  /\ t.at \in {"idle", "claimed", "advanced"} /\ t.tail \in CpPlaces

SeenIs(s) == s = [cut |-> s.cut, stale |-> s.stale, noRetry |-> s.noRetry]

BleShape ==
  /\ stack \in {"esp32", "nrf52"} /\ bleNow \in 0 .. BleMod - 1
  /\ BleIs(ble) /\ AdvIs(adv) /\ LinkIs(link) /\ CpIs(cp) /\ TickIs(cpTick) /\ SeenIs(bleSeen)

\* Slot s lies between tail and head.
Queued(c, s) == IF c.tail <= c.head THEN c.tail <= s /\ s < c.head ELSE c.tail <= s \/ s < c.head

CpCurrent(c, t, l) ==
  /\ c.session => l.up
  /\ c.head # c.tail => l.up
  /\ \A s \in CpPlaces : Queued(c, s) => c.slots[s].conn = l.conn
  /\ t.at # "idle" => l.up /\ t.pkt.conn = l.conn
  /\ t.at = "claimed" => t.tail = c.tail /\ c.head # c.tail

\* A start is asked for or scheduled, or has been done.
OnItsWay(a) == a.running \/ a.asked # "none" \/ a.retry # 0

\* Advertising and the link, for BLE active or not.
FoundInv(active, l, a, lost) ==
  /\ ~l.up => l.handle = "none"
  /\ stack = "nrf52" => a.retry = 0 /\ a.asked = "none"
  /\ active /\ ~l.up /\ ~lost => OnItsWay(a)

BleInv ==
  /\ BleShape
  /\ ~bleSeen.cut => ~bleSeen.stale /\ CpCurrent(cp, cpTick, link)
  /\ FoundInv(ble.active, link, adv, bleSeen.noRetry)

LEMMA BleConstants ==
  /\ BleMod \in Nat \ {0} /\ CpLen \in Nat \ {0} /\ MaxConns \in Nat /\ AdvDelay \in 1 .. BleMod - 1
  /\ CpLen > 1 /\ BleMod > 1 /\ Windows \subseteq 0 .. BleMod - 1
  /\ 0 \in 0 .. BleMod - 1 /\ 0 \in CpPlaces /\ 0 \in 0 .. MaxConns
  /\ Stacks \subseteq {"esp32", "nrf52"}
  BY BleAssumption DEF CpPlaces

LEMMA BleStart == BleInit => BleInv
<1>. SUFFICES ASSUME BleInit PROVE BleInv
  OBVIOUS
<1>. DEFINE no == FALSE
            yes == TRUE
            run == stack = "nrf52"
            window == CHOOSE w \in Windows \cup {0} : \A v \in Windows : v <= w
            time == IF passkey THEN 0 ELSE window
            ask == IF stack = "esp32" THEN "start" ELSE "none"
            slots == [i \in CpPlaces |-> NoPkt]
<1>1. /\ stack \in {"esp32", "nrf52"} /\ bleNow \in 0 .. BleMod - 1
      /\ ble = [active |-> yes, since |-> 0, timeout |-> time]
      /\ adv = [running |-> run, retry |-> 0, asked |-> ask]
      /\ link = [up |-> no, conn |-> 0, handle |-> "none", secured |-> no]
      /\ cp = [head |-> 0, tail |-> 0, session |-> no, slots |-> slots]
      /\ cpTick = [at |-> "idle", pkt |-> NoPkt, tail |-> 0]
      /\ bleSeen = [cut |-> no, stale |-> no, noRetry |-> no]
  BY BleConstants DEF BleInit, NoLink, AtRest, CpPlaces
<1>2. time \in 0 .. BleMod - 1
  <2>. DEFINE S == Windows \cup {0}
  <2>1. S \subseteq 0 .. BleMod /\ S # {} /\ S \subseteq 0 .. BleMod - 1
    BY BleConstants
  <2>. HIDE DEF S
  <2>2. PICK x \in S : \A y \in S : x >= y
    BY <2>1, BleConstants, GreatestMember
  <2>3. \A y \in S : y <= x
    BY <2>1, <2>2, BleConstants
  <2>4. \E w \in S : \A v \in Windows : v <= w
    BY <2>3 DEF S
  <2>5. window \in S
    BY <2>4 DEF S
  <2>. QED  BY <2>1, <2>5, BleConstants
<1>3. /\ no \in BOOLEAN /\ yes \in BOOLEAN /\ run \in BOOLEAN /\ ~no
      /\ ask \in {"none", "start", "stop"} /\ slots = [s \in CpPlaces |-> slots[s]]
      /\ stack = "nrf52" => run /\ ask = "none"
      /\ stack # "nrf52" => ask = "start"
  BY <1>1
<1>. HIDE DEF no, yes, run, time, ask, slots
<1>4. BleIs(ble) /\ AdvIs(adv)
  BY <1>1, <1>2, <1>3, BleConstants DEF BleIs, AdvIs
<1>5. LinkIs(link) /\ CpIs(cp) /\ TickIs(cpTick) /\ SeenIs(bleSeen)
  BY <1>1, <1>3, BleConstants DEF LinkIs, CpIs, TickIs, SeenIs
<1>6. CpCurrent(cp, cpTick, link)
  <2>1. \A s \in CpPlaces : ~Queued(cp, s)
    BY <1>1, BleConstants DEF Queued, CpPlaces
  <2>. QED  BY <1>1, <1>3, <2>1 DEF CpCurrent
<1>7. FoundInv(ble.active, link, adv, bleSeen.noRetry)
  BY <1>1, <1>3 DEF FoundInv, OnItsWay
<1>. QED  BY <1>1, <1>3, <1>4, <1>5, <1>6, <1>7 DEF BleInv, BleShape

LEMMA RetryTime == bleNow \in 0 .. BleMod - 1 => (bleNow + AdvDelay) % BleMod \in 0 .. BleMod - 1
  BY BleConstants

LEMMA ScheduledIs ==
  ASSUME NEW a, AdvIs(a), bleNow \in 0 .. BleMod - 1
  PROVE  LET b == ScheduleRetry(a) IN AdvIs(b) /\ b.running = a.running /\ b.asked = a.asked
<1>. DEFINE t == (bleNow + AdvDelay) % BleMod
            b == [running |-> a.running, retry |-> t, asked |-> a.asked]
<1>1. t \in 0 .. BleMod - 1
  BY RetryTime
<1>2. ScheduleRetry(a) = b
  BY DEF ScheduleRetry, AdvIs
<1>. HIDE DEF t
<1>3. b.running = a.running /\ b.retry = t /\ b.asked = a.asked
  OBVIOUS
<1>4. b = [running |-> b.running, retry |-> b.retry, asked |-> b.asked]
  OBVIOUS
<1>. HIDE DEF b
<1>. QED  BY <1>1, <1>2, <1>3, <1>4 DEF AdvIs

\* The ways in which the code changes the advertising record.
LEMMA AdvFree ==
  ASSUME NEW a, AdvIs(a), NEW b, b = [a EXCEPT !.retry = 0]
  PROVE  AdvIs(b) /\ b.running = a.running /\ b.retry = 0 /\ b.asked = a.asked
<1>1. a = [running |-> a.running, retry |-> a.retry, asked |-> a.asked]
  BY DEF AdvIs
<1>2. /\ b.running = a.running /\ b.retry = 0 /\ b.asked = a.asked
      /\ b = [running |-> b.running, retry |-> b.retry, asked |-> b.asked]
  BY <1>1
<1>. QED  BY <1>2, BleConstants DEF AdvIs

LEMMA AdvAsk ==
  ASSUME NEW a, AdvIs(a), NEW ask \in {"none", "start", "stop"}, NEW b,
         b = [a EXCEPT !.retry = 0, !.asked = ask]
  PROVE  AdvIs(b) /\ b.running = a.running /\ b.retry = 0 /\ b.asked = ask
<1>1. a = [running |-> a.running, retry |-> a.retry, asked |-> a.asked]
  BY DEF AdvIs
<1>2. /\ b.running = a.running /\ b.retry = 0 /\ b.asked = ask
      /\ b = [running |-> b.running, retry |-> b.retry, asked |-> b.asked]
  BY <1>1
<1>. QED  BY <1>2, BleConstants DEF AdvIs

LEMMA AdvRun ==
  ASSUME NEW a, AdvIs(a), NEW run \in BOOLEAN, NEW b,
         b = [a EXCEPT !.running = run]
  PROVE  AdvIs(b) /\ b.running = run /\ b.retry = a.retry /\ b.asked = a.asked
<1>1. a = [running |-> a.running, retry |-> a.retry, asked |-> a.asked]
  BY DEF AdvIs
<1>2. /\ b.running = run /\ b.retry = a.retry /\ b.asked = a.asked
      /\ b = [running |-> b.running, retry |-> b.retry, asked |-> b.asked]
  BY <1>1
<1>. QED  BY <1>2, BleConstants DEF AdvIs

LEMMA AdvAnswer ==
  ASSUME NEW a, AdvIs(a), NEW run \in BOOLEAN, NEW b,
         b = [a EXCEPT !.asked = "none", !.running = run]
  PROVE  AdvIs(b) /\ b.running = run /\ b.retry = a.retry /\ b.asked = "none"
<1>1. a = [running |-> a.running, retry |-> a.retry, asked |-> a.asked]
  BY DEF AdvIs
<1>2. /\ b.running = run /\ b.retry = a.retry /\ b.asked = "none"
      /\ b = [running |-> b.running, retry |-> b.retry, asked |-> b.asked]
  BY <1>1
<1>. QED  BY <1>2, BleConstants DEF AdvIs

LEMMA AdvTaken ==
  ASSUME NEW a, AdvIs(a), NEW run \in BOOLEAN, NEW b,
         b = [a EXCEPT !.running = run, !.retry = 0]
  PROVE  AdvIs(b) /\ b.running = run /\ b.retry = 0 /\ b.asked = a.asked
<1>1. a = [running |-> a.running, retry |-> a.retry, asked |-> a.asked]
  BY DEF AdvIs
<1>2. /\ b.running = run /\ b.retry = 0 /\ b.asked = a.asked
      /\ b = [running |-> b.running, retry |-> b.retry, asked |-> b.asked]
  BY <1>1, Zenon
<1>. QED  BY <1>2, BleConstants DEF AdvIs

\* What a start of the ESP32 makes of the advertising.
LEMMA StartAdvIs ==
  ASSUME NEW a, AdvIs(a), NEW active, NEW handle, NEW ok \in BOOLEAN, bleNow \in 0 .. BleMod - 1
  PROVE  LET b == StartAdv_esp32(active, handle, a, ok) IN
         /\ AdvIs(b)
         /\ active /\ handle = "none" => b.running \/ b.asked = "start" \/ ~ok
<1>. DEFINE b == StartAdv_esp32(active, handle, a, ok)
            free == [a EXCEPT !.retry = 0]
            asked == [a EXCEPT !.retry = 0, !.asked = "start"]
<1>1. AdvIs(free) /\ AdvIs(asked) /\ asked.asked = "start"
  BY AdvFree, AdvAsk, ZenonT(20)
<1>2. AdvIs(ScheduleRetry(free))
  BY <1>1, ScheduledIs
<1>. HIDE DEF free, asked
<1>3. CASE ~active \/ handle # "none" \/ a.running
  <2>1. b = a
    BY <1>3 DEF StartAdv_esp32
  <2>. QED  BY <1>3, <2>1
<1>4. CASE ~(~active \/ handle # "none" \/ a.running) /\ ok
  <2>1. b = asked
    BY <1>4 DEF StartAdv_esp32, asked
  <2>. QED  BY <1>1, <2>1
<1>5. CASE ~(~active \/ handle # "none" \/ a.running) /\ ~ok
  <2>1. b = ScheduleRetry(free)
    BY <1>5 DEF StartAdv_esp32, free
  <2>. QED  BY <1>2, <1>5, <2>1
<1>. QED  BY <1>3, <1>4, <1>5

\* What the settings of the advertising record of the retries that are lost.
LEMMA SeenKept ==
  ASSUME SeenIs(bleSeen), NEW lost, bleSeen' = [bleSeen EXCEPT !.noRetry = lost]
  PROVE  /\ SeenIs(bleSeen') /\ bleSeen'.cut = bleSeen.cut /\ bleSeen'.stale = bleSeen.stale
         /\ bleSeen'.noRetry = lost
<1>1. bleSeen' = [cut |-> bleSeen.cut, stale |-> bleSeen.stale, noRetry |-> lost]
  BY DEF SeenIs
<1>. QED  BY <1>1 DEF SeenIs

LEMMA SetAdvSeen ==
  ASSUME SeenIs(bleSeen), NEW a, SetAdv(a)
  PROVE  /\ adv' = a /\ SeenIs(bleSeen') /\ bleSeen'.cut = bleSeen.cut
         /\ bleSeen'.stale = bleSeen.stale
         /\ OnItsWay(a) \/ bleSeen'.noRetry = bleSeen.noRetry
<1>. DEFINE no == FALSE
            lost == IF a.asked # "none" \/ a.running THEN no ELSE bleSeen.noRetry
<1>1. adv' = a /\ bleSeen' = [bleSeen EXCEPT !.noRetry = lost]
  BY DEF SetAdv
<1>2. OnItsWay(a) \/ lost = bleSeen.noRetry
  BY DEF OnItsWay
<1>. HIDE DEF lost
<1>. QED  BY <1>1, <1>2, SeenKept

LEMMA SetRetrySeen ==
  ASSUME SeenIs(bleSeen), NEW a, SetRetry(a), stack = "esp32"
  PROVE  /\ adv' = ScheduleRetry(a) /\ SeenIs(bleSeen') /\ bleSeen'.cut = bleSeen.cut
         /\ bleSeen'.stale = bleSeen.stale
         /\ OnItsWay(adv') \/ bleSeen'.noRetry
<1>. DEFINE lost == RetryLost(ScheduleRetry(a))
<1>1. adv' = ScheduleRetry(a) /\ bleSeen' = [bleSeen EXCEPT !.noRetry = lost]
  BY DEF SetRetry
<1>2. OnItsWay(adv') \/ lost
  BY <1>1 DEF OnItsWay, RetryLost
<1>. HIDE DEF lost
<1>. QED  BY <1>1, <1>2, SeenKept

LEMMA SetStartedSeen ==
  ASSUME SeenIs(bleSeen), NEW a, NEW ok, SetStarted(a, ok), stack \in {"esp32", "nrf52"}
  PROVE  /\ adv' = a /\ SeenIs(bleSeen') /\ bleSeen'.cut = bleSeen.cut
         /\ bleSeen'.stale = bleSeen.stale
         /\ OnItsWay(a) \/ bleSeen'.noRetry
              \/ ((ok \/ stack = "nrf52") /\ bleSeen'.noRetry = bleSeen.noRetry)
<1>1. CASE ok \/ stack = "nrf52" \/ a.retry # 0
  <2>1. SetAdv(a)
    BY <1>1 DEF SetStarted
  <2>2. a.retry # 0 => OnItsWay(a)
    BY DEF OnItsWay
  <2>. QED  BY <1>1, <2>1, <2>2, SetAdvSeen
<1>2. CASE ~(ok \/ stack = "nrf52" \/ a.retry # 0)
  <2>. DEFINE lost == bleSeen.noRetry \/ RetryLost(a)
  <2>1. adv' = a /\ bleSeen' = [bleSeen EXCEPT !.noRetry = lost]
    BY <1>2 DEF SetStarted
  <2>2. OnItsWay(a) \/ lost
    BY <1>2 DEF OnItsWay, RetryLost
  <2>. HIDE DEF lost
  <2>. QED  BY <2>1, <2>2, SeenKept
<1>. QED  BY <1>1, <1>2

\* A step that leaves the companion and the connection alone.
LEMMA BleKeeps ==
  ASSUME BleInv, UNCHANGED <<stack, cp, cpTick>>, bleNow' \in 0 .. BleMod - 1,
         BleIs(ble'), AdvIs(adv'), LinkIs(link'), SeenIs(bleSeen'),
         link'.up = link.up, link'.conn = link.conn, bleSeen'.cut = bleSeen.cut,
         bleSeen'.stale = bleSeen.stale,
         FoundInv(ble.active, link, adv, bleSeen.noRetry)'
  PROVE  BleInv'
<1>1. BleShape'
  BY DEF BleInv, BleShape, BleIs, AdvIs, LinkIs, CpIs, TickIs, SeenIs
<1>2. CpCurrent(cp, cpTick, link) => CpCurrent(cp, cpTick, link)'
  BY DEF CpCurrent, Queued
<1>. QED  BY <1>1, <1>2 DEF BleInv

LEMMA StopAdvIs ==
  ASSUME NEW a, AdvIs(a), stack \in {"esp32", "nrf52"},
         stack = "nrf52" => a.retry = 0 /\ a.asked = "none"
  PROVE  LET b == StopAdv(a) IN
         AdvIs(b) /\ (stack = "nrf52" => b.retry = 0 /\ b.asked = "none")
<1>. DEFINE no == FALSE
            off == [a EXCEPT !.running = no]
            ask == IF a.running THEN "stop" ELSE a.asked
            stop == [a EXCEPT !.retry = 0, !.asked = ask]
<1>1. no \in BOOLEAN /\ ask \in {"none", "start", "stop"}
  BY DEF AdvIs
<1>2. StopAdv(a) = IF stack = "nrf52" THEN off ELSE stop
  BY DEF StopAdv
<1>. HIDE DEF no, ask
<1>3. AdvIs(off) /\ off.retry = a.retry /\ off.asked = a.asked
  BY <1>1, AdvRun, ZenonT(60)
<1>4. AdvIs(stop)
  BY <1>1, AdvAsk, Zenon
<1>. HIDE DEF off, stop
<1>. QED  BY <1>2, <1>3, <1>4

LEMMA LinkSet ==
  ASSUME NEW handle \in {"none", "pending", "open"}, LinkIs(link), NEW secured, NEW l,
         \/ l = [link EXCEPT !.handle = handle]
         \/ l = [link EXCEPT !.secured = secured, !.handle = handle]
  PROVE  LinkIs(l) /\ l.up = link.up /\ l.conn = link.conn /\ l.handle = handle
<1>1. link = [up |-> link.up, conn |-> link.conn, handle |-> link.handle, secured |-> link.secured]
  BY DEF LinkIs
<1>2. CASE l = [link EXCEPT !.handle = handle]
  <2>1. /\ l.up = link.up /\ l.conn = link.conn /\ l.handle = handle
        /\ l = [up |-> l.up, conn |-> l.conn, handle |-> l.handle, secured |-> l.secured]
    BY <1>1, <1>2
  <2>. QED  BY <2>1 DEF LinkIs
<1>3. CASE l = [link EXCEPT !.secured = secured, !.handle = handle]
  <2>1. /\ l.up = link.up /\ l.conn = link.conn /\ l.handle = handle
        /\ l = [up |-> l.up, conn |-> l.conn, handle |-> l.handle, secured |-> l.secured]
    BY <1>1, <1>3
  <2>. QED  BY <2>1 DEF LinkIs
<1>. QED  BY <1>2, <1>3

LEMMA ClosedIs ==
  ASSUME LinkIs(link)
  PROVE  /\ LinkIs(Closed) /\ Closed.up = link.up /\ Closed.conn = link.conn
         /\ link.handle = "none" => Closed.handle = "none"
<1>. DEFINE handle == IF link.handle = "open" THEN "none" ELSE link.handle
            l == [link EXCEPT !.handle = handle]
<1>1. handle \in {"none", "pending", "open"} /\ (link.handle = "none" => handle = "none")
  BY DEF LinkIs
<1>2. Closed = l
  BY DEF Closed
<1>. HIDE DEF handle
<1>3. LinkIs(l) /\ l.up = link.up /\ l.conn = link.conn /\ l.handle = handle
  BY <1>1, LinkSet, Zenon
<1>. QED  BY <1>1, <1>2, <1>3

LEMMA ActiveIs ==
  ASSUME NEW on \in BOOLEAN, NEW s \in 0 .. BleMod - 1, NEW w \in 0 .. BleMod - 1
  PROVE  LET b == [active |-> on, since |-> s, timeout |-> w] IN BleIs(b) /\ b.active = on
  BY DEF BleIs

LEMMA DeactivatedIs ==
  ASSUME BleIs(ble)
  PROVE  BleIs(Deactivated) /\ ~Deactivated.active
<1>. DEFINE no == FALSE
            b == [active |-> no, since |-> ble.since, timeout |-> 0]
<1>1. Deactivated = b /\ no \in BOOLEAN /\ ~no
  BY DEF Deactivated
<1>. HIDE DEF no
<1>2. BleIs(b) /\ b.active = no
  BY <1>1, BleConstants, ActiveIs DEF BleIs
<1>. QED  BY <1>1, <1>2

LEMMA StartedIs ==
  ASSUME BleIs(ble), bleNow \in 0 .. BleMod - 1, NEW b, b = [ble EXCEPT !.since = Started]
  PROVE  BleIs(b) /\ b.active = ble.active
<1>. DEFINE s == Started
<1>1. s \in 0 .. BleMod - 1
  BY DEF Started, BleIs
<1>. HIDE DEF s
<1>2. ble = [active |-> ble.active, since |-> ble.since, timeout |-> ble.timeout]
  BY DEF BleIs
<1>3. /\ b.active = ble.active /\ b.since = s /\ b.timeout = ble.timeout
      /\ b = [active |-> b.active, since |-> b.since, timeout |-> b.timeout]
  BY <1>2 DEF s
<1>. QED  BY <1>1, <1>3 DEF BleIs

\* The record of the retries is as it was, or one more retry is lost.
LEMMA BleTickKeeps == ASSUME NEW ok \in BOOLEAN, BleInv, BleTick(ok) PROVE BleInv'
<1>. DEFINE free == [adv EXCEPT !.retry = 0]
            retried == IF RetryDue THEN StartAdv_esp32(TRUE, link.handle, free, ok) ELSE adv
<1>1. /\ stack \in {"esp32", "nrf52"} /\ bleNow \in 0 .. BleMod - 1 /\ BleIs(ble)
      /\ AdvIs(adv) /\ LinkIs(link) /\ SeenIs(bleSeen)
      /\ FoundInv(ble.active, link, adv, bleSeen.noRetry)
  BY DEF BleInv, BleShape
<1>2. /\ ble.active /\ UNCHANGED <<stack, cp, cpTick, bleNow>>
      /\ ble' = IF WindowOver THEN Deactivated ELSE [ble EXCEPT !.since = Started]
      /\ IF WindowOver THEN SetAdv(StopAdv(retried)) ELSE SetStarted(retried, ok)
      /\ link' = IF WindowOver /\ stack = "nrf52" THEN Closed ELSE link
  BY DEF BleTick
<1>3. /\ AdvIs(retried) /\ (stack = "nrf52" => retried.retry = 0 /\ retried.asked = "none")
      /\ ~link.up => \/ retried.running \/ retried.asked = "start" \/ ~ok
                     \/ retried = adv
  <2>1. AdvIs(free)
    BY <1>1, AdvFree
  <2>2. /\ AdvIs(StartAdv_esp32(TRUE, link.handle, free, ok))
        /\ link.handle = "none" => \/ StartAdv_esp32(TRUE, link.handle, free, ok).running
                                   \/ StartAdv_esp32(TRUE, link.handle, free, ok).asked = "start"
                                   \/ ~ok
    BY <1>1, <2>1, StartAdvIs
  <2>3. stack = "nrf52" => ~RetryDue /\ adv.retry = 0 /\ adv.asked = "none"
    BY <1>1 DEF RetryDue, FoundInv
  <2>4. ~link.up => link.handle = "none"
    BY <1>1 DEF FoundInv
  <2>. HIDE DEF free
  <2>5. CASE RetryDue
    <3>1. retried = StartAdv_esp32(TRUE, link.handle, free, ok)
      BY <2>5
    <3>. QED  BY <2>2, <2>3, <2>4, <2>5, <3>1
  <2>6. CASE ~RetryDue
    <3>1. retried = adv
      BY <2>6
    <3>. QED  BY <1>1, <2>3, <3>1
  <2>. QED  BY <2>5, <2>6
<1>. HIDE DEF retried
<1>4. /\ LinkIs(link') /\ link'.up = link.up /\ link'.conn = link.conn
      /\ (~link'.up => link'.handle = "none")
  BY <1>1, <1>2, ClosedIs DEF FoundInv
<1>5. CASE WindowOver
  <2>1. /\ AdvIs(StopAdv(retried))
        /\ stack = "nrf52" => StopAdv(retried).retry = 0 /\ StopAdv(retried).asked = "none"
    BY <1>1, <1>3, StopAdvIs
  <2>2. /\ adv' = StopAdv(retried) /\ SeenIs(bleSeen') /\ bleSeen'.cut = bleSeen.cut
        /\ bleSeen'.stale = bleSeen.stale
    BY <1>1, <1>2, <1>5, SetAdvSeen
  <2>3. BleIs(ble') /\ ~ble'.active
    BY <1>1, <1>2, <1>5, DeactivatedIs
  <2>4. FoundInv(ble.active, link, adv, bleSeen.noRetry)'
    BY <1>2, <1>4, <2>1, <2>2, <2>3 DEF FoundInv
  <2>. QED  BY <1>1, <1>2, <1>4, <2>1, <2>2, <2>3, <2>4, BleKeeps
<1>6. CASE ~WindowOver
  <2>1. BleIs(ble') /\ ble'.active
    BY <1>1, <1>2, <1>6, StartedIs
  <2>2. /\ adv' = retried /\ SeenIs(bleSeen') /\ bleSeen'.cut = bleSeen.cut
        /\ bleSeen'.stale = bleSeen.stale
        /\ OnItsWay(retried) \/ bleSeen'.noRetry
             \/ ((ok \/ stack = "nrf52") /\ bleSeen'.noRetry = bleSeen.noRetry)
    BY <1>1, <1>2, <1>6, SetStartedSeen
  <2>3. ~link.up /\ ~bleSeen'.noRetry => OnItsWay(retried)
    <3>1. ~link.up /\ ~bleSeen.noRetry => OnItsWay(adv)
      BY <1>1, <1>2 DEF FoundInv
    <3>2. retried.running \/ retried.asked = "start" => OnItsWay(retried)
      BY DEF OnItsWay
    <3>3. stack = "nrf52" => retried = adv
      BY <1>1 DEF RetryDue, FoundInv, retried
    <3>. QED  BY <1>3, <2>2, <3>1, <3>2, <3>3
  <2>4. FoundInv(ble.active, link, adv, bleSeen.noRetry)'
    BY <1>2, <1>3, <1>4, <2>2, <2>3 DEF FoundInv
  <2>. QED  BY <1>1, <1>2, <1>3, <1>4, <2>1, <2>2, <2>4, BleKeeps
<1>. QED  BY <1>5, <1>6

LEMMA BleClockKeeps == ASSUME BleInv, BleClock PROVE BleInv'
<1>1. bleNow' \in 0 .. BleMod - 1
  BY BleConstants, ClockNext DEF BleInv, BleShape, BleClock
<1>2. UNCHANGED <<stack, ble, adv, link, cp, cpTick, bleSeen>>
  BY DEF BleClock
<1>. QED  BY <1>1, <1>2, BleKeeps
         DEF BleInv, BleShape, BleIs, AdvIs, LinkIs, SeenIs, FoundInv, OnItsWay

\* A start of the ESP32 with BLE active or not and the connection as it is.
LEMMA StartKeeps ==
  ASSUME BleInv, NEW ok \in BOOLEAN, NEW a, AdvIs(a), stack = "esp32",
         UNCHANGED <<stack, cp, cpTick, bleNow>>, BleIs(ble'), LinkIs(link'),
         link'.up = link.up, link'.conn = link.conn, ~link.up => link'.handle = "none",
         SetStarted(StartAdv_esp32(ble'.active, link'.handle, a, ok), ok)
  PROVE  BleInv'
<1>. DEFINE b == StartAdv_esp32(ble'.active, link'.handle, a, ok)
<1>1. stack \in {"esp32", "nrf52"} /\ bleNow \in 0 .. BleMod - 1 /\ SeenIs(bleSeen)
  BY DEF BleInv, BleShape
<1>2. /\ AdvIs(b)
      /\ ble'.active /\ link'.handle = "none" => b.running \/ b.asked = "start" \/ ~ok
  BY <1>1, StartAdvIs
<1>. HIDE DEF b
<1>3. /\ adv' = b /\ SeenIs(bleSeen') /\ bleSeen'.cut = bleSeen.cut
      /\ bleSeen'.stale = bleSeen.stale
      /\ OnItsWay(b) \/ bleSeen'.noRetry
           \/ ((ok \/ stack = "nrf52") /\ bleSeen'.noRetry = bleSeen.noRetry)
  BY <1>1, SetStartedSeen DEF b
<1>4. b.running \/ b.asked = "start" => OnItsWay(b)
  BY DEF OnItsWay
<1>5. FoundInv(ble.active, link, adv, bleSeen.noRetry)'
  BY <1>2, <1>3, <1>4 DEF FoundInv
<1>. QED  BY <1>1, <1>2, <1>3, <1>5, BleKeeps

LEMMA BleActivateKeeps ==
  ASSUME BleInv, NEW w \in Windows, NEW ok \in BOOLEAN,
         BleActivate_esp32(w, ok) \/ BleActivate_nrf52(w)
  PROVE  BleInv'
<1>. DEFINE yes == TRUE
            start == [active |-> yes, since |-> 0, timeout |-> w]
            free == [adv EXCEPT !.retry = 0]
            open == ~link.up
            run == [adv EXCEPT !.running = open]
<1>1. /\ yes /\ yes \in BOOLEAN /\ w \in 0 .. BleMod - 1 /\ open \in BOOLEAN
      /\ stack \in {"esp32", "nrf52"} /\ bleNow \in 0 .. BleMod - 1
      /\ AdvIs(adv) /\ LinkIs(link) /\ SeenIs(bleSeen)
      /\ FoundInv(ble.active, link, adv, bleSeen.noRetry)
  BY BleConstants DEF BleInv, BleShape
<1>2. ble' = start /\ UNCHANGED <<stack, link, cp, cpTick, bleNow>>
  BY DEF BleActivate_esp32, BleActivate_nrf52
<1>3. CASE BleActivate_esp32(w, ok)
  <2>1. stack = "esp32" /\ SetStarted(StartAdv_esp32(yes, link.handle, free, ok), ok)
    BY <1>3 DEF BleActivate_esp32
  <2>. HIDE DEF yes, free
  <2>2. BleIs(start) /\ start.active = yes
    BY <1>1, BleConstants, ActiveIs
  <2>3. AdvIs(free)
    BY <1>1, AdvFree DEF free
  <2>. HIDE DEF start
  <2>4. ~link.up => link'.handle = "none"
    BY <1>1, <1>2 DEF FoundInv
  <2>5. /\ BleIs(ble') /\ LinkIs(link') /\ link'.up = link.up /\ link'.conn = link.conn
        /\ SetStarted(StartAdv_esp32(ble'.active, link'.handle, free, ok), ok)
    BY <1>1, <1>2, <2>1, <2>2
  <2>. QED  BY <1>2, <2>1, <2>3, <2>4, <2>5, StartKeeps
<1>4. CASE BleActivate_nrf52(w)
  <2>1. stack = "nrf52" /\ SetAdv(run)
    BY <1>4 DEF BleActivate_nrf52, StartAdv_nrf52
  <2>. HIDE DEF yes, open
  <2>2. BleIs(start) /\ start.active = yes
    BY <1>1, BleConstants, ActiveIs
  <2>3. AdvIs(run) /\ run.running = open /\ run.retry = adv.retry /\ run.asked = adv.asked
    BY <1>1, AdvRun
  <2>. HIDE DEF start, run
  <2>4. /\ adv' = run /\ SeenIs(bleSeen') /\ bleSeen'.cut = bleSeen.cut
        /\ bleSeen'.stale = bleSeen.stale
    BY <1>1, <2>1, SetAdvSeen
  <2>5. FoundInv(ble.active, link, adv, bleSeen.noRetry)'
    BY <1>1, <1>2, <2>1, <2>3, <2>4 DEF FoundInv, OnItsWay, open
  <2>. QED  BY <1>1, <1>2, <2>2, <2>3, <2>4, <2>5, BleKeeps
<1>. QED  BY <1>3, <1>4

LEMMA BleDeactivateKeeps == ASSUME BleInv, BleDeactivate PROVE BleInv'
<1>1. /\ stack \in {"esp32", "nrf52"} /\ bleNow \in 0 .. BleMod - 1 /\ BleIs(ble)
      /\ AdvIs(adv) /\ LinkIs(link) /\ SeenIs(bleSeen)
      /\ FoundInv(ble.active, link, adv, bleSeen.noRetry)
  BY DEF BleInv, BleShape
<1>2. /\ UNCHANGED <<stack, cp, cpTick, bleNow>>
      /\ ble' = Deactivated /\ SetAdv(StopAdv(adv))
      /\ link' = IF stack = "nrf52" THEN Closed ELSE link
  BY DEF BleDeactivate
<1>3. /\ LinkIs(link') /\ link'.up = link.up /\ link'.conn = link.conn
      /\ (~link'.up => link'.handle = "none")
  BY <1>1, <1>2, ClosedIs DEF FoundInv
<1>4. /\ AdvIs(StopAdv(adv))
      /\ (stack = "nrf52" => StopAdv(adv).retry = 0 /\ StopAdv(adv).asked = "none")
  BY <1>1, StopAdvIs DEF FoundInv
<1>5. /\ adv' = StopAdv(adv) /\ SeenIs(bleSeen') /\ bleSeen'.cut = bleSeen.cut
      /\ bleSeen'.stale = bleSeen.stale
  BY <1>1, <1>2, SetAdvSeen
<1>6. BleIs(ble') /\ ~ble'.active
  BY <1>1, <1>2, DeactivatedIs
<1>7. FoundInv(ble.active, link, adv, bleSeen.noRetry)'
  BY <1>2, <1>3, <1>4, <1>5, <1>6 DEF FoundInv
<1>. QED  BY <1>1, <1>2, <1>3, <1>4, <1>5, <1>6, <1>7, BleKeeps

LEMMA BleClearBondsKeeps ==
  ASSUME BleInv, NEW ok \in BOOLEAN, BleClearBonds_esp32(ok) \/ BleClearBonds_nrf52
  PROVE  BleInv'
<1>1. /\ stack \in {"esp32", "nrf52"} /\ bleNow \in 0 .. BleMod - 1 /\ BleIs(ble)
      /\ AdvIs(adv) /\ LinkIs(link) /\ SeenIs(bleSeen)
      /\ FoundInv(ble.active, link, adv, bleSeen.noRetry)
  BY DEF BleInv, BleShape
<1>2. UNCHANGED <<stack, ble, cp, cpTick, bleNow>>
  BY DEF BleClearBonds_esp32, BleClearBonds_nrf52
<1>3. CASE BleClearBonds_esp32(ok)
  <2>. DEFINE l == [link EXCEPT !.handle = "none"]
  <2>1. /\ stack = "esp32" /\ link' = l
        /\ SetStarted(StartAdv_esp32(ble.active, "none", adv, ok), ok)
    BY <1>3 DEF BleClearBonds_esp32
  <2>2. LinkIs(l) /\ l.up = link.up /\ l.conn = link.conn /\ l.handle = "none"
    <3>1. LinkIs(link) /\ "none" \in {"none", "pending", "open"}
      BY <1>1
    <3>. QED  BY <3>1, LinkSet, Zenon
  <2>. HIDE DEF l
  <2>3. SetStarted(StartAdv_esp32(ble'.active, link'.handle, adv, ok), ok)
    BY <1>2, <2>1, <2>2
  <2>. QED  BY <1>1, <1>2, <2>1, <2>2, <2>3, StartKeeps
<1>4. CASE BleClearBonds_nrf52
  <2>. DEFINE open == ~link.up
              run == [adv EXCEPT !.running = open]
              a == IF ble.active THEN run ELSE adv
  <2>1. stack = "nrf52" /\ link' = Closed /\ SetAdv(a) /\ open \in BOOLEAN
    BY <1>4 DEF BleClearBonds_nrf52, StartAdv_nrf52
  <2>. HIDE DEF open
  <2>2. AdvIs(run) /\ run.running = open /\ run.retry = adv.retry /\ run.asked = adv.asked
    BY <1>1, <2>1, AdvRun
  <2>. HIDE DEF run
  <2>3. /\ AdvIs(a) /\ a.retry = adv.retry /\ a.asked = adv.asked
        /\ ble.active /\ ~link.up => a.running
    BY <1>1, <2>2 DEF open
  <2>. HIDE DEF a
  <2>4. /\ adv' = a /\ SeenIs(bleSeen') /\ bleSeen'.cut = bleSeen.cut
        /\ bleSeen'.stale = bleSeen.stale
    BY <1>1, <2>1, SetAdvSeen
  <2>5. /\ LinkIs(link') /\ link'.up = link.up /\ link'.conn = link.conn
        /\ (~link'.up => link'.handle = "none")
    BY <1>1, <2>1, ClosedIs DEF FoundInv
  <2>6. FoundInv(ble.active, link, adv, bleSeen.noRetry)'
    BY <1>1, <1>2, <2>1, <2>3, <2>4, <2>5 DEF FoundInv, OnItsWay
  <2>. QED  BY <1>1, <1>2, <2>3, <2>4, <2>5, <2>6, BleKeeps
<1>. QED  BY <1>3, <1>4

\* The stack has answered a start or a stop.
LEMMA AdvAnsweredKeeps ==
  ASSUME BleInv, NEW ok \in BOOLEAN, AdvStarted(ok) \/ AdvStopped
  PROVE  BleInv'
<1>. DEFINE no == FALSE
            started == [adv EXCEPT !.asked = "none", !.running = ok]
            stopped == [adv EXCEPT !.asked = "none", !.running = no]
            done == [started EXCEPT !.retry = 0]
<1>1. /\ stack \in {"esp32", "nrf52"} /\ bleNow \in 0 .. BleMod - 1 /\ BleIs(ble)
      /\ AdvIs(adv) /\ LinkIs(link) /\ SeenIs(bleSeen) /\ no \in BOOLEAN
      /\ FoundInv(ble.active, link, adv, bleSeen.noRetry)
  BY DEF BleInv, BleShape
<1>2. adv.asked # "none" /\ UNCHANGED <<stack, ble, link, cp, cpTick, bleNow>>
  BY DEF AdvStarted, AdvStopped
<1>3. stack = "esp32"
  BY <1>1, <1>2 DEF FoundInv
<1>4. CASE AdvStarted(ok)
  <2>1. IF ~ok /\ ble.active THEN SetRetry(started)
       ELSE SetAdv(IF ok THEN done ELSE started)
    BY <1>4 DEF AdvStarted
  <2>2. AdvIs(started) /\ started.running = ok
    BY <1>1, AdvAnswer, Zenon
  <2>. HIDE DEF started
  <2>3. AdvIs(done) /\ done.running = ok
    BY <2>2, AdvFree
  <2>. HIDE DEF done
  <2>4. CASE ~ok /\ ble.active
    <3>1. /\ adv' = ScheduleRetry(started) /\ SeenIs(bleSeen') /\ bleSeen'.cut = bleSeen.cut
          /\ bleSeen'.stale = bleSeen.stale
          /\ OnItsWay(adv') \/ bleSeen'.noRetry
      BY <1>1, <1>3, <2>1, <2>4, SetRetrySeen
    <3>2. AdvIs(adv')
      BY <1>1, <2>2, <3>1, ScheduledIs
    <3>3. FoundInv(ble.active, link, adv, bleSeen.noRetry)'
      BY <1>1, <1>2, <1>3, <3>1 DEF FoundInv
    <3>. QED  BY <1>1, <1>2, <3>1, <3>2, <3>3, BleKeeps
  <2>5. CASE ~(~ok /\ ble.active)
    <3>. DEFINE a == IF ok THEN done ELSE started
    <3>1. SetAdv(a) /\ AdvIs(a) /\ a.running = ok
      BY <2>1, <2>2, <2>3, <2>5
    <3>. HIDE DEF a
    <3>2. /\ adv' = a /\ SeenIs(bleSeen') /\ bleSeen'.cut = bleSeen.cut
          /\ bleSeen'.stale = bleSeen.stale
      BY <1>1, <3>1, SetAdvSeen
    <3>3. FoundInv(ble.active, link, adv, bleSeen.noRetry)'
      BY <1>1, <1>2, <1>3, <2>5, <3>1, <3>2 DEF FoundInv, OnItsWay
    <3>. QED  BY <1>1, <1>2, <3>1, <3>2, <3>3, BleKeeps
  <2>. QED  BY <2>4, <2>5
<1>5. CASE AdvStopped
  <2>1. IF ble.active /\ link.handle = "none" THEN SetRetry(stopped) ELSE SetAdv(stopped)
    BY <1>5 DEF AdvStopped
  <2>. HIDE DEF no
  <2>2. AdvIs(stopped)
    BY <1>1, AdvAnswer, Zenon
  <2>. HIDE DEF stopped
  <2>3. CASE ble.active /\ link.handle = "none"
    <3>1. /\ adv' = ScheduleRetry(stopped) /\ SeenIs(bleSeen') /\ bleSeen'.cut = bleSeen.cut
          /\ bleSeen'.stale = bleSeen.stale
          /\ OnItsWay(adv') \/ bleSeen'.noRetry
      BY <1>1, <1>3, <2>1, <2>3, SetRetrySeen
    <3>2. AdvIs(adv')
      BY <1>1, <2>2, <3>1, ScheduledIs
    <3>3. FoundInv(ble.active, link, adv, bleSeen.noRetry)'
      BY <1>1, <1>2, <1>3, <3>1 DEF FoundInv
    <3>. QED  BY <1>1, <1>2, <3>1, <3>2, <3>3, BleKeeps
  <2>4. CASE ~(ble.active /\ link.handle = "none")
    <3>1. /\ adv' = stopped /\ SeenIs(bleSeen') /\ bleSeen'.cut = bleSeen.cut
          /\ bleSeen'.stale = bleSeen.stale
      BY <1>1, <2>1, <2>4, SetAdvSeen
    <3>2. FoundInv(ble.active, link, adv, bleSeen.noRetry)'
      BY <1>1, <1>2, <1>3, <2>4, <3>1 DEF FoundInv
    <3>. QED  BY <1>1, <1>2, <2>2, <3>1, <3>2, BleKeeps
  <2>. QED  BY <2>3, <2>4
<1>. QED  BY <1>4, <1>5

LEMMA AuthDoneKeeps ==
  ASSUME BleInv, NEW ok \in BOOLEAN, AuthDone_esp32(ok) \/ AuthDone_nrf52(ok)
  PROVE  BleInv'
<1>1. LinkIs(link) /\ FoundInv(ble.active, link, adv, bleSeen.noRetry)
  BY DEF BleInv, BleShape
<1>2. link.up /\ UNCHANGED <<stack, ble, adv, cp, cpTick, bleNow, bleSeen>>
  BY DEF AuthDone_esp32, AuthDone_nrf52, Authenticating
<1>3. PICK handle \in {"none", "pending", "open"} :
        link' = [link EXCEPT !.secured = ok, !.handle = handle]
  BY <1>1 DEF AuthDone_esp32, AuthDone_nrf52, LinkIs
<1>4. LinkIs(link') /\ link'.up = link.up /\ link'.conn = link.conn
  BY <1>1, <1>3, LinkSet, Zenon
<1>5. FoundInv(ble.active, link, adv, bleSeen.noRetry)'
  BY <1>1, <1>2, <1>4 DEF FoundInv
<1>. QED  BY <1>2, <1>4, <1>5, BleKeeps DEF BleInv, BleShape, BleIs, AdvIs, SeenIs

\* A step that leaves advertising and the connection alone.
LEMMA CpKeeps ==
  ASSUME BleInv, UNCHANGED <<stack, ble, adv, link, bleNow>>,
         CpIs(cp'), TickIs(cpTick'), SeenIs(bleSeen'),
         bleSeen'.cut = bleSeen.cut, bleSeen'.noRetry = bleSeen.noRetry,
         ~bleSeen.cut => ~bleSeen'.stale /\ CpCurrent(cp', cpTick', link)
  PROVE  BleInv'
<1>1. BleShape'
  BY DEF BleInv, BleShape, BleIs, AdvIs, LinkIs, CpIs, TickIs, SeenIs
<1>2. FoundInv(ble.active, link, adv, bleSeen.noRetry)'
  BY DEF BleInv, FoundInv, OnItsWay
<1>3. CpCurrent(cp', cpTick', link) => CpCurrent(cp, cpTick, link)'
  BY DEF CpCurrent, Queued
<1>. QED  BY <1>1, <1>2, <1>3 DEF BleInv

\* One place up the ring.
Up(s) == (s + 1) % CpLen

LEMMA UpIs == \A s \in CpPlaces : Up(s) \in CpPlaces /\ Up(s) = IF s = CpLen - 1 THEN 0 ELSE s + 1
<1>. SUFFICES ASSUME NEW s \in CpPlaces
     PROVE  Up(s) \in CpPlaces /\ Up(s) = IF s = CpLen - 1 THEN 0 ELSE s + 1
  OBVIOUS
<1>1. s \in 0 .. CpLen - 1
  BY DEF CpPlaces
<1>2. CASE s = CpLen - 1
  <2>1. (s + 1) % CpLen = 0
    BY <1>2, BleConstants
  <2>. QED  BY <1>2, <2>1, BleConstants DEF Up
<1>3. CASE s # CpLen - 1
  <2>1. (s + 1) % CpLen = s + 1
    BY <1>1, <1>3, BleConstants
  <2>. QED  BY <1>1, <1>3, <2>1, BleConstants DEF Up, CpPlaces
<1>. QED  BY <1>2, <1>3

LEMMA CpClaimKeeps == ASSUME BleInv, CpClaim PROVE BleInv'
<1>. DEFINE pkt == cp.slots[cp.tail]
            t == [at |-> "claimed", pkt |-> pkt, tail |-> cp.tail]
<1>1. /\ CpIs(cp) /\ cp.tail # cp.head /\ cpTick' = t
      /\ UNCHANGED <<stack, ble, adv, link, cp, bleNow, bleSeen>>
      /\ SeenIs(bleSeen)
      /\ ~bleSeen.cut => ~bleSeen.stale /\ CpCurrent(cp, cpTick, link)
  BY DEF CpClaim, BleInv, BleShape
<1>2. CpCurrent(cp, cpTick, link) => link.up /\ pkt.conn = link.conn
  <2>1. Queued(cp, cp.tail) /\ cp.tail \in CpPlaces
    BY <1>1 DEF Queued, CpIs, CpPlaces
  <2>. QED  BY <1>1, <2>1 DEF CpCurrent
<1>. HIDE DEF pkt
<1>3. t.at = "claimed" /\ t.pkt = pkt /\ t.tail = cp.tail /\ TickIs(t)
  BY <1>1 DEF TickIs, CpIs
<1>. HIDE DEF t
<1>4. CpCurrent(cp, cpTick, link) => CpCurrent(cp, t, link)
  BY <1>1, <1>2, <1>3 DEF CpCurrent
<1>5. CpIs(cp') /\ TickIs(cpTick') /\ SeenIs(bleSeen') /\ bleSeen' = bleSeen /\ cp' = cp
  BY <1>1, <1>3
<1>. QED  BY <1>1, <1>4, <1>5, CpKeeps

LEMMA CpAdvanceKeeps == ASSUME BleInv, CpAdvance PROVE BleInv'
<1>1. /\ CpIs(cp) /\ TickIs(cpTick) /\ cpTick.at = "claimed"
      /\ UNCHANGED <<stack, ble, adv, link, bleNow, bleSeen>>
      /\ SeenIs(bleSeen)
      /\ ~bleSeen.cut => ~bleSeen.stale /\ CpCurrent(cp, cpTick, link)
  BY DEF CpAdvance, BleInv, BleShape
<1>2. PICK s \in {cpTick.tail, cp.tail} : cp' = [cp EXCEPT !.tail = Up(s)]
  BY DEF CpAdvance, Up
<1>3. s \in CpPlaces
  BY <1>1 DEF CpIs, TickIs
<1>4. Up(s) \in CpPlaces /\ Up(s) = IF s = CpLen - 1 THEN 0 ELSE s + 1
  BY <1>3, UpIs
<1>5. cp' = [head |-> cp.head, tail |-> Up(s), session |-> cp.session, slots |-> cp.slots]
  BY <1>1, <1>2 DEF CpIs
<1>6. cpTick' = [at |-> "advanced", pkt |-> cpTick.pkt, tail |-> cpTick.tail]
  BY <1>1 DEF CpAdvance, TickIs
<1>7. /\ cp'.head = cp.head /\ cp'.tail = Up(s) /\ cp'.session = cp.session /\ cp'.slots = cp.slots
      /\ cp' = [head |-> cp'.head, tail |-> cp'.tail, session |-> cp'.session, slots |-> cp'.slots]
      /\ cpTick'.at = "advanced" /\ cpTick'.pkt = cpTick.pkt /\ cpTick'.tail = cpTick.tail
      /\ cpTick' = [at |-> cpTick'.at, pkt |-> cpTick'.pkt, tail |-> cpTick'.tail]
  BY <1>5, <1>6
<1>8. CpIs(cp') /\ TickIs(cpTick')
  <2>1. CpIs(cp')
    BY <1>1, <1>4, <1>7 DEF CpIs
  <2>2. TickIs(cpTick')
    BY <1>1, <1>7 DEF TickIs
  <2>. QED  BY <2>1, <2>2
<1>9. ASSUME CpCurrent(cp, cpTick, link) PROVE CpCurrent(cp', cpTick', link)
  <2>1. s = cp.tail /\ cp.head # cp.tail /\ link.up /\ cpTick.pkt.conn = link.conn
    BY <1>1, <1>2, <1>9 DEF CpCurrent
  <2>2. ASSUME NEW p \in CpPlaces, Queued(cp', p) PROVE Queued(cp, p)
    <3>1. cp.head \in 0 .. CpLen - 1 /\ cp.tail \in 0 .. CpLen - 1 /\ p \in 0 .. CpLen - 1
      BY <1>1 DEF CpIs, CpPlaces
    <3>2. IF Up(s) <= cp.head THEN Up(s) <= p /\ p < cp.head ELSE Up(s) <= p \/ p < cp.head
      BY <1>7, <2>2 DEF Queued
    <3>. QED  BY <1>4, <2>1, <3>1, <3>2, BleConstants DEF Queued
  <2>3. \A p \in CpPlaces : Queued(cp', p) => cp'.slots[p].conn = link.conn
    BY <1>7, <1>9, <2>2 DEF CpCurrent
  <2>. QED  BY <1>7, <2>1, <2>3 DEF CpCurrent
<1>. QED  BY <1>1, <1>8, <1>9, CpKeeps

LEMMA CpRunKeeps == ASSUME BleInv, CpRun PROVE BleInv'
<1>. DEFINE open == cp.session \/ cpTick.pkt.cmd = "start"
            late == bleSeen.stale \/ ~link.up \/ link.conn # cpTick.pkt.conn
<1>1. /\ CpIs(cp) /\ TickIs(cpTick) /\ cpTick.at = "advanced"
      /\ UNCHANGED <<stack, ble, adv, link, bleNow>>
      /\ SeenIs(bleSeen)
      /\ ~bleSeen.cut => ~bleSeen.stale /\ CpCurrent(cp, cpTick, link)
      /\ cp' = [cp EXCEPT !.session = open] /\ cpTick' = AtRest
      /\ bleSeen' = [bleSeen EXCEPT !.stale = late]
  BY DEF CpRun, BleInv, BleShape
<1>2. /\ ~bleSeen.cut => ~late /\ link.up
      /\ open \in BOOLEAN
  BY <1>1 DEF CpCurrent
<1>. HIDE DEF open, late
<1>3. cp' = [head |-> cp.head, tail |-> cp.tail, session |-> open, slots |-> cp.slots]
  BY <1>1 DEF CpIs
<1>4. bleSeen' = [cut |-> bleSeen.cut, stale |-> late, noRetry |-> bleSeen.noRetry]
  BY <1>1 DEF SeenIs
<1>5. /\ cp'.head = cp.head /\ cp'.tail = cp.tail /\ cp'.session = open /\ cp'.slots = cp.slots
      /\ cp' = [head |-> cp'.head, tail |-> cp'.tail, session |-> cp'.session, slots |-> cp'.slots]
  BY <1>3
<1>6. /\ bleSeen'.cut = bleSeen.cut /\ bleSeen'.stale = late /\ bleSeen'.noRetry = bleSeen.noRetry
      /\ SeenIs(bleSeen')
  BY <1>4 DEF SeenIs
<1>7. cpTick'.at = "idle" /\ cpTick'.tail = 0 /\ TickIs(cpTick')
  BY <1>1, BleConstants DEF AtRest, TickIs
<1>8. CpIs(cp')
  BY <1>1, <1>2, <1>5 DEF CpIs
<1>9. ASSUME ~bleSeen.cut PROVE CpCurrent(cp', cpTick', link)
  <2>1. \A p \in CpPlaces : Queued(cp', p) => Queued(cp, p)
    BY <1>5 DEF Queued
  <2>. QED  BY <1>1, <1>2, <1>5, <1>7, <1>9, <2>1 DEF CpCurrent
<1>. QED  BY <1>1, <1>2, <1>6, <1>7, <1>8, <1>9, CpKeeps

LEMMA RxWriteKeeps ==
  ASSUME BleInv, NEW cmd \in CpCmds, RxWrite_esp32(cmd) \/ RxWrite_nrf52(cmd)
  PROVE  BleInv'
<1>. DEFINE pkt == [conn |-> link.conn, cmd |-> cmd]
            slots == [cp.slots EXCEPT ![cp.head] = pkt]
<1>1. /\ CpIs(cp) /\ TickIs(cpTick) /\ link.up /\ Up(cp.head) # cp.tail
      /\ UNCHANGED <<stack, ble, adv, link, cpTick, bleNow, bleSeen>>
      /\ SeenIs(bleSeen)
      /\ ~bleSeen.cut => ~bleSeen.stale /\ CpCurrent(cp, cpTick, link)
      /\ cp' = [cp EXCEPT !.slots[cp.head] = pkt, !.head = Up(cp.head)]
  BY DEF RxWrite_esp32, RxWrite_nrf52, CpWrite, BleInv, BleShape, Up
<1>2. pkt.conn = link.conn
  OBVIOUS
<1>. HIDE DEF pkt
<1>3. cp' = [head |-> Up(cp.head), tail |-> cp.tail, session |-> cp.session, slots |-> slots]
  BY <1>1 DEF CpIs
<1>4. /\ cp.head \in CpPlaces
      /\ slots = [s \in CpPlaces |-> IF s = cp.head THEN pkt ELSE cp.slots[s]]
  <2>1. cp.head \in CpPlaces /\ cp.slots = [s \in CpPlaces |-> cp.slots[s]]
    BY <1>1 DEF CpIs
  <2>. QED  BY <2>1
<1>5. /\ Up(cp.head) \in CpPlaces
      /\ Up(cp.head) = IF cp.head = CpLen - 1 THEN 0 ELSE cp.head + 1
  BY <1>4, UpIs
<1>. HIDE DEF slots
<1>6. /\ cp'.head = Up(cp.head) /\ cp'.tail = cp.tail
      /\ cp'.session = cp.session /\ cp'.slots = slots
      /\ cp' = [head |-> cp'.head, tail |-> cp'.tail, session |-> cp'.session, slots |-> cp'.slots]
  BY <1>3
<1>7. slots = [s \in CpPlaces |-> slots[s]] /\ slots[cp.head] = pkt
      /\ \A s \in CpPlaces : s # cp.head => slots[s] = cp.slots[s]
  BY <1>4
<1>8. CpIs(cp')
  BY <1>1, <1>5, <1>6, <1>7 DEF CpIs
<1>9. ASSUME CpCurrent(cp, cpTick, link) PROVE CpCurrent(cp', cpTick, link)
  <2>1. ASSUME NEW p \in CpPlaces, Queued(cp', p), p # cp.head PROVE Queued(cp, p)
    <3>1. cp.head \in 0 .. CpLen - 1 /\ cp.tail \in 0 .. CpLen - 1 /\ p \in 0 .. CpLen - 1
      BY <1>1 DEF CpIs, CpPlaces
    <3>2. IF cp.tail <= Up(cp.head) THEN cp.tail <= p /\ p < Up(cp.head)
          ELSE cp.tail <= p \/ p < Up(cp.head)
      BY <1>6, <2>1 DEF Queued
    <3>. QED  BY <1>1, <1>5, <2>1, <3>1, <3>2, BleConstants DEF Queued
  <2>2. \A p \in CpPlaces : Queued(cp', p) => cp'.slots[p].conn = link.conn
    BY <1>2, <1>6, <1>7, <1>9, <2>1 DEF CpCurrent
  <2>. QED  BY <1>1, <1>6, <1>9, <2>2 DEF CpCurrent
<1>10. TickIs(cpTick') /\ SeenIs(bleSeen') /\ bleSeen' = bleSeen /\ cpTick' = cpTick
  BY <1>1
<1>. QED  BY <1>1, <1>8, <1>9, <1>10, CpKeeps

LEMMA BleConnectKeeps == ASSUME BleInv, BleConnect PROVE BleInv'
<1>. DEFINE yes == TRUE
            no == FALSE
            handle == IF passkey THEN "pending" ELSE "open"
            secured == ~passkey
            l == [up |-> yes, conn |-> link.conn + 1, handle |-> handle, secured |-> secured]
            a == [adv EXCEPT !.running = no, !.retry = 0]
<1>1. /\ BleShape /\ ~link.up /\ link.conn < MaxConns
      /\ UNCHANGED <<stack, ble, cp, cpTick, bleNow, bleSeen>>
      /\ ~bleSeen.cut => ~bleSeen.stale /\ CpCurrent(cp, cpTick, link)
      /\ FoundInv(ble.active, link, adv, bleSeen.noRetry)
      /\ link' = l /\ adv' = a /\ yes /\ no \in BOOLEAN
      /\ handle \in {"none", "pending", "open"}
  BY DEF BleConnect, BleInv
<1>. HIDE DEF yes, no, handle, secured
<1>2. l.up /\ LinkIs(l)
  <2>1. link.conn \in 0 .. MaxConns
    BY <1>1 DEF BleShape, LinkIs
  <2>2. link.conn + 1 \in 0 .. MaxConns
    BY <1>1, <2>1, BleConstants
  <2>3. l.up = yes /\ l.conn = link.conn + 1 /\ l.handle = handle /\ l.secured = secured
    OBVIOUS
  <2>4. l = [up |-> l.up, conn |-> l.conn, handle |-> l.handle, secured |-> l.secured]
    OBVIOUS
  <2>. HIDE DEF l
  <2>. QED  BY <1>1, <2>2, <2>3, <2>4 DEF LinkIs
<1>3. AdvIs(a) /\ a.retry = 0 /\ a.asked = adv.asked
  <2>1. AdvIs(adv) /\ no \in BOOLEAN
    BY <1>1 DEF BleShape
  <2>. QED  BY <2>1, AdvTaken, Zenon
<1>. HIDE DEF l, a
<1>4. BleShape'
  BY <1>1, <1>2, <1>3 DEF BleShape, BleIs, AdvIs, LinkIs, CpIs, TickIs, SeenIs
<1>5. ASSUME CpCurrent(cp, cpTick, link) PROVE CpCurrent(cp, cpTick, link)'
  <2>1. ~cp.session /\ cp.head = cp.tail /\ cpTick.at = "idle"
    BY <1>1, <1>5 DEF CpCurrent
  <2>2. \A s \in CpPlaces : ~Queued(cp, s)
    BY <1>1, <2>1 DEF BleShape, CpIs, CpPlaces, Queued
  <2>3. link'.up /\ cp' = cp /\ cpTick' = cpTick
    BY <1>1, <1>2
  <2>. QED  BY <2>1, <2>2, <2>3 DEF CpCurrent, Queued
<1>6. FoundInv(ble.active, link, adv, bleSeen.noRetry)'
  BY <1>1, <1>2, <1>3 DEF FoundInv
<1>. QED  BY <1>1, <1>4, <1>5, <1>6 DEF BleInv

\* The callbacks of both stacks end the session; they differ in the advertising.
LEMMA BleDisconnectKeeps ==
  ASSUME BleInv, BleDisconnect_esp32 \/ BleDisconnect_nrf52
  PROVE  BleInv'
<1>. DEFINE no == FALSE
            l == [up |-> no, conn |-> link.conn, handle |-> "none", secured |-> no]
            c == [head |-> 0, tail |-> 0, session |-> no, slots |-> cp.slots]
            cut == cpTick.at # "idle"
<1>1. /\ BleShape /\ FoundInv(ble.active, link, adv, bleSeen.noRetry)
      /\ UNCHANGED <<stack, ble, cpTick, bleNow>> /\ link.up
      /\ no \in BOOLEAN /\ ~no
  BY DEF BleDisconnect_esp32, BleDisconnect_nrf52, BleInv
<1>2. link' = l
  BY DEF BleDisconnect_esp32, BleDisconnect_nrf52, NoLink
<1>3. cp' = c
  BY <1>1 DEF BleDisconnect_esp32, BleDisconnect_nrf52, OnDisconnect, BleShape, CpIs
<1>4. PICK lost : bleSeen' = [cut |-> cut, stale |-> no, noRetry |-> lost]
  BY DEF BleDisconnect_esp32, BleDisconnect_nrf52
<1>. HIDE DEF no, cut
<1>5. LinkIs(l) /\ ~l.up /\ l.handle = "none"
  <2>1. link.conn \in 0 .. MaxConns
    BY <1>1 DEF BleShape, LinkIs
  <2>2. l.up = no /\ l.conn = link.conn /\ l.handle = "none" /\ l.secured = no
    OBVIOUS
  <2>3. l = [up |-> l.up, conn |-> l.conn, handle |-> l.handle, secured |-> l.secured]
    OBVIOUS
  <2>. HIDE DEF l
  <2>. QED  BY <1>1, <2>1, <2>2, <2>3 DEF LinkIs
<1>6. CpIs(c) /\ c.head = 0 /\ c.tail = 0 /\ ~c.session
  <2>1. c.head = 0 /\ c.tail = 0 /\ c.session = no /\ c.slots = cp.slots
    OBVIOUS
  <2>2. c = [head |-> c.head, tail |-> c.tail, session |-> c.session, slots |-> c.slots]
    OBVIOUS
  <2>3. cp.slots = [s \in CpPlaces |-> cp.slots[s]]
    BY <1>1 DEF BleShape, CpIs
  <2>. HIDE DEF c
  <2>. QED  BY <1>1, <2>1, <2>2, <2>3, BleConstants DEF CpIs
<1>7. SeenIs(bleSeen') /\ bleSeen'.cut = cut /\ ~bleSeen'.stale /\ bleSeen'.noRetry = lost
  BY <1>1, <1>4 DEF SeenIs
<1>. HIDE DEF l, c
<1>8. AdvIs(adv') /\ FoundInv(ble.active, link, adv, bleSeen.noRetry)'
  <2>0. AdvIs(adv) /\ bleNow \in 0 .. BleMod - 1 /\ BleIs(ble)
    BY <1>1 DEF BleShape
  <2>1. CASE BleDisconnect_esp32
    <3>1. /\ stack = "esp32" /\ adv' = IF ble.active THEN ScheduleRetry(adv) ELSE adv
          /\ bleSeen'.noRetry = (ble.active /\ RetryLost(ScheduleRetry(adv)))
      BY <2>1 DEF BleDisconnect_esp32
    <3>2. AdvIs(adv')
      BY <2>0, <3>1, ScheduledIs
    <3>3. ble.active /\ ~bleSeen'.noRetry => OnItsWay(adv')
      BY <3>1 DEF RetryLost, OnItsWay
    <3>. QED  BY <1>1, <1>2, <1>5, <3>1, <3>2, <3>3 DEF FoundInv
  <2>2. CASE BleDisconnect_nrf52
    <3>. DEFINE run == adv.running \/ ble.active
                a == [adv EXCEPT !.running = run]
    <3>1. stack = "nrf52" /\ adv' = a
      BY <2>2 DEF BleDisconnect_nrf52
    <3>2. run \in BOOLEAN /\ (ble.active => run)
      BY <2>0 DEF AdvIs
    <3>. HIDE DEF run
    <3>3. AdvIs(a) /\ a.running = run /\ a.retry = adv.retry /\ a.asked = adv.asked
      BY <2>0, <3>2, AdvRun, Zenon
    <3>. HIDE DEF a
    <3>. QED  BY <1>1, <1>2, <1>5, <3>1, <3>2, <3>3 DEF FoundInv, OnItsWay
  <2>. QED  BY <2>1, <2>2
<1>9. BleShape'
  BY <1>1, <1>2, <1>3, <1>5, <1>6, <1>7, <1>8 DEF BleShape, BleIs, TickIs
<1>10. ASSUME ~cut PROVE CpCurrent(cp, cpTick, link)'
  <2>1. \A s \in CpPlaces : ~Queued(cp, s)'
    BY <1>3, <1>6 DEF CpPlaces, Queued
  <2>2. cpTick'.at = "idle"
    BY <1>1, <1>10 DEF cut
  <2>. QED  BY <1>2, <1>3, <1>6, <2>1, <2>2 DEF CpCurrent
<1>. QED  BY <1>7, <1>8, <1>9, <1>10 DEF BleInv

LEMMA BleInductive == BleInv /\ [BleNext]_bleVars => BleInv'
<1>1. CASE BleInv /\ BleNext
  <2>1. CASE BleClock
    BY <1>1, <2>1, BleClockKeeps
  <2>2. CASE BleMain
    BY <1>1, <2>2, BleTickKeeps, BleClearBondsKeeps, BleActivateKeeps, BleDeactivateKeeps,
       CpClaimKeeps, CpAdvanceKeeps, CpRunKeeps DEF BleMain
  <2>3. CASE BleCallback
    BY <1>1, <2>3, AdvAnsweredKeeps, AuthDoneKeeps, BleConnectKeeps, BleDisconnectKeeps,
       RxWriteKeeps DEF BleCallback
  <2>. QED  BY <1>1, <2>1, <2>2, <2>3 DEF BleNext
<1>2. CASE BleInv /\ UNCHANGED bleVars
  BY <1>2 DEF bleVars, BleInv, BleShape, BleIs, AdvIs, LinkIs, CpIs, TickIs, SeenIs,
     CpCurrent, Queued, FoundInv, OnItsWay
<1>. QED  BY <1>1, <1>2

LEMMA BleKept == BleInv => CommandsCurrent /\ Discoverable /\ BleTypeOK
<1>. SUFFICES ASSUME BleInv PROVE CommandsCurrent /\ Discoverable /\ BleTypeOK
  OBVIOUS
<1>1. CommandsCurrent
  BY DEF BleInv, CommandsCurrent, CpCurrent
<1>2. Discoverable
  BY DEF BleInv, FoundInv, OnItsWay, Discoverable
<1>3. BleTypeOK
  BY DEF BleInv, BleShape, BleIs, AdvIs, LinkIs, CpIs, TickIs, CpPlaces, BleTypeOK
<1>. QED  BY <1>1, <1>2, <1>3

-----------------------------------------------------------------------------
(***************************************************************************)
(* Reassembly.  A slot is found by the id of a message, and at most one    *)
(* active slot has an id; once the first fragment of a message has come,   *)
(* the slot with its id holds nothing but that message.                    *)
(***************************************************************************)
FgPlaces == 0 .. FgSlots - 1
FgOffsets == 0 .. FgMaxTotal - 1

FgSlotOK(s) ==
  /\ s = [active |-> s.active, id |-> s.id, total |-> s.total, got |-> s.got, data |-> s.data]
  /\ s.active \in BOOLEAN /\ s.id \in 0 .. FgIds /\ s.total \in Nat /\ s.got \in 0 .. s.total
  /\ s.data = [o \in FgOffsets |-> s.data[o]]

FgSending(tx) ==
  /\ tx = [msg |-> tx.msg, total |-> tx.total, off |-> tx.off, firstLost |-> tx.firstLost]
  /\ tx.msg \in Nat /\ tx.total \in FgTotals \cup {0} /\ tx.off \in 0 .. tx.total
  /\ tx.total # 0 => tx.msg # 0

FgShape ==
  /\ FgSending(fgTx)
  /\ fgRx = [next |-> fgRx.next, slots |-> fgRx.slots]
  /\ fgRx.next \in FgPlaces
  /\ fgRx.slots = [i \in FgPlaces |-> fgRx.slots[i]]
  /\ \A i \in FgPlaces : FgSlotOK(fgRx.slots[i])

\* No two active slots have the same id.
OneSlotEach(slots) ==
  \A i, j \in FgPlaces :
    slots[i].active /\ slots[j].active /\ slots[i].id = slots[j].id => i = j

\* The slots that have the id of message m hold nothing else.
HoldOnly(slots, m) ==
  \A i \in FgPlaces : slots[i].active /\ slots[i].id = IdOf(m)
                        => \A o \in 0 .. slots[i].got - 1 : slots[i].data[o] = m

FgInv ==
  /\ FgShape
  /\ OneSlotEach(fgRx.slots)
  /\ fgTx.off > 0 /\ ~fgTx.firstLost => HoldOnly(fgRx.slots, fgTx.msg)
  /\ ~fgMixed

LEMMA FgConstants ==
  /\ FgSlots \in Nat \ {0} /\ FgIds \in Nat \ {0} /\ FgTotals \subseteq Nat \ {0}
  /\ 0 \in FgPlaces /\ FgPlaces \subseteq Nat
  BY FgAssumption DEF FgPlaces

LEMMA LongestTotal ==
  ASSUME NEW t \in FgTotals
  PROVE  FgMaxTotal \in FgTotals /\ t <= FgMaxTotal
<1>1. FgTotals \subseteq 1 .. 255 /\ 255 \in Nat
  BY FgAssumption
<1>2. FgTotals \subseteq 0 .. 255
  BY <1>1
<1>3. PICK x \in FgTotals : \A y \in FgTotals : x >= y
  BY <1>1, <1>2, GreatestMember
<1>4. \A y \in FgTotals : y <= x
  BY <1>1, <1>3
<1>. QED  BY <1>3, <1>4 DEF FgMaxTotal

LEMMA IdOfType == \A m \in Nat \ {0} : IdOf(m) \in 1 .. FgIds
<1>. SUFFICES ASSUME NEW m \in Nat \ {0} PROVE IdOf(m) \in 1 .. FgIds
  OBVIOUS
<1>1. m - 1 \in Nat
  OBVIOUS
<1>2. (m - 1) % FgIds \in 0 .. FgIds - 1
  BY <1>1, FgConstants
<1>. QED  BY <1>2, FgConstants DEF IdOf

LEMMA LowestIn ==
  ASSUME NEW S, S \subseteq FgPlaces, S # {}
  PROVE  Lowest(S) \in S
<1>1. \E i \in S : \A j \in S : i <= j
  BY LeastOf, FgConstants
<1>. QED  BY <1>1 DEF Lowest

LEMMA FreeSlotOK == FgSlotOK(FreeSlot) /\ ~FreeSlot.active
<1>. DEFINE no == FALSE
            d == [o \in FgOffsets |-> 0]
<1>1. no \in BOOLEAN /\ ~no /\ d = [o \in FgOffsets |-> d[o]]
  OBVIOUS
<1>2. FreeSlot = [active |-> no, id |-> 0, total |-> 0, got |-> 0, data |-> d]
  BY DEF FreeSlot, FgOffsets
<1>. HIDE DEF no, d
<1>. QED  BY <1>1, <1>2, FgConstants DEF FgSlotOK

LEMMA DropSlotOK ==
  ASSUME NEW s, FgSlotOK(s)
  PROVE  FgSlotOK(DropSlot(s)) /\ ~DropSlot(s).active
<1>. DEFINE no == FALSE
<1>1. no \in BOOLEAN /\ ~no
  OBVIOUS
<1>2. DropSlot(s) = [s EXCEPT !.active = no, !.id = 0, !.total = 0, !.got = 0]
  BY DEF DropSlot
<1>. HIDE DEF no
<1>3. s = [active |-> s.active, id |-> s.id, total |-> s.total, got |-> s.got, data |-> s.data]
  BY DEF FgSlotOK
<1>4. DropSlot(s) = [active |-> no, id |-> 0, total |-> 0, got |-> 0, data |-> s.data]
  BY <1>2, <1>3
<1>5. s.data = [o \in FgOffsets |-> s.data[o]]
  BY DEF FgSlotOK
<1>. QED  BY <1>1, <1>4, <1>5, FgConstants DEF FgSlotOK

LEMMA StartSlotOK ==
  ASSUME NEW s, FgSlotOK(s), NEW id \in 1 .. FgIds, NEW total \in Nat
  PROVE  LET p == StartSlot(s, id, total) IN
         /\ FgSlotOK(p) /\ p.active /\ p.id = id /\ p.total = total /\ p.got = 0
<1>. DEFINE yes == TRUE
            p == StartSlot(s, id, total)
<1>1. yes \in BOOLEAN /\ yes
  OBVIOUS
<1>2. p = [s EXCEPT !.active = yes, !.id = id, !.total = total, !.got = 0]
  BY DEF StartSlot
<1>. HIDE DEF yes, p
<1>3. s = [active |-> s.active, id |-> s.id, total |-> s.total, got |-> s.got, data |-> s.data]
  BY DEF FgSlotOK
<1>4. p = [active |-> yes, id |-> id, total |-> total, got |-> 0, data |-> s.data]
  BY <1>2, <1>3
<1>5. s.data = [o \in FgOffsets |-> s.data[o]]
  BY DEF FgSlotOK
<1>6. FgSlotOK(p)
  BY <1>1, <1>4, <1>5, FgConstants DEF FgSlotOK
<1>7. p.active /\ p.id = id /\ p.total = total /\ p.got = 0
  BY <1>1, <1>4
<1>. QED  BY <1>6, <1>7 DEF p

\* The next fragment of m is put into slot s.
Stored(s, m) == [s EXCEPT !.data[s.got] = m, !.got = s.got + 1]

LEMMA StoredOK ==
  ASSUME NEW s, FgSlotOK(s), s.total \in FgTotals, s.got < s.total, NEW m
  PROVE  LET p == Stored(s, m) IN
         /\ FgSlotOK(p) /\ p.active = s.active /\ p.id = s.id /\ p.total = s.total
         /\ p.got = s.got + 1 /\ s.got \in 0 .. s.total - 1
         /\ \A o \in 0 .. s.total - 1 : p.data[o] = IF o = s.got THEN m ELSE s.data[o]
<1>. DEFINE d == [s.data EXCEPT ![s.got] = m]
            p == Stored(s, m)
<1>1. /\ s = [active |-> s.active, id |-> s.id, total |-> s.total, got |-> s.got, data |-> s.data]
      /\ s.data = [o \in FgOffsets |-> s.data[o]]
  BY DEF FgSlotOK
<1>2. /\ s.total \in Nat \ {0} /\ s.got \in 0 .. s.total - 1
      /\ FgMaxTotal \in Nat /\ s.total <= FgMaxTotal
  BY LongestTotal, FgConstants DEF FgSlotOK
<1>3. \A o \in 0 .. s.total - 1 : o \in FgOffsets
  BY <1>2 DEF FgOffsets
<1>4. /\ d = [o \in FgOffsets |-> d[o]]
      /\ \A o \in 0 .. s.total - 1 : d[o] = IF o = s.got THEN m ELSE s.data[o]
  BY <1>1, <1>2, <1>3
<1>5. p = [s EXCEPT !.data = d, !.got = s.got + 1]
  BY <1>1 DEF Stored
<1>. HIDE DEF d, p
<1>6. p = [active |-> s.active, id |-> s.id, total |-> s.total, got |-> s.got + 1, data |-> d]
  BY <1>1, <1>5
<1>7. s.got + 1 \in 0 .. s.total
  BY <1>2
<1>8. s.active \in BOOLEAN /\ s.id \in 0 .. FgIds
  BY DEF FgSlotOK
<1>9. FgSlotOK(p)
  BY <1>2, <1>4, <1>6, <1>7, <1>8 DEF FgSlotOK
<1>. QED  BY <1>2, <1>4, <1>6, <1>9 DEF p

\* Slot i is replaced; where it stays active, no other has its id.
LEMMA SlotPut ==
  ASSUME FgInv, NEW i \in FgPlaces, NEW s, FgSlotOK(s),
         s.active => \A j \in FgPlaces \ {i} : fgRx.slots[j].active => fgRx.slots[j].id # s.id
  PROVE  LET new == [fgRx.slots EXCEPT ![i] = s] IN
         /\ new = [j \in FgPlaces |-> new[j]] /\ OneSlotEach(new)
         /\ new[i] = s /\ \A j \in FgPlaces : FgSlotOK(new[j])
         /\ \A j \in FgPlaces \ {i} : new[j] = fgRx.slots[j]
<1>. DEFINE new == [fgRx.slots EXCEPT ![i] = s]
<1>1. /\ fgRx.slots = [j \in FgPlaces |-> fgRx.slots[j]] /\ OneSlotEach(fgRx.slots)
      /\ \A j \in FgPlaces : FgSlotOK(fgRx.slots[j])
  BY DEF FgInv, FgShape
<1>2. /\ new = [j \in FgPlaces |-> new[j]]
      /\ \A j \in FgPlaces : new[j] = IF j = i THEN s ELSE fgRx.slots[j]
  BY <1>1
<1>. HIDE DEF new
<1>3. ASSUME NEW j \in FgPlaces, NEW k \in FgPlaces, new[j].active, new[k].active,
             new[j].id = new[k].id
      PROVE  j = k
  BY <1>1, <1>2, <1>3 DEF OneSlotEach
<1>4. OneSlotEach(new)
  BY <1>3 DEF OneSlotEach
<1>. QED  BY <1>1, <1>2, <1>4 DEF new

\* The slot a fragment is put into.
LEMMA SlotOf ==
  ASSUME FgInv, NEW id
  PROVE  LET held == Holding(id)
             i == IF held # {} THEN Lowest(held) ELSE AllocSlot IN
         /\ i \in FgPlaces
         /\ held # {} => fgRx.slots[i].active /\ fgRx.slots[i].id = id
         /\ \A j \in FgPlaces \ {i} : fgRx.slots[j].active => fgRx.slots[j].id # id
         /\ NextSlot \in FgPlaces
<1>. DEFINE held == Holding(id)
            i == IF held # {} THEN Lowest(held) ELSE AllocSlot
<1>1. /\ DOMAIN fgRx.slots = FgPlaces /\ OneSlotEach(fgRx.slots) /\ fgRx.next \in FgPlaces
  BY DEF FgInv, FgShape
<1>2. /\ held \subseteq FgPlaces
      /\ \A j \in FgPlaces : j \in held <=> fgRx.slots[j].active /\ fgRx.slots[j].id = id
  BY <1>1 DEF Holding
<1>3. NextSlot \in FgPlaces
  BY <1>1, FgConstants DEF NextSlot, FgPlaces
<1>. HIDE DEF held
<1>4. CASE held # {}
  <2>1. i \in held
    BY <1>2, <1>4, LowestIn
  <2>. HIDE DEF i
  <2>2. i \in FgPlaces /\ fgRx.slots[i].active /\ fgRx.slots[i].id = id
    BY <1>2, <2>1
  <2>3. \A j \in FgPlaces \ {i} : fgRx.slots[j].active => fgRx.slots[j].id # id
    BY <1>1, <2>2 DEF OneSlotEach
  <2>. QED  BY <1>3, <2>2, <2>3 DEF i, held
<1>5. CASE held = {}
  <2>1. AllocSlot \in FgPlaces
    <3>1. FgFree \subseteq FgPlaces
      BY <1>1 DEF FgFree
    <3>. QED  BY <1>1, <3>1, LowestIn DEF AllocSlot
  <2>2. i = AllocSlot
    BY <1>5
  <2>3. \A j \in FgPlaces : fgRx.slots[j].active => fgRx.slots[j].id # id
    BY <1>2, <1>5
  <2>. HIDE DEF i
  <2>4. i \in FgPlaces
    BY <2>1, <2>2
  <2>. QED  BY <1>3, <1>5, <2>3, <2>4 DEF i, held
<1>. QED  BY <1>4, <1>5

LEMMA IngestKeeps ==
  ASSUME FgInv, NEW m \in Nat \ {0}, NEW total \in FgTotals, NEW off \in 0 .. total - 1,
         m = fgTx.msg, off = fgTx.off, Ingest(m, off, total)
  PROVE  /\ fgRx' = [next |-> fgRx'.next, slots |-> fgRx'.slots] /\ fgRx'.next \in FgPlaces
         /\ fgRx'.slots = [i \in FgPlaces |-> fgRx'.slots[i]]
         /\ \A i \in FgPlaces : FgSlotOK(fgRx'.slots[i])
         /\ OneSlotEach(fgRx'.slots)
         /\ ~fgTx.firstLost => HoldOnly(fgRx'.slots, m)
         /\ ~fgMixed'
<1>. DEFINE id == IdOf(m)
            held == Holding(id)
            i == IF held # {} THEN Lowest(held) ELSE AllocSlot
            was == fgRx.slots[i]
            s == IF off = 0 THEN StartSlot(was, id, total) ELSE was
            stored == [s EXCEPT !.data[off] = m, !.got = off + 1]
            whole == stored.got >= total
            new == IF whole THEN DropSlot(stored) ELSE stored
            next == IF held = {} THEN NextSlot ELSE fgRx.next
<1>1. total \in Nat \ {0} /\ off \in Nat /\ off < total
  BY FgConstants
<1>2. id \in 1 .. FgIds
  BY <1>1, IdOfType
<1>3. /\ i \in FgPlaces /\ (held # {} => was.active /\ was.id = id)
      /\ \A j \in FgPlaces \ {i} : fgRx.slots[j].active => fgRx.slots[j].id # id
      /\ NextSlot \in FgPlaces
  <2>. HIDE DEF id
  <2>. QED  BY SlotOf, ZenonT(60)
<1>4. \/ held = {} /\ off # 0 /\ fgRx' = fgRx /\ fgMixed' = fgMixed
      \/ held # {} /\ ~FgFits(s, off, total) /\ fgMixed' = fgMixed
         /\ fgRx' = [next |-> next, slots |-> [fgRx.slots EXCEPT ![i] = DropSlot(s)]]
      \/ /\ (held # {} /\ FgFits(s, off, total)) \/ (held = {} /\ off = 0)
         /\ fgRx' = [next |-> next, slots |-> [fgRx.slots EXCEPT ![i] = new]]
         /\ fgMixed' = (fgMixed \/ (whole /\ ~fgTx.firstLost
                                     /\ \E o \in 0 .. total - 1 : stored.data[o] # m))
  BY Zenon DEF Ingest
<1>5. FgSlotOK(was) /\ FgSlotOK(s) /\ fgRx.next \in FgPlaces /\ next \in FgPlaces
  <2>1. FgSlotOK(was)
    BY <1>3 DEF FgInv, FgShape
  <2>2. FgSlotOK(StartSlot(was, id, total))
    BY <1>1, <1>2, <2>1, StartSlotOK
  <2>. QED  BY <1>3, <2>1, <2>2 DEF FgInv, FgShape
<1>6. off = 0 => s.active /\ s.id = id /\ s.total = total /\ s.got = 0
  <2>1. off = 0 => s = StartSlot(was, id, total)
    OBVIOUS
  <2>. HIDE DEF s, was, id
  <2>2. LET p == StartSlot(was, id, total) IN
        p.active /\ p.id = id /\ p.total = total /\ p.got = 0
    BY <1>1, <1>2, <1>5, StartSlotOK
  <2>. QED  BY <2>1, <2>2
<1>7. off # 0 => s = was
  OBVIOUS
<1>8. \A slots : (\A j \in FgPlaces \ {i} : slots[j] = fgRx.slots[j])
                   => \A j \in FgPlaces \ {i} : slots[j].active => slots[j].id # id
  BY <1>3
<1>. HIDE DEF i, was, s, held, id
<1>9. CASE held = {} /\ off # 0 /\ fgRx' = fgRx /\ fgMixed' = fgMixed
  BY <1>1, <1>9 DEF FgInv, FgShape
<1>10. CASE /\ held # {} /\ ~FgFits(s, off, total) /\ fgMixed' = fgMixed
            /\ fgRx' = [next |-> next, slots |-> [fgRx.slots EXCEPT ![i] = DropSlot(s)]]
  <2>. DEFINE slots == [fgRx.slots EXCEPT ![i] = DropSlot(s)]
  <2>1. FgSlotOK(DropSlot(s)) /\ ~DropSlot(s).active
    BY <1>5, DropSlotOK
  <2>2. /\ slots = [j \in FgPlaces |-> slots[j]] /\ OneSlotEach(slots)
        /\ slots[i] = DropSlot(s) /\ \A j \in FgPlaces : FgSlotOK(slots[j])
        /\ \A j \in FgPlaces \ {i} : slots[j] = fgRx.slots[j]
    BY <1>3, <2>1, SlotPut
  <2>3. fgRx'.slots = slots /\ fgRx'.next = next /\ fgRx' = [next |-> next, slots |-> slots]
    BY <1>10
  <2>. HIDE DEF slots, next
  <2>4. HoldOnly(slots, m)
    BY <1>8, <2>1, <2>2 DEF HoldOnly, id
  <2>. QED  BY <1>5, <1>10, <2>2, <2>3, <2>4 DEF FgInv
<1>11. CASE /\ (held # {} /\ FgFits(s, off, total)) \/ (held = {} /\ off = 0)
            /\ fgRx' = [next |-> next, slots |-> [fgRx.slots EXCEPT ![i] = new]]
            /\ fgMixed' = (fgMixed \/ (whole /\ ~fgTx.firstLost
                                        /\ \E o \in 0 .. total - 1 : stored.data[o] # m))
  <2>1. s.active /\ s.id = id /\ s.total = total /\ s.got = off
    BY <1>3, <1>6, <1>7, <1>11 DEF FgFits
  <2>2. stored = Stored(s, m)
    BY <2>1 DEF Stored
  <2>3. /\ FgSlotOK(stored) /\ stored.active = s.active /\ stored.id = s.id
        /\ stored.got = off + 1
        /\ \A o \in 0 .. total - 1 : stored.data[o] = IF o = off THEN m ELSE s.data[o]
    <3>. HIDE DEF stored
    <3>1. s.total \in FgTotals /\ s.got < s.total
      BY <1>1, <2>1
    <3>2. /\ FgSlotOK(stored) /\ stored.active = s.active /\ stored.id = s.id
          /\ stored.got = s.got + 1
          /\ \A o \in 0 .. s.total - 1 : stored.data[o] = IF o = s.got THEN m ELSE s.data[o]
      BY <1>5, <2>2, <3>1, StoredOK
    <3>. QED  BY <2>1, <3>2
  <2>. HIDE DEF stored
  <2>4. ~fgTx.firstLost => \A o \in 0 .. off : stored.data[o] = m
    <3>1. CASE off = 0
      BY <1>1, <2>3, <3>1
    <3>2. CASE off # 0
      <4>1. ~fgTx.firstLost => \A o \in 0 .. off - 1 : s.data[o] = m
        BY <1>1, <1>3, <1>7, <2>1, <3>2 DEF FgInv, HoldOnly, was, id
      <4>. QED  BY <1>1, <2>3, <4>1
    <3>. QED  BY <3>1, <3>2
  <2>5. ~fgMixed'
    <3>1. whole => \A o \in 0 .. total - 1 : o \in 0 .. off
      BY <1>1, <2>3
    <3>. HIDE DEF whole
    <3>2. ~(whole /\ ~fgTx.firstLost /\ \E o \in 0 .. total - 1 : stored.data[o] # m)
      BY <2>4, <3>1
    <3>3. ~fgMixed
      BY DEF FgInv
    <3>. QED  BY <1>11, <3>2, <3>3
  <2>6. FgSlotOK(new) /\ (new.active => new = stored)
    BY <2>3, DropSlotOK
  <2>. HIDE DEF new
  <2>. DEFINE slots == [fgRx.slots EXCEPT ![i] = new]
  <2>7. new.active => \A j \in FgPlaces \ {i} : fgRx.slots[j].active => fgRx.slots[j].id # new.id
    BY <1>3, <2>1, <2>3, <2>6
  <2>8. /\ slots = [j \in FgPlaces |-> slots[j]] /\ OneSlotEach(slots)
        /\ slots[i] = new /\ \A j \in FgPlaces : FgSlotOK(slots[j])
        /\ \A j \in FgPlaces \ {i} : slots[j] = fgRx.slots[j]
    BY <1>3, <2>6, <2>7, SlotPut
  <2>9. fgRx'.slots = slots /\ fgRx'.next = next /\ fgRx' = [next |-> next, slots |-> slots]
    BY <1>11
  <2>. HIDE DEF slots, next
  <2>10. ~fgTx.firstLost => HoldOnly(slots, m)
    <3>. SUFFICES ASSUME ~fgTx.firstLost, NEW j \in FgPlaces, slots[j].active, slots[j].id = id
                  PROVE  \A o \in 0 .. slots[j].got - 1 : slots[j].data[o] = m
      BY DEF HoldOnly, id
    <3>1. j = i
      BY <1>8, <2>8
    <3>2. slots[j] = stored
      BY <2>6, <2>8, <3>1
    <3>3. stored.got - 1 = off
      BY <1>1, <2>3
    <3>. QED  BY <2>4, <3>2, <3>3
  <2>. QED  BY <1>5, <2>5, <2>8, <2>9, <2>10
<1>. QED  BY <1>4, <1>9, <1>10, <1>11

LEMMA FgStart == FgInit => FgInv
<1>. SUFFICES ASSUME FgInit PROVE FgInv
  OBVIOUS
<1>. DEFINE no == FALSE
            slots == [i \in FgPlaces |-> FreeSlot]
<1>1. /\ fgTx = [msg |-> 0, total |-> 0, off |-> 0, firstLost |-> no]
      /\ fgRx = [next |-> 0, slots |-> slots] /\ ~fgMixed
  BY DEF FgInit, FgPlaces
<1>2. /\ slots = [i \in FgPlaces |-> slots[i]]
      /\ \A i \in FgPlaces : FgSlotOK(slots[i]) /\ ~slots[i].active
  BY FreeSlotOK
<1>. HIDE DEF no, slots
<1>3. FgSending(fgTx)
  BY <1>1 DEF FgSending
<1>. QED  BY <1>1, <1>2, <1>3, FgConstants DEF FgInv, FgShape, OneSlotEach

\* What is sent changes, and every slot is as it was or empty.
LEMMA FgSenderKeeps ==
  ASSUME FgInv, FgSending(fgTx)', fgMixed' = fgMixed,
         \/ fgRx' = fgRx
         \/ /\ fgRx' = [next |-> 0, slots |-> fgRx'.slots]
            /\ fgRx'.slots = [i \in FgPlaces |-> fgRx'.slots[i]]
            /\ \A i \in FgPlaces : FgSlotOK(fgRx'.slots[i]) /\ ~fgRx'.slots[i].active,
         fgTx'.off > 0 /\ ~fgTx'.firstLost => HoldOnly(fgRx'.slots, fgTx'.msg)
  PROVE  FgInv'
<1>1. FgShape' /\ OneSlotEach(fgRx'.slots)
  BY FgConstants DEF FgInv, FgShape, OneSlotEach, FgSending
<1>. QED  BY <1>1 DEF FgInv, OneSlotEach, HoldOnly, IdOf

LEMMA FgInductive == FgInv /\ [FgNext]_fgVars => FgInv'
<1>. SUFFICES ASSUME FgInv, [FgNext]_fgVars PROVE FgInv'
  OBVIOUS
<1>. DEFINE tx == fgTx
<1>1. /\ tx = [msg |-> tx.msg, total |-> tx.total, off |-> tx.off, firstLost |-> tx.firstLost]
      /\ tx.msg \in Nat /\ tx.total \in FgTotals \cup {0} /\ tx.off \in 0 .. tx.total
      /\ tx.total # 0 => tx.msg # 0
      /\ tx.total \in Nat /\ FgTotals \subseteq Nat \ {0}
  BY FgConstants DEF FgInv, FgShape, FgSending
<1>2. ASSUME NEW t \in FgTotals, FragStart(t)
      PROVE  FgInv'
  <2>. DEFINE no == FALSE
  <2>1. /\ fgTx' = [msg |-> tx.msg + 1, total |-> t, off |-> 0, firstLost |-> no]
        /\ fgRx' = fgRx /\ fgMixed' = fgMixed
    BY <1>2 DEF FragStart
  <2>. HIDE DEF no
  <2>2. FgSending(fgTx)' /\ fgTx'.off = 0
    BY <1>1, <2>1 DEF FgSending
  <2>. QED  BY <2>1, <2>2, FgSenderKeeps
<1>3. ASSUME tx.off < tx.total, fgTx' = [tx EXCEPT !.off = @ + 1]
      PROVE  /\ FgSending(fgTx)' /\ fgTx'.off > 0 /\ fgTx'.msg = tx.msg
             /\ fgTx'.firstLost = tx.firstLost
  BY <1>1, <1>3 DEF FgSending
<1>4. CASE FragEmit
  <2>1. tx.off < tx.total /\ fgTx' = [tx EXCEPT !.off = @ + 1]
        /\ Ingest(tx.msg, tx.off, tx.total)
    BY <1>4 DEF FragEmit
  <2>2. tx.msg \in Nat \ {0} /\ tx.total \in FgTotals /\ tx.off \in 0 .. tx.total - 1
    BY <1>1, <2>1
  <2>3. /\ fgRx' = [next |-> fgRx'.next, slots |-> fgRx'.slots] /\ fgRx'.next \in FgPlaces
        /\ fgRx'.slots = [i \in FgPlaces |-> fgRx'.slots[i]]
        /\ \A i \in FgPlaces : FgSlotOK(fgRx'.slots[i])
        /\ OneSlotEach(fgRx'.slots)
        /\ ~tx.firstLost => HoldOnly(fgRx'.slots, tx.msg)
        /\ ~fgMixed'
    BY <2>1, <2>2, IngestKeeps
  <2>4. /\ FgSending(fgTx)' /\ fgTx'.msg = tx.msg /\ fgTx'.firstLost = tx.firstLost
    BY <1>3, <2>1
  <2>. QED  BY <2>3, <2>4 DEF FgInv, FgShape, OneSlotEach, HoldOnly, IdOf, FgSending
<1>5. CASE FragLost
  <2>1. /\ tx.off < tx.total /\ fgRx' = fgRx /\ fgMixed' = fgMixed
        /\ fgTx' = [tx EXCEPT !.off = @ + 1, !.firstLost = @ \/ tx.off = 0]
    BY <1>5 DEF FragLost
  <2>. DEFINE lost == tx.firstLost \/ tx.off = 0
  <2>2. fgTx' = [msg |-> tx.msg, total |-> tx.total, off |-> tx.off + 1, firstLost |-> lost]
    BY <1>1, <2>1
  <2>3. lost <=> (tx.firstLost \/ tx.off = 0)
    OBVIOUS
  <2>. HIDE DEF lost
  <2>4. FgSending(fgTx)' /\ fgTx'.msg = tx.msg /\ fgTx'.firstLost = lost
    <3>1. tx.off + 1 \in 0 .. tx.total
      BY <1>1, <2>1
    <3>. QED  BY <1>1, <2>2, <3>1 DEF FgSending
  <2>5. ~fgTx'.firstLost => tx.off > 0 /\ ~tx.firstLost
    BY <1>1, <2>3, <2>4
  <2>6. ~fgTx'.firstLost => HoldOnly(fgRx'.slots, fgTx'.msg)
    BY <2>1, <2>4, <2>5 DEF FgInv
  <2>. QED  BY <2>1, <2>4, <2>6, FgSenderKeeps
<1>6. ASSUME NEW s, \A i \in FgPlaces : FgSlotOK(s[i]) /\ ~s[i].active,
             fgRx' = [next |-> 0, slots |-> [i \in FgPlaces |-> s[i]]], fgMixed' = fgMixed,
             FgSending(fgTx)'
      PROVE  FgInv'
  <2>. DEFINE slots == [i \in FgPlaces |-> s[i]]
  <2>1. /\ slots = [i \in FgPlaces |-> slots[i]]
        /\ \A i \in FgPlaces : FgSlotOK(slots[i]) /\ ~slots[i].active
    BY <1>6
  <2>2. fgRx' = [next |-> 0, slots |-> slots] /\ fgRx'.slots = slots
    BY <1>6
  <2>. HIDE DEF slots
  <2>3. HoldOnly(fgRx'.slots, fgTx'.msg)
    BY <2>1, <2>2 DEF HoldOnly
  <2>. QED  BY <1>6, <2>1, <2>2, <2>3, FgSenderKeeps
<1>7. /\ DOMAIN fgRx.slots = FgPlaces /\ \A i \in FgPlaces : FgSlotOK(fgRx.slots[i])
  BY DEF FgInv, FgShape
<1>8. CASE FragReset
  <2>. DEFINE s == [i \in FgPlaces |-> DropSlot(fgRx.slots[i])]
  <2>1. /\ fgRx' = [next |-> 0, slots |-> s] /\ fgMixed' = fgMixed
        /\ fgTx' = [tx EXCEPT !.off = tx.total]
    BY <1>7, <1>8 DEF FragReset
  <2>2. \A i \in FgPlaces : FgSlotOK(s[i]) /\ ~s[i].active
    BY <1>7, DropSlotOK
  <2>3. FgSending(fgTx)'
    BY <1>1, <2>1 DEF FgSending
  <2>4. s = [i \in FgPlaces |-> s[i]]
    OBVIOUS
  <2>. HIDE DEF s
  <2>. QED  BY <1>6, <2>1, <2>2, <2>3, <2>4
<1>9. CASE FragRestart
  <2>. DEFINE no == FALSE
              s == [i \in FgPlaces |-> FreeSlot]
  <2>1. /\ fgRx' = [next |-> 0, slots |-> s] /\ fgMixed' = fgMixed
        /\ fgTx' = [msg |-> 0, total |-> 0, off |-> 0, firstLost |-> no]
    BY <1>7, <1>9 DEF FragRestart
  <2>2. \A i \in FgPlaces : FgSlotOK(s[i]) /\ ~s[i].active
    BY FreeSlotOK
  <2>. HIDE DEF no
  <2>3. FgSending(fgTx)'
    BY <2>1 DEF FgSending
  <2>4. s = [i \in FgPlaces |-> s[i]]
    OBVIOUS
  <2>. HIDE DEF s
  <2>. QED  BY <1>6, <2>1, <2>2, <2>3, <2>4
<1>10. CASE UNCHANGED fgVars
  <2>1. fgTx' = fgTx /\ fgRx' = fgRx /\ fgMixed' = fgMixed
    BY <1>10 DEF fgVars
  <2>2. FgSending(fgTx)'
    BY <2>1 DEF FgInv, FgShape, FgSending
  <2>3. fgTx'.off > 0 /\ ~fgTx'.firstLost => HoldOnly(fgRx'.slots, fgTx'.msg)
    BY <2>1 DEF FgInv
  <2>. QED  BY <2>1, <2>2, <2>3, FgSenderKeeps
<1>. QED  BY <1>2, <1>4, <1>5, <1>8, <1>9, <1>10 DEF FgNext

LEMMA FgKept == FgInv => PayloadsWhole /\ FgTypeOK
<1>. SUFFICES ASSUME FgInv PROVE PayloadsWhole /\ FgTypeOK
  OBVIOUS
<1>1. DOMAIN fgRx.slots = FgPlaces /\ fgRx.next \in 0 .. FgSlots - 1
  BY DEF FgInv, FgShape, FgPlaces
<1>2. ASSUME NEW i \in FgPlaces
      PROVE  LET s == fgRx.slots[i] IN
             s.active \in BOOLEAN /\ s.id \in 0 .. FgIds /\ s.got <= s.total
  <2>1. FgSlotOK(fgRx.slots[i])
    BY DEF FgInv, FgShape
  <2>. QED  BY <2>1 DEF FgSlotOK
<1>. QED  BY <1>1, <1>2 DEF PayloadsWhole, FgTypeOK, FgInv

-----------------------------------------------------------------------------
(***************************************************************************)
(* The serial bridge: the decoder holds no more than a frame may have.     *)
(***************************************************************************)
SlTyped ==
  /\ slRx = [buf |-> slRx.buf, esc |-> slRx.esc]
  /\ \E S : slRx.buf \in Seq(S)
  /\ Len(slRx.buf) <= SlMaxLen /\ Len(slGot) <= SlMaxLen

LEMMA SlTypedStart == SlInit => SlTyped
<1>. SUFFICES ASSUME SlInit PROVE SlTyped
  OBVIOUS
<1>. DEFINE no == FALSE
<1>1. slRx = [buf |-> <<>>, esc |-> no] /\ slGot = <<>>
  BY DEF SlInit
<1>2. <<>> \in Seq({}) /\ Len(<<>>) = 0 /\ SlMaxLen \in Nat \ {0}
  BY SlAssumption
<1>. HIDE DEF no
<1>. QED  BY <1>1, <1>2 DEF SlTyped

LEMMA SlTypedInductive == SlTyped /\ [SlNext]_slVars => SlTyped'
<1>. SUFFICES ASSUME SlTyped, [SlNext]_slVars PROVE SlTyped'
  OBVIOUS
<1>0. /\ <<>> \in Seq({}) /\ Len(<<>>) = 0 /\ SlMaxLen \in Nat \ {0}
      /\ slRx = [buf |-> slRx.buf, esc |-> slRx.esc]
      /\ Len(slRx.buf) <= SlMaxLen /\ Len(slGot) <= SlMaxLen
  BY SlAssumption DEF SlTyped
<1>1. PICK S : slRx.buf \in Seq(S)
  BY DEF SlTyped
<1>2. ASSUME NEW b, slRx' = SlAppend(b), slGot' = slGot
      PROVE  SlTyped'
  <2>. DEFINE no == FALSE
  <2>1. CASE Len(slRx.buf) < SlMaxLen
    <3>1. slRx' = [buf |-> Append(slRx.buf, b), esc |-> no]
      BY <1>2, <2>1 DEF SlAppend
    <3>2. slRx.buf \in Seq(S \cup {b})
      BY <1>1
    <3>3. PICK t : t = Append(slRx.buf, b)
      OBVIOUS
    <3>4. t \in Seq(S \cup {b}) /\ Len(t) = Len(slRx.buf) + 1
      BY <3>2, <3>3
    <3>. HIDE DEF no
    <3>5. Len(t) <= SlMaxLen
      BY <1>0, <1>1, <2>1, <3>4
    <3>. QED  BY <1>0, <1>2, <3>1, <3>3, <3>4, <3>5 DEF SlTyped
  <2>2. CASE ~(Len(slRx.buf) < SlMaxLen)
    <3>1. slRx' = [buf |-> <<>>, esc |-> no]
      BY <1>2, <2>2 DEF SlAppend
    <3>. HIDE DEF no
    <3>. QED  BY <1>0, <1>2, <3>1 DEF SlTyped
  <2>. QED  BY <2>1, <2>2
<1>3. ASSUME NEW e, slRx' = [buf |-> <<>>, esc |-> e], slGot' \in {slGot, slRx.buf}
      PROVE  SlTyped'
  BY <1>0, <1>3 DEF SlTyped
<1>4. ASSUME NEW e, slRx' = [buf |-> slRx.buf, esc |-> e], slGot' \in {slGot, slRx.buf}
      PROVE  SlTyped'
  BY <1>0, <1>1, <1>4 DEF SlTyped
<1>5. CASE SlFeed
  <2>. DEFINE no == FALSE
              yes == TRUE
              b == Head(slLine.left)
  <2>1. CASE b = "END"
    <3>1. slRx' = SlAfterEnd /\ slGot' \in {slGot, slRx.buf}
      BY <1>5, <2>1 DEF SlFeed
    <3>2. SlAfterEnd \in {slRx, [buf |-> <<>>, esc |-> no]}
      BY DEF SlAfterEnd
    <3>. HIDE DEF no
    <3>. QED  BY <1>0, <1>3, <1>4, <3>1, <3>2
  <2>2. CASE b # "END"
    <3>1. slRx' = SlFed(b) /\ slGot' = slGot
      BY <1>5, <2>2 DEF SlFeed
    <3>2. SlFed(b) \in {SlAppend("end"), SlAppend("esc"), SlAppend(b),
                        [buf |-> <<>>, esc |-> no], [slRx EXCEPT !.esc = yes]}
      BY DEF SlFed
    <3>. HIDE DEF no, yes, b
    <3>3. [slRx EXCEPT !.esc = yes] = [buf |-> slRx.buf, esc |-> yes]
      BY <1>0
    <3>. QED  BY <1>2, <1>3, <1>4, <3>1, <3>2, <3>3
  <2>. QED  BY <2>1, <2>2
<1>6. ASSUME slRx' = slRx, slGot' = slGot
      PROVE  SlTyped'
  BY <1>6 DEF SlTyped
<1>. QED  BY <1>5, <1>6 DEF SlNext, SlSend, SlLose, slVars

LEMMA SlTypes == SlTyped => SlTypeOK
  BY DEF SlTyped, SlTypeOK

-----------------------------------------------------------------------------
(***************************************************************************)
(* The frames on the serial bridge.  FlattenSeq joins the escaped bytes,   *)
(* so the symbols of a byte are where the bytes before it end; and while   *)
(* none is lost the decoder holds the bytes whose symbols have gone by.    *)
(***************************************************************************)
\* Where the parts of a flattened sequence are.
Starts(at, s) ==
  /\ at \in [0 .. Len(s) -> Nat] /\ at[0] = 0
  /\ \A i \in 1 .. Len(s) : at[i] = at[i - 1] + Len(s[i])

\* A later part starts no earlier.
LEMMA StartsRise ==
  ASSUME NEW V, NEW s \in Seq(Seq(V)), NEW at, Starts(at, s),
         NEW m \in 0 .. Len(s), NEW i \in 0 .. m
  PROVE  at[i] <= at[m]
<1>. DEFINE Bad == {k \in i .. Len(s) : ~(at[i] <= at[k])}
<1>. SUFFICES ASSUME ~(at[i] <= at[m]) PROVE FALSE
  OBVIOUS
<1>0. \A k \in 0 .. Len(s) : at[k] \in Nat
  BY DEF Starts
<1>1. PICK k \in Bad : \A j \in Bad : k <= j
  <2>1. Bad \subseteq Nat /\ m \in Bad
    OBVIOUS
  <2>. HIDE DEF Bad
  <2>. QED  BY <2>1, LeastOf
<1>2. k \in i .. Len(s) /\ ~(at[i] <= at[k])
  BY <1>1
<1>3. k # i
  BY <1>0, <1>2
<1>4. k - 1 \in i .. Len(s) /\ ~(k <= k - 1)
  BY <1>2, <1>3
<1>5. at[i] <= at[k - 1]
  BY <1>1, <1>4
<1>6. at[k] = at[k - 1] + Len(s[k]) /\ Len(s[k]) \in Nat
  BY <1>2, <1>3 DEF Starts
<1>7. at[i] \in Nat /\ at[k] \in Nat /\ at[k - 1] \in Nat
  BY <1>0, <1>2, <1>4
<1>. HIDE DEF Bad
<1>. QED  BY <1>2, <1>5, <1>6, <1>7

LEMMA PartWithin ==
  ASSUME NEW a \in Nat, NEW b \in Nat, NEW c \in Nat, NEW j \in 1 .. b, a + b <= c
  PROVE  a + j \in 1 .. c
  OBVIOUS

LEMMA OneOn ==
  ASSUME NEW a \in Nat, NEW b \in Nat, NEW c \in Nat, NEW j \in 1 .. b, a + j \in 1 .. c
  PROVE  1 + a + j = 1 + (a + j) /\ 1 + (a + j) \in 1 .. 1 + c
  OBVIOUS

LEMMA Joined ==
  ASSUME NEW V, NEW a \in Seq(V), NEW b \in Seq(V)
  PROVE  /\ a \o b \in Seq(V) /\ Len(a \o b) = Len(a) + Len(b)
         /\ \A x \in 1 .. Len(a) : (a \o b)[x] = a[x]
         /\ \A j \in 1 .. Len(b) : (a \o b)[Len(a) + j] = b[j]
  OBVIOUS

\* The first k parts one after the other.
IsFlat(F, s, k) ==
  F = [i \in 1 .. k |-> IF i = 1 THEN s[i] ELSE F[i - 1] \o s[i]]

LEMMA FlatThere ==
  ASSUME NEW n \in Nat, NEW s
  PROVE  \E F : IsFlat(F, s, n)
<1>. SUFFICES ASSUME ~\E F : IsFlat(F, s, n) PROVE FALSE
  OBVIOUS
<1>. DEFINE Bad == {k \in Nat : ~\E F : IsFlat(F, s, k)}
<1>1. PICK k \in Bad : \A j \in Bad : k <= j
  <2>1. Bad \subseteq Nat /\ n \in Bad
    OBVIOUS
  <2>. HIDE DEF Bad
  <2>. QED  BY <2>1, LeastOf
<1>2. k # 0
  <2>1. IsFlat([i \in 1 .. 0 |-> 0], s, 0)
    BY DEF IsFlat
  <2>. QED  BY <1>1, <2>1
<1>3. PICK F : IsFlat(F, s, k - 1)
  <2>1. k - 1 \in Nat /\ ~(k <= k - 1)
    BY <1>2
  <2>. QED  BY <1>1, <2>1
<1>. DEFINE G == [i \in 1 .. k |-> IF i < k THEN F[i] ELSE IF i = 1 THEN s[i] ELSE F[i - 1] \o s[i]]
<1>4. IsFlat(G, s, k)
  <2>1. \A i \in 1 .. k - 1 : G[i] = F[i]
    OBVIOUS
  <2>2. \A i \in 1 .. k - 1 : F[i] = IF i = 1 THEN s[i] ELSE F[i - 1] \o s[i]
    BY <1>3 DEF IsFlat
  <2>3. ASSUME NEW i \in 1 .. k
        PROVE  G[i] = IF i = 1 THEN s[i] ELSE G[i - 1] \o s[i]
    <3>1. CASE i < k
      <4>1. i \in 1 .. k - 1 /\ (i # 1 => i - 1 \in 1 .. k - 1)
        BY <1>2, <3>1
      <4>. HIDE DEF G
      <4>. QED  BY <2>1, <2>2, <4>1
    <3>2. CASE ~(i < k)
      <4>1. G[i] = IF i = 1 THEN s[i] ELSE F[i - 1] \o s[i]
        BY <3>2
      <4>2. i # 1 => i - 1 \in 1 .. k - 1
        BY <1>2, <3>2
      <4>. HIDE DEF G
      <4>. QED  BY <2>1, <4>1, <4>2
    <3>. QED  BY <3>1, <3>2
  <2>4. G = [i \in 1 .. k |-> G[i]]
    OBVIOUS
  <2>. HIDE DEF G
  <2>. QED  BY <2>3, <2>4 DEF IsFlat
<1>. QED  BY <1>1, <1>4

\* What the first parts hold, and where.
LEMMA FlatHolds ==
  ASSUME NEW V, NEW s \in Seq(Seq(V)), NEW F, IsFlat(F, s, Len(s)), NEW at, Starts(at, s),
         NEW m \in 1 .. Len(s)
  PROVE  /\ F[m] \in Seq(V) /\ Len(F[m]) = at[m]
         /\ \A i \in 1 .. m : \A j \in 1 .. Len(s[i]) : F[m][at[i - 1] + j] = s[i][j]
<1>. DEFINE Good(k) == /\ F[k] \in Seq(V) /\ Len(F[k]) = at[k]
                       /\ \A i \in 1 .. k : \A j \in 1 .. Len(s[i]) : F[k][at[i - 1] + j] = s[i][j]
            Bad == {k \in 1 .. Len(s) : ~Good(k)}
<1>. SUFFICES ASSUME ~Good(m) PROVE FALSE
  OBVIOUS
<1>1. PICK k \in Bad : \A j \in Bad : k <= j
  <2>1. Bad \subseteq Nat /\ m \in Bad
    OBVIOUS
  <2>. HIDE DEF Bad
  <2>. QED  BY <2>1, LeastOf
<1>2. k \in 1 .. Len(s) /\ ~Good(k)
  BY <1>1
<1>7. k \in 1 .. Len(s) /\ k \in Nat
  BY <1>2
<1>3. F[k] = IF k = 1 THEN s[k] ELSE F[k - 1] \o s[k]
  BY <1>2 DEF IsFlat
<1>4. s[k] \in Seq(V) /\ Len(s[k]) \in Nat /\ at[k] = at[k - 1] + Len(s[k]) /\ at[k - 1] \in Nat
  <2>1. s[k] \in Seq(V)
    BY <1>2, ElementOfSeq
  <2>2. at[k] = at[k - 1] + Len(s[k]) /\ k - 1 \in 0 .. Len(s)
    BY <1>2, SMTT(30) DEF Starts
  <2>3. at[k - 1] \in Nat
    BY <2>2 DEF Starts
  <2>. QED  BY <2>1, <2>2, <2>3, LenProperties
<1>5. CASE k = 1
  <2>1. at[k - 1] = 0
    BY <1>5 DEF Starts
  <2>2. Good(k)
    <3>1. ASSUME NEW i \in 1 .. k, NEW j \in 1 .. Len(s[i]) PROVE F[k][at[i - 1] + j] = s[i][j]
      <4>1. i = k
        BY <1>5
      <4>. QED  BY <1>3, <1>5, <2>1, <4>1
    <3>. QED  BY <1>3, <1>4, <1>5, <2>1, <3>1
  <2>. QED  BY <1>2, <2>2
<1>6. CASE k # 1
  <2>1. k - 1 \in 1 .. Len(s) /\ ~(k <= k - 1)
    BY <1>6, <1>7, SMTT(30)
  <2>2. Good(k - 1)
    BY <1>1, <2>1
  <2>3. F[k - 1] \in Seq(V) /\ Len(F[k - 1]) = at[k - 1]
    BY <2>2
  <2>. HIDE DEF Bad
  <2>0. F[k] = F[k - 1] \o s[k]
    BY <1>3, <1>6
  <2>. DEFINE a == F[k - 1]
              b == s[k]
  <2>9. a \in Seq(V) /\ b \in Seq(V)
    BY <1>4, <2>3
  <2>10. Len(a) = at[k - 1] /\ F[k] = a \o b /\ at[k] = Len(a) + Len(b)
    BY <1>4, <2>0, <2>3
  <2>. HIDE DEF a, b
  <2>11. /\ a \o b \in Seq(V) /\ Len(a \o b) = Len(a) + Len(b)
         /\ \A x \in 1 .. Len(a) : (a \o b)[x] = a[x]
         /\ \A j \in 1 .. Len(b) : (a \o b)[Len(a) + j] = b[j]
    BY <2>9, Joined
  <2>4. F[k] \in Seq(V) /\ Len(F[k]) = at[k]
    BY <2>10, <2>11
  <2>5. \A x \in 1 .. at[k - 1] : F[k][x] = F[k - 1][x]
    BY <2>10, <2>11, Zenon DEF a
  <2>6. \A j \in 1 .. Len(s[k]) : F[k][at[k - 1] + j] = s[k][j]
    BY <2>10, <2>11, Zenon DEF b
  <2>7. \A i \in 1 .. k : \A j \in 1 .. Len(s[i]) : F[k][at[i - 1] + j] = s[i][j]
    <3>. SUFFICES ASSUME NEW i \in 1 .. k, NEW j \in 1 .. Len(s[i])
                  PROVE  F[k][at[i - 1] + j] = s[i][j]
      OBVIOUS
    <3>1. CASE i = k
      BY <2>6, <3>1
    <3>2. CASE i # k
      <4>1. i \in 1 .. k - 1
        BY <1>7, <3>2
      <4>2. F[k - 1][at[i - 1] + j] = s[i][j]
        BY <2>2, <4>1
      <4>3. at[i - 1] + j \in 1 .. at[k - 1]
        <5>1. i \in 1 .. Len(s) /\ i - 1 \in 0 .. Len(s) /\ i \in 0 .. k - 1 /\ k - 1 \in 0 .. Len(s)
          BY <1>7, <4>1
        <5>2. at[i - 1] \in Nat /\ at[i] = at[i - 1] + Len(s[i])
          BY <5>1 DEF Starts
        <5>3. at[i] <= at[k - 1]
          BY <5>1, StartsRise
        <5>4. Len(s[i]) \in Nat /\ j \in 1 .. Len(s[i])
          BY <5>1, ElementOfSeq, LenProperties
        <5>5. at[i - 1] + Len(s[i]) <= at[k - 1] /\ at[k - 1] \in Nat
          BY <1>4, <5>2, <5>3
        <5>. QED  BY <5>2, <5>4, <5>5, PartWithin
      <4>. QED  BY <2>5, <4>2, <4>3
    <3>. QED  BY <3>1, <3>2
  <2>. HIDE DEF Bad
  <2>8. Good(k)
    BY <2>4, <2>7, Zenon
  <2>. QED  BY <1>2, <2>8
<1>. QED  BY <1>5, <1>6

LEMMA StartsThere ==
  ASSUME NEW V, NEW s \in Seq(Seq(V))
  PROVE  \E at : Starts(at, s)
<1>. DEFINE n == Len(s)
            f == [i \in 1 .. n |-> Len(s[i])]
            at == [k \in 0 .. n |-> Prefix(f, k)]
<1>1. n \in Nat
  OBVIOUS
<1>2. \A i \in 1 .. n : Len(s[i]) \in Nat
  BY ElementOfSeq, LenProperties
<1>3. f \in [1 .. n -> Nat]
  BY <1>2
<1>4. \A k \in 0 .. n : /\ Prefix(f, k) \in Nat /\ Prefix(f, 0) = 0
                        /\ k < n => Prefix(f, k + 1) = Prefix(f, k) + f[k + 1]
  <2>. HIDE DEF f, n
  <2>. QED  BY <1>1, <1>3, PrefixNext
<1>5. at \in [0 .. n -> Nat] /\ at[0] = 0
  <2>. HIDE DEF f
  <2>. QED  BY <1>1, <1>4
<1>6. ASSUME NEW i \in 1 .. n PROVE at[i] = at[i - 1] + Len(s[i])
  <2>1. i - 1 \in 0 .. n /\ i - 1 < n /\ (i - 1) + 1 = i /\ i \in 0 .. n
    BY <1>1
  <2>2. Prefix(f, i) = Prefix(f, i - 1) + f[i]
    <3>. HIDE DEF f, n
    <3>. QED  BY <1>4, <2>1
  <2>3. f[i] = Len(s[i])
    OBVIOUS
  <2>. HIDE DEF f, n
  <2>. QED  BY <2>1, <2>2, <2>3
<1>. QED  BY <1>5, <1>6 DEF Starts

LEMMA Flattened ==
  ASSUME NEW V, NEW s \in Seq(Seq(V)), Len(s) # 0, NEW at, Starts(at, s)
  PROVE  /\ FlattenSeq(s) \in Seq(V) /\ Len(FlattenSeq(s)) = at[Len(s)]
         /\ \A i \in 1 .. Len(s) : \A j \in 1 .. Len(s[i]) : FlattenSeq(s)[at[i - 1] + j] = s[i][j]
<1>. DEFINE F == CHOOSE G : IsFlat(G, s, Len(s))
<1>1. IsFlat(F, s, Len(s))
  <2>1. Len(s) \in Nat
    BY LenProperties
  <2>2. \E G : IsFlat(G, s, Len(s))
    BY <2>1, FlatThere
  <2>. QED  BY <2>2, Zenon
<1>2. FlattenSeq(s) = F[Len(s)]
  BY DEF FlattenSeq, IsFlat
<1>. HIDE DEF F
<1>3. Len(s) \in 1 .. Len(s)
  OBVIOUS
<1>. QED  BY <1>1, <1>2, <1>3, FlatHolds

Symbols == SlBytes \cup {"END", "ESC", "ESC_END", "ESC_ESC"}
SlParts(p) == [i \in DOMAIN p |-> SlEscaped(p[i])]
SlWire(p) == <<"END">> \o FlattenSeq(SlParts(p)) \o <<"END">>
StartOf(p) == CHOOSE at : Starts(at, SlParts(p))

\* Where the symbols of each byte are on the line.
LEMMA WireHolds ==
  ASSUME NEW p \in SlPayloads
  PROVE  LET at == StartOf(p) IN
         /\ p \in Seq(SlBytes) /\ Len(p) \in 1 .. SlMaxLen
         /\ at \in [0 .. Len(p) -> Nat] /\ at[0] = 0
         /\ \A i \in 1 .. Len(p) : at[i] = at[i - 1] + Len(SlEscaped(p[i])) /\ at[i] <= at[Len(p)]
         /\ SlWire(p) \in Seq(Symbols) /\ Len(SlWire(p)) = at[Len(p)] + 2
         /\ SlWire(p)[1] = "END" /\ SlWire(p)[at[Len(p)] + 2] = "END"
         /\ \A i \in 1 .. Len(p) : \A j \in 1 .. Len(SlEscaped(p[i])) :
              SlWire(p)[1 + at[i - 1] + j] = SlEscaped(p[i])[j]
<1>. DEFINE s == SlParts(p)
            at == StartOf(p)
            e == FlattenSeq(s)
            w == SlWire(p)
<1>1. PICK n \in 1 .. SlMaxLen : p \in [1 .. n -> SlBytes]
  BY Zenon DEF SlPayloads
<1>2. p \in Seq(SlBytes) /\ Len(p) = n /\ n \in Nat
  BY <1>1, SlAssumption
<1>3. \A b \in SlBytes : SlEscaped(b) \in Seq(Symbols)
  <2>1. /\ <<"ESC", "ESC_END">> \in Seq(Symbols) /\ <<"ESC", "ESC_ESC">> \in Seq(Symbols)
        /\ \A b \in SlBytes : <<b>> \in Seq(Symbols)
    BY DEF Symbols
  <2>. QED  BY <2>1, Zenon DEF SlEscaped
<1>4. s \in Seq(Seq(Symbols)) /\ Len(s) = n /\ \A i \in 1 .. n : s[i] = SlEscaped(p[i])
  <2>1. s = [i \in 1 .. n |-> SlEscaped(p[i])]
    BY <1>1 DEF SlParts
  <2>2. \A i \in 1 .. n : SlEscaped(p[i]) \in Seq(Symbols)
    BY <1>1, <1>3
  <2>. HIDE DEF s
  <2>. QED  BY <1>2, <2>1, <2>2
<1>. HIDE DEF s
<1>5. Starts(at, s)
  BY <1>4, StartsThere, Zenon DEF StartOf, s
<1>. HIDE DEF at
<1>6. /\ e \in Seq(Symbols) /\ Len(e) = at[n]
      /\ \A i \in 1 .. n : \A j \in 1 .. Len(s[i]) : e[at[i - 1] + j] = s[i][j]
  <2>1. Len(s) # 0
    BY <1>1, <1>4
  <2>2. s \in Seq(Seq(Symbols))
    BY <1>4
  <2>3. /\ FlattenSeq(s) \in Seq(Symbols) /\ Len(FlattenSeq(s)) = at[Len(s)]
        /\ \A i \in 1 .. Len(s) : \A j \in 1 .. Len(s[i]) : FlattenSeq(s)[at[i - 1] + j] = s[i][j]
    BY <1>5, <2>1, <2>2, Flattened
  <2>. QED  BY <1>4, <2>3
<1>. HIDE DEF e
<1>7. /\ at \in [0 .. n -> Nat] /\ at[0] = 0
      /\ \A i \in 1 .. n : at[i] = at[i - 1] + Len(s[i])
  BY <1>4, <1>5 DEF Starts
<1>8. \A i \in 1 .. n : at[i] <= at[n]
  <2>1. \A i \in 1 .. n : i \in 0 .. n /\ n \in 0 .. n
    BY <1>2
  <2>. QED  BY <1>4, <1>5, <2>1, StartsRise
<1>. DEFINE end == <<"END">>
            a == end \o e
<1>9. end \in Seq(Symbols) /\ Len(end) = 1 /\ end[1] = "END"
  BY DEF Symbols
<1>10. w = a \o end
  BY DEF SlWire, e, s
<1>. HIDE DEF end, w
<1>11. /\ a \in Seq(Symbols) /\ Len(a) = 1 + at[n] /\ a[1] = "END"
       /\ \A j \in 1 .. at[n] : a[1 + j] = e[j]
  <2>1. /\ end \o e \in Seq(Symbols) /\ Len(end \o e) = Len(end) + Len(e)
        /\ \A x \in 1 .. Len(end) : (end \o e)[x] = end[x]
        /\ \A j \in 1 .. Len(e) : (end \o e)[Len(end) + j] = e[j]
    <3>1. end \in Seq(Symbols) /\ e \in Seq(Symbols)
      BY <1>6, <1>9
    <3>. QED  BY <3>1, Joined, SMTT(30)
  <2>2. 1 \in 1 .. Len(end)
    BY <1>9
  <2>. QED  BY <1>6, <1>9, <2>1, <2>2
<1>. HIDE DEF a
<1>12. /\ w \in Seq(Symbols) /\ Len(w) = Len(a) + 1
       /\ \A x \in 1 .. Len(a) : w[x] = a[x]
       /\ w[Len(a) + 1] = "END"
  <2>1. 1 \in 1 .. Len(end)
    BY <1>9
  <2>2. /\ a \o end \in Seq(Symbols) /\ Len(a \o end) = Len(a) + Len(end)
        /\ \A x \in 1 .. Len(a) : (a \o end)[x] = a[x]
        /\ \A j \in 1 .. Len(end) : (a \o end)[Len(a) + j] = end[j]
    <3>1. a \in Seq(Symbols) /\ end \in Seq(Symbols)
      BY <1>9, <1>11
    <3>. QED  BY <3>1, Joined, SMTT(30)
  <2>. QED  BY <1>9, <1>10, <2>1, <2>2
<1>13. at[n] \in Nat /\ n \in 0 .. n
  BY <1>2, <1>7
<1>14. Len(w) = at[n] + 2 /\ w[1] = "END" /\ w[at[n] + 2] = "END"
  <2>1. 1 \in 1 .. Len(a) /\ Len(a) + 1 = at[n] + 2
    BY <1>11, <1>13
  <2>. QED  BY <1>11, <1>12, <2>1
<1>15. ASSUME NEW i \in 1 .. n, NEW j \in 1 .. Len(s[i])
       PROVE  w[1 + at[i - 1] + j] = s[i][j]
  <2>1. i - 1 \in 0 .. n /\ i \in 0 .. n
    BY <1>2
  <2>2. at[i - 1] \in Nat /\ at[i] = at[i - 1] + Len(s[i]) /\ at[i] <= at[n] /\ Len(s[i]) \in Nat
    BY <1>4, <1>7, <1>8, <2>1, ElementOfSeq, LenProperties
  <2>3. at[i - 1] + j \in 1 .. at[n]
    BY <1>13, <2>2, PartWithin
  <2>4. 1 + at[i - 1] + j = 1 + (at[i - 1] + j) /\ 1 + (at[i - 1] + j) \in 1 .. Len(a)
    <3>1. /\ 1 + at[i - 1] + j = 1 + (at[i - 1] + j)
          /\ 1 + (at[i - 1] + j) \in 1 .. 1 + at[n]
      BY <1>13, <2>2, <2>3, OneOn
    <3>. QED  BY <1>11, <3>1
  <2>5. w[1 + (at[i - 1] + j)] = e[at[i - 1] + j]
    BY <1>11, <1>12, <2>3, <2>4
  <2>6. e[at[i - 1] + j] = s[i][j]
    BY <1>6
  <2>. QED  BY <2>4, <2>5, <2>6
<1>16. w = SlWire(p) /\ at = StartOf(p)
  BY DEF w, at
<1>17. \A i \in 1 .. n : \A j \in 1 .. Len(SlEscaped(p[i])) : w[1 + at[i - 1] + j] = SlEscaped(p[i])[j]
  BY <1>4, <1>15
<1>18. \A i \in 1 .. n : at[i] = at[i - 1] + Len(SlEscaped(p[i])) /\ at[i] <= at[n]
  BY <1>4, <1>7, <1>8
<1>. QED  BY <1>1, <1>2, <1>7, <1>12, <1>14, <1>16, <1>17, <1>18

-----------------------------------------------------------------------------
\* The symbols of a line after the first k, and the first i bytes of a payload.
Beyond(w, k) == [x \in 1 .. Len(w) - k |-> w[k + x]]
Begun(p, i) == [x \in 1 .. i |-> p[x]]

LEMMA BeyondNext ==
  ASSUME NEW w \in Seq(Symbols), NEW k \in Nat, k < Len(w)
  PROVE  /\ Beyond(w, k) # <<>> /\ Head(Beyond(w, k)) = w[k + 1]
         /\ Tail(Beyond(w, k)) = Beyond(w, k + 1)
<1>. DEFINE n == Len(w) - k
            b == Beyond(w, k)
<1>1. n \in Nat \ {0}
  OBVIOUS
<1>2. b = [x \in 1 .. n |-> w[k + x]]
  BY DEF Beyond
<1>3. b \in Seq(Symbols) /\ Len(b) = n
  <2>1. \A x \in 1 .. n : w[k + x] \in Symbols
    <3>1. \A x \in 1 .. n : k + x \in 1 .. Len(w)
      OBVIOUS
    <3>. QED  BY <3>1, ElementOfSeq
  <2>. HIDE DEF n, b
  <2>. QED  BY <1>1, <1>2, <2>1
<1>4. b # <<>> /\ Head(b) = w[k + 1]
  <2>1. 1 \in 1 .. n
    BY <1>1
  <2>. HIDE DEF n, b
  <2>. QED  BY <1>1, <1>2, <1>3, <2>1
<1>5. Tail(b) = [x \in 1 .. n - 1 |-> w[(k + 1) + x]]
  <2>1. \A x \in 1 .. n - 1 : x + 1 \in 1 .. n /\ k + (x + 1) = (k + 1) + x
    BY <1>1
  <2>2. \A x \in 1 .. n - 1 : b[x + 1] = w[(k + 1) + x]
    <3>. HIDE DEF n, b
    <3>. QED  BY <1>2, <2>1
  <2>. HIDE DEF n, b
  <2>3. /\ Tail(b) \in Seq(Symbols) /\ Len(Tail(b)) = n - 1
        /\ \A x \in 1 .. n - 1 : Tail(b)[x] = b[x + 1]
    <3>1. b \in Seq(Symbols) /\ b # <<>>
      BY <1>3, <1>4
    <3>2. /\ Tail(b) \in Seq(Symbols) /\ Len(Tail(b)) = Len(b) - 1
          /\ \A x \in 1 .. Len(Tail(b)) : Tail(b)[x] = b[x + 1]
      BY <3>1, HeadTailProperties
    <3>3. Len(Tail(b)) = n - 1
      BY <1>3, <3>2
    <3>. QED  BY <3>2, <3>3
  <2>. DEFINE t == Tail(b)
  <2>. HIDE DEF t
  <2>4. t = [x \in 1 .. Len(t) |-> t[x]]
    <3>1. t \in Seq(Symbols)
      BY <2>3 DEF t
    <3>. QED  BY <3>1
  <2>5. \A x \in 1 .. n - 1 : t[x] = w[(k + 1) + x]
    BY <2>2, <2>3 DEF t
  <2>6. t = [x \in 1 .. n - 1 |-> w[(k + 1) + x]]
    BY <2>3, <2>4, <2>5 DEF t
  <2>. QED  BY <2>6 DEF t
<1>6. n - 1 = Len(w) - (k + 1)
  OBVIOUS
<1>. QED  BY <1>4, <1>5, <1>6 DEF Beyond

LEMMA BegunNext ==
  ASSUME NEW p \in Seq(SlBytes), NEW i \in 0 .. Len(p)
  PROVE  /\ Begun(p, i) \in Seq(SlBytes) /\ Len(Begun(p, i)) = i
         /\ Begun(p, 0) = <<>> /\ Begun(p, Len(p)) = p
         /\ i < Len(p) => p[i + 1] \in SlBytes /\ Append(Begun(p, i), p[i + 1]) = Begun(p, i + 1)
<1>1. Len(p) \in Nat /\ p = [x \in 1 .. Len(p) |-> p[x]] /\ \A x \in 1 .. Len(p) : p[x] \in SlBytes
  BY LenProperties, ElementOfSeq
<1>2. Begun(p, i) \in Seq(SlBytes) /\ Len(Begun(p, i)) = i
  <2>1. \A x \in 1 .. i : p[x] \in SlBytes
    BY <1>1
  <2>. QED  BY <2>1 DEF Begun
<1>3. Begun(p, 0) = <<>> /\ Begun(p, Len(p)) = p
  BY <1>1 DEF Begun
<1>4. ASSUME i < Len(p)
      PROVE  p[i + 1] \in SlBytes /\ Append(Begun(p, i), p[i + 1]) = Begun(p, i + 1)
  <2>1. p[i + 1] \in SlBytes
    BY <1>1, <1>4
  <2>2. Append(Begun(p, i), p[i + 1]) =
          [x \in 1 .. i + 1 |-> IF x = i + 1 THEN p[i + 1] ELSE Begun(p, i)[x]]
    BY <1>2, <2>1
  <2>3. \A x \in 1 .. i + 1 : (IF x = i + 1 THEN p[i + 1] ELSE Begun(p, i)[x]) = p[x]
    BY DEF Begun
  <2>. QED  BY <2>1, <2>2, <2>3 DEF Begun
<1>. QED  BY <1>2, <1>3, <1>4

Escapes == {"end", "esc"}

\* How far the decoder is in a frame of which nothing is lost: before its leading END, at a
\* byte, or between an escape and what follows it.
AtStart(p) == slLine.left = SlWire(p) /\ (slRx.buf = <<>> => slRx.esc = FALSE)
AtByte(p, i) ==
  /\ slRx = [buf |-> Begun(p, i), esc |-> FALSE]
  /\ slLine.left = Beyond(SlWire(p), 1 + StartOf(p)[i])
AtEscape(p, i) ==
  /\ i < Len(p) /\ p[i + 1] \in Escapes
  /\ slRx = [buf |-> Begun(p, i), esc |-> TRUE]
  /\ slLine.left = Beyond(SlWire(p), 2 + StartOf(p)[i])

InFrame(p) ==
  /\ p \in SlPayloads
  /\ AtStart(p) \/ \E i \in 0 .. Len(p) : AtByte(p, i) \/ AtEscape(p, i)

SlInv ==
  /\ SlTyped /\ slLine.whole \in BOOLEAN
  /\ slLine = [left |-> slLine.left, payload |-> slLine.payload, whole |-> slLine.whole]
  /\ slLine.whole => InFrame(slLine.payload) \/ (slLine.left = <<>> /\ slGot = slLine.payload)

\* The symbols of the byte that comes next.
LEMMA WireNext ==
  ASSUME NEW p \in SlPayloads, NEW i \in 0 .. Len(p), i < Len(p)
  PROVE  LET at == StartOf(p)  e == SlEscaped(p[i + 1])  w == SlWire(p) IN
         /\ at[i] \in Nat /\ at[i + 1] \in Nat /\ at[Len(p)] \in Nat
         /\ Len(e) \in {1, 2} /\ at[i + 1] = at[i] + Len(e) /\ at[i + 1] <= at[Len(p)]
         /\ 1 + at[i] < Len(w) /\ w[(1 + at[i]) + 1] = e[1]
         /\ Len(e) = 2 => 2 + at[i] < Len(w) /\ w[(2 + at[i]) + 1] = e[2]
<1>. DEFINE n == Len(p)
            at == StartOf(p)
            k == i + 1
            e == SlEscaped(p[k])
            w == SlWire(p)
<1>1. /\ n \in 1 .. SlMaxLen /\ n \in Nat /\ at \in [0 .. n -> Nat] /\ Len(w) = at[n] + 2
      /\ \A x \in 1 .. n : at[x] = at[x - 1] + Len(SlEscaped(p[x])) /\ at[x] <= at[n]
      /\ \A x \in 1 .. n : \A j \in 1 .. Len(SlEscaped(p[x])) : w[1 + at[x - 1] + j] = SlEscaped(p[x])[j]
  BY WireHolds, SlAssumption
<1>. HIDE DEF at, w
<1>2. k \in 1 .. n /\ k \in 0 .. n /\ k - 1 = i /\ n \in 0 .. n
  BY <1>1
<1>3. Len(e) \in {1, 2}
  BY DEF SlEscaped
<1>. HIDE DEF e, n
<1>4. /\ at[i] \in Nat /\ at[k] \in Nat /\ at[n] \in Nat
  BY <1>1, <1>2 DEF n
<1>5. at[k] = at[i] + Len(e) /\ at[k] <= at[n]
  <2>. HIDE DEF k
  <2>. QED  BY <1>1, <1>2 DEF e
<1>6. \A j \in 1 .. Len(e) : w[1 + at[i] + j] = e[j]
  <2>. HIDE DEF k
  <2>. QED  BY <1>1, <1>2 DEF e
<1>7. 1 + at[i] + 1 = (1 + at[i]) + 1 /\ 1 + at[i] + 2 = (2 + at[i]) + 1
  BY <1>4
<1>8. 1 + at[i] < Len(w) /\ (Len(e) = 2 => 2 + at[i] < Len(w))
  <2>1. Len(w) = at[n] + 2 /\ at[i] + Len(e) <= at[n]
    BY <1>1, <1>5 DEF n
  <2>2. CASE Len(e) = 1
    BY <1>4, <2>1, <2>2
  <2>3. CASE Len(e) = 2
    BY <1>4, <2>1, <2>3
  <2>. QED  BY <1>3, <2>2, <2>3
<1>9. w[(1 + at[i]) + 1] = e[1]
  <2>1. 1 \in 1 .. Len(e)
    BY <1>3
  <2>. QED  BY <1>6, <1>7, <2>1
<1>10. ASSUME Len(e) = 2 PROVE w[(2 + at[i]) + 1] = e[2]
  <2>1. 2 \in 1 .. Len(e)
    BY <1>10
  <2>. QED  BY <1>6, <1>7, <2>1
<1>. QED  BY <1>3, <1>4, <1>5, <1>8, <1>9, <1>10 DEF at, w, e, n

LEMMA WireEnds ==
  ASSUME NEW p \in SlPayloads
  PROVE  LET at == StartOf(p)  w == SlWire(p) IN
         /\ p \in Seq(SlBytes) /\ Len(p) \in Nat \ {0} /\ Len(p) <= SlMaxLen
         /\ w \in Seq(Symbols) /\ 1 < Len(w) /\ w[1] = "END" /\ at[0] = 0
         /\ at[Len(p)] \in Nat /\ Len(w) = at[Len(p)] + 2 /\ w[(1 + at[Len(p)]) + 1] = "END"
<1>. DEFINE n == Len(p)
            at == StartOf(p)
            w == SlWire(p)
<1>1. /\ p \in Seq(SlBytes) /\ n \in 1 .. SlMaxLen /\ n \in Nat \ {0}
      /\ at \in [0 .. n -> Nat] /\ at[0] = 0 /\ Len(w) = at[n] + 2
      /\ w \in Seq(Symbols) /\ w[1] = "END" /\ w[at[n] + 2] = "END"
  BY WireHolds, SlAssumption
<1>. HIDE DEF at, w, n
<1>2. at[n] \in Nat
  BY <1>1
<1>3. 1 < Len(w) /\ (1 + at[n]) + 1 = at[n] + 2 /\ n <= SlMaxLen
  BY <1>1, <1>2, SlAssumption
<1>. QED  BY <1>1, <1>2, <1>3 DEF at, w, n

\* Feeding one symbol.
LEMMA FeedStart ==
  ASSUME NEW p \in SlPayloads, SlTyped, AtStart(p), SlFeed, slLine'.left = Tail(slLine.left)
  PROVE  AtByte(p, 0)'
<1>. DEFINE no == FALSE
<1>1. /\ SlWire(p) \in Seq(Symbols) /\ 1 < Len(SlWire(p)) /\ SlWire(p)[1] = "END"
      /\ p \in Seq(SlBytes) /\ 0 \in 0 .. Len(p) /\ StartOf(p)[0] = 0
  BY WireEnds
<1>2. Head(slLine.left) = "END"
  BY <1>1 DEF AtStart
<1>3. slRx' = SlAfterEnd
  BY <1>2 DEF SlFeed
<1>4. slRx' = [buf |-> <<>>, esc |-> no]
  <2>1. CASE slRx.buf = <<>>
    BY <1>3, <2>1 DEF SlAfterEnd, AtStart, SlTyped
  <2>2. CASE slRx.buf # <<>>
    BY <1>3, <2>2 DEF SlAfterEnd
  <2>. QED  BY <2>1, <2>2
<1>5. Begun(p, 0) = <<>>
  BY <1>1, BegunNext
<1>6. Tail(SlWire(p)) = Beyond(SlWire(p), 1)
  <2>1. Beyond(SlWire(p), 0) = SlWire(p)
    BY <1>1 DEF Beyond
  <2>2. 0 < Len(SlWire(p)) /\ 0 \in Nat /\ 0 + 1 = 1
    BY <1>1
  <2>3. Tail(Beyond(SlWire(p), 0)) = Beyond(SlWire(p), 0 + 1)
    BY <1>1, <2>2, BeyondNext
  <2>. QED  BY <2>1, <2>2, <2>3
<1>7. 1 + StartOf(p)[0] = 1
  BY <1>1
<1>8. slLine'.left = Beyond(SlWire(p), 1 + StartOf(p)[0])
  BY <1>6, <1>7 DEF AtStart
<1>. QED  BY <1>4, <1>5, <1>8 DEF AtByte

LEMMA FeedByte ==
  ASSUME NEW p \in SlPayloads, NEW i \in 0 .. Len(p), AtByte(p, i), SlFeed,
         slLine'.left = Tail(slLine.left)
  PROVE  \/ slLine'.left = <<>> /\ slGot' = p
         \/ \E j \in 0 .. Len(p) : AtByte(p, j)' \/ AtEscape(p, j)'
<1>. DEFINE no == FALSE
            yes == TRUE
            at == StartOf(p)
            w == SlWire(p)
            n == Len(p)
<1>1. /\ p \in Seq(SlBytes) /\ n \in Nat \ {0} /\ n <= SlMaxLen
      /\ w \in Seq(Symbols) /\ at[n] \in Nat /\ Len(w) = at[n] + 2 /\ w[(1 + at[n]) + 1] = "END"
  BY WireEnds
<1>2. slRx = [buf |-> Begun(p, i), esc |-> no] /\ slLine.left = Beyond(w, 1 + at[i])
  BY DEF AtByte
<1>3. Begun(p, i) \in Seq(SlBytes) /\ Len(Begun(p, i)) = i /\ Begun(p, n) = p
  BY <1>1, BegunNext
<1>. HIDE DEF at, w, n
<1>4. CASE i = n
  <2>1. 1 + at[n] \in Nat /\ 1 + at[n] < Len(w) /\ (1 + at[n]) + 1 = at[n] + 2
    BY <1>1
  <2>2. Head(slLine.left) = "END" /\ slLine'.left = Beyond(w, (1 + at[n]) + 1)
    BY <1>1, <1>2, <1>4, <2>1, BeyondNext
  <2>3. Beyond(w, (1 + at[n]) + 1) = <<>>
    <3>1. Len(w) - ((1 + at[n]) + 1) = 0
      BY <1>1, <2>1
    <3>. QED  BY <3>1 DEF Beyond
  <2>4. slRx.buf = p /\ p # <<>>
    BY <1>1, <1>2, <1>3, <1>4 DEF n
  <2>. QED  BY <2>2, <2>3, <2>4 DEF SlFeed
<1>5. CASE i < n
  <2>. DEFINE b == p[i + 1]
              k == i + 1
  <2>1. k \in 0 .. n /\ b \in SlBytes /\ Append(Begun(p, i), b) = Begun(p, k)
    BY <1>1, <1>5, BegunNext, SMTT(30) DEF n
  <2>2. /\ at[i] \in Nat /\ at[k] = at[i] + Len(SlEscaped(b))
        /\ 1 + at[i] < Len(w) /\ w[(1 + at[i]) + 1] = SlEscaped(b)[1]
    BY <1>5, WireNext DEF at, w, n
  <2>4. 1 + at[i] \in Nat
    BY <2>2
  <2>5. Head(slLine.left) = SlEscaped(b)[1] /\ slLine'.left = Beyond(w, (1 + at[i]) + 1)
    BY <1>1, <1>2, <2>2, <2>4, BeyondNext
  <2>. HIDE DEF b, k
  <2>6. CASE b \in Escapes
    <3>1. SlEscaped(b)[1] = "ESC"
      BY <2>6 DEF SlEscaped, Escapes
    <3>2. slRx' = [slRx EXCEPT !.esc = yes]
      <4>1. slRx.esc = no
        BY <1>2
      <4>. QED  BY <2>5, <3>1, <4>1 DEF SlFeed, SlFed
    <3>3. slRx' = [buf |-> Begun(p, i), esc |-> yes]
      <4>. HIDE DEF no, yes
      <4>. QED  BY <1>2, <3>2
    <3>4. (1 + at[i]) + 1 = 2 + at[i]
      BY <2>2
    <3>5. AtEscape(p, i)'
      BY <1>5, <2>5, <2>6, <3>3, <3>4 DEF AtEscape, b, at, w, n
    <3>. QED  BY <3>5
  <2>7. CASE b \notin Escapes
    <3>1. SlEscaped(b) = <<b>>
      BY <2>7 DEF SlEscaped, Escapes
    <3>2. b # "END" /\ b # "ESC"
      BY <2>1, SlAssumption
    <3>3. Head(slLine.left) = b
      BY <2>5, <3>1
    <3>4. slRx' = SlFed(b)
      BY <3>2, <3>3 DEF SlFeed
    <3>5. slRx' = SlAppend(b)
      <4>1. slRx.esc = no
        BY <1>2
      <4>. QED  BY <3>2, <3>4, <4>1 DEF SlFed
    <3>6. slRx.buf = Begun(p, i) /\ Len(Begun(p, i)) < SlMaxLen
      <4>1. i < SlMaxLen
        BY <1>1, <1>5, SlAssumption
      <4>. QED  BY <1>2, <1>3, <4>1
    <3>7. slRx' = [buf |-> Begun(p, k), esc |-> no]
      BY <2>1, <3>5, <3>6 DEF SlAppend
    <3>8. (1 + at[i]) + 1 = 1 + at[k]
      <4>1. Len(SlEscaped(b)) = 1
        BY <3>1
      <4>. QED  BY <2>2, <4>1
    <3>9. AtByte(p, k)'
      BY <2>5, <3>7, <3>8 DEF AtByte, at, w
    <3>. QED  BY <2>1, <3>9 DEF n
  <2>. QED  BY <2>6, <2>7
<1>. QED  BY <1>1, <1>4, <1>5 DEF n

LEMMA FeedEscape ==
  ASSUME NEW p \in SlPayloads, NEW i \in 0 .. Len(p), AtEscape(p, i), SlFeed,
         slLine'.left = Tail(slLine.left)
  PROVE  \E j \in 0 .. Len(p) : AtByte(p, j)'
<1>. DEFINE no == FALSE
            yes == TRUE
            at == StartOf(p)
            w == SlWire(p)
            n == Len(p)
            b == p[i + 1]
            k == i + 1
<1>1. p \in Seq(SlBytes) /\ n \in Nat \ {0} /\ n <= SlMaxLen /\ w \in Seq(Symbols)
  BY WireEnds
<1>2. /\ i < n /\ b \in Escapes
      /\ slRx = [buf |-> Begun(p, i), esc |-> yes] /\ slLine.left = Beyond(w, 2 + at[i])
  BY DEF AtEscape
<1>3. Len(Begun(p, i)) = i /\ Append(Begun(p, i), b) = Begun(p, k)
  BY <1>1, <1>2, BegunNext
<1>. HIDE DEF at, w
<1>4. k \in 0 .. n
  BY <1>1, <1>2
<1>. HIDE DEF n, b
<1>5. Len(SlEscaped(b)) = 2 /\ SlEscaped(b)[2] = (IF b = "end" THEN "ESC_END" ELSE "ESC_ESC")
  <2>1. CASE b = "end"
    BY <2>1 DEF SlEscaped
  <2>2. CASE b = "esc"
    BY <2>2 DEF SlEscaped
  <2>. QED  BY <1>2, <2>1, <2>2 DEF Escapes
<1>6. /\ at[i] \in Nat /\ at[k] = at[i] + 2
      /\ 2 + at[i] < Len(w) /\ w[(2 + at[i]) + 1] = SlEscaped(b)[2]
  BY <1>2, <1>5, WireNext DEF at, w, n, b
<1>8. 2 + at[i] \in Nat /\ (2 + at[i]) + 1 = 1 + at[k]
  BY <1>6
<1>9. Head(slLine.left) = SlEscaped(b)[2] /\ slLine'.left = Beyond(w, 1 + at[k])
  BY <1>1, <1>2, <1>6, <1>8, BeyondNext
<1>10. slRx' = SlAppend(b)
  <2>1. slRx.esc = yes
    BY <1>2
  <2>2. slRx' = SlFed(Head(slLine.left))
    BY <1>5, <1>9 DEF SlFeed
  <2>3. CASE b = "end"
    BY <1>5, <1>9, <2>1, <2>2, <2>3 DEF SlFed
  <2>4. CASE b = "esc"
    BY <1>5, <1>9, <2>1, <2>2, <2>4 DEF SlFed
  <2>. QED  BY <1>2, <2>3, <2>4 DEF Escapes
<1>11. slRx.buf = Begun(p, i) /\ Len(Begun(p, i)) < SlMaxLen
  BY <1>1, <1>2, <1>3, SlAssumption
<1>12. slRx' = [buf |-> Begun(p, k), esc |-> no]
  BY <1>3, <1>10, <1>11 DEF SlAppend
<1>13. AtByte(p, k)'
  BY <1>9, <1>12 DEF AtByte, at, w
<1>. QED  BY <1>4, <1>13 DEF n

LEMMA SlStart == SlInit => SlInv
<1>. SUFFICES ASSUME SlInit PROVE SlInv
  OBVIOUS
<1>. DEFINE no == FALSE
<1>1. slLine = [left |-> <<>>, payload |-> <<>>, whole |-> no] /\ SlTyped
  BY SlTypedStart DEF SlInit
<1>. QED  BY <1>1 DEF SlInv

LEMMA SlInductive == SlInv /\ [SlNext]_slVars => SlInv'
<1>. SUFFICES ASSUME SlInv, [SlNext]_slVars PROVE SlInv'
  OBVIOUS
<1>. DEFINE no == FALSE
            line == [left |-> slLine.left, payload |-> slLine.payload, whole |-> slLine.whole]
<1>0. SlTyped /\ slLine.whole \in BOOLEAN /\ slLine = line
  BY DEF SlInv
<1>1. SlTyped'
  BY <1>0, SlTypedInductive
<1>. HIDE DEF line
<1>2. ASSUME NEW p \in SlPayloads, SlSend(p) PROVE SlInv'
  <2>. DEFINE clear == ~(slRx.esc /\ slRx.buf = <<>>)
  <2>1. clear \in BOOLEAN
    OBVIOUS
  <2>2. slLine' = [left |-> SlWire(p), payload |-> p, whole |-> clear] /\ slRx' = slRx
    BY <1>2 DEF SlSend, SlWire, SlParts
  <2>3. ASSUME clear PROVE AtStart(p)'
    BY <2>2, <2>3 DEF AtStart
  <2>. QED  BY <1>1, <1>2, <2>1, <2>2, <2>3 DEF SlInv, InFrame
<1>3. CASE SlLose
  <2>1. slLine' = [left |-> Tail(slLine.left), payload |-> slLine.payload, whole |-> no]
    BY <1>0, <1>3 DEF SlLose, line
  <2>. QED  BY <1>1, <2>1 DEF SlInv
<1>4. CASE SlFeed
  <2>1. slLine' = [left |-> Tail(slLine.left), payload |-> slLine.payload, whole |-> slLine.whole]
    BY <1>0, <1>4 DEF SlFeed, line
  <2>5. PICK p : p = slLine.payload
    OBVIOUS
  <2>2. /\ slLine'.left = Tail(slLine.left) /\ slLine'.payload = p
        /\ slLine'.whole = slLine.whole /\ slLine.left # <<>>
    BY <1>4, <2>1, <2>5 DEF SlFeed
  <2>3. ASSUME slLine.whole
        PROVE  InFrame(p)' \/ (slLine'.left = <<>> /\ slGot' = p)
    <3>1. InFrame(p)
      BY <2>2, <2>3, <2>5 DEF SlInv
    <3>2. p \in SlPayloads
      BY <3>1 DEF InFrame
    <3>3. CASE AtStart(p)
      <4>1. AtByte(p, 0)'
        BY <1>0, <1>4, <2>2, <3>2, <3>3, FeedStart
      <4>2. 0 \in 0 .. Len(p)
        BY <3>2, WireEnds
      <4>. QED  BY <3>2, <4>1, <4>2 DEF InFrame
    <3>4. ASSUME NEW i \in 0 .. Len(p), AtByte(p, i)
          PROVE  InFrame(p)' \/ (slLine'.left = <<>> /\ slGot' = p)
      BY <1>4, <2>2, <3>2, <3>4, FeedByte DEF InFrame
    <3>5. ASSUME NEW i \in 0 .. Len(p), AtEscape(p, i)
          PROVE  InFrame(p)'
      BY <1>4, <2>2, <3>2, <3>5, FeedEscape DEF InFrame
    <3>. QED  BY <3>1, <3>3, <3>4, <3>5 DEF InFrame
  <2>4. slLine' = [left |-> slLine'.left, payload |-> slLine'.payload, whole |-> slLine'.whole]
    BY <2>1
  <2>. QED  BY <1>0, <1>1, <2>2, <2>3, <2>4 DEF SlInv
<1>5. CASE UNCHANGED slVars
  <2>1. slLine' = slLine /\ slRx' = slRx /\ slGot' = slGot
    BY <1>5 DEF slVars
  <2>. QED  BY <1>1, <2>1 DEF SlInv, InFrame, AtStart, AtByte, AtEscape
<1>. QED  BY <1>2, <1>3, <1>4, <1>5 DEF SlNext

\* A wire is never empty.
LEMMA WholeArrives == SlInv => FramesWhole
<1>. SUFFICES ASSUME SlInv, slLine.left = <<>>, slLine.whole PROVE slGot = slLine.payload
  BY DEF FramesWhole
<1>. DEFINE p == slLine.payload
<1>1. InFrame(p) \/ slGot = p
  BY DEF SlInv
<1>2. ASSUME InFrame(p) PROVE FALSE
  <2>. HIDE DEF p
  <2>1. p \in SlPayloads
    BY <1>2 DEF InFrame
  <2>2. SlWire(p) \in Seq(Symbols) /\ 1 < Len(SlWire(p))
    BY <2>1, WireEnds
  <2>3. ~AtStart(p)
    BY <2>2 DEF AtStart
  <2>4. ASSUME NEW i \in 0 .. Len(p), AtByte(p, i) PROVE FALSE
    <3>1. Beyond(SlWire(p), 1 + StartOf(p)[i]) # <<>>
      <4>1. StartOf(p)[i] \in Nat /\ 1 + StartOf(p)[i] < Len(SlWire(p))
        <5>1. CASE i = Len(p)
          BY <2>1, <5>1, WireEnds
        <5>2. CASE i < Len(p)
          BY <2>1, <5>2, WireNext
        <5>. QED  BY <2>1, <5>1, <5>2, WireEnds
      <4>. QED  BY <2>2, <4>1, BeyondNext
    <3>. QED  BY <2>4, <3>1 DEF AtByte
  <2>5. ASSUME NEW i \in 0 .. Len(p), AtEscape(p, i) PROVE FALSE
    <3>1. Beyond(SlWire(p), 2 + StartOf(p)[i]) # <<>>
      <4>1. Len(SlEscaped(p[i + 1])) = 2
        BY <2>5 DEF AtEscape, SlEscaped, Escapes
      <4>2. /\ StartOf(p)[i] \in Nat /\ 2 + StartOf(p)[i] < Len(SlWire(p))
        BY <2>1, <2>5, <4>1, WireNext DEF AtEscape
      <4>. QED  BY <2>2, <4>2, BeyondNext
    <3>. QED  BY <2>5, <3>1 DEF AtEscape
  <2>. QED  BY <1>2, <2>3, <2>4, <2>5 DEF InFrame
<1>. QED  BY <1>1, <1>2

-----------------------------------------------------------------------------
(***************************************************************************)
(* The parts together.                                                     *)
(***************************************************************************)
receiveVars == <<vars, nbVars, bleVars, fgVars, rmlVars, slVars, focus>>

LEMMA ReceivePartSteps ==
  [ReceiveNext]_receiveVars =>
    /\ [Next]_vars /\ [NbNext]_nbVars /\ [BleNext]_bleVars
    /\ [FgNext]_fgVars /\ [RmlNext]_rmlVars /\ [SlNext]_slVars
<1>. SUFFICES ASSUME [ReceiveNext]_receiveVars
     PROVE  /\ [Next]_vars /\ [NbNext]_nbVars /\ [BleNext]_bleVars
            /\ [FgNext]_fgVars /\ [RmlNext]_rmlVars /\ [SlNext]_slVars
  OBVIOUS
<1>1. [Next]_vars
  BY DEF ReceiveNext, Rest, receiveVars
<1>2. [NbNext]_nbVars
  BY DEF ReceiveNext, Rest, receiveVars
<1>3. [BleNext]_bleVars
  BY DEF ReceiveNext, Rest, receiveVars
<1>4. [FgNext]_fgVars
  BY DEF ReceiveNext, Rest, receiveVars
<1>5. [RmlNext]_rmlVars
  BY DEF ReceiveNext, Rest, receiveVars
<1>6. [SlNext]_slVars
  BY DEF ReceiveNext, Rest, receiveVars
<1>. QED  BY <1>1, <1>2, <1>3, <1>4, <1>5, <1>6

LEMMA ReceiveStart ==
  ReceiveInit => Init /\ NbInit /\ BleInit /\ FgInit /\ RmlInit /\ SlInit
  BY DEF ReceiveInit

(***************************************************************************)
(* While the dedupe ring has a slot for every key on the air, no frame is  *)
(* accepted, relayed or handed to the application a second time within     *)
(* DedupeExpiry of its first arrival (routing_dedupe_check, routing.c      *)
(* lines 26-59), whatever its scan clears and whenever the clock wraps.    *)
(***************************************************************************)
THEOREM AcceptedOnceAlways == DedupeHolds => (ReceiveSpec => AcceptedOncePerWindow)
<1>. SUFFICES ASSUME DedupeHolds PROVE ReceiveSpec => AcceptedOncePerWindow
  OBVIOUS
<1>1. ReceiveInit => WindowInv
  BY ReceiveStart, WindowStart
<1>2. WindowInv /\ [ReceiveNext]_receiveVars => WindowInv'
  BY ReceivePartSteps, WindowInductive
<1>3. WindowInv => [\A k \in Keys :
                     (\E relay \in BOOLEAN : Accept(k, relay)) => since[k] > DedupeExpiry]_vars
  BY SweepKeeps DEF Accept
<1>. QED  BY <1>1, <1>2, <1>3, PTL DEF ReceiveSpec, receiveVars, AcceptedOncePerWindow

(***************************************************************************)
(* Both neighbour tables hold each peer once (routing.c lines 225-252), a  *)
(* full g_ntable evicts the peer silent for longest (neighbor_table.c      *)
(* lines 44-55), and the peers that hold beacons back were heard within    *)
(* NTABLE_STALE_MS, with the exceptions NeighboursTrue states.             *)
(***************************************************************************)
THEOREM NeighboursAlwaysTrue == ReceiveSpec => []NeighboursTrue
<1>1. ReceiveInit => NbInv
  BY ReceiveStart, NbStart
<1>2. NbInv /\ [ReceiveNext]_receiveVars => NbInv'
  BY ReceivePartSteps, NbInductive
<1>3. NbInv => NeighboursTrue
  BY NbKept
<1>. QED  BY <1>1, <1>2, <1>3, PTL DEF ReceiveSpec, receiveVars

(***************************************************************************)
(* Whatever order and however often the edits of a message arrive and      *)
(* whatever the caches evict, a text in the thread cache is the one its    *)
(* sender gave the message, and what is relayed is a text its thread       *)
(* really had (rml_policy.c:409-443).                                      *)
(***************************************************************************)
THEOREM TextsAlwaysTrue == ReceiveSpec => []TextsTrue
<1>1. ReceiveInit => RmlInv
  BY ReceiveStart, RmlStart
<1>2. RmlInv /\ [ReceiveNext]_receiveVars => RmlInv'
  BY ReceivePartSteps, RmlInductive
<1>3. RmlInv => TextsTrue
  BY RmlTrue
<1>. QED  BY <1>1, <1>2, <1>3, PTL DEF ReceiveSpec, receiveVars

(***************************************************************************)
(* No command of a connection that is gone is run and no session outlives  *)
(* its connection (rivr_ble_companion.c:351-455), and an active node that  *)
(* nobody is connected to advertises or is about to (rivr_ble.c:230-345),  *)
(* on both stacks and in whatever order the stack answers; with the        *)
(* exceptions CommandsCurrent and Discoverable state.                      *)
(***************************************************************************)
THEOREM BleSessionAlwaysKept == ReceiveSpec => []BleSessionKept
<1>1. ReceiveInit => BleInv
  BY ReceiveStart, BleStart
<1>2. BleInv /\ [ReceiveNext]_receiveVars => BleInv'
  BY ReceivePartSteps, BleInductive
<1>3. BleInv => BleSessionKept
  BY BleKept DEF BleSessionKept
<1>. QED  BY <1>1, <1>2, <1>3, PTL DEF ReceiveSpec, receiveVars

(***************************************************************************)
(* A payload rivr_ble_frag_ingest hands over is one message, every         *)
(* fragment of it, although slots keep old data, are reused while          *)
(* unfinished and are found by an id that comes round.                     *)
(***************************************************************************)
THEOREM PayloadsAlwaysWhole == ReceiveSpec => []PayloadsWhole
<1>1. ReceiveInit => FgInv
  BY ReceiveStart, FgStart
<1>2. FgInv /\ [ReceiveNext]_receiveVars => FgInv'
  BY ReceivePartSteps, FgInductive
<1>3. FgInv => PayloadsWhole
  BY FgKept
<1>. QED  BY <1>1, <1>2, <1>3, PTL DEF ReceiveSpec, receiveVars

(***************************************************************************)
(* A frame of which no symbol is lost arrives as it was sent, whatever was *)
(* lost before it and left in the decoder (rivr_iface_usb.c:58-105, :163), *)
(* but for the one state a leading END does not clear.                     *)
(***************************************************************************)
THEOREM FramesAlwaysWhole == ReceiveSpec => []FramesWhole
<1>1. ReceiveInit => SlInv
  BY ReceiveStart, SlStart
<1>2. SlInv /\ [ReceiveNext]_receiveVars => SlInv'
  BY ReceivePartSteps, SlInductive
<1>3. SlInv => FramesWhole
  BY WholeArrives
<1>. QED  BY <1>1, <1>2, <1>3, PTL DEF ReceiveSpec, receiveVars

(***************************************************************************)
(* The rings, tables, caches, queues and clocks of all six parts keep      *)
(* their types: no index leaves its array, no buffer outgrows its size.    *)
(***************************************************************************)
THEOREM ReceiveAlwaysTyped == ReceiveSpec => []ReceiveTyped
<1>. DEFINE Inv == /\ TypeOK /\ NbInv /\ BleInv /\ FgInv
                   /\ RmlInv /\ RmlTyped /\ SlTyped
<1>1. ReceiveInit => Inv
  BY ReceiveStart, InitTypeOK, NbStart, BleStart, FgStart, RmlStart, RmlTypedStart, SlTypedStart
<1>2. Inv /\ [ReceiveNext]_receiveVars => Inv'
  BY ReceivePartSteps, NextTypeOK, NbInductive, BleInductive, FgInductive, RmlInductive,
     RmlTypedInductive, SlTypedInductive
<1>3. Inv => ReceiveTyped
  BY NbKept, BleKept, FgKept, RmlTypes, SlTypes DEF ReceiveTyped
<1>. QED  BY <1>1, <1>2, <1>3, PTL DEF ReceiveSpec, receiveVars
=============================================================================
