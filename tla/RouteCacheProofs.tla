-------------------------- MODULE RouteCacheProofs --------------------------
(***************************************************************************)
(* What RouteCache promises for every table size, every set of nodes,      *)
(* every expiry and hysteresis and every width of the clock: a destination *)
(* has one entry, and a live route was heard of within the expiry.         *)
(***************************************************************************)
EXTENDS RouteCache, TLAPS

\* The remainder of a hand or a clock is a slot or a time.
LEMMA ModRange ==
  ASSUME NEW n \in Nat \ {0}, NEW x \in Nat
  PROVE  x % n \in 0 .. n - 1
  OBVIOUS

\* One tick later a reading is one older, unless the clock came round to it.
LEMMA ClockStep ==
  ASSUME NEW c \in Nat \ {0}, NEW t \in 0 .. c - 1, NEW a \in 0 .. c - 1,
         (t + c - a) % c < c - 1
  PROVE  (((t + 1) % c) + c - a) % c = ((t + c - a) % c) + 1
<1>1. CASE t + 1 = c
  BY <1>1
<1>2. CASE t + 1 < c
  BY <1>2
<1>. QED  BY <1>1, <1>2

-----------------------------------------------------------------------------

LEMMA EmptyType == Empty \in Entry
  BY ClockAssumption DEF Empty, Entry, Clock

LEMMA RouteType ==
  ASSUME TypeOK, NEW d \in Dst, NEW n \in Hop, NEW h \in HopCounts, NEW m \in Metrics
  PROVE  Route(d, n, h, m) \in Entry
  BY DEF TypeOK, Route, Entry

LEMMA ClearedType ==
  ASSUME TypeOK, NEW S
  PROVE  Cleared(S) \in [Slots -> Entry]
  BY EmptyType DEF TypeOK, Cleared

LEMMA InitTypeOK == Init => TypeOK
<1>. SUFFICES ASSUME Init PROVE TypeOK
  OBVIOUS
<1>1. 0 \in Slots /\ 0 \in 0 .. RCacheSize
  BY SizeAssumption DEF Slots
<1>2. silent \in [Dst -> [Hop -> 0 .. RCacheExpiry + 1]]
  BY ExpiryAssumption DEF Init
<1>. QED  BY <1>1, <1>2, EmptyType DEF Init, TypeOK

LEMMA RefreshType ==
  ASSUME TypeOK, NEW d \in Dst, NEW n \in Hop, NEW h \in HopCounts, NEW m \in Metrics,
         Refresh(d, n, h, m)
  PROVE  cache' \in [Slots -> Entry] /\ count' \in 0 .. RCacheSize /\ hand' \in Slots
<1>1. PICK i \in Match(d) :
        cache' = [Cleared(Scanned(d)) EXCEPT ![i] =
                    IF Better(i, h, m) THEN Route(d, n, h, m) ELSE [@ EXCEPT !.at = now]]
  BY DEF Refresh
<1>2. i \in Slots
  BY DEF Match
<1>3. [Cleared(Scanned(d))[i] EXCEPT !.at = now] \in Entry
  <2>1. Cleared(Scanned(d))[i] \in Entry
    BY <1>2, ClearedType
  <2>. QED  BY <2>1 DEF TypeOK, Entry
<1>4. cache' \in [Slots -> Entry]
  BY <1>1, <1>2, <1>3, ClearedType, RouteType
<1>. QED  BY <1>4 DEF Refresh, TypeOK

LEMMA InsertType ==
  ASSUME TypeOK, NEW d \in Dst, NEW n \in Hop, NEW h \in HopCounts, NEW m \in Metrics,
         Insert(d, n, h, m)
  PROVE  cache' \in [Slots -> Entry] /\ count' \in 0 .. RCacheSize /\ hand' \in Slots
<1>1. cache' \in [Slots -> Entry]
  <2>1. PICK i : cache' = [Cleared(Scanned(d)) EXCEPT ![i] = Route(d, n, h, m)]
    BY DEF Insert
  <2>. QED  BY <2>1, ClearedType, RouteType
<1>2. count' \in 0 .. RCacheSize
  BY SizeAssumption DEF Insert, TypeOK
<1>. QED  BY <1>1, <1>2 DEF Insert, TypeOK

LEMMA EvictType ==
  ASSUME TypeOK, NEW d \in Dst, NEW n \in Hop, NEW h \in HopCounts, NEW m \in Metrics,
         Evict(d, n, h, m)
  PROVE  cache' \in [Slots -> Entry] /\ count' \in 0 .. RCacheSize /\ hand' \in Slots
<1>1. cache' \in [Slots -> Entry]
  BY RouteType DEF Evict, TypeOK
<1>2. hand' \in Slots
  BY ModRange, SizeAssumption DEF Evict, TypeOK, Slots
<1>. QED  BY <1>1, <1>2 DEF Evict, TypeOK

LEMMA NextTypeOK == TypeOK /\ [Next]_vars => TypeOK'
<1>. SUFFICES ASSUME TypeOK, [Next]_vars PROVE TypeOK'
  OBVIOUS
<1>1. ASSUME NEW d \in Dst, NEW n \in Hop, NEW h \in HopCounts, NEW m \in Metrics,
             Update(d, n, h, m)
      PROVE  TypeOK'
  <2>1. cache' \in [Slots -> Entry] /\ count' \in 0 .. RCacheSize /\ hand' \in Slots
    BY <1>1, RefreshType, InsertType, EvictType DEF Update
  <2>2. silent' \in [Dst -> [Hop -> 0 .. RCacheExpiry + 1]]
    BY <1>1, ExpiryAssumption DEF Update, TypeOK
  <2>. QED  BY <1>1, <2>1, <2>2 DEF Update, TypeOK
<1>2. ASSUME NEW d \in Dst, Lookup(d)
      PROVE  TypeOK'
  BY <1>2, ClearedType DEF Lookup, TypeOK
<1>3. CASE Advance
  <2>1. now' \in Clock
    BY <1>3, ModRange, ClockAssumption DEF Advance, TypeOK, Clock
  <2>2. silent' \in [Dst -> [Hop -> 0 .. RCacheExpiry + 1]]
    BY <1>3, ExpiryAssumption DEF Advance, TypeOK
  <2>. QED  BY <1>3, <2>1, <2>2 DEF Advance, TypeOK
<1>4. CASE UNCHANGED vars
  BY <1>4 DEF vars, TypeOK
<1>. QED  BY <1>1, <1>2, <1>3, <1>4 DEF Next

(***************************************************************************)
(* The table, its counter and its hand keep their types (route_cache.c).   *)
(***************************************************************************)
THEOREM CacheTypeOK == Spec => []TypeOK
  BY InitTypeOK, NextTypeOK, PTL DEF Spec

-----------------------------------------------------------------------------
(***************************************************************************)
(* One entry per destination.                                              *)
(***************************************************************************)

\* Without a live entry, every entry of the destination is cleared.
LEMMA NoOtherEntry ==
  ASSUME NEW d \in Dst, Match(d) = {}, NEW i \in Slots, cache[i].dst = d
  PROVE  i \in Scanned(d)
  BY DEF Match, Scanned

LEMMA NextOneEntry ==
  TypeOK /\ OneEntryPerDst /\ [Next]_vars => OneEntryPerDst'
<1>. SUFFICES ASSUME TypeOK, OneEntryPerDst, [Next]_vars PROVE OneEntryPerDst'
  OBVIOUS
<1>1. ASSUME NEW S, cache' = Cleared(S)
      PROVE  OneEntryPerDst'
  BY <1>1 DEF OneEntryPerDst, Valid, Cleared, Empty
<1>2. ASSUME NEW d \in Dst, NEW n \in Hop, NEW h \in HopCounts, NEW m \in Metrics,
             Refresh(d, n, h, m)
      PROVE  OneEntryPerDst'
  <2>1. PICK i \in Match(d) :
          cache' = [Cleared(Scanned(d)) EXCEPT ![i] =
                      IF Better(i, h, m) THEN Route(d, n, h, m) ELSE [@ EXCEPT !.at = now]]
    BY <1>2 DEF Refresh
  <2>2. i \in Slots /\ cache[i].dst = d /\ i \notin Scanned(d)
    BY DEF Match, Scanned
  <2>3. Cleared(Scanned(d))[i] = cache[i]
    BY <2>2 DEF Cleared
  <2>4. cache'[i].dst = d
    <3>1. cache'[i] = IF Better(i, h, m) THEN Route(d, n, h, m)
                      ELSE [cache[i] EXCEPT !.at = now]
      BY <2>1, <2>2, <2>3 DEF Cleared
    <3>2. cache[i] \in Entry
      BY <2>2 DEF TypeOK
    <3>. QED  BY <2>2, <3>1, <3>2 DEF Route, Entry
  <2>5. ASSUME NEW j \in Slots
        PROVE  cache'[j].dst = cache[j].dst \/ cache'[j].dst = NoDst
    BY <2>1, <2>2, <2>4 DEF Cleared, Empty
  <2>. QED  BY <2>5 DEF OneEntryPerDst, Valid
<1>3. ASSUME NEW d \in Dst, NEW i \in Slots, NEW S, NEW e,
             e.dst = d, cache' = [Cleared(S) EXCEPT ![i] = e],
             \A j \in Slots \ {i} : cache[j].dst = d => j \in S
      PROVE  OneEntryPerDst'
  <2>1. ASSUME NEW j \in Slots \ {i}
        PROVE  cache'[j].dst # d /\ (cache'[j].dst = cache[j].dst \/ cache'[j].dst = NoDst)
    BY <1>3, NoDstAssumption DEF Cleared, Empty
  <2>2. cache'[i].dst = d
    BY <1>3 DEF Cleared
  <2>. QED  BY <2>1, <2>2 DEF OneEntryPerDst, Valid
<1>4. ASSUME NEW d \in Dst, NEW n \in Hop, NEW h \in HopCounts, NEW m \in Metrics,
             Insert(d, n, h, m)
      PROVE  OneEntryPerDst'
  <2>1. PICK i \in FirstFree(d) :
          Match(d) = {} /\ cache' = [Cleared(Scanned(d)) EXCEPT ![i] = Route(d, n, h, m)]
    BY <1>4 DEF Insert
  <2>2. i \in Slots
    BY DEF FirstFree, FreeSlots
  <2>3. Route(d, n, h, m).dst = d
    BY DEF Route
  <2>4. \A j \in Slots \ {i} : cache[j].dst = d => j \in Scanned(d)
    BY <2>1, NoOtherEntry
  <2>. QED  BY <1>3, <2>1, <2>2, <2>3, <2>4
<1>5. ASSUME NEW d \in Dst, NEW n \in Hop, NEW h \in HopCounts, NEW m \in Metrics,
             Evict(d, n, h, m)
      PROVE  OneEntryPerDst'
  <2>1. cache = Cleared({})
    BY DEF TypeOK, Cleared
  <2>2. cache' = [Cleared({}) EXCEPT ![hand] = Route(d, n, h, m)] /\ hand \in Slots
    BY <1>5, <2>1 DEF Evict, TypeOK
  <2>3. Route(d, n, h, m).dst = d
    BY DEF Route
  <2>4. \A j \in Slots : cache[j].dst # d
    BY <1>5, NoOtherEntry DEF Evict, FreeSlots
  <2>. QED  BY <1>3, <2>2, <2>3, <2>4
<1>6. ASSUME NEW d \in Dst, Lookup(d)
      PROVE  OneEntryPerDst'
  BY <1>1, <1>6 DEF Lookup
<1>7. CASE Advance \/ UNCHANGED vars
  BY <1>7 DEF Advance, vars, OneEntryPerDst, Valid
<1>. QED  BY <1>2, <1>4, <1>5, <1>6, <1>7 DEF Next, Update

(***************************************************************************)
(* A destination has at most one entry in the table: what                  *)
(* route_cache_lookup and route_cache_best_hop meet first is all there is  *)
(* (route_cache_update lines 146-202).                                     *)
(***************************************************************************)
THEOREM CacheOneEntry == Spec => []OneEntryPerDst
<1>1. Init => OneEntryPerDst
  BY DEF Init, OneEntryPerDst, Valid, Empty
<1>. QED  BY <1>1, CacheTypeOK, NextOneEntry, PTL DEF Spec

-----------------------------------------------------------------------------
(***************************************************************************)
(* Live routes are recent: no entry is younger than the last news of its   *)
(* destination (AgeBound), and time passes equally for both.               *)
(***************************************************************************)

LEMMA AgeType ==
  ASSUME TypeOK, NEW i \in Slots
  PROVE  Age(i) \in Nat
<1>1. cache[i].at \in Clock
  BY DEF TypeOK, Entry
<1>. QED  BY <1>1, ClockAssumption DEF Age, TypeOK, Clock

\* An update leaves or clears the entries of other destinations.
LEMMA UpdateOthers ==
  ASSUME TypeOK, NEW d \in Dst, NEW n \in Hop, NEW h \in HopCounts, NEW m \in Metrics,
         Update(d, n, h, m), NEW j \in Slots, cache'[j].dst # d
  PROVE  cache'[j] = cache[j] \/ cache'[j].dst = NoDst
<1>1. CASE Refresh(d, n, h, m)
  <2>1. PICK i \in Match(d) :
          cache' = [Cleared(Scanned(d)) EXCEPT ![i] =
                      IF Better(i, h, m) THEN Route(d, n, h, m) ELSE [@ EXCEPT !.at = now]]
    BY <1>1 DEF Refresh
  <2>2. i \in Slots /\ cache[i].dst = d /\ i \notin Scanned(d)
    BY DEF Match, Scanned
  <2>3. CASE i = j
    <3>1. cache'[i] = IF Better(i, h, m) THEN Route(d, n, h, m)
                      ELSE [cache[i] EXCEPT !.at = now]
      BY <2>1, <2>2 DEF Cleared
    <3>2. cache[i] \in Entry
      BY <2>2 DEF TypeOK
    <3>3. cache'[i].dst = d
      BY <2>2, <3>1, <3>2 DEF Route, Entry
    <3>. QED  BY <2>3, <3>3
  <2>4. CASE i # j
    BY <2>1, <2>4 DEF Cleared, Empty
  <2>. QED  BY <2>3, <2>4
<1>2. CASE Insert(d, n, h, m)
  <2>1. PICK i : cache' = [Cleared(Scanned(d)) EXCEPT ![i] = Route(d, n, h, m)]
    BY <1>2 DEF Insert
  <2>2. i # j
    BY <2>1 DEF Route, Cleared
  <2>. QED  BY <2>1, <2>2 DEF Cleared, Empty
<1>3. CASE Evict(d, n, h, m)
  BY <1>3 DEF Evict, Route, TypeOK
<1>. QED  BY <1>1, <1>2, <1>3 DEF Update

\* An update gives its destination news of age 0, and its entry age 0.
LEMMA UpdateAge ==
  ASSUME TypeOK, AgeBound, NEW d \in Dst, NEW n \in Hop,
         NEW h \in HopCounts, NEW m \in Metrics, Update(d, n, h, m)
  PROVE  AgeBound'
<1>. SUFFICES ASSUME NEW i \in Slots, Valid(i)'
              PROVE  \E k \in Hop : silent'[cache'[i].dst][k] <= Age(i)'
  BY DEF AgeBound
<1>0. TypeOK' /\ Age(i)' \in Nat /\ Age(i) \in Nat
  <2>1. TypeOK'
    BY NextTypeOK DEF Next
  <2>2. Age(i)' \in Nat
    <3>1. cache'[i].at \in Clock /\ now' \in Clock
      BY <2>1 DEF TypeOK, Entry
    <3>. QED  BY <3>1, ClockAssumption DEF Age, Clock
  <2>. QED  BY <2>1, <2>2, AgeType
<1>1. CASE cache'[i].dst = d
  <2>1. silent'[d][n] = 0
    BY DEF Update, TypeOK
  <2>. QED  BY <1>0, <1>1, <2>1
<1>2. CASE cache'[i].dst # d
  <2>1. cache'[i] = cache[i]
    BY <1>2, UpdateOthers DEF Valid
  <2>2. Valid(i) /\ Age(i)' = Age(i) /\ cache[i].dst \in Dst
    BY <2>1 DEF Valid, Age, Update, TypeOK, Entry
  <2>3. PICK k \in Hop : silent[cache[i].dst][k] <= Age(i)
    BY <2>2 DEF AgeBound
  <2>4. silent'[cache[i].dst][k] = silent[cache[i].dst][k]
    BY <1>2, <2>1, <2>2 DEF Update, TypeOK
  <2>. QED  BY <2>1, <2>2, <2>3, <2>4
<1>. QED  BY <1>1, <1>2

\* A tick makes an entry and the news of its destination one older.
LEMMA AdvanceAge ==
  ASSUME TypeOK, AgeBound, Advance
  PROVE  AgeBound'
<1>. SUFFICES ASSUME NEW i \in Slots, Valid(i)'
              PROVE  \E k \in Hop : silent'[cache'[i].dst][k] <= Age(i)'
  BY DEF AgeBound
<1>1. cache' = cache /\ Valid(i) /\ cache[i].dst \in Dst /\ cache[i].at \in Clock
  BY DEF Advance, Valid, TypeOK, Entry
<1>2. Age(i)' = Age(i) + 1
  <2>1. now \in 0 .. ClockMod - 1 /\ cache[i].at \in 0 .. ClockMod - 1
    BY <1>1 DEF TypeOK, Clock
  <2>2. (now + ClockMod - cache[i].at) % ClockMod < ClockMod - 1
    BY <1>1 DEF Advance, Age
  <2>3. (((now + 1) % ClockMod) + ClockMod - cache[i].at) % ClockMod
          = ((now + ClockMod - cache[i].at) % ClockMod) + 1
    BY <2>1, <2>2, ClockStep, ClockAssumption
  <2>. QED  BY <1>1, <2>3 DEF Age, Advance
<1>3. PICK k \in Hop : silent[cache[i].dst][k] <= Age(i)
  BY <1>1 DEF AgeBound
<1>4. silent[cache[i].dst][k] \in Nat /\ Age(i) \in Nat
  BY <1>1, AgeType, ExpiryAssumption DEF TypeOK
<1>5. silent'[cache[i].dst][k] \in {silent[cache[i].dst][k], silent[cache[i].dst][k] + 1}
  BY <1>1 DEF Advance
<1>6. silent'[cache'[i].dst][k] <= Age(i)'
  BY <1>1, <1>2, <1>3, <1>4, <1>5
<1>. QED  BY <1>6

LEMMA NextAgeBound == TypeOK /\ AgeBound /\ [Next]_vars => AgeBound'
<1>. SUFFICES ASSUME TypeOK, AgeBound, [Next]_vars PROVE AgeBound'
  OBVIOUS
<1>1. ASSUME NEW d \in Dst, Lookup(d)
      PROVE  AgeBound'
  <2>. SUFFICES ASSUME NEW i \in Slots, Valid(i)'
                PROVE  \E k \in Hop : silent'[cache'[i].dst][k] <= Age(i)'
    BY DEF AgeBound
  <2>1. cache'[i] = cache[i] /\ silent' = silent /\ now' = now
    BY <1>1 DEF Lookup, Cleared, Empty, Valid
  <2>. QED  BY <2>1 DEF AgeBound, Age, Valid
<1>2. CASE UNCHANGED vars
  BY <1>2 DEF vars, AgeBound, Age, Valid
<1>. QED  BY <1>1, <1>2, UpdateAge, AdvanceAge DEF Next

(***************************************************************************)
(* A route that is still live leads to a destination heard of within       *)
(* RCACHE_EXPIRY_MS, wherever the clock wraps (expire_entry lines 90-99).  *)
(***************************************************************************)
THEOREM CacheLiveIsRecent == Spec => []LiveIsRecent
<1>1. Init => AgeBound
  BY DEF Init, AgeBound, Valid, Empty
<1>2. TypeOK /\ AgeBound => LiveIsRecent
  <2>. SUFFICES ASSUME TypeOK, AgeBound, NEW i \in Slots, Valid(i), ~Stale(i)
                PROVE  \E n \in Hop : silent[cache[i].dst][n] <= RCacheExpiry
    BY DEF LiveIsRecent
  <2>1. PICK n \in Hop : silent[cache[i].dst][n] <= Age(i)
    BY DEF AgeBound
  <2>2. cache[i].dst \in Dst
    BY DEF Valid, TypeOK, Entry
  <2>3. silent[cache[i].dst][n] \in Nat /\ Age(i) \in Nat
    BY <2>2, AgeType, ExpiryAssumption DEF TypeOK
  <2>4. Age(i) <= RCacheExpiry
    BY <2>3, ExpiryAssumption DEF Stale
  <2>5. silent[cache[i].dst][n] <= RCacheExpiry
    BY <2>1, <2>3, <2>4, ExpiryAssumption
  <2>. QED  BY <2>5
<1>. QED  BY <1>1, <1>2, CacheTypeOK, NextAgeBound, PTL DEF Spec
=============================================================================
