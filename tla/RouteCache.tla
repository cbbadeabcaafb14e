----------------------------- MODULE RouteCache -----------------------------
(***************************************************************************)
(* The route cache of a node, firmware_core/route_cache.c: a table of      *)
(* routes keyed by destination, fed by received frames                     *)
(* (route_cache_learn_rx) and by ROUTE_RPL (route_cache_update), and       *)
(* consulted by route_cache_best_hop, route_cache_tx_decide and            *)
(* route_cache_can_reply_for_dst, all of which expire an entry when they   *)
(* touch it.  route_cache_expire, which nothing in the firmware calls, is  *)
(* left out; RCACHE_FLAG_PENDING is never set.                             *)
(***************************************************************************)
EXTENDS Naturals, FiniteSets

CONSTANTS Dst,           \* destinations
          NoDst,         \* dst_id of an empty slot
          Hop,           \* neighbours that are next hops
          RCacheSize,    \* RCACHE_SIZE
          RCacheExpiry,  \* RCACHE_EXPIRY_MS
          Hysteresis,    \* RCACHE_METRIC_HYSTERESIS
          HopCounts,     \* hop counts of advertised routes
          Metrics,       \* link scores
          ClockMod       \* tb_millis() counts modulo ClockMod, 2^32

ASSUME NoDstAssumption == NoDst \notin Dst
ASSUME HopAssumption == Hop # {}
ASSUME SizeAssumption == RCacheSize \in Nat \ {0}
ASSUME ExpiryAssumption == RCacheExpiry \in Nat /\ Hysteresis \in Nat
ASSUME CostAssumption == HopCounts \subseteq Nat /\ Metrics \subseteq Nat
ASSUME ClockAssumption == ClockMod \in Nat \ {0}

VARIABLES cache,    \* cache->entries
          count,    \* cache->count
          hand,     \* cache->evict_hand
          now,      \* tb_millis()
          silent    \* history: time since each destination was last heard of
                    \* through each next hop, up to RCacheExpiry + 1

vars == <<cache, count, hand, now, silent>>

Slots == 0 .. RCacheSize - 1
Clock == 0 .. ClockMod - 1

Empty == [dst |-> NoDst, next |-> NoDst, at |-> 0, hops |-> 0, metric |-> 0]

Route(d, n, h, m) == [dst |-> d, next |-> n, at |-> now, hops |-> h, metric |-> m]

\* route_cache_init.  The clock starts anywhere.
Init ==
  /\ cache = [i \in Slots |-> Empty]
  /\ count = 0
  /\ hand = 0
  /\ now \in Clock
  /\ silent = [d \in Dst |-> [n \in Hop |-> RCacheExpiry + 1]]

Valid(i) == cache[i].dst # NoDst

\* now_ms - e->last_seen_ms, in unsigned arithmetic
Age(i) == (now + ClockMod - cache[i].at) % ClockMod

\* Mutant: the comparison is not safe across the wrap of the clock.
Stale_Plain(i) == Valid(i) /\ now > cache[i].at + RCacheExpiry

\* The test of expire_entry and entry_is_alive.
Stale(i) == Valid(i) /\ Age(i) > RCacheExpiry

\* The live entry of a destination, where the scans of the code stop.
Match(d) == {i \in Slots : cache[i].dst = d /\ ~Stale(i)}

\* The stale entries the scan of route_cache_update clears on its way.
Scanned(d) == {i \in Slots : Stale(i) /\ \A j \in Match(d) : i < j}

Cleared(S) == [i \in Slots |-> IF i \in S THEN Empty ELSE cache[i]]

\* Fewer hops win; at equal hops a metric better by the hysteresis.
Better(i, h, m) ==
  \/ h < cache[i].hops
  \/ h = cache[i].hops /\ m > cache[i].metric + Hysteresis

\* The slots free after the scan for a new destination, and the first of them.
FreeSlots(d) == {i \in Slots : ~Valid(i) \/ i \in Scanned(d)}
FirstFree(d) == {i \in FreeSlots(d) : \A j \in FreeSlots(d) : i <= j}

\* A known destination: adopt the route if it is better, refresh it anyway.
Refresh(d, n, h, m) ==
  \E i \in Match(d) :
    /\ cache' = [Cleared(Scanned(d)) EXCEPT ![i] =
                   IF Better(i, h, m) THEN Route(d, n, h, m) ELSE [@ EXCEPT !.at = now]]
    /\ UNCHANGED <<count, hand>>

\* Mutant: a free slot is taken before the rest of the table is scanned.
Insert_Early(d, n, h, m) ==
  \E i \in FirstFree(d) :
    /\ cache' = [Cleared(Scanned(d)) EXCEPT ![i] = Route(d, n, h, m)]
    /\ count' = IF count < RCacheSize THEN count + 1 ELSE count
    /\ UNCHANGED hand

\* A new destination in a free slot.
Insert(d, n, h, m) ==
  \E i \in FirstFree(d) :
    /\ Match(d) = {}
    /\ cache' = [Cleared(Scanned(d)) EXCEPT ![i] = Route(d, n, h, m)]
    /\ count' = IF count < RCacheSize THEN count + 1 ELSE count
    /\ UNCHANGED hand

\* Mutant: the hand is not reduced to the size of the table.
Evict_NoWrap(d, n, h, m) ==
  /\ Match(d) = {} /\ FreeSlots(d) = {}
  /\ cache' = [cache EXCEPT ![hand] = Route(d, n, h, m)]
  /\ hand' = hand + 1
  /\ UNCHANGED count

\* A new destination when every slot holds a live route.
Evict(d, n, h, m) ==
  /\ Match(d) = {} /\ FreeSlots(d) = {}
  /\ cache' = [cache EXCEPT ![hand] = Route(d, n, h, m)]
  /\ hand' = (hand + 1) % RCacheSize
  /\ UNCHANGED count

\* route_cache_update: a frame tells of d through n.
Update(d, n, h, m) ==
  /\ Refresh(d, n, h, m) \/ Insert(d, n, h, m) \/ Evict(d, n, h, m)
  /\ silent' = [silent EXCEPT ![d][n] = 0]
  /\ UNCHANGED now

\* route_cache_lookup and route_cache_best_hop: a stale entry is cleared when
\* it is met; a live one or none changes nothing.
Lookup(d) ==
  LET stale == {i \in Slots : cache[i].dst = d /\ Stale(i)}
  IN  /\ stale # {}
      /\ cache' = Cleared(stale)
      /\ UNCHANGED <<count, hand, now, silent>>

\* Time passes.  The bound: the clock does not come round over an entry that
\* nothing touched; such an entry would look live again.
Advance ==
  /\ \A i \in Slots : Valid(i) => Age(i) < ClockMod - 1
  /\ now' = (now + 1) % ClockMod
  /\ silent' = [d \in Dst |-> [n \in Hop |->
                  IF silent[d][n] <= RCacheExpiry THEN silent[d][n] + 1 ELSE silent[d][n]]]
  /\ UNCHANGED <<cache, count, hand>>

Next ==
  \/ \E d \in Dst, n \in Hop, h \in HopCounts, m \in Metrics : Update(d, n, h, m)
  \/ \E d \in Dst : Lookup(d)
  \/ Advance

Spec == Init /\ [][Next]_vars

-----------------------------------------------------------------------------

Entry == [dst : Dst \cup {NoDst}, next : Hop \cup {NoDst}, at : Clock,
          hops : HopCounts \cup {0}, metric : Metrics \cup {0}]

TypeOK ==
  /\ cache \in [Slots -> Entry]
  /\ count \in 0 .. RCacheSize
  /\ hand \in Slots
  /\ now \in Clock
  /\ silent \in [Dst -> [Hop -> 0 .. RCacheExpiry + 1]]

(***************************************************************************)
(* A destination has at most one entry, stale ones included, although      *)
(* entries are expired, reinserted and evicted by scans that stop half way *)
(* (route_cache_update lines 146-202): the first entry a lookup meets is   *)
(* the only one.  route_cache_best_hop scans on for a second one, which    *)
(* its comment (lines 331-334) expects after a path change; there is none. *)
(***************************************************************************)
OneEntryPerDst ==
  \A i, j \in Slots : Valid(i) /\ cache[i].dst = cache[j].dst => i = j

(***************************************************************************)
(* A live route leads to a destination that was heard of, by some path,    *)
(* within the last RCACHE_EXPIRY_MS, across the wrap of the clock          *)
(* (expire_entry lines 90-99, route_cache_update line 167).                *)
(***************************************************************************)
LiveIsRecent ==
  \A i \in Slots : Valid(i) /\ ~Stale(i) =>
    \E n \in Hop : silent[cache[i].dst][n] <= RCacheExpiry

(***************************************************************************)
(* The inductive invariant behind it: an entry is never younger than the   *)
(* last news of its destination.                                           *)
(***************************************************************************)
AgeBound ==
  \A i \in Slots : Valid(i) => \E n \in Hop : silent[cache[i].dst][n] <= Age(i)
=============================================================================
