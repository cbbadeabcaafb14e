------------------------------ MODULE RxFilter ------------------------------
(***************************************************************************)
(* The duplicate filters a LoRa frame passes at a node, in the order of    *)
(* sources_rf_rx_drain: the packet bus (rivr_bus_receive with its          *)
(* rivr_dup_cache), then the dedupe ring of routing_flood_forward, whose   *)
(* hits feed the opportunistic-forward suppression table that              *)
(* tx_drain_loop consults before it transmits a queued relay copy.         *)
(*                                                                         *)
(* A key is the pair (src_id, pkt_id) of a frame; src_id is never zero.    *)
(* Both rings are written at head and overwrite their oldest entry.        *)
(***************************************************************************)
EXTENDS Naturals, FiniteSets

CONSTANTS Keys,             \* (src_id, pkt_id) pairs on the air
          NoKey,            \* an empty slot
          BusSize,          \* RIVR_BUS_DUP_CACHE_SIZE, 64
          DedupeSize,       \* DEDUPE_CACHE_SIZE, 64
          DedupeExpiry,     \* DEDUPE_EXPIRY_MS
          SuppressSize,     \* OPFWD_SUPPRESS_SIZE
          SuppressExpiry,   \* OPFWD_SUPPRESS_EXPIRY_MS
          TxDepth,          \* relay copies the TX ring holds
          ClockMod          \* tb_millis() counts modulo ClockMod

ASSUME KeysAssumption == NoKey \notin Keys
ASSUME CacheAssumption == BusSize \in Nat \ {0} /\ DedupeSize \in Nat \ {0}
ASSUME SuppressAssumption == SuppressSize \in Nat \ {0}
ASSUME ExpiryAssumption == DedupeExpiry \in Nat /\ SuppressExpiry \in Nat
ASSUME TxDepthAssumption == TxDepth \in Nat
ASSUME ClockAssumption == ClockMod \in Nat \ {0}

VARIABLES
  bus, busHead,   \* s_dup_cache: keys in arrival order
  ded, dedHead,   \* g_dedupe: keys with the time they were seen
  sup, supNext,   \* g_opfwd_suppress: keys with their expiry
  relays,         \* keys of the relay copies queued in rf_tx_queue
  now,            \* tb_millis()
  last,           \* history: the frame handled last at this instant of the
                  \* clock, and its verdict
  since           \* history: time since each key was accepted, up to
                  \* DedupeExpiry + 1

filterVars == <<bus, busHead, ded, dedHead>>
supVars == <<sup, supNext>>
vars == <<bus, busHead, ded, dedHead, sup, supNext, relays, now, last, since>>

BusSlots == 0 .. BusSize - 1
Slots == 0 .. DedupeSize - 1
SupSlots == 0 .. SuppressSize - 1
Clock == 0 .. ClockMod - 1

Nothing == [key |-> NoKey, relay |-> FALSE, verdict |-> "none"]

Init ==
  /\ bus = [i \in BusSlots |-> NoKey]
  /\ busHead = 0
  /\ ded = [i \in Slots |-> [key |-> NoKey, at |-> 0]]
  /\ dedHead = 0
  /\ sup = [i \in SupSlots |-> [key |-> NoKey, expires |-> 0]]
  /\ supNext = 0
  /\ relays = {}
  /\ now \in Clock
  /\ last = Nothing
  /\ since = [k \in Keys |-> DedupeExpiry + 1]

\* rivr_bus_dup_cache_seen
BusSeen(k) == \E i \in BusSlots : bus[i] = k

\* Mutant: the head is not reduced to the size of the cache.
BusAdd_NoWrap(k) ==
  /\ bus' = [bus EXCEPT ![busHead] = k]
  /\ busHead' = busHead + 1

\* rivr_bus_dup_cache_add
BusAdd(k) ==
  /\ bus' = [bus EXCEPT ![busHead] = k]
  /\ busHead' = (busHead + 1) % BusSize

\* Mutant: the entry expires one millisecond early.
Expired_Early(i) == (now + ClockMod - ded[i].at) % ClockMod >= DedupeExpiry

\* now_ms - e->seen_at_ms > DEDUPE_EXPIRY_MS, in unsigned arithmetic
Expired(i) == (now + ClockMod - ded[i].at) % ClockMod > DedupeExpiry

\* The slots routing_dedupe_check reports a duplicate for.
DedupeHits(k) == {i \in Slots : ded[i].key = k /\ ~Expired(i)}

\* The expired slots the scan clears: it ends at the first hit.
Swept(k) == {i \in Slots : Expired(i) /\ \A j \in DedupeHits(k) : i < j}

\* The ring after the scan.
Sweep(k) ==
  [i \in Slots |-> IF i \in Swept(k) THEN [key |-> NoKey, at |-> 0] ELSE ded[i]]

\* opfwd_suppress_add: refresh the entry of the key, or overwrite the next slot.
SuppressAdd(k) ==
  LET held == {i \in SupSlots : sup[i].key = k}
      until == (now + SuppressExpiry) % ClockMod
  IN  \/ \E i \in held :
           /\ \A j \in held : i <= j
           /\ sup' = [sup EXCEPT ![i].expires = until]
           /\ UNCHANGED supNext
      \/ /\ held = {}
         /\ sup' = [sup EXCEPT ![supNext] = [key |-> k, expires |-> until]]
         /\ supNext' = (supNext + 1) % SuppressSize

\* opfwd_suppress_check: (int32_t)(expires_ms - now_ms) > 0
Suppressed(k) ==
  \E i \in SupSlots :
    /\ sup[i].key = k
    /\ (sup[i].expires + ClockMod - now) % ClockMod \in 1 .. ClockMod \div 2 - 1

Handled(k, relay, verdict) ==
  last' = [key |-> k, relay |-> relay, verdict |-> verdict]

(***************************************************************************)
(* One frame through sources_rf_rx_drain.  relay says whether the frame    *)
(* carries PKT_FLAG_RELAY.                                                 *)
(***************************************************************************)

\* rivr_bus_receive returns false: the frame goes no further.
BusDrop(k, relay) ==
  /\ BusSeen(k)
  /\ Handled(k, relay, "bus")
  /\ UNCHANGED <<filterVars, supVars, relays, now, since>>

\* The dedupe ring knows the frame: an overheard relay is recorded.
DedupeDrop(k, relay) ==
  /\ ~BusSeen(k)
  /\ BusAdd(k)
  /\ DedupeHits(k) # {}
  /\ ded' = Sweep(k)
  /\ IF relay THEN SuppressAdd(k) ELSE UNCHANGED supVars
  /\ Handled(k, relay, "dedupe")
  /\ UNCHANGED <<dedHead, relays, now, since>>

\* A new frame enters the dedupe ring.  Whether a relay copy is queued depends
\* on its TTL, the relay gates and the room in the TX ring.
Accept(k, relay) ==
  /\ ~BusSeen(k)
  /\ BusAdd(k)
  /\ DedupeHits(k) = {}
  /\ ded' = [Sweep(k) EXCEPT ![dedHead] = [key |-> k, at |-> now]]
  /\ dedHead' = (dedHead + 1) % DedupeSize
  /\ \/ UNCHANGED relays
     \/ /\ Cardinality(relays) < TxDepth
        /\ relays' = relays \cup {k}
  /\ Handled(k, relay, "new")
  /\ since' = [since EXCEPT ![k] = 0]
  /\ UNCHANGED <<supVars, now>>

\* tx_drain_loop takes a relay copy: cancelled if suppressed, else sent.
Drain(k) ==
  /\ k \in relays
  /\ relays' = relays \ {k}
  /\ last' = [key |-> k, relay |-> TRUE,
              verdict |-> IF Suppressed(k) THEN "cancelled" ELSE "sent"]
  /\ UNCHANGED <<filterVars, supVars, now, since>>

Advance ==
  /\ now' = (now + 1) % ClockMod
  /\ since' = [k \in Keys |->
                 IF since[k] <= DedupeExpiry THEN since[k] + 1 ELSE since[k]]
  /\ last' = Nothing
  /\ UNCHANGED <<filterVars, supVars, relays>>

Receive(k, relay) ==
  \/ BusDrop(k, relay)
  \/ DedupeDrop(k, relay)
  \/ Accept(k, relay)

Next ==
  \/ \E k \in Keys, relay \in BOOLEAN : Receive(k, relay)
  \/ \E k \in Keys : Drain(k)
  \/ Advance

Spec == Init /\ [][Next]_vars

-----------------------------------------------------------------------------

Verdicts == {"none", "bus", "dedupe", "new", "sent", "cancelled"}

TypeOK ==
  /\ bus \in [BusSlots -> Keys \cup {NoKey}]
  /\ busHead \in BusSlots
  /\ ded \in [Slots -> [key : Keys \cup {NoKey}, at : Clock]]
  /\ dedHead \in Slots
  /\ sup \in [SupSlots -> [key : Keys \cup {NoKey}, expires : Clock]]
  /\ supNext \in SupSlots
  /\ relays \subseteq Keys
  /\ now \in Clock
  /\ last \in [key : Keys \cup {NoKey}, relay : BOOLEAN, verdict : Verdicts]
  /\ since \in [Keys -> 0 .. DedupeExpiry + 1]

\* The sizes the code gives the two rings.
SameSize == BusSize = DedupeSize

(***************************************************************************)
(* With rings of one size the two move in lockstep: the dedupe ring never  *)
(* holds a key the bus cache does not hold in the same slot.  The bus      *)
(* cache is consulted first (rivr_bus.c lines 136-143), so it answers for  *)
(* the dedupe ring.                                                        *)
(***************************************************************************)
Lockstep ==
  /\ busHead = dedHead
  /\ \A i \in Slots : ded[i].key \in {bus[i], NoKey}

(***************************************************************************)
(* With rings of one size no frame ever reaches the dedupe drop, and so no *)
(* entry ever enters the suppression table and no queued relay is ever     *)
(* cancelled (rivr_sources.c lines 316-347, main.c lines 426-436).         *)
(***************************************************************************)
SuppressionDead ==
  /\ last.verdict \notin {"dedupe", "cancelled"}
  /\ \A i \in SupSlots : sup[i].key = NoKey

(***************************************************************************)
(* No frame is accepted, and so none is relayed or handed to the           *)
(* application, a second time within DedupeExpiry of its first arrival,    *)
(* while the dedupe ring has a slot for every key on the air               *)
(* (routing_dedupe_check, routing.c lines 26-59).                          *)
(***************************************************************************)
AcceptedOncePerWindow ==
  [][\A k \in Keys :
       (\E relay \in BOOLEAN : Accept(k, relay)) => since[k] > DedupeExpiry]_vars
=============================================================================
