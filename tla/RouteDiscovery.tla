--------------------------- MODULE RouteDiscovery ---------------------------
(***************************************************************************)
(* Route discovery: a message without a route waits in the pending queue   *)
(* (pending_queue.c) while a ROUTE_REQ floods the mesh; the target, and    *)
(* every node with a good cached route to it, floods a ROUTE_RPL back; who *)
(* hears it learns the route and sends what waits for the target.          *)
(*                                                                         *)
(* As in Mesh, an action is one pass of a loop body of a single-threaded   *)
(* node, a radio frame may be lost at any receiver, and the gates before a *)
(* relay may refuse it.  The radio driver never fills in from_id           *)
(* (radio_service_rx), so a relayed frame does not tell who relayed it.    *)
(*                                                                         *)
(* Abstractions.  A route is there or not, as RouteCache decides; link     *)
(* quality is a choice.  The bus remembers every key (BusSize in Mesh).    *)
(* The jitter of a relay is the delay of Transmit; frames do not overtake  *)
(* each other in the TX ring.  Retries and acknowledgements of unicasts,   *)
(* in Mesh, are left out: like data frames they teach direct routes only.  *)
(***************************************************************************)
EXTENDS Naturals, Sequences, FiniteSets, SequencesExt

CONSTANTS Node,           \* the node ids
          Nobody,         \* id 0
          Neighbors,      \* Neighbors[n]: the nodes in radio range of n
          Dist,           \* Dist[n][d]: radio hops a frame of d takes to n
          Msgs,           \* the application messages
          Src, Dst,       \* of a message: origin and destination
          ReqTtl,         \* ROUTE_REQ_TTL
          DefaultTtl,     \* RIVR_PKT_DEFAULT_TTL
          ReplyMaxHops,   \* RCACHE_REPLY_MAX_HOPS
          PendingSize,    \* PENDING_QUEUE_SIZE
          PendingExpiry,  \* PENDING_EXPIRY_MS
          TxDepth,        \* frames rf_tx_queue holds
          RxDepth,        \* frames rf_rx_ringbuf holds
          ClockMod,       \* tb_millis() counts modulo ClockMod, 2^32
          MaxSent,        \* bound: messages submitted
          MaxLost         \* bound: routes that expire

ASSUME NobodyAssumption == Nobody \notin Node
ASSUME EndsAssumption == \A m \in Msgs : Src[m] \in Node /\ Dst[m] \in Node
ASSUME RangeAssumption ==
  \A n \in Node : Neighbors[n] \subseteq Node /\ \A k \in Neighbors[n] : Dist[k][n] <= 1
ASSUME DistAssumption ==
  \A n, k, d \in Node :
    Dist[n][d] \in Nat /\ Dist[n][n] = 0 /\ Dist[n][d] <= Dist[n][k] + Dist[k][d]
ASSUME LimitsAssumption ==
  {ReqTtl, DefaultTtl, ReplyMaxHops, PendingSize, TxDepth, RxDepth} \subseteq Nat
ASSUME ExpiryAssumption == PendingExpiry \in Nat /\ ClockMod \in Nat \ {0}

VARIABLES txq,     \* rf_tx_queue of each node
          rxq,     \* rf_rx_ringbuf
          bus,     \* s_dup_cache: the keys of the frames received
          pend,    \* g_pending_queue.entries
          count,   \* g_pending_queue.count
          routes,  \* g_route_cache: the live route to each node
          near,    \* g_ntable: the nodes heard directly
          ctr,     \* g_ctrl_seq
          now,     \* tb_millis()
          sent,    \* history: messages the application submitted
          waited,  \* history: how long each message has been pending
          put,     \* history: how often each message was offered to the TX ring
          knew,    \* history: the nodes each node ever had a route to
          lost     \* routes that expired so far

queues == <<pend, count>>
vars == <<txq, rxq, bus, queues, routes, near, ctr, now, sent, waited, put, knew, lost>>

Slots == 1 .. PendingSize
Clock == 0 .. ClockMod - 1

NoRoute == [next |-> Nobody, hops |-> 0]
Free == [dst |-> Nobody, msg |-> 0, pid |-> 0, at |-> 0]

Init ==
  /\ txq = [n \in Node |-> <<>>]
  /\ rxq = [n \in Node |-> <<>>]
  /\ bus = [n \in Node |-> {}]
  /\ pend = [n \in Node |-> [i \in Slots |-> Free]]
  /\ count = [n \in Node |-> 0]
  /\ routes = [n \in Node |-> [d \in Node |-> NoRoute]]
  /\ near = [n \in Node |-> {}]
  /\ ctr = [n \in Node |-> 0]
  /\ now = 0
  /\ sent = {}
  /\ waited = [m \in Msgs |-> 0]
  /\ put = [m \in Msgs |-> 0]
  /\ knew = [n \in Node |-> {}]
  /\ lost = 0

-----------------------------------------------------------------------------
(***************************************************************************)
(* Frames.                                                                 *)
(***************************************************************************)

\* The one-hop unicast of rf_tx_sink_cb and of reencode_as_unicast_hop.
Unicast(m, next, pid) ==
  [kind |-> "data", src |-> Src[m], dst |-> next, ttl |-> 1, hop |-> 0, pid |-> pid,
   msg |-> m]

\* routing_build_route_req
RouteReq(n, d, pid) ==
  [kind |-> "req", src |-> n, dst |-> d, ttl |-> ReqTtl, hop |-> 0, pid |-> pid]

\* routing_build_route_rpl, without the next hop, which no receiver uses.
RouteRpl(n, requester, target, hops, pid) ==
  [kind |-> "rpl", src |-> n, dst |-> requester, ttl |-> ReqTtl, hop |-> 0, pid |-> pid,
   target |-> target, hops |-> hops]

\* Step 5 of routing_flood_forward.
Relayed(f) == [f EXCEPT !.ttl = f.ttl - 1, !.hop = f.hop + 1]

\* rb_try_push
TryPush(q, f) == IF Len(q) < TxDepth THEN Append(q, f) ELSE q

-----------------------------------------------------------------------------
(***************************************************************************)
(* The pending queue.                                                      *)
(***************************************************************************)

Used(n) == {i \in Slots : pend[n][i].dst # Nobody}

\* now_ms - e->enqueued_ms, in unsigned arithmetic
Age(n, i) == (now + ClockMod - pend[n][i].at) % ClockMod

\* Mutant: the comparison is not safe across the wrap of the clock.
Old_Plain(n, i) == now > pend[n][i].at + PendingExpiry

Old(n, i) == Age(n, i) > PendingExpiry

Expired(n) == {i \in Used(n) : Old(n, i)}

Without(q, S) == [i \in Slots |-> IF i \in S THEN Free ELSE q[i]]

\* Mutant: slots are cleared and the count is left.
Less_Never(c, S) == c

\* pq->count is decremented once for each slot cleared, never below 0.
Less(c, S) == IF c > Cardinality(S) THEN c - Cardinality(S) ELSE 0

\* pending_queue_enqueue: what expired leaves first, then the frame takes the
\* first free slot, if there is one.
Enqueue(n, m, pid) ==
  LET free == Slots \ (Used(n) \ Expired(n))
      slot == {i \in free : \A j \in free : i <= j}
      kept == Less(count[n], Expired(n))
  IN  /\ pend' = [pend EXCEPT ![n] = [i \in Slots |->
                    IF i \in slot THEN [dst |-> Dst[m], msg |-> m, pid |-> pid, at |-> now]
                    ELSE Without(@, Expired(n))[i]]]
      /\ count' = [count EXCEPT ![n] =
                     IF slot # {} /\ kept < PendingSize THEN kept + 1 ELSE kept]

\* The slots pending_queue_drain_for_dst visits, and those it sends.
Waiting(n, d) == {i \in Used(n) : pend[n][i].dst = d}
Sendable(n, d) == Waiting(n, d) \ Expired(n)

\* The TX ring q after the drain, in slot order.
Sending(n, d, next, q) ==
  FoldLeft(LAMBDA t, i : IF i \in Sendable(n, d)
                         THEN TryPush(t, Unicast(pend[n][i].msg, next, pend[n][i].pid))
                         ELSE t,
           q, [i \in Slots |-> i])

\* Mutant: a frame stays until it expires.
Drained_Expired(n, d) == Waiting(n, d) \cap Expired(n)

\* Every slot of the destination is cleared, whether its frame fitted the TX
\* ring or not.
Drained(n, d) == Waiting(n, d)

Drain(n, d) ==
  /\ pend' = [pend EXCEPT ![n] = Without(@, Drained(n, d))]
  /\ count' = [count EXCEPT ![n] = Less(@, Drained(n, d))]
  /\ put' = [m \in Msgs |->
               IF \E i \in Sendable(n, d) : pend[n][i].msg = m THEN put[m] + 1 ELSE put[m]]

-----------------------------------------------------------------------------
(***************************************************************************)
(* Routes.                                                                 *)
(***************************************************************************)

Has(n, d) == routes[n][d] # NoRoute

\* route_cache_update on the routes t of a node; ok: at equal hops the new
\* metric is better by the hysteresis.
Better(t, d, hops, ok) ==
  t[d] = NoRoute \/ hops < t[d].hops \/ (hops = t[d].hops /\ ok)

Adopt(t, d, next, hops, ok) ==
  IF Better(t, d, hops, ok) THEN [t EXCEPT ![d] = [next |-> next, hops |-> hops]] ELSE t

\* route_cache_learn_rx and neighbor_update: only a frame that was not relayed
\* tells where it comes from.
Learnt(n, f) == IF f.hop = 0 THEN Adopt(routes[n], f.src, f.src, 1, FALSE) ELSE routes[n]

Near(n, f) == near' = [near EXCEPT ![n] = IF f.hop = 0 THEN @ \cup {f.src} ELSE @]

SetRoutes(n, t) ==
  /\ routes' = [routes EXCEPT ![n] = t]
  /\ knew' = [knew EXCEPT ![n] = @ \cup {d \in Node : t[d] # NoRoute}]

\* RCACHE_EXPIRY_MS without news: the route is gone at the next lookup.
LoseRoute(n, d) ==
  /\ lost < MaxLost /\ Has(n, d)
  /\ lost' = lost + 1
  /\ routes' = [routes EXCEPT ![n][d] = NoRoute]
  /\ UNCHANGED <<txq, rxq, bus, queues, near, ctr, now, sent, waited, put, knew>>

-----------------------------------------------------------------------------
(***************************************************************************)
(* Sending: rf_tx_sink_cb for a frame with a destination.                  *)
(***************************************************************************)

Unsent(m) == m \notin sent /\ Cardinality(sent) < MaxSent

\* Tier 1: the cached route, and tier 2: a direct neighbour as forwarder when
\* there is no route or its score is 0.  When the TX ring is full neither the
\* frame nor its fallback flood, which takes a packet id, fits.
SubmitVia(m, next) ==
  LET n == Src[m]
  IN  /\ Unsent(m)
      /\ sent' = sent \cup {m}
      /\ ctr' = [ctr EXCEPT ![n] = IF Len(txq[n]) < TxDepth THEN @ + 1 ELSE @ + 2]
      /\ txq' = [txq EXCEPT ![n] = TryPush(@, Unicast(m, next, ctr[n] + 1))]
      /\ put' = [put EXCEPT ![m] = @ + 1]
      /\ UNCHANGED <<rxq, bus, queues, routes, near, now, waited, knew, lost>>

\* Tier 3: the frame is saved, if there is room, and a ROUTE_REQ goes out.
SubmitPending(m) ==
  LET n == Src[m]
  IN  /\ Unsent(m)
      /\ sent' = sent \cup {m}
      /\ ctr' = [ctr EXCEPT ![n] = @ + 2]
      /\ Enqueue(n, m, ctr[n] + 1)
      /\ txq' = [txq EXCEPT ![n] = TryPush(@, RouteReq(n, Dst[m], ctr[n] + 2))]
      /\ UNCHANGED <<rxq, bus, routes, near, now, waited, put, knew, lost>>

-----------------------------------------------------------------------------
(***************************************************************************)
(* Receiving: the loop body of sources_rf_rx_drain.                        *)
(***************************************************************************)

Key(f) == <<f.src, f.pid>>

\* rivr_bus_receive refuses a known key.
DropDuplicate(n) ==
  /\ rxq[n] # <<>> /\ Key(Head(rxq[n])) \in bus[n]
  /\ rxq' = [rxq EXCEPT ![n] = Tail(@)]
  /\ UNCHANGED <<txq, bus, queues, routes, near, ctr, now, sent, waited, put, knew, lost>>

\* A new frame of the kind leaves the RX ring and is remembered.
Accept(n, kind) ==
  LET f == Head(rxq[n])
  IN  /\ rxq[n] # <<>> /\ f.kind = kind /\ Key(f) \notin bus[n]
      /\ rxq' = [rxq EXCEPT ![n] = Tail(@)]
      /\ bus' = [bus EXCEPT ![n] = @ \cup {Key(f)}]
      /\ Near(n, f)

\* maybe_relay, after the frames of q, when the gates let the frame pass.
Relay(n, f, q, fwd) ==
  /\ fwd => f.ttl > 0 /\ f.hop < DefaultTtl
  /\ txq' = [txq EXCEPT ![n] = IF fwd THEN TryPush(q, Relayed(f)) ELSE q]

ReceiveData(n, fwd) ==
  LET f == Head(rxq[n])
  IN  /\ Accept(n, "data")
      /\ SetRoutes(n, Learnt(n, f))
      /\ Relay(n, f, txq[n], fwd)
      /\ UNCHANGED <<queues, ctr, now, sent, waited, put, lost>>

\* Mutant: the cache is not asked.
ShouldReply_Any(n, d, t, good) == TRUE

\* routing_should_reply_route_req: the target answers, and so does a node with
\* a cached route that is good and not too long.
ShouldReply(n, d, t, good) ==
  n = d \/ (t[d] # NoRoute /\ good /\ t[d].hops <= ReplyMaxHops)

ReceiveReq(n, good, fwd) ==
  LET f == Head(rxq[n])
      t == Learnt(n, f)
      reply == ShouldReply(n, f.dst, t, good)
      hops == IF n = f.dst THEN 0 ELSE t[f.dst].hops
      rpl == RouteRpl(n, f.src, f.dst, hops, ctr[n] + 1)
  IN  /\ Accept(n, "req")
      /\ SetRoutes(n, t)
      /\ ctr' = [ctr EXCEPT ![n] = IF reply THEN @ + 1 ELSE @]
      /\ Relay(n, f, IF reply THEN TryPush(txq[n], rpl) ELSE txq[n], fwd)
      /\ UNCHANGED <<queues, now, sent, waited, put, lost>>

\* Mutant: the last hop is not counted.
RplHops_NoLast(f) == f.hops + f.hop

\* The replier's hops and the hops of the reply.
RplHops(f) == f.hops + f.hop + 1

\* The next hop is the immediate sender if that is known; else, and always
\* when the driver leaves from_id empty, the source of the reply.
ReceiveRpl(n, ok, fwd) ==
  LET f == Head(rxq[n])
      t == Adopt(Learnt(n, f), f.target, f.src, RplHops(f), ok)
      q == Sending(n, f.target, f.src, txq[n])
  IN  /\ Accept(n, "rpl")
      /\ SetRoutes(n, t)
      /\ Drain(n, f.target)
      /\ Relay(n, f, q, fwd)
      /\ waited' = [m \in Msgs |->
                      IF \E i \in Drained(n, f.target) : pend[n][i].msg = m THEN 0
                      ELSE waited[m]]
      /\ UNCHANGED <<ctr, now, sent, lost>>

-----------------------------------------------------------------------------

\* tx_drain_loop sends the head of the TX ring; heard: who receives it.
Transmit(n, heard) ==
  /\ txq[n] # <<>>
  /\ txq' = [txq EXCEPT ![n] = Tail(@)]
  /\ rxq' = [k \in Node |-> IF k \in heard /\ Len(rxq[k]) < RxDepth
                            THEN Append(rxq[k], Head(txq[n])) ELSE rxq[k]]
  /\ UNCHANGED <<bus, queues, routes, near, ctr, now, sent, waited, put, knew, lost>>

Pending(m) == \E i \in Used(Src[m]) : pend[Src[m]][i].msg = m

\* Time passes.  The bound: the clock does not come round over a pending frame
\* that nothing touched; such a frame would look new again.
Advance ==
  /\ \E m \in Msgs : Pending(m)
  /\ \A n \in Node : \A i \in Used(n) : Age(n, i) < ClockMod - 1
  /\ now' = (now + 1) % ClockMod
  /\ waited' = [m \in Msgs |-> IF Pending(m) /\ waited[m] <= PendingExpiry
                               THEN waited[m] + 1 ELSE waited[m]]
  /\ UNCHANGED <<txq, rxq, bus, queues, routes, near, ctr, sent, put, knew, lost>>

Next ==
  \/ \E m \in Msgs :
       \/ Has(Src[m], Dst[m]) /\ SubmitVia(m, routes[Src[m]][Dst[m]].next)
       \/ \E k \in near[Src[m]] : SubmitVia(m, k)
       \/ SubmitPending(m)
  \/ \E n \in Node :
       \/ DropDuplicate(n)
       \/ \E fwd \in BOOLEAN : ReceiveData(n, fwd)
       \/ \E good, fwd \in BOOLEAN : ReceiveReq(n, good, fwd)
       \/ \E ok, fwd \in BOOLEAN : ReceiveRpl(n, ok, fwd)
       \/ \E heard \in SUBSET Neighbors[n] : Transmit(n, heard)
       \/ \E d \in Node : LoseRoute(n, d)
  \/ Advance

Spec == Init /\ [][Next]_vars

-----------------------------------------------------------------------------

Frames ==
  [kind : {"data"}, src : Node, dst : Node, ttl : 0 .. 1, hop : 0 .. DefaultTtl,
   pid : Nat, msg : Msgs]
  \cup [kind : {"req"}, src : Node, dst : Node, ttl : 0 .. ReqTtl, hop : 0 .. DefaultTtl,
        pid : Nat]
  \cup [kind : {"rpl"}, src : Node, dst : Node, ttl : 0 .. ReqTtl, hop : 0 .. DefaultTtl,
        pid : Nat, target : Node, hops : 0 .. ReplyMaxHops]

Entry == [dst : Node \cup {Nobody}, msg : Msgs \cup {0}, pid : Nat, at : Clock]

Route == [next : Node, hops : 0 .. ReplyMaxHops + DefaultTtl + 1]

TypeOK ==
  /\ txq \in [Node -> Seq(Frames)] /\ \A n \in Node : Len(txq[n]) <= TxDepth
  /\ rxq \in [Node -> Seq(Frames)] /\ \A n \in Node : Len(rxq[n]) <= RxDepth
  /\ bus \in [Node -> SUBSET (Node \X Nat)]
  /\ pend \in [Node -> [Slots -> Entry]]
  /\ count \in [Node -> 0 .. PendingSize]
  /\ routes \in [Node -> [Node -> Route \cup {NoRoute}]]
  /\ near \in [Node -> SUBSET Node]
  /\ knew \in [Node -> SUBSET Node]
  /\ ctr \in [Node -> Nat]
  /\ now \in Clock
  /\ sent \in SUBSET Msgs
  /\ waited \in [Msgs -> 0 .. PendingExpiry + 1]
  /\ put \in [Msgs -> Nat]

(***************************************************************************)
(* A message is offered to the TX ring at most once, although the target   *)
(* and every node that knows it answer one request, each with a flood of   *)
(* its own (pending_queue_drain_for_dst lines 132-138: "double-send        *)
(* protection").                                                           *)
(***************************************************************************)
SentOnce == \A m \in Msgs : put[m] <= 1

(***************************************************************************)
(* A message that waited longer than PENDING_EXPIRY_MS is not sent when    *)
(* the answer comes after all, across the wrap of the clock                *)
(* (pending_queue_drain_for_dst line 122), although only enqueueing clears *)
(* the expired ones.                                                       *)
(***************************************************************************)
SentInTime == [][\A m \in Msgs : put'[m] > put[m] => waited[m] <= PendingExpiry]_vars

(***************************************************************************)
(* pq->count, from which pending_queue_pressure computes the backpressure  *)
(* on relays, is the number of occupied slots that pending_queue_count     *)
(* counts, however enqueueing, expiry and draining interleave.             *)
(***************************************************************************)
CountExact == \A n \in Node : count[n] = Cardinality(Used(n))

\* Both of the queue: what waits is sent at most once, and counted while it waits
\* (pending_queue.c lines 28-142).
PendingKept == SentOnce /\ CountExact

(***************************************************************************)
(* A route never claims fewer hops than the mesh has between the two       *)
(* nodes, by whatever relays and cached answers it was learnt              *)
(* (rivr_sources.c line 831, route_cache_learn_rx): the shortest route     *)
(* wins in route_cache_update, so one too short would never be replaced.   *)
(***************************************************************************)
HopsAtLeastDist ==
  \A n, d \in Node : Has(n, d) => routes[n][d].hops >= Dist[n][d]

(***************************************************************************)
(* The next hop of a route is its destination or a node that had a route   *)
(* to it (routing_should_reply_route_req, rivr_sources.c line 810).  The   *)
(* second tier of route_cache_best_hop, which takes any good neighbour     *)
(* without a route, promises nothing of the kind.                          *)
(***************************************************************************)
NextHopKnew ==
  \A n, d \in Node : Has(n, d) => routes[n][d].next = d \/ d \in knew[routes[n][d].next]

(***************************************************************************)
(* pending_queue.c line 93: "single hop - next_hop must be a direct        *)
(* neighbour" of the node that sends the frame.                            *)
(***************************************************************************)
NextHopIsNeighbour ==
  \A n \in Node : \A i \in DOMAIN txq[n] :
    LET f == txq[n][i]
    IN  f.kind = "data" /\ f.hop = 0 => f.dst \in Neighbors[n]
=============================================================================
