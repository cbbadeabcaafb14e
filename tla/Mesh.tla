-------------------------------- MODULE Mesh --------------------------------
(***************************************************************************)
(* The packet pipeline of a mesh of nodes: a message is originated as a    *)
(* one-hop unicast protected by the retry table (rf_tx_sink_cb) or as a    *)
(* broadcast that waits in the outbox (send_queue.c), frames are relayed   *)
(* once per (src_id, pkt_id), acknowledged by the node they are addressed  *)
(* to, and re-sent or given up to a flood by the retry tick.               *)
(*                                                                         *)
(* A node is single threaded: each action is one pass of a loop body of    *)
(* sources_rf_rx_drain, tx_drain_loop or send_queue_tick, and the passes   *)
(* of different nodes interleave.  Radio frames are lost at any receiver   *)
(* (collision, range, radio_transmit failing, the airtime and duty cycle   *)
(* gates of tx_drain_loop) or by a full RX ring.                           *)
(*                                                                         *)
(* Abstractions.  Time is the choice of the retry entries that are due and *)
(* of the relayed frames still held back by jitter.  The gates between     *)
(* reception and relay (forward budget, policy bucket, fabric,             *)
(* backpressure, forward set) may refuse any relay.  The duplicate cache   *)
(* is the one of the bus: ReceiveProofs shows that the one of routing.c    *)
(* behind it never decides, nor does the suppression of overheard relays.  *)
(* A unicast has a route: RouteDiscovery is about those that have none.    *)
(***************************************************************************)
EXTENDS RetryOps, Sequences, SequencesExt

CONSTANTS Node,          \* the node ids
          Broadcast,     \* dst_id 0
          Neighbors,     \* Neighbors[n]: the nodes in radio range of n
          Clients,       \* nodes built with RIVR_ROLE_CLIENT
          Msgs,          \* the application messages: positive numbers
          Src, Dst, Via, \* of a message: origin, destination, next hop there
          AppId,         \* of a unicast: the pkt_id the app gave it, 0 if none
          DefaultTtl,    \* RIVR_PKT_DEFAULT_TTL
          FallbackTtl,   \* RIVR_FALLBACK_TTL
          AckTtl,        \* ROUTE_REQ_TTL, which acknowledgements use
          TtlCap,        \* the POLICY_TTL_* cap of relayed data
          TxDepth,       \* frames rf_tx_queue holds: RF_TX_QUEUE_CAP - 1
          RxDepth,       \* frames rf_rx_ringbuf holds: RF_RX_RINGBUF_CAP - 1
          OutDepth,      \* SEND_QUEUE_SIZE
          BusSize,       \* RIVR_BUS_DUP_CACHE_SIZE
          MaxCtr,        \* bound: packet ids a node takes
          MaxRestarts    \* bound: restarts of nodes

ASSUME MsgsAssumption == Msgs \subseteq Nat \ {0}
ASSUME CountsAssumption ==
  {DefaultTtl, FallbackTtl, AckTtl, TtlCap, TxDepth, RxDepth, OutDepth, MaxCtr, MaxRestarts}
    \subseteq Nat
ASSUME TtlAssumption ==
  1 <= DefaultTtl /\ FallbackTtl <= DefaultTtl /\ AckTtl <= DefaultTtl
ASSUME BusAssumption == BusSize \in Nat \ {0}
ASSUME NeighborsAssumption == \A n \in Node : Neighbors[n] \subseteq Node
ASSUME BroadcastAssumption == Broadcast \notin Node
ASSUME RoutesAssumption ==
  \A m \in Msgs : Src[m] \in Node /\ Dst[m] \in Node \cup {Broadcast}
                  /\ (Dst[m] # Broadcast => Via[m] \in Neighbors[Src[m]])
ASSUME AppIdAssumption == \A m \in Msgs : AppId[m] \in 0 .. PktIdMod - 1

VARIABLES txq,       \* rf_tx_queue of each node
          rxq,       \* rf_rx_ringbuf
          outbox,    \* g_send_queue
          bus,       \* s_dup_cache: the last BusSize keys, newest last
          tbl,       \* g_retry_table
          ctr,       \* g_ctrl_seq
          restarts,  \* restarts so far
          sent,      \* history: messages the application submitted
          acked,     \* history: messages an acknowledgement took off the table
          got,       \* history: got[n][m], how often n's application got m
          relayed    \* history: the keys each node queued relays of, in order

vars == <<txq, rxq, outbox, bus, tbl, ctr, restarts, sent, acked, got, relayed>>

-----------------------------------------------------------------------------
(***************************************************************************)
(* Frames.                                                                 *)
(***************************************************************************)

\* What the duplicate caches key on.
Key(f) == <<f.src, f.pid>>

\* The broadcast of cli_enqueue_chat.
Chat(m, pid) ==
  [kind |-> "data", src |-> Src[m], dst |-> Broadcast, ttl |-> DefaultTtl, hop |-> 0,
   relay |-> FALSE, areq |-> FALSE, pid |-> pid, msg |-> m, apid |-> 0]

\* The one-hop rewriting of rf_tx_sink_cb: dst_id is the next hop.
Unicast(m, pid) ==
  [Chat(m, pid) EXCEPT !.dst = Via[m], !.ttl = 1, !.areq = TRUE]

\* build_fallback_flood, and the fallback of rf_tx_sink_cb.
Fallback(m, pid) == [Chat(m, pid) EXCEPT !.ttl = FallbackTtl]

\* routing_build_ack at node n for the frame f.
AckFor(n, f, pid) ==
  [kind |-> "ack", src |-> n, dst |-> f.src, ttl |-> AckTtl, hop |-> 0,
   relay |-> FALSE, areq |-> FALSE, pid |-> pid, msg |-> 0, apid |-> f.pid]

\* Step 5 of routing_flood_forward, and the TTL clamp of policy_check.
Relayed(f) ==
  LET ttl == IF f.kind = "data" /\ f.ttl - 1 > TtlCap THEN TtlCap ELSE f.ttl - 1
  IN  [f EXCEPT !.ttl = ttl, !.hop = f.hop + 1, !.relay = TRUE]

\* The checks of routing_flood_forward behind the duplicate check, and the
\* client role, which relays no data.
MayRelay(n, f) ==
  f.ttl > 0 /\ f.hop < DefaultTtl /\ ~(n \in Clients /\ f.kind = "data")

\* rb_try_push
TryPush(q, f, depth) == IF Len(q) < depth THEN Append(q, f) ELSE q

\* Mutant: only the newest key is compared.
Seen_Newest(n, f) == bus[n] # <<>> /\ Last(bus[n]) = Key(f)

\* rivr_bus_dup_cache_seen
Seen(n, f) == Contains(bus[n], Key(f))

\* rivr_bus_dup_cache_add: the oldest key makes room.
Remember(n, f) ==
  LET kept == IF Len(bus[n]) = BusSize THEN Tail(bus[n]) ELSE bus[n]
  IN  bus' = [bus EXCEPT ![n] = Append(kept, Key(f))]

-----------------------------------------------------------------------------
(***************************************************************************)
(* A node.                                                                 *)
(***************************************************************************)

EmptyTable == [i \in RetrySlots |-> FreeEntry]

Init ==
  /\ txq = [n \in Node |-> <<>>]
  /\ rxq = [n \in Node |-> <<>>]
  /\ outbox = [n \in Node |-> <<>>]
  /\ bus = [n \in Node |-> <<>>]
  /\ tbl = [n \in Node |-> EmptyTable]
  /\ ctr = [n \in Node |-> 0]
  /\ restarts = 0
  /\ sent = {}
  /\ acked = {}
  /\ got = [n \in Node |-> [m \in Msgs |-> 0]]
  /\ relayed = [n \in Node |-> <<>>]

\* send_queue_expire: the k oldest broadcasts waited too long.
Unexpired(n, k) == SubSeq(outbox[n], k + 1, Len(outbox[n]))

\* cli_enqueue_chat: a broadcast takes a packet id and a place in the outbox,
\* which send_queue_enqueue clears of the k broadcasts that expired.
SubmitChat(m, k) ==
  LET n == Src[m]  pid == (ctr[n] + 1) % PktIdMod
  IN  /\ Dst[m] = Broadcast /\ m \notin sent
      /\ sent' = sent \cup {m}
      /\ ctr' = [ctr EXCEPT ![n] = @ + 1]
      /\ outbox' = [outbox EXCEPT ![n] = TryPush(Unexpired(n, k), Chat(m, pid), OutDepth)]
      /\ UNCHANGED <<txq, rxq, bus, tbl, restarts, acked, got, relayed>>

\* send_queue_tick: the k broadcasts that expired leave, and the oldest one
\* left moves to the TX ring when it has room.
OutboxTick(n, k) ==
  LET rest == Unexpired(n, k)
      moves == rest # <<>> /\ Len(txq[n]) < TxDepth
  IN  /\ outbox[n] # <<>>
      /\ txq' = [txq EXCEPT ![n] = IF moves THEN Append(@, Head(rest)) ELSE @]
      /\ outbox' = [outbox EXCEPT ![n] = IF moves THEN Tail(rest) ELSE rest]
      /\ UNCHANGED <<rxq, bus, tbl, ctr, restarts, sent, acked, got, relayed>>

\* The counter and the packet id of a unicast: a fresh one, unless the app that
\* originates the frame chose it.
CtrFor(m) == IF AppId[m] = 0 THEN ctr[Src[m]] + 1 ELSE ctr[Src[m]]
PidFor(m) == IF AppId[m] = 0 THEN CtrFor(m) % PktIdMod ELSE AppId[m]

\* source_handle_ble_origination and rf_tx_sink_cb with a route: the frame
\* enters the retry table, then the TX ring; when the ring is full a fallback
\* flood with a fresh packet id is tried at once.
SubmitUnicast(m) ==
  LET n == Src[m]
      full == Len(txq[n]) >= TxDepth
      ids == IF full THEN CtrFor(m) + 1 ELSE CtrFor(m)
      tried == TryPush(txq[n], Unicast(m, PidFor(m)), TxDepth)
  IN  /\ Dst[m] # Broadcast /\ m \notin sent
      /\ sent' = sent \cup {m}
      /\ tbl' = [tbl EXCEPT ![n] = RetryEnqueue(@, m, PidFor(m), 0)]
      /\ ctr' = [ctr EXCEPT ![n] = ids]
      /\ txq' = [txq EXCEPT ![n] =
                   IF full THEN TryPush(tried, Fallback(m, ids % PktIdMod), TxDepth) ELSE tried]
      /\ UNCHANGED <<rxq, outbox, bus, restarts, acked, got, relayed>>

\* What the tick pushes for the due slot i.
TickFrame(n, due, i) ==
  LET e == tbl[n][i]  pid == TickPid(ctr[n], due, i)
  IN  IF e.left > 0 THEN Unicast(e.data, pid) ELSE Fallback(e.data, pid)

\* The ring q behind the pushes of the tick, one per due slot, in slot order.
TickPushes(n, due, q) ==
  FoldLeft(LAMBDA r, i : IF i \in due THEN TryPush(r, TickFrame(n, due, i), TxDepth) ELSE r,
           q, [i \in RetrySlots |-> i])

\* retry_table_tick, in slot order, when the entries due have timed out.
Tick(n, due) ==
  /\ ctr[n] + Cardinality(due) <= MaxCtr
  /\ ctr' = [ctr EXCEPT ![n] = @ + Cardinality(due)]
  /\ tbl' = [tbl EXCEPT ![n] = RetryTick(@, due, ctr[n], 0)]
  /\ txq' = [txq EXCEPT ![n] = TickPushes(n, due, @)]
  /\ UNCHANGED <<rxq, outbox, bus, restarts, sent, acked, got, relayed>>

\* rivr_bus_receive refuses a known key: nothing else happens.
DropDuplicate(n) ==
  /\ rxq[n] # <<>> /\ Seen(n, Head(rxq[n]))
  /\ rxq' = [rxq EXCEPT ![n] = Tail(@)]
  /\ UNCHANGED <<txq, outbox, bus, tbl, ctr, restarts, sent, acked, got, relayed>>

\* maybe_relay: the frame f is queued again, after the frames of q, when the
\* gates let it pass (fwd).
Relay(n, f, q, fwd) ==
  /\ fwd => MayRelay(n, f)
  /\ txq' = [txq EXCEPT ![n] = IF fwd THEN TryPush(q, Relayed(f), TxDepth) ELSE q]
  /\ relayed' = [relayed EXCEPT ![n] =
                   IF fwd /\ Len(q) < TxDepth THEN Append(@, Key(f)) ELSE @]

\* A new acknowledgement: it clears the entry it names, if this node has it,
\* and is relayed.
ReceiveAck(n, fwd) ==
  LET f == Head(rxq[n])
      cleared == IF f.dst = n THEN AckSlot(tbl[n], f.apid) ELSE {}
  IN  /\ rxq[n] # <<>> /\ ~Seen(n, f) /\ f.kind = "ack"
      /\ rxq' = [rxq EXCEPT ![n] = Tail(@)]
      /\ Remember(n, f)
      /\ tbl' = [tbl EXCEPT ![n] = IF f.dst = n THEN RetryAck(@, f.apid) ELSE @]
      /\ acked' = acked \cup {tbl[n][i].data : i \in cleared}
      /\ Relay(n, f, txq[n], fwd)
      /\ UNCHANGED <<outbox, ctr, restarts, sent, got>>

\* Only the node a frame is addressed to acknowledges it.
Answers(n, f) == f.areq /\ f.dst = n

\* New data: acknowledged when it is addressed to this node and asks for it,
\* given to the application whatever its address, and relayed.
ReceiveData(n, fwd) ==
  LET f == Head(rxq[n])
      answer == Answers(n, f)
      pid == (ctr[n] + 1) % PktIdMod
      q == IF answer THEN TryPush(txq[n], AckFor(n, f, pid), TxDepth) ELSE txq[n]
  IN  /\ rxq[n] # <<>> /\ ~Seen(n, f) /\ f.kind = "data"
      /\ rxq' = [rxq EXCEPT ![n] = Tail(@)]
      /\ Remember(n, f)
      /\ ctr' = [ctr EXCEPT ![n] = IF answer THEN @ + 1 ELSE @]
      /\ got' = [got EXCEPT ![n][f.msg] = @ + 1]
      /\ Relay(n, f, q, fwd)
      /\ UNCHANGED <<outbox, tbl, restarts, sent, acked>>

\* tx_drain_loop sends the head of the TX ring; the neighbours in heard
\* receive it, if their RX ring has room.
Transmit(n, heard) ==
  LET f == Head(txq[n])
  IN  /\ txq[n] # <<>>
      /\ txq' = [txq EXCEPT ![n] = Tail(@)]
      /\ rxq' = [k \in Node |-> IF k \in heard THEN TryPush(rxq[k], f, RxDepth) ELSE rxq[k]]
      /\ UNCHANGED <<outbox, bus, tbl, ctr, restarts, sent, acked, got, relayed>>

\* A relayed frame not yet due goes back to the end of the TX ring.
Hold(n) ==
  /\ Len(txq[n]) > 1 /\ Head(txq[n]).relay
  /\ txq' = [txq EXCEPT ![n] = Append(Tail(@), Head(@))]
  /\ UNCHANGED <<rxq, outbox, bus, tbl, ctr, restarts, sent, acked, got, relayed>>

\* Power is lost: none of this state is stored, and the counter of packet ids
\* starts again from 0.
Restart(n) ==
  /\ restarts < MaxRestarts
  /\ restarts' = restarts + 1
  /\ txq' = [txq EXCEPT ![n] = <<>>]
  /\ rxq' = [rxq EXCEPT ![n] = <<>>]
  /\ outbox' = [outbox EXCEPT ![n] = <<>>]
  /\ bus' = [bus EXCEPT ![n] = <<>>]
  /\ tbl' = [tbl EXCEPT ![n] = EmptyTable]
  /\ ctr' = [ctr EXCEPT ![n] = 0]
  /\ UNCHANGED <<sent, acked, got, relayed>>

Receive(n) ==
  \/ DropDuplicate(n)
  \/ \E fwd \in BOOLEAN : ReceiveAck(n, fwd) \/ ReceiveData(n, fwd)

Timeout(n) == \E due \in SUBSET Live(tbl[n]) \ {{}} : Tick(n, due)

Next ==
  \/ \E m \in Msgs :
       \/ SubmitUnicast(m)
       \/ \E k \in 0 .. Len(outbox[Src[m]]) : SubmitChat(m, k)
  \/ \E n \in Node :
       \/ \E k \in 0 .. Len(outbox[n]) : OutboxTick(n, k)
       \/ Receive(n)
       \/ Timeout(n)
       \/ \E heard \in SUBSET Neighbors[n] : Transmit(n, heard)
       \/ Hold(n)
       \/ Restart(n)

\* The main loop of every node keeps running: it drains its rings and its
\* outbox, and the deadline of an entry passes.  Nothing makes a radio frame
\* arrive.
Fairness ==
  \A n \in Node :
    /\ WF_vars(Receive(n))
    /\ WF_vars(Timeout(n))
    /\ WF_vars(\E k \in 0 .. Len(outbox[n]) : OutboxTick(n, k))
    /\ WF_vars(\E heard \in SUBSET Neighbors[n] : Transmit(n, heard))

Spec == Init /\ [][Next]_vars
FairSpec == Spec /\ Fairness

-----------------------------------------------------------------------------

Frames ==
  [kind : {"data", "ack"}, src : Node, dst : Node \cup {Broadcast},
   ttl : 0 .. DefaultTtl, hop : 0 .. DefaultTtl, relay : BOOLEAN, areq : BOOLEAN,
   pid : 0 .. PktIdMod - 1, msg : Msgs \cup {0}, apid : 0 .. PktIdMod - 1]

TypeOK ==
  /\ \A n \in Node :
       /\ txq[n] \in Seq(Frames) /\ Len(txq[n]) <= TxDepth
       /\ rxq[n] \in Seq(Frames) /\ Len(rxq[n]) <= RxDepth
       /\ outbox[n] \in Seq(Frames) /\ Len(outbox[n]) <= OutDepth
       /\ bus[n] \in Seq(Node \X Nat) /\ Len(bus[n]) <= BusSize
       /\ \A i \in RetrySlots :
            tbl[n][i].valid => tbl[n][i].data \in Msgs /\ tbl[n][i].left \in 0 .. RetryMax
       /\ relayed[n] \in Seq(Node \X Nat)
  /\ ctr \in [Node -> Nat]
  /\ restarts \in 0 .. MaxRestarts
  /\ sent \subseteq Msgs
  /\ acked \subseteq Msgs
  /\ got \in [Node -> [Msgs -> Nat]]

(***************************************************************************)
(* A message whose retry entry an acknowledgement cleared was received by  *)
(* the application of its next hop, although acknowledgements flood, come  *)
(* late, and are matched by packet ids that every attempt changes and that *)
(* acknowledgements share (rivr_sources.c lines 446-493,                   *)
(* retry_table_ack).                                                       *)
(***************************************************************************)
AckedReachedNextHop == \A m \in acked : got[Via[m]][m] > 0

(***************************************************************************)
(* A node queues a relay of a (src_id, pkt_id) at most once, whatever      *)
(* copies of it come back by other paths (rivr_bus_receive before          *)
(* maybe_relay): a flood does not echo.                                    *)
(***************************************************************************)
RelaysOnce == \A n \in Node : IsInjective(relayed[n])

(***************************************************************************)
(* A data frame that a node would drop as a duplicate carries a message    *)
(* its application already has: retries, fallbacks, acknowledgements and   *)
(* new messages never share a packet id (protocol.md line 107: "Unique per *)
(* wire injection, including retransmits and fallback floods").  The ids   *)
(* an app chooses (rivr_sources.c line 93) must be its own for that:       *)
(* nothing in the code keeps them from being ids of the node.              *)
(***************************************************************************)
DuplicateIsKnown ==
  \A n \in Node : \A i \in DOMAIN rxq[n] :
    LET f == rxq[n][i]
    IN  f.kind = "data" /\ Seen(n, f) => got[n][f.msg] > 0

Quiet ==
  \A n \in Node : /\ txq[n] = <<>> /\ rxq[n] = <<>> /\ outbox[n] = <<>>
                  /\ Live(tbl[n]) = {}

(***************************************************************************)
(* The mesh comes to rest: finitely many messages cause finitely many      *)
(* transmissions, and no queue or table keeps an entry, even when the      *)
(* duplicate cache is too small to remember every flood (the TTL of        *)
(* routing_flood_forward, the retry limit of retry_table_tick).            *)
(***************************************************************************)
Quiesces == <>[]Quiet
=============================================================================
