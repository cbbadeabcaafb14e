# A TLA+ model of the Rivr mesh firmware

Rivr is firmware for LoRa mesh nodes: a C core (`src/firmware_core`,
`src/rivr_layer`) that receives, filters, routes, relays and acknowledges
packets in a single main loop, and a Rust engine (`src/rivr_core`) that runs
user programs on the events the C core hands it. This directory holds TLA+
specifications of the packet path and of the parts around it, the TLC configurations that check them on
small instances, and TLAPS proofs of what does not depend on the size of the
instance.

1. [Inventory](#1-inventory)
2. [Modules and the code](#2-modules-and-the-code)
3. [Runs](#3-runs)
4. [Bounds and fairness](#4-bounds-and-fairness)
5. [Proofs](#5-proofs)
6. [Where the code and its documents differ](#6-where-the-code-and-its-documents-differ)
7. [What is not modelled](#7-what-is-not-modelled)
8. [Plan](#8-plan)

To repeat a run: `tlc -config Mesh_Pair.cfg MeshMC`. To repeat a proof:
`tlapm RingBufProofs.tla`; the longest takes a quarter of an hour. `PROJECT.json` lists runs, theorems, the source
lines behind every definition, and for every property a plausible mistake in
the code that it would catch (the definitions marked `Mutant`).

## 1. Inventory

### How a node runs

`app_main` (`main.c`) initialises everything and loops: service the radio,
`sources_rf_rx_drain` (RX ring -> filters -> handlers -> relay, then the retry
tick), timers, the engine, `send_queue_tick`, `tx_drain_loop` (TX ring -> gates ->
`radio_transmit`, which blocks), then BLE, sensors and display figures. Everything
in the loop is sequential. Not in it are the radio's interrupt, the BLE host task,
whose callbacks push to the RX ring and to the companion's queue, the display
task on the ESP32, and the other nodes of the mesh, which see each other only
through a radio that loses frames. None of the packet state survives a restart;
the program, its sequence number, the settings and the channels do.

| Component | State | Operations | Talks to | Hard about it |
|---|---|---|---|---|
| Frame ring `ringbuf.h` | slots, `head`, `tail`, `drops` | `rb_try_push`, `rb_pop` | radio driver, BLE task, main loop, all senders | lock-free; index wrap; full and empty look alike |
| Retry table `retry_table.c` | entries, `count` | enqueue, ack, tick | TX sink, RX handlers, TX ring, packet id counter | deadlines over the clock wrap; ids change at every attempt |
| Bus duplicate cache `rivr_dup_cache.c` | ring of 64 keys | seen, add | first step of reception | no time in the entries |
| Dedupe ring `routing.c` | ring of 64 keys with times | `routing_dedupe_check` | second filter, behind the bus | expiry over the wrap; scan clears as it goes |
| Overheard-relay suppression `opfwd_suppress.h` | table of keys with expiry | add, check | fed by dedupe drops, asked by `tx_drain_loop` | depends on what the first filter lets through |
| Flood routing `routing.c` | forward budget, neighbour list | `routing_flood_forward`, `routing_fwdbudget_check` | relay step of reception | echoes, TTL, termination, two windows at once |
| RX pipeline `rivr_sources.c` | timers | one branch per packet type | everything | order of the steps; which of them an early return skips |
| TX sink `rivr_sinks.c` | none of its own | route tiers, retry entry, fallback | route cache, pending queue, retry table, TX ring | one step of several fails |
| Outbox `send_queue.c` | circular array, timestamps | enqueue, tick, expiry | CLI, BLE, TX ring | lazy expiry over the wrap; a full queue refuses |
| TX drain `main.c` | TX ring with due times | `tx_drain_loop` | duty cycle, airtime scheduler, fabric, radio | held frames go back to the tail; one time for a pass |
| Duty-cycle limiter `dutycycle.c` | history, `used_us` | check, record | `tx_drain_loop` | clock read once per pass; running total kept in three places |
| Airtime scheduler `airtime_sched.c` | global bucket, bucket per source | check and consume | `tx_drain_loop` | lazy refill, eviction |
| Policy bucket `policy.c`, fabric `rivr_fabric.c` | tokens; ring of seconds | decide, report | relay step, `tx_drain_loop` | clock wrap; reports out of order |
| Neighbour tables, forward set | times, link estimates | update, score, forward set | relay gate, route tiers, beacons | eviction, stale entries, reordered sequence numbers |
| Route cache `route_cache.c` | routes by destination, `count`, eviction hand | learn, update, lookup, best hop | TX sink, ROUTE_REQ and ROUTE_RPL handlers | entries expire in the middle of scans |
| Pending queue `pending_queue.c` | frames without a route, `count` | enqueue, expire, drain | TX sink, ROUTE_RPL handler | several answers to one request; late answers |
| Beacons `beacon_sched.c`, origination throttle `rivr_policy.c`, timers | last times, intervals | tick, allow, drain | sinks, BLE origination, engine | 0 means never; parameters change while timers run |
| Program push, parameters, reload `rivr_ota_core.c`, `rivr_policy.c`, `rivr_embed.c` | sequence, stored program, engine, timers | verify, activate, reload, boot | storage, RX pipeline | restart or failure between two writes |
| Settings `rivr_embed.c`, `rivr_cli.c`, `rivr_ble_companion.c`, `sensors.c` | pairs of keys in RAM and in flash | set, store, load | CLI, BLE | one of two writes fails |
| BLE `ble/` | advertising, link, companion session, fragments | callbacks, ticks | RX ring, outbox | second thread; completions that come late |
| Radio drivers (six) | chip mode, flags, streaks, reset backoff | service, transmit, guarded reset | both rings | edge-triggered interrupt, timeouts, recovery |
| Message layer `rml/` | seen, status, thread caches | decide, reconstruct | RX pipeline, optional build | order and loss of deltas |
| Compiler, engine `rivr_core` | node graph, queue per clock | compile, inject, run | sources and sinks | names bound again, merges; fairness between clocks |
| USB bridge `rivr_iface_usb.c` | SLIP decoder | send, feed | bus | losing bytes |
| Sensors, channels, display | triggers and bundle; memberships; page and PIN | tick, join, update | sinks, CLI, BLE | stalls, failures, copies without a lock |

Codec, cryptography, metrics, logging, host tools and the WASM build keep no
protocol state.

### What makes the parts correct

- A ring is a FIFO queue that loses nothing it accepted, although both ends move
  without a lock.
- A retry entry is due when its wait is over and not before, at every reading of
  the clock; it always leaves the table; an acknowledgement takes off the entry
  it is meant for and no other.
- A packet is accepted, and so delivered and relayed, once; a drop as a duplicate
  loses nothing; floods and retries come to an end.
- Airtime accounting is exact and the budget holds.
- A destination has one route; a route in use is recent, is not shorter than the
  mesh, and leads through a node that knew the way.
- A frame that waits for a route is sent at most once and never after it expired.
- Buckets, budgets and throttles grant no more than their rates, wherever the
  clock wraps and however late or seldom they are asked.
- The radio keeps listening: no interrupt is lost, no failure leaves it deaf.
- What a node confirmed to an operator or an author is what it runs with after a
  restart; the timers that fire belong to the program that runs.
- A payload put together from fragments, deltas or bytes is one that was sent.

`PROJECT.json` lists the hazards behind these, line by line.

## 2. Modules and the code

| Module | Models | Uses |
|---|---|---|
| `FrameQueue` | abstract: what a ring promises | |
| `RingBuf` | `ringbuf.h`, one action per atomic access | refines `FrameQueue` |
| `RetryOps` | the operations of `retry_table.c` as operators on a table | |
| `RetryTable` | the table against a wrapping clock and a shared packet id counter | `RetryOps` |
| `RxFilter` | `rivr_dup_cache.c`, `routing_dedupe_check`, `opfwd_suppress.h` in the order of `sources_rf_rx_drain`, and the drain of relays | |
| `Mesh` | several nodes: TX sink, outbox, reception, acknowledgement, relay, retry tick, transmission, restart | `RetryOps` |
| `DutyCycle` | `dutycycle.c` driven by the passes of `tx_drain_loop` | |
| `RouteCache` | `route_cache.c` against a wrapping clock | |
| `RouteDiscovery` | several nodes: route-miss path, pending queue, ROUTE_REQ and ROUTE_RPL | |
| `TxDrain` | the TX ring with its due times, and the passes of `tx_drain_loop` over it | |
| `SendQueue` | `send_queue.c`: the outbox as a circular array with lazy expiry | |
| `AirtimeSched` | `airtime_sched.c`: global bucket and a table of buckets | |
| `RelayGates` | the gates a relay passes: token bucket of `policy.c`, forward budget of `routing.c` | |
| `Fabric` | `rivr_fabric.c`: ring of seconds, score, decision | |
| `Neighbors`, `Links` | both neighbour tables; loss estimate, score, forward set, relay delay | |
| `Radio` | the six radio drivers against a chip that raises flags | |
| `Beacon`, `Origins` | what a node sends unasked: beacons, frames of a phone, timers of the program | |
| `Lifecycle` | program push, parameters, reload and boot, with storage that survives | |
| `Settings` | what an operator sets: RAM, store, restart | |
| `Compiler`, `Engine` | `compiler.rs`, and `scheduler.rs` with the operators of `node.rs` | |
| `Sensors`, `Channels`, `Display` | `sensors.c` with its drivers, `channel.c`, both display ports | |
| `Rml` | the message layer of a relay | |
| `Ble`, `BleFrag` | both BLE stacks with the companion; fragments | |
| `SlipBridge` | the SLIP line of `rivr_iface_usb.c` | |
| `NodeMC`, `ReceiveMC` | the parts of a node towards the air, and those behind the receiver, in one run each | the modules above |
| `*MC` | topologies, messages and symmetry sets for TLC | |
| `*Proofs` | theorems about the module of the same name (`NodeProofs`: about `NodeMC`, `ReceiveProofs`: about `ReceiveMC`); `BasicProofs` has the lemmas they share | |

How state and actions correspond:

- **RingBuf.** The variables are the fields of `rb_t` and the locals of a call in
  progress. A push is `PushLoadHead`, `PushLoadTail` (the full test), then
  `PushDrop`, or `PushCopy` and `PushStoreHead`. A pop is `PopLoad`, `PopCopy`,
  `PopStoreTail`. The acquire and release orders of the code make sequential
  consistency of these accesses a sound reading for one writer. `MainWriters` are
  contexts that run in the main loop and so never overlap a pop.
- **RetryTable.** `Enqueue`, `Ack`, `Tick`, `Advance`, and `OtherPacket` for the
  packet ids other originators take. `age` and `life` are history: they measure
  true time, which the code's wrapped differences are compared with.
- **RxFilter.** One action per outcome of a reception (`BusDrop`, `DedupeDrop`,
  `Accept`), and `Drain` for a relay copy in `tx_drain_loop`. Whether an accepted
  frame is queued for relay is a choice, because that depends on gates that are
  not part of this module.
- **Mesh.** An action is one pass of a loop body at one node: `SubmitUnicast`
  (`rf_tx_sink_cb` with its queue-full fallback, and the packet id an app may have
  chosen, `AppId`), `SubmitChat` and `OutboxTick`
  (`send_queue.c`), `DropDuplicate`, `ReceiveAck`, `ReceiveData` (with the
  acknowledgement, the application and the relay in the order of the code),
  `Tick`, `Transmit` to any subset of the neighbours, `Hold` (jitter), `Restart`.
- **DutyCycle.** `BeginPass` reads the clock; `Block`, `Send` and `SendFails` are
  the outcomes of one frame of the pass, each with the expiry that the check does
  first; `Send` moves the clock by the airtime, as the blocking transmission does.
- **RouteCache.** `Update` is `Refresh`, `Insert` or `Evict`, the three ends of
  one scan; `Lookup` is the clearing that a look-up does. `Advance` moves the clock.
- **RouteDiscovery.** `SubmitVia` and `SubmitPending` are the tiers of
  `rf_tx_sink_cb`; `ReceiveReq`, `ReceiveRpl`, `ReceiveData` the branches of the
  RX loop with route learning, answer, drain of the pending queue and relay in the
  order of the code; `LoseRoute` stands for expiry in the cache.
- **TxDrain.** `TdQueue` and `TdQueueNow` are pushes with and without a due time;
  `TdBegin` reads the clock once for a pass, `TdHold` is the re-push at the tail,
  `TdLeave` a frame that goes on to the gates or is dropped by suppression.
- **SendQueue.** `SqEnqueue` and `SqTurn` are the two operations, each with the
  expiry it does first; `sqRef` is the queue it should be, with true ages.
- **AirtimeSched, RelayGates, Fabric.** One action per call with its early returns
  (`AtOwn`, `AtRelay`; `RelayData`, `RelayControl`, `BudgetDrop`, `Adapt`;
  `DecideRelay`, `OnRx`, `OnTx`, `OnTxBlocked`), and a tick of the clock. Beside the
  code's lazy state each keeps what a bucket filled at every tick, or a list of the
  reports of the last seconds, would hold; the properties compare the two.
- **Neighbors, Links.** `Hear` is `routing_neighbor_update` and `neighbor_update` for
  one frame. In `Links` a `Round` is a time in which each source sent one frame and
  some of them arrived, `HearLate` one that arrives out of order; score, candidates
  and relay delay are operators on the table, as in the code.
- **Radio.** The drivers are operators chosen by `driver`. The main loop's calls
  are cut where the chip or the interrupt can come between: `ServiceTest`,
  `ServiceClaim`, `ServiceAct`, the poll of a transmission, its failure and the
  guarded reset. The chip (`Chip*`) is external: it raises flags, and an edge if
  none of the routed ones was up.
- **Beacon, Origins.** The tests of `beacon_sched_tick`, `rivr_policy_allow_origination`
  and `sources_timer_drain`; ghosts measure true distances.
- **Lifecycle.** `Verify`, `Activate`, `MarkPending` are the steps of a signed push
  between which a `Reset` can fall; `PushPlain` and `PushParams` the unsigned ones;
  `Reload` clears timers, loads and compiles. The signature check is a verdict.
- **Settings.** A `CliLine` or a `CompanionPacket` with every outcome of open, set
  and commit; `CutStore` is power lost between two writes.
- **Compiler.** `Statement` is `compile_stmt` on a syntax tree. `grMeans` is what the
  text says - the bag of label sequences from a source to a name - and is compared
  with the walks of the graph. **Engine.** `EnInject` (any tick, late ones
  too), `EnRun` (a new gas limit), `EnStep` (one pop and the node's work).
- **Sensors.** `SnTick` is one `sensors_tick` with the answers of the devices and the
  time since the last one. **Channels.** Join, leave, default, save, restart with or
  without the blob. **Display.** The post and the task's copy are two halves each;
  `DpStep` covers init, copy, update and flush of both ports.
- **Rml.** `RmlAccept`, `RmlPressed`, `RmlRefuse`: `rml_policy_decide` on any frame of
  any thread, in any order: texts and deltas, either with the intent STATUS. A text is
  the sequence of edits it went through. No entry expires, see section 6.
- **Ble.** Callbacks of the stack and ticks of the main loop are separate actions;
  the companion's consumer is modelled load by load. **BleFrag.** One fragment
  sent, or lost. **SlipBridge.** One symbol fed, or lost.

`NodeMC` and `ReceiveMC` put parts that share no state but the frames and calls
between them into one run: `focus`, chosen at the start, is the part that moves,
and the others rest. Inputs one part would give another (a verdict, an answer, a
frame) are choices of the part that moves, so each is checked against more than
the others could do to it. Their composition proper is in `Mesh` and
`RouteDiscovery`.

Data is abstract throughout: a frame is a record of the header fields that control
depends on, a payload is the number of its message, a key is a model value.

## 3. Runs

Passing runs:

| Run | Asks | Shows |
|---|---|---|
| `ring_one_writer` | one writer that interleaves with the reader at every access | the ring refines a bounded FIFO (`FifoSpec`), the two copies never touch one slot (`NoSlotConflict`), and frames leave (`RingDrains`) |
| `retry_table` | every wrap of the clock, ticks that run late | `CountExact`, `IdsDistinct`, `DueExact` (due if and only if the true wait is over), `GivesUpOnSchedule` (exponential backoff, no early surrender), `EntryLeaves` |
| `receive_parts` | the parts behind the receiver, see below | |
| `mesh_pair` | two unicasts between two nodes, loss, late acknowledgements, a TX ring of one | an acknowledgement takes off only what the next hop got (`AckedReachedNextHop`); a duplicate drop loses nothing (`DuplicateIsKnown`) |
| `mesh_triangle` | three nodes that all hear each other, one of them a client | a node relays a packet once (`RelaysOnce`) |
| `mesh_quiesces` | a broadcast and a unicast, a restart, a duplicate cache of one entry | the mesh comes to rest (`Quiesces`): TTL and retry limit end everything, even when duplicates are not recognised |
| `route_cache` | wraps, expiry, eviction, in every order | `OneEntryPerDst`, `LiveIsRecent` |
| `route_discovery` | two messages along a line of three nodes, loss, expiry, several answers | a frame is sent once and the pending count is exact (`PendingKept`), in time (`SentInTime`), over routes that are not too short (`HopsAtLeastDist`) and lead through nodes that knew the way (`NextHopKnew`) |
| `node_parts` | the parts towards the air, see below | |

`receive_parts` (`ReceiveMC`):

| Property | Part | Says |
|---|---|---|
| `AcceptedOncePerWindow` | `RxFilter` | with a bus cache smaller than the dedupe ring, so that the second filter decides, no key is accepted twice within the expiry |
| `NeighboursTrue` | `Neighbors` | a peer has one row in each table, a full table loses the peer silent for longest, and those that hold beacons back are really live |
| `BleSessionKept` | `Ble` | no command outlives its connection; a node that should be visible becomes so, in every order of requests and completions |
| `PayloadsWhole` | `BleFrag` | what is put together is one message, in spite of lost fragments, reused slots and ids that come round |
| `TextsTrue` | `Rml` | whatever order the deltas come in and whatever was evicted, a cached text is the one its sender gave that message |
| `FramesWhole` | `SlipBridge` | a frame of which nothing is lost arrives whole after any losses before it |
| `ReceiveTyped` | all | types |

`node_parts` (`NodeMC`):

| Property | Part | Says |
|---|---|---|
| `UsedExact` | `DutyCycle` | `used_us` is exactly the airtime of the records, over wraps, evictions and expiry with an old time |
| `TxQueueKept` | `TxDrain`, `SendQueue` | the outbox is a FIFO queue with an exact expiry; a frame to be sent at once is not blocked by held ones; a held one leaves at its due time, neither early nor passed over (off the wrap of the clock) |
| `NotOverGranted` | `AirtimeSched` | lazy refill gives no more than a bucket filled at every tick would hold |
| `WakeupNotLost`, `RadioRecovers` | `Radio` | no flag is up without something pending (but for the case named there); resets keep their distance; only a refused reset leaves the radio deaf |
| `RelaysKept` | `RelayGates`, `Fabric` | no source gets more relays than its tokens and no window more than twice the cap; the congestion score holds nothing older than its ring, although reports come out of order |
| `ScoreKept` | `Links` | missing frames never improve a link, the forward set is the best ones, and only a viable relay silences a node |
| `OriginsKept` | `Beacon`, `Origins` | beacons, phone frames and timers keep their distances, and timers fire as soon as they are drained after it |
| `ConfirmedKept` | `Lifecycle`, `Settings` | no push is accepted twice, timers and program match, and a confirmed setting is in RAM and in the store, through restarts |
| `EventsFair` | `Engine` | events leave in the order of their ticks and injections, and a clock waits at most two events of the other |
| `PathsDeclared` | `Compiler` | events only move on, and reach every name and sink exactly as often, and by the operators, the text says |
| `ServicesKept` | `Sensors`, `Channels`, `Display` | bundles hold the readings of their own trigger and do not wait for a dead sensor; the default channel is joined and kept alike twice; a PIN is shown, pages last, failures are counted |
| `TypesOK` | all | types: no index leaves its table, no counter its width, no queue its size |

Runs that TLC refutes, each against a sentence of the repository:

| Run | Refuted | Behaviour |
|---|---|---|
| `ring_two_writers` | `PushedFrameIsQueued` | BLE callback and `radio_service_rx` load the same `head`, write the same slot, and both return true: one frame is lost. `ringbuf.h:8` requires one writer. |
| `duty_cycle_drain` | `BudgetKept` | The second frame of a pass is checked with the time read before the first was sent. The age of the fresh record wraps, it is expired, and its airtime is forgotten. |
| `route_next_hop` | `NextHopIsNeighbour` | A relayed ROUTE_RPL carries no immediate sender (`from_id` is 0 on hardware), so its originator, two hops away, becomes the next hop of a frame with TTL 1. |

## 4. Bounds and fairness

Bounds are constants of the modules. The capacities (ring, tables, caches,
queues) are small so that full, wrap, eviction and reuse happen within a few steps;
clocks are a few ticks wide so that every run crosses the wrap, starting from
every reading; packet id counters stay below their width, because a node does not
take 65 536 ids while one of them waits. What each bound leaves in:

- `RingBuf`: 4 slots, 2 frames, drop counter modulo 3: full, empty, both index
  wraps, counter wrap. Theorems cover every capacity.
- `RetryTable`: 2 slots, 2 retries, clock of 20, ticks up to 1 late: two entries
  in all phases of the schedule. `MaxCtr` stops new frames early enough for the
  retries of those in the table.
- `RxFilter`: 2 keys, dedupe ring 2, bus 1. The firmware's sizes are equal; the
  theorem `BusShadowsDedupe` is about that case.
- `Mesh`: one or two messages, rings of one or two frames, one or two attempts.
  Loss is unbounded, so are delays and the order between nodes. `MaxCtr` stops
  the retry tick of a node that has used its ids; in `mesh_quiesces`, where a
  stopped tick would leave an entry for ever and refute the property, it is never
  reached. At most one restart. In `mesh_pair` one unicast has an id of its app's (12,
  which the node does not take itself within `MaxCtr`), the other the node's.
- `DutyCycle`: history of 2 and 4, window 4, budget 3, frames of 1 or 2 ticks, two
  frames per pass (`TX_DRAIN_LIMIT`).
- `RouteCache`: 3 destinations in 2 slots, 2 next hops, hop counts and metrics that
  straddle the hysteresis; destinations and next hops are symmetric.
- `RouteDiscovery`: the line a - b - c, `ReqTtl` 1 (the relay decrements after its
  test, so the request reaches c), one pending slot, one lost route. Two messages
  of a are submitted (`MaxSent`): one to b and one to c, or both to c.

- `NodeMC` (1.1 million states): queues and tables of two or three entries, clocks
  of 4 to 16 ticks, rates of one or two a tick, so that empty, full, refilled and
  wrapped all occur within a cycle. `Links` keeps the code's arithmetic (loss in
  per cent, scores to 100, rates of 1/8) and bounds the rounds (`MaxRounds`);
  `Engine` runs three chains of up to four nodes on two clocks, with a gas limit of 5,
  so that a run may end while an event is in the middle of its chain, with a window
  of either kind (one that loses an event when it is full, one that flushes early), and bounds the events injected since its
  queues were empty; `Compiler` bounds the statements; `Lifecycle` the sequence numbers and pushes. `Radio` runs all six
  drivers, with streaks of two before a reset.
- `ReceiveMC` (1.0 million states): two or three peers, keys, slots and threads,
  clocks of 2 to 4 ticks; two connections (a command of the first can meet the
  second), both stacks, with and without a passkey; fragment ids that come round
  after three messages; three edits of two threads; on the serial line END, ESC and
  both escaped codes, in frames of one and two bytes.

The constants carry the assumptions the theorems use, each as the code has it: the
fabric's second counter is far from its wrap and a pass of `tx_drain_loop` takes far
less than a cycle of the millisecond clock (`FaAssumption`; 49 days); channel numbers are numbers and those
joined at boot exist (`ChAssumption`); a message has between 1 and 255 fragments, as its
one-byte total says (`FgAssumption`); a frame expires before the clock comes round
(`SqAssumption`); the gap charged at once, 15, is far from a cycle of the sequence
numbers (`LnAssumption`); a program is a finite set of chains, each no longer than a gas
limit and with nothing behind its sink, on at most the eight clocks of the scheduler's table
(`EnAssumption`); the frame's bytes are apart from the two that frame them (`SlAssumption`;
END and ESC as data go out as two symbols); a program is read up to a number of statements
(`GrAssumption`, the bound of the model). TLC evaluates them on the instances it checks.

`Advance` in `RouteCache`, `RetryTable` and `RouteDiscovery` stops the clock from
coming all the way round over an entry nobody touched: 2^32 ms are 49 days, and
after that the wrapped age says nothing. This is an assumption on the system.

Fairness. The main loop calls `rb_pop`, `retry_table_tick`, `sources_rf_rx_drain`,
`send_queue_tick` and `tx_drain_loop` in every iteration and a call in progress
runs to its end, so each of these is weakly fair, as is the clock. Nothing is fair
about the radio: `Transmit` may reach no one for ever. New messages, restarts and
relays are never required. Liveness (`RingDrains`, `EntryLeaves`, `Quiesces`)
rests on no more than that.

The properties of `NodeMC` and `ReceiveMC` are safety; what must happen there is
stated as a bound (passes until a frame leaves, turns a clock waits), so they need
no fairness.

`CHECK_DEADLOCK FALSE` is set for the two mesh models only: a mesh that has
delivered everything stops.

## 5. Proofs

All theorems hold for every value of the constants that satisfies the named
assumptions of the modules. They are proved with TLAPS, SMT, Zenon and LS4 backends.
What a theorem says of `NodeSpec` or `ReceiveSpec` it says of the part alone: the
other parts leave its variables as they are.

| Theorem | States | Inductive invariant |
|---|---|---|
| `RingBufProofs!RingTypeOK` | types, any number of writers | `TypeOK` |
| `RingBufProofs!OneWriterNoSlotConflict` | `NoSlotConflict` with one writer | `RingInv` |
| `RingBufProofs!OneWriterFifo` | the ring implements `FrameQueue` with one writer | `RingInv` |
| `RetryTableProofs!RetryTypeOK`, `RetryCountExact` | types; the cached count is exact | `TypeOK`, `CountExact` |
| `RetryTableProofs!RetryIdsDistinct` | no two entries share a packet id | with `IdsTaken` |
| `RetryTableProofs!RetryDueExact` | due if and only if the true wait is over | with `Timing`, assuming `ClockWide` |
| `RouteCacheProofs!CacheTypeOK`, `CacheOneEntry`, `CacheLiveIsRecent` | types; one entry per destination; live routes are recent | `TypeOK`, `OneEntryPerDst`, `AgeBound` |
| `RouteDiscoveryProofs!PendingKeptAlways`, `SentInTimeAlways` | a waiting frame is sent at most once and in time; the count is exact | `PendInv`, `CountExact` |
| `RouteDiscoveryProofs!TypeCorrect`, `HopsAlwaysAtLeastDist`, `NextHopAlwaysKnew` | types; no route is too short; every route leads through a node that knew the way | `RouteInv` |
| `MeshProofs!TypeCorrect` | types and sizes, across losses and restarts | `TypeInv` |
| `MeshProofs!RelaysOnceAlways` | one relay of a packet, while nothing is forgotten | `RelaysInv` |
| `MeshProofs!AckedReachedNextHopAlways`, `DuplicateIsKnownAlways` | an acknowledgement is of what the next hop has; a duplicate drop loses nothing; both while ids are first ones | `FlightInv` |
| `ReceiveProofs!FilterTypeOK`, `ReceiveAlwaysTyped` | types of the filter and of all parts behind the receiver | `TypeOK` of the parts, `RmlTyped` |
| `ReceiveProofs!BusShadowsDedupe` | with rings of one size the dedupe ring never decides and nothing is ever suppressed | `Lockstep`, assuming `SameSize` |
| `ReceiveProofs!AcceptedOnceAlways` | no key is accepted twice in its window | `WindowInv`, assuming `DedupeHolds` |
| `ReceiveProofs!NeighboursAlwaysTrue` | `NeighboursTrue` | `NbInv` |
| `ReceiveProofs!TextsAlwaysTrue` | `TextsTrue` | `RmlInv` |
| `ReceiveProofs!BleSessionAlwaysKept` | `BleSessionKept` on both stacks | `BleInv` |
| `ReceiveProofs!PayloadsAlwaysWhole` | `PayloadsWhole` | `FgInv` |
| `ReceiveProofs!FramesAlwaysWhole` | `FramesWhole` | `SlInv` |
| `NodeProofs!UsedAlwaysExact` | `used_us` is the sum over the records | `DutyInv` |
| `NodeProofs!NeverOverGranted` | `NotOverGranted` | `AtInv` |
| `NodeProofs!WakeupNeverLost`, `RadioAlwaysRecovers` | `WakeupNotLost`, `RadioRecovers`, for the six drivers | `RdInv`, `RdSpaced` |
| `NodeProofs!OriginsAlwaysKept` | `OriginsKept` | `BcInv`, `OrInv` |
| `NodeProofs!ConfirmedAlwaysKept` | `ConfirmedKept` | `LcInv`, `StInv` |
| `NodeProofs!TxQueueAlwaysKept` | `TxQueueKept` | `TdInv`, `SqInv` |
| `NodeProofs!ServicesAlwaysKept` | `ServicesKept` | `SnInv`, `ChInv`, `DpInv` |
| `NodeProofs!RelaysAlwaysKept` | `RelaysKept` | `RgPaid`, `RgBudget`, `FaInv` |
| `NodeProofs!ScoreAlwaysKept` | `ScoreKept` | `LnInv`, assuming `FewRounds` |
| `NodeProofs!EventsAlwaysFair` | `EventsFair` | `EngineInv`, assuming `TwoClocks` |
| `NodeProofs!TypesAlwaysOK` | `TypesOK`, of all seventeen parts | `PartsInv`, `OwnTypes` |
| `NodeProofs!EdgesAlwaysForward` | `EdgesForward`, the first part of `PathsDeclared` | `GrBuilt` |

`BasicProofs` holds the lemmas several of these rest on: induction over a finite set
(by a subset-minimal or a least member, because the library's theorems take an
operator), sums over sets and functions and what a step does to them, prefixes of a
ring that ends before it starts, folds that pick a best member, wrapped differences,
quotients, and what an insertion into a sequence returns. What `fwdset_build` computes
by a fold is proved by one of them: a smallest set of rows for which the fold went
wrong would have a row less before it.

Why the strengthenings are needed:

- `RingInv`. `NoSlotConflict` speaks of a writer past its full test and a reader
  past its empty test. It follows only if the writer's copy of `head` is still
  `head` (one writer), if the gap found by the full test is still there (pops
  only widen it), and if the frame found by the empty test is still there. For
  the refinement the copied slot and the copied frame must also be unchanged when
  they take effect. The step to `FrameQueue` is then a case analysis: `PushStoreHead`
  is `Push`, `PopStoreTail` is `Pop`, a failing full test is `Refuse`, all else
  stutters; the lemmas on `(head + Cap - tail) % Cap` carry the arithmetic.
- `IdsTaken`. Distinct ids stay distinct only because a fresh id is above every
  id in the table, hence entries hold ids between 1 and the counter. The tick takes
  one id for each due entry in slot order (`DueRank`), so two due entries get
  different ones.
- `Timing`. `DueExact` compares a wrapped difference with true time. The invariant
  says what the difference is, on both sides of the deadline. It also fixes the window
  of each attempt, written without powers for the three retries of the code.
- `AgeBound`. A live entry is recent because an entry is never younger than the
  last news of its destination.
- `PendInv`. A message is sent once because it is at one place: not yet submitted,
  in one slot of one queue, or sent. The frames in a queue are the ones the
  history says wait there (`PendTrue`), with their true ages.
- `RouteInv`. A route is as long as the way the frame that taught it had come, so
  every frame in flight must have taken at least the distance from its source
  (`FramesTrue`), answers from a cache included, and every entry a node holds must
  name a neighbour that held one before it (`RoutesTrue`).
- `TypeInv` of `Mesh` adds what the types rest on: a retry tick takes as many ids as
  entries are due, and a queue is never longer than its ring.
- `RelaysInv`. What was relayed is in the duplicate cache.
- `FlightInv`. An acknowledgement names a packet id. That the next hop has the
  message then needs every frame in flight to tell the truth: a data frame carries
  what its source gave that id (`FlightSound`, `KeysTell`), a key in a duplicate
  cache is of a frame whose message the application has (`KnownReached`), an
  acknowledgement was sent by a node that has it (`AckedSound`), and an entry in a
  retry table names an id of its own (`EntriesTrue`).
- `Lockstep`. Both rings have 64 entries and every accepted frame enters both at
  the same index, so a key in the dedupe ring is in the bus ring at the same
  place. Since the bus is asked first, `DedupeDrop` is never enabled.
- `WindowInv`. A key accepted in the window is still in the ring: the slots written
  after it hold other keys, so if the ring came round there would be more keys than
  slots.
- `NbInv`. The rows hold true ages up to a cycle, so the one with the greatest
  wrapped age is the one silent for longest.
- `RmlInv`. A row of the thread cache is a beginning of what its sender wrote,
  with the number of the last edit in it; an edit is applied only on top of the
  one it names.
- `BleInv`. Whoever asked the stack for something is still owed the answer, and a
  node that should be visible is advertising, asking, or has a retry scheduled. A
  command in the queue is younger than the connection.
- `FgInv`. The fragments in a slot are the first ones of one message, because the
  slot is reset by any fragment that does not fit.
- `DutyInv`. The records are the slots from tail to head; overwriting, expiring and
  recording each take off or add one summand.
- `AtInv`. A bucket filled late is worth its tokens and what its unpaid time
  will bring. That worth is never more than the bucket filled at every tick holds;
  at the wrap of the clock the unpaid time only shrinks. `RgPaid` says the same
  of a relay's bucket, where seconds are paid whole.
- `RgBudget`. Two windows of fixed start cover any window of their length: for
  every k, the forwards of the last k ticks beyond the running window's number are
  within the cap.
- `RdInv`, `RdSpaced`. A flag that is up on the interrupt line has set the pending
  flag, or a call is in progress that will look at it; one step of a driver may
  clear the pending flag only if it handles the flags it reads afterwards. Resets
  are apart because the time since the last one is known up to the backoff.
- `BcInv`, `OrInv`. The wrapped age of a last time is the true one as long as that
  is below a cycle, and drifts only to the safe side.
- `LcInv`, `StInv`. What is in the store, in RAM and in the history of confirmed
  settings differs only while a write is in progress or has failed and said so.
- `TdInv`, `SqInv`. The ring is the queue: its slots from tail on hold the entries
  in order, and `sqRef` holds the same with true ages.
- `SnInv`, `ChInv`, `DpInv`. A bundle in progress holds readings taken since its
  trigger; the two records of the default channel agree; the copy the display task
  works on is that of its last turn.
- `LnInv`. Of two rows that heard the same first frame, the one that hears more has
  lost no more than the other's loss drawn up by the frames it has missed since
  (`Ordered`). Losses charged at the next frame and losses charged by then add up
  (`RatesAdd`), and one rate that starts below another stays below it (`RatesLess`), so
  the order survives a round that both, one or none of them hear; a late frame
  charges the cap and leaves the comparison.
- `Best` is the invariant of the sort by insertion: after a set of rows the
  candidates are the live ones of it, best first, and those left out are no better.
- `EngineInv`. A number a node gives an event is above all numbers in use, so the items of
  a queue differ (`ItemsInv`) and each queue has a first one. Of two events of one source
  with one tick the older is further along the chain, or at the same node with the lower
  number (`OrderInv`); so no older one is left behind when the first of them reaches the
  sink. What a delay held is older than anything injected (`NodesInv`).
- `WaitInv`. Of two clocks the one that is passed over is next, unless taking the last item
  empties its queue and the node puts a new one in: then the turn stays where it is, and
  the other clock waits until that one event has left the chain. A run that starts finds
  the waits of the last one, which is why the bound is twice the longest chain: an earlier
  version of the property said once, and the proof attempt showed the run that breaks it.
- `SlInv`. What the decoder holds of a whole frame is a beginning of it, and what is on the
  line is the rest, an escaped byte cut in two included (`InFrame`). The line is a
  concatenation; `Flattened` says where in it each byte starts, by the least counterexample.
- `OwnTypes`. The invariants of the parts hold their types but for a few, which need
  little more: the links keep theirs whatever number of rounds passes (`LnShape`, without
  `FewRounds`), a loaded program is one that was pushed or made of parameters (`LcTyped`),
  and a name or a sink stands for a node that was added before it (`GrBuilt`, which also
  has every output of a node go to a later one: `Added` is the only way the graph grows).
- `FaInv`. For every m, the newest m buckets of the ring hold at most what was
  reported since those seconds began. A report with an earlier time than the ring's
  is seen as one far ahead and clears it, which forgets and so keeps the bound.

Hypotheses of theorems, beside the assumptions of the modules:

- `SingleWriter`: one context pushes. Without it the property is refuted
  (`ring_two_writers`).
- `ClockWide`: the longest window and the longest stall fit in half the clock (8 x
  timeout against 2^31 ms in the code), with at most the three retries of the code.
- `SameSize`: both rings have 64 slots in the firmware.
- `DedupeHolds`: no more keys are on the air within a window than the ring has
  slots, and the window is shorter than a cycle of the clock. With more keys a ring
  of this kind forgets, as the code accepts.
- `NothingForgotten`: since boot no duplicate cache has filled up. `RelaysOnce` is
  stated of the packets a cache still knows.
- `TwoClocks`: the program's sources are on the two clocks the firmware feeds, the monotonic
  one and the Lamport one (`rivr_sources.c`). With more the turn can jump over a clock.
- `FewRounds`: the sequence numbers, 2^16 in the code, do not come round within the
  rounds of a run. A row that heard the number before would look like one that
  heard nothing since.
- `FirstIds`: no restart, no counter come round, and no id of an app that is another
  unicast's or one the node takes itself. Ids start from 0 at boot, so that after a
  restart an old acknowledgement can be taken for a new one, and the app's id is kept
  whatever it is; section 6 names both.

Only model-checked:

- liveness, which this prover does not do: `RingDrains`, `EntryLeaves`, `Quiesces`;
- `GivesUpOnSchedule` (powers of two);
- what `PathsDeclared` says beyond `EdgesForward` (sums of bags over all walks of a graph,
  defined by a fold for which TLAPS has no induction).

## 6. Where the code and its documents differ

The three refuted runs are above. While modelling, the following were met too; in
each case the model follows the code.

| Code | Document |
|---|---|
| A node relays its own broadcast when a neighbour's relay comes back: nothing compares `src_id`, and originated frames enter no duplicate cache (`routing.c:451`) | `docs/en/protocol.md:91`, "A node never forwards its own packets" |
| Every data frame goes to the services and the engine, whatever its `dst_id` (`rivr_sources.c:868`) | `docs/en/protocol.md:97`, other nodes "will not pass it to the application layer" |
| `dst_id` is overwritten with the next hop, which acknowledges the frame (`rivr_sinks.c:167`) | `docs/routing.md:152`, "end-to-end confirmation" |
| A retransmission has a fresh `pkt_id`, so a receiver whose acknowledgement was lost delivers it again (`retry_table.c:159`) | `docs/en/architecture.md:627`, "Same `pkt_id`" |
| Packet ids start from 0 at every boot (`rivr_embed.c:66`) | `docs/en/protocol.md:107`, "Unique per wire injection" |
| A `pkt_id` an app puts into its frame is kept unless it is 0 (`rivr_sources.c:93`), also when it is one the node takes itself: with id 3 in place of 12 in `mesh_pair`, TLC refutes `DuplicateIsKnown` | comment at `rivr_sources.c:84`, "each injected frame needs a fresh pkt_id for mesh dedupe/jitter", and again `docs/en/protocol.md:107` |
| The fallback of a full TX ring is pushed to the same full ring (`rivr_sinks.c:225`) | comment at `rivr_sinks.c:204` |
| The bus cache answers before the dedupe ring, for frames of one transport too, so suppression never happens (`rivr_bus.c:138`; proved) | `rivr_sources.c:304`, "only for cross-transport duplicates" |
| Bus entries have no time: an old key is dropped until 64 others displace it (`rivr_dup_cache.c:16`) | `routing.h:66` |
| More than `DC_HISTORY_CAP` transmissions in a window give airtime back (`dutycycle.c:117`) | `dutycycle.h:90` |
| A kept route is refreshed by news of a worse one (`route_cache.c:167`) | `route_cache.h:150` |
| `cache->count` is lowered only by `route_cache_expire`, which nothing calls, while look-ups and updates clear entries (`route_cache.c:118`) | `route_cache.h:114` |
| A destination never has a second entry: `route_cache_update` finds and overwrites the first (`route_cache.c:146-202`; `OneEntryPerDst`, proved for every size), so the scan of `route_cache_best_hop` has one candidate | comment at `route_cache.c:331-334`, "when more than one cached route covers the same dst_id. This can happen after a path change teaches a new route while the old route is still fresh." |
| No entry of the message layer expires: `rml_decode` clears the message and reads no `soft_ttl_s`, for which the 28 bytes on the air have no place (`rml_codec.c:104-125`); `soft_expire_ms` is 0 in every entry and `rml_thread_expire` clears none (`rml_policy.c:189-200`, `294`) | `docs/RML.md:44`, "status entries expire via soft_ttl_s after creation, cleared from cache automatically"; `docs/RML.md:113` |
| Whoever overhears a ROUTE_RPL learns from it and drains its pending queue (`rivr_sources.c:810`) | comment at `rivr_sources.c:714`, "Only the requester (dst_id match) drains its pending queue." |
| A frame of TTL 1 is relayed once more, with TTL 0 | |

The parts added around the packet path, in the same way:

| Part | The code |
|---|---|
| Radio | `radio_transmit` leaves `s_dio1_pending` set after TxDone; the next service finds no flag and counts a spurious interrupt, so enough transmissions without a reception reset a healthy radio. |
| | The third failed transmission asks for a reset instead of going back to receive; when the backoff refuses it (`radio_sx1262.c:782-805`) the chip stays in standby until the next transmission. |
| | The Linux and nRF52 drivers take IRQ bit 0x0040, a CRC error, for a time-out, and push corrupt frames. |
| | A frame that ends while a failed transmission's flag is cleared raises no edge: the node hears nothing until it transmits. |
| TX path | `due_ms` is compared without wrap arithmetic (`main.c:402`): around the wrap a relay goes out early or is held for 49 days. So is the TxDone deadline (`radio_sx1262.c:762`). |
| | Jitter, hold-off and fabric delay can add up to more than the 300 ms a suppression entry lives, contrary to the comment near `rivr_sources.c:1018`. |
| Relay gates | Budget and token are charged before later gates that may still drop the relay. |
| Fabric | A TX pass reports with the time of its start; if a reception has reported a later second the difference wraps and the whole ring is cleared, where the comment at `rivr_fabric.c:114` speaks of buckets that aged out. |
| Neighbours | `neighbor_table_expire` and `neighbor_set_flag` have no caller; a slot taken over keeps callsign and role of its former owner; an unknown position is 0/0 after the `memset`; an entry older than a cycle of the clock looks fresh. |
| Links | A late or repeated sequence number is charged as the maximal gap of 15 losses; with the gap capped and the estimate lowered at every reception, the loss of 97 per cent that gives ETX 255 (`neighbor_table.c:101`) is never reached. A capped link can score better than one that heard more; a new row without losses beats an older, better heard one. |
| | Averages of negative RSSI and SNR divide toward zero and settle up to 7 dB too high. |
| | `fwd_set.h` promises that edge nodes always relay, "preventing partitions"; a viable source heard through another relay only is enough to silence a node whose own links are weak. |
| Beacons, throttles | A frame sent when the clock reads 0 counts as never sent; timers do not catch up and drift. |
| Program push | `rivr_ota.h:64-69` describes a rollback to `ota_prev`; nothing writes or reads it, and `rivr_ota_confirm` and `rivr_panic_mark` have no caller. A stored program that does not compile stops the node at every boot. A failed activation uses up its sequence number, and so does a restart after `save_seq`. Parameters pushed are not restored at boot. On the nRF52 a signed push is accepted without effect and its number is lost. |
| Reload | The timers are cleared before the new program compiles; after a failed reload the old engine runs without its timers. The buffer for the policy program is 512 bytes where its header asks for 768. |
| Settings | On a failed open the CLI says "position set for this session only" but sets nothing in RAM, and likewise for a reset. Latitude without longitude can be stored. Erase errors, and the commit of the sensor settings, are ignored. RP2040 and nRF52 never load the sensor settings; on the RP2040 a failed store can lose a key confirmed before; nRF52 and Linux store nothing. |
| BLE | Switched off while a start of advertising is outstanding, the node advertises while inactive. A disconnect in the middle of a companion tick leaves head and tail of its queue at odds. `CLEAR_POSITION` answers OK whatever happened; the `SET_` commands change RAM before a store that fails. A retry that falls due at time 0 is none. The disconnect event of any connection ends the current one. |
| Fragments | A message whose first fragment was lost may complete an unfinished one with the same id. |
| Message layer | A status is recorded before it is dropped for queue pressure, or refused as a delta whose base is missing, so its repetition is refused. Entries of one millisecond, or from before the wrap, are taken for newer. A late, older sync wipes newer entries. `expires_s` has 16 bits against an uptime in seconds: after 18 hours every message with an expiry is dropped. The repair cache is never read. |
| Sensors | A second trigger during a conversion drops the unfinished bundle. When the change of an AM2302 reading triggers, the reading itself is missing from the bundle. |
| Engine | The turn is taken modulo a set of clocks that changes, so the round-robin of `scheduler.rs:7-17` is not a strict alternation (`EventsFair` says what holds). 64-bit ticks are fed from a 32-bit clock: after its wrap throttles, windows and budgets stay shut. A delay with an event pending overwrites it. |
| Compiler | A second source of the same name leaves the first one dead, though its timer is registered. `let` with a literal warns and keeps the former binding. |
| USB bridge | A bad escape or an overflow drops the start of a frame and delivers its rest; an END after nothing does not clear a pending escape. |
| Display | On the nRF52 one failed transfer blanks the display until reboot, on the ESP32 three do until it comes back. |
| Channels | Called by nothing but the tests. |

## 7. What is not modelled

Abstractions that matter for reading the results:

- In `Mesh` the gates between reception and relay may refuse any relay, and time
  is the choice of which entries are due. Properties that hold do so for every
  policy; nothing is claimed about delivery rates.
- In `RouteDiscovery` a route is there or not (what the cache does with it is
  `RouteCache`), link quality is a choice, the duplicate cache remembers
  everything, frames do not overtake each other, and acknowledgements and retries
  are left to `Mesh`.
- A radio frame arrives whole or not at all: the CRC check and the codec are not
  modelled. `Radio` has no payloads.
- In `NodeMC` and `ReceiveMC` the parts do not run against each other. What they
  exchange is a free input of the part that moves.
- `Engine` runs chains of operators; how a program becomes a graph is `Compiler`,
  and values carried by events are left out of both.

Parts outside the models, with the reason:

- wire codec, CRC, parser and value expressions: pure functions on bytes and text;
- Ed25519 and HMAC: arithmetic on large numbers; signatures are a verdict;
- SPI and register values, 1-Wire and AM2302 bit timing, drawing: device I/O;
- metrics, logs, build information: written and never read back by the node;
- the mailbox of `rivr_svc.c`: written and never read, so nothing depends on it;
- the platform layer, host replay, WASM and packaging scripts: no state of a node.

## 8. Plan

Done: the packet path from ring to ring, one component at a time and composed
(`Mesh`, `RouteDiscovery`); the parts around it (`NodeMC`, `ReceiveMC`); the proofs
of section 5, which state every safety invariant of the packet path and all but
the compiler's of the parts around it.

Open, for whoever goes on: the rest of `PathsDeclared`, which needs an induction over statements for the
bag of walks; an engine with more than two clocks, where the wait of a clock has no such
simple bound.
