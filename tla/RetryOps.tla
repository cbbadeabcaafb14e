------------------------------ MODULE RetryOps ------------------------------
(***************************************************************************)
(* The operations of firmware_core/retry_table.c as operators on a table:  *)
(* a function from slots to entries.  RetryTable runs them against a       *)
(* clock, Mesh inside the packet pipeline of a node.                       *)
(*                                                                         *)
(* The slot scan of the code runs from slot 1 up.  A tick visits every due *)
(* entry once, takes one packet id for it and tries one push for it, so    *)
(* what it does to an entry depends only on how many due entries precede   *)
(* it: DueRank.                                                            *)
(***************************************************************************)
EXTENDS Naturals, FiniteSets

CONSTANTS RetryTableSize,  \* RETRY_TABLE_SIZE
          RetryMax,        \* RETRY_MAX
          RetryTimeout,    \* RETRY_TIMEOUT_MS
          ClockMod,        \* tb_millis() counts modulo ClockMod, 2^32
          PktIdMod         \* packet ids are the counter modulo PktIdMod, 2^16

ASSUME RetrySizeAssumption == RetryTableSize \in Nat \ {0}
ASSUME RetryMaxAssumption == RetryMax \in Nat
ASSUME RetryTimeoutAssumption == RetryTimeout \in Nat \ {0}
ASSUME ClockAssumption == ClockMod \in Nat \ {0, 1}
ASSUME PktIdAssumption == PktIdMod \in Nat \ {0, 1}

RetrySlots == 1 .. RetryTableSize

\* A cleared slot: the memset of the code.
FreeEntry == [valid |-> FALSE, data |-> 0, pid |-> 0, left |-> 0,
              interval |-> 0, next |-> 0]

Live(tbl) == {i \in RetrySlots : tbl[i].valid}

\* Mutant: the comparison is not safe across the wrap of the clock.
Reached_Plain(now, t) == now >= t

\* (int32_t)(now - t) >= 0: t is at most half the clock's range in the past.
Reached(now, t) == (now + ClockMod - t) % ClockMod < ClockMod \div 2

\* The entry retry_table_enqueue writes; data stands for the frame.
NewEntry(data, pid, now) ==
  [valid |-> TRUE, data |-> data, pid |-> pid, left |-> RetryMax,
   interval |-> RetryTimeout, next |-> (now + RetryTimeout) % ClockMod]

\* retry_table_enqueue: the first free slot, or no slot at all.
FreeSlot(tbl) ==
  {i \in RetrySlots : ~tbl[i].valid /\ \A j \in RetrySlots : j < i => tbl[j].valid}

RetryEnqueue(tbl, data, pid, now) ==
  [i \in RetrySlots |->
     IF i \in FreeSlot(tbl) THEN NewEntry(data, pid, now) ELSE tbl[i]]

\* Mutant: the packet id is not compared.
AckSlot_AnyId(tbl, pid) == {i \in Live(tbl) : \A j \in Live(tbl) : i <= j}

\* retry_table_ack: the first live entry with the acknowledged packet id.
\* Every entry has ack_src_id = g_my_node_id, so an acknowledgement of
\* another source's frame matches none and is not passed here.
AckSlot(tbl, pid) ==
  {i \in Live(tbl) : tbl[i].pid = pid /\
                     \A j \in Live(tbl) : j < i => tbl[j].pid # pid}

RetryAck(tbl, pid) ==
  [i \in RetrySlots |-> IF i \in AckSlot(tbl, pid) THEN FreeEntry ELSE tbl[i]]

\* How many due entries the scan of retry_table_tick visits before slot i.
DueRank(due, i) == Cardinality({j \in due : j < i})

\* Mutant: the current packet id is used again.
TickPid_Reuse(ctr, due, i) == (ctr + DueRank(due, i)) % PktIdMod

\* Mutant: one packet id for all the entries of a tick.
TickPid_Shared(ctr, due, i) == (ctr + 1) % PktIdMod

\* The packet id the tick takes for the due slot i.
TickPid(ctr, due, i) == (ctr + DueRank(due, i) + 1) % PktIdMod

\* Mutant: the attempt is not counted.
Retried_NoCount(e, pid, now) ==
  [e EXCEPT !.pid = pid, !.next = (now + e.interval) % ClockMod]

\* Mutant: the window stays as it was.
Retried_NoBackoff(e, pid, now) ==
  [e EXCEPT !.pid = pid, !.left = e.left - 1,
            !.next = (now + e.interval) % ClockMod]

\* One due entry with retries left: re-sent with a fresh packet id, its window
\* doubled.  The push may have failed: the entry does not record it.
Retried(e, pid, now) ==
  [e EXCEPT !.pid = pid, !.left = e.left - 1, !.interval = 2 * e.interval,
            !.next = (now + 2 * e.interval) % ClockMod]

\* Mutant: an exhausted entry stays, and floods at every tick.
RetryTick_NoClear(tbl, due, ctr, now) ==
  [i \in RetrySlots |->
     IF i \in due /\ tbl[i].left > 0 THEN Retried(tbl[i], TickPid(ctr, due, i), now)
     ELSE tbl[i]]

\* retry_table_tick on the table; an exhausted entry is cleared, whether or
\* not the push of its fallback flood succeeds.
RetryTick(tbl, due, ctr, now) ==
  [i \in RetrySlots |->
     IF i \notin due THEN tbl[i]
     ELSE IF tbl[i].left > 0 THEN Retried(tbl[i], TickPid(ctr, due, i), now)
     ELSE FreeEntry]
=============================================================================
