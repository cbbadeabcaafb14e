----------------------------- MODULE RetryTable -----------------------------
(***************************************************************************)
(* The retry table of a node against its clock: entries are added by       *)
(* rf_tx_sink_cb, cleared by acknowledgements, and re-sent or given up by  *)
(* the tick the main loop runs at every drain of the RX ring.              *)
(*                                                                         *)
(* The table shares the packet id counter g_ctrl_seq with every other      *)
(* originator of the node (OtherPacket).  Whether a push of the tick finds *)
(* room in the TX ring changes nothing in the table.                       *)
(***************************************************************************)
EXTENDS RetryOps

CONSTANTS MaxLag,    \* bound: how late a tick may run after an entry is due
          MaxCtr     \* bound: packet ids taken, within one cycle of the ids

ASSUME MaxLagAssumption == MaxLag \in Nat
ASSUME MaxCtrAssumption == MaxCtr \in Nat /\ MaxCtr < PktIdMod

VARIABLES tbl,     \* rt->entries
          count,   \* rt->count
          ctr,     \* g_ctrl_seq
          now,     \* tb_millis()
          age,     \* history: milliseconds since each entry's last attempt
          life     \* history: milliseconds since each entry was enqueued

vars == <<tbl, count, ctr, now, age, life>>

Zero == [i \in RetrySlots |-> 0]

\* retry_table_init.  The clock starts anywhere, so that behaviours cross its
\* wrap at every point.
Init ==
  /\ tbl = [i \in RetrySlots |-> FreeEntry]
  /\ count = 0
  /\ ctr = 0
  /\ now \in 0 .. ClockMod - 1
  /\ age = Zero
  /\ life = Zero

\* The bound on new frames: it leaves the ids that ticks may still take.
Originates == ctr + 1 + RetryTableSize * (RetryMax + 1) <= MaxCtr

\* retry_table_enqueue for a frame that took the next packet id.  A full table
\* skips the frame: it is sent without retries.
Enqueue ==
  LET clear(h) == [i \in RetrySlots |-> IF i \in FreeSlot(tbl) THEN 0 ELSE h[i]]
  IN  /\ Originates
      /\ ctr' = ctr + 1
      /\ tbl' = RetryEnqueue(tbl, 0, (ctr + 1) % PktIdMod, now)
      /\ count' = IF FreeSlot(tbl) # {} /\ count < RetryTableSize
                  THEN count + 1 ELSE count
      /\ age' = clear(age)
      /\ life' = clear(life)
      /\ UNCHANGED now

\* Another frame of this node takes a packet id.
OtherPacket ==
  /\ Originates
  /\ ctr' = ctr + 1
  /\ UNCHANGED <<tbl, count, now, age, life>>

\* Mutant: the slot is cleared but the counter is left alone.
Ack_NoCount(pid) ==
  /\ tbl' = RetryAck(tbl, pid)
  /\ UNCHANGED <<count, ctr, now, age, life>>

\* retry_table_ack for an acknowledgement of any id this node ever used.
Ack(pid) ==
  /\ tbl' = RetryAck(tbl, pid)
  /\ count' = IF AckSlot(tbl, pid) # {} /\ count > 0 THEN count - 1 ELSE count
  /\ UNCHANGED <<ctr, now, age, life>>

DueSlots == {i \in Live(tbl) : Reached(now, tbl[i].next)}
Exhausted == {i \in DueSlots : tbl[i].left = 0}

\* retry_table_tick
Tick ==
  /\ DueSlots # {}
  /\ ctr + Cardinality(DueSlots) <= MaxCtr
  /\ ctr' = ctr + Cardinality(DueSlots)
  /\ tbl' = RetryTick(tbl, DueSlots, ctr, now)
  /\ count' = IF count >= Cardinality(Exhausted)
              THEN count - Cardinality(Exhausted) ELSE 0
  /\ age' = [i \in RetrySlots |-> IF i \in DueSlots THEN 0 ELSE age[i]]
  /\ UNCHANGED <<now, life>>

\* The clock moves on; the main loop never stalls longer than MaxLag.
Advance ==
  /\ \A i \in Live(tbl) : age[i] < tbl[i].interval + MaxLag
  /\ now' = (now + 1) % ClockMod
  /\ age' = [i \in RetrySlots |-> IF tbl[i].valid THEN age[i] + 1 ELSE 0]
  /\ life' = [i \in RetrySlots |-> IF tbl[i].valid THEN life[i] + 1 ELSE 0]
  /\ UNCHANGED <<tbl, count, ctr>>

Next ==
  \/ Enqueue
  \/ OtherPacket
  \/ \E pid \in 1 .. ctr : Ack(pid)
  \/ Tick
  \/ Advance

\* The main loop calls retry_table_tick at every iteration, and time passes.
Fairness == WF_vars(Tick) /\ WF_vars(Advance)

Spec == Init /\ [][Next]_vars
FairSpec == Spec /\ Fairness

-----------------------------------------------------------------------------

Entries ==
  [valid : BOOLEAN, data : {0}, pid : 0 .. PktIdMod - 1, left : 0 .. RetryMax,
   interval : Nat, next : 0 .. ClockMod - 1]

TypeOK ==
  /\ tbl \in [RetrySlots -> Entries]
  /\ count \in 0 .. RetryTableSize
  /\ ctr \in 0 .. MaxCtr
  /\ now \in 0 .. ClockMod - 1
  /\ age \in [RetrySlots -> Nat]
  /\ life \in [RetrySlots -> Nat]

(***************************************************************************)
(* rt->count, kept by increments and guarded decrements in three functions *)
(* (retry_table.c lines 114, 134, 203), is the number of live entries that *)
(* retry_table_count finds by scanning.                                    *)
(***************************************************************************)
CountExact == count = Cardinality(Live(tbl))

(***************************************************************************)
(* No two live entries wait for the same packet id, although every attempt *)
(* draws a new one from the counter all originators share: an              *)
(* acknowledgement clears the entry it is meant for                        *)
(* (retry_table_ack, lines 124-139; retry_table_tick, line 159).           *)
(***************************************************************************)
IdsDistinct ==
  \A i, j \in Live(tbl) : i # j => tbl[i].pid # tbl[j].pid

(***************************************************************************)
(* The signed comparison of retry_table_tick (line 155) makes an entry due *)
(* exactly when its window has passed since its last attempt, whatever the *)
(* clock reads and wherever it wraps.                                      *)
(***************************************************************************)
DueExact ==
  \A i \in Live(tbl) : i \in DueSlots <=> age[i] >= tbl[i].interval

\* The windows of all the attempts of an entry: T + 2T + 4T + ...
Schedule == RetryTimeout * (2^(RetryMax + 1) - 1)

(***************************************************************************)
(* A message is given up (its entry cleared by the tick) only after the    *)
(* full schedule of RetryMax doubling windows and the last wait, and at    *)
(* most one stall per attempt later (retry_table_tick, lines 157-205).     *)
(***************************************************************************)
GivesUpOnSchedule ==
  [][\A i \in Exhausted :
       Tick => life[i] \in Schedule .. Schedule + (RetryMax + 1) * MaxLag]_vars

(***************************************************************************)
(* Every entry leaves the table, acknowledged or given up: the slots of    *)
(* the table are not leaked (retry_table_tick, lines 157-205).             *)
(***************************************************************************)
EntryLeaves == \A i \in RetrySlots : tbl[i].valid ~> ~tbl[i].valid

(***************************************************************************)
(* The inductive invariants behind them.  Ids: a live entry waits for an   *)
(* id that was taken.  Timing: the window of an entry is the one of its    *)
(* attempt, it is at most MaxLag late, and its deadline lies where age and *)
(* window say, around the wrap of the clock.                               *)
(***************************************************************************)
IdsTaken == \A i \in Live(tbl) : tbl[i].pid \in 1 .. ctr

\* The window of the code's RETRY_MAX = 3 attempts, without powers.
WindowOf(left) ==
  CASE left = RetryMax -> RetryTimeout
    [] left + 1 = RetryMax -> 2 * RetryTimeout
    [] left + 2 = RetryMax -> 4 * RetryTimeout
    [] OTHER -> 8 * RetryTimeout

Timing ==
  \A i \in Live(tbl) :
    /\ tbl[i].interval = WindowOf(tbl[i].left)
    /\ age[i] <= tbl[i].interval + MaxLag
    /\ (now + ClockMod - tbl[i].next) % ClockMod =
         IF age[i] >= tbl[i].interval THEN age[i] - tbl[i].interval
         ELSE ClockMod + age[i] - tbl[i].interval

\* The clock is wide enough for the schedule: its half range holds the
\* longest window and the longest stall.
ClockWide == RetryMax <= 3 /\ 8 * RetryTimeout + MaxLag < ClockMod \div 2
=============================================================================
