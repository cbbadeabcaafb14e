------------------------------- MODULE Engine -------------------------------
(***************************************************************************)
(* The RIVR engine: events wait in one priority queue per clock, the       *)
(* scheduler takes the queues in turn, and a node makes of an event the    *)
(* events its downstream node gets.  A program is a chain of nodes per     *)
(* source.  rivr_tick injects what has come in, then runs at most a gas    *)
(* limit of steps.  Events may carry any tick, late ones too.              *)
(***************************************************************************)
EXTENDS Naturals, SequencesExt

CONSTANTS EnChains,   \* the program: sequences <<clock, node, ..., node>>
          EnMaxTick,  \* ticks are at most EnMaxTick (bound)
          EnMaxSeq,   \* events numbered since the queues were empty (bound)
          EnMaxQueue, \* events queued when one is injected (bound)
          EnGas,      \* MAX_ENGINE_STEPS
          EnPeriod,   \* interval, window and delay of the nodes, in ticks
          EnBudget    \* events a window of the budget, or a buffer, can take

ASSUME EnAssumption ==
  /\ {EnMaxTick, EnMaxSeq, EnMaxQueue, EnGas, EnPeriod, EnBudget} \subseteq Nat \ {0}
  /\ EnChains # {} /\ IsFiniteSet(EnChains) /\ Cardinality({c[1] : c \in EnChains}) <= 8
  /\ \A c \in EnChains :
       /\ DOMAIN c = 1 .. Len(c) /\ Len(c) \in 2 .. EnGas /\ c[1] \in 0 .. 255
       /\ \A p \in 2 .. Len(c) - 1 : c[p] # "emit"

VARIABLES enQueue,  \* the work items of all clocks
          enRr,     \* rr_pos
          enNodes,  \* what the nodes keep, by chain and position
          enSeq,    \* seq_counter
          enGas,    \* steps left in this run, 0 between two runs
          enOut     \* history: the event at a sink just now, the clocks' waits

enVars == <<enQueue, enRr, enNodes, enSeq, enGas, enOut>>

EnClocks == {c[1] : c \in EnChains}
NodeAt(c, pos) == c[pos + 1]
ChainLen(c) == Len(c) - 1

\* Node state at the start: last_emit, window_start, used or buffered, pending.
NodeBoot(kind) ==
  CASE kind = "throttle" -> [emitted |-> FALSE, last |-> 0]
    [] kind \in {"toa", "window", "eager"} -> [start |-> 0, used |-> 0]
    [] kind = "delay" -> [pending |-> <<>>]
    [] OTHER -> [none |-> TRUE]

EnInit ==
  /\ enQueue = {} /\ enRr = 0 /\ enSeq = 0 /\ enGas = 0
  /\ enNodes = [c \in EnChains |-> [p \in 1 .. ChainLen(c) |-> NodeBoot(NodeAt(c, p))]]
  /\ enOut = [sink |-> <<>>, waits |-> [k \in EnClocks |-> 0]]

-----------------------------------------------------------------------------
Rolled(st, tick) == st.start + ((tick - st.start) \div EnPeriod) * EnPeriod

\* Node::process: the node afterwards and the events it puts out.  A window whose
\* buffer is full loses an event, unless its policy is FlushEarly ("eager").  What
\* a delay holds is older than all that is injected from then on, which 0 says.
Process(kind, st, ev) ==
  CASE kind = "throttle" ->
         IF ~st.emitted \/ ev.tick >= st.last + EnPeriod
         THEN [st |-> [emitted |-> TRUE, last |-> ev.tick], out |-> <<ev>>]
         ELSE [st |-> st, out |-> <<>>]
    [] kind = "toa" ->
         LET now == IF ev.tick >= st.start + EnPeriod
                    THEN [start |-> Rolled(st, ev.tick), used |-> 0] ELSE st
         IN  IF now.used < EnBudget
             THEN [st |-> [now EXCEPT !.used = @ + 1], out |-> <<ev>>]
             ELSE [st |-> now, out |-> <<>>]
    [] kind \in {"window", "eager"} ->
         LET over == ev.tick >= st.start + EnPeriod
             early == kind = "eager" /\ ~over /\ st.used = EnBudget
             start == IF over THEN (ev.tick \div EnPeriod) * EnPeriod ELSE st.start
             used == IF over \/ early THEN 1 ELSE Min({st.used + 1, EnBudget})
         IN  [st |-> [start |-> start, used |-> used],
              out |-> IF (over \/ early) /\ st.used > 0 THEN <<ev>> ELSE <<>>]
    [] kind = "delay" ->
         LET due == st.pending # <<>> /\ ev.tick >= st.pending[1].tick + EnPeriod
         IN  [st |-> [pending |-> <<[ev EXCEPT !.seq = 0, !.id = 0]>>],
              out |-> IF due THEN st.pending ELSE <<>>]
    [] OTHER -> [st |-> st, out |-> <<ev>>]

\* Mutant: the tick is left out of the key.
Before_NoTick(i, j) == i.seq < j.seq

\* IntraKey: earlier ticks first, then the order of the numbers.
Before(i, j) == i.tick < j.tick \/ (i.tick = j.tick /\ i.seq < j.seq)

Active(q) == {i.chain[1] : i \in q}

\* Scheduler::pop: the clock whose turn it is, and its first item.
ClockDue(q, rr) ==
  CHOOSE k \in Active(q) :
    Cardinality({j \in Active(q) : j < k}) = rr % Cardinality(Active(q))

FirstItem(q, clock) ==
  CHOOSE i \in q : /\ i.chain[1] = clock
                  /\ \A j \in q \ {i} : j.chain[1] = clock => Before(i, j)

\* Mutant: the turn does not pass on.
Turn_Kept(rr, n) == rr

Turn(rr, n) == (rr + 1) % n

-----------------------------------------------------------------------------
\* Engine::inject, for a source of the program, between two runs.  Numbers are
\* compared among queued events only, so they start again when there are none.
EnInject(c, tick) ==
  /\ enGas = 0
  /\ Cardinality(enQueue) < EnMaxQueue /\ enSeq < EnMaxSeq
  /\ enQueue' = enQueue \cup
                 {[chain |-> c, pos |-> 1, tick |-> tick, seq |-> enSeq, id |-> enSeq + 1]}
  /\ enSeq' = enSeq + 1
  /\ enOut' = [enOut EXCEPT !.sink = <<>>]
  /\ UNCHANGED <<enRr, enNodes, enGas>>

EnRun ==
  /\ enGas = 0 /\ enQueue # {}
  /\ enGas' = EnGas
  /\ UNCHANGED <<enQueue, enRr, enNodes, enSeq, enOut>>

\* Scheduler::pop, Node::process and the pushes of what it put out.
EnStep ==
  /\ enGas > 0 /\ enQueue # {}
  /\ LET active == Active(enQueue)
         clock == ClockDue(enQueue, enRr)
         item == FirstItem(enQueue, clock)
         rest == enQueue \ {item}
         kind == NodeAt(item.chain, item.pos)
         ran == Process(kind, enNodes[item.chain][item.pos], item)
         pushed == IF item.pos = ChainLen(item.chain) THEN {}
                   ELSE {[ran.out[k] EXCEPT !.pos = item.pos + 1, !.seq = enSeq + k - 1] :
                           k \in DOMAIN ran.out}
         turn == Turn(enRr, Cardinality(active))
     IN  /\ enQueue' = rest \cup pushed
         /\ enRr' = IF clock \in Active(rest) THEN turn
                    ELSE IF rest = {} THEN 0 ELSE turn % Cardinality(Active(rest))
         /\ enNodes' = [enNodes EXCEPT ![item.chain][item.pos] = ran.st]
         /\ enSeq' = IF rest \cup pushed = {} THEN 0 ELSE enSeq + Len(ran.out)
         /\ enGas' = IF rest \cup pushed = {} THEN 0 ELSE enGas - 1
         /\ enOut' = [sink |-> IF kind = "emit" THEN <<item>> ELSE <<>>,
                      waits |-> [k \in EnClocks |->
                                   IF k = clock \/ k \notin active THEN 0 ELSE enOut.waits[k] + 1]]

EnNext ==
  \/ \E c \in EnChains, tick \in 0 .. EnMaxTick : EnInject(c, tick)
  \/ EnRun \/ EnStep

-----------------------------------------------------------------------------
EnTypeOK ==
  /\ enGas \in 0 .. EnGas /\ enRr \in 0 .. Cardinality(EnClocks) - 1
  /\ \A i \in enQueue : i.pos \in 1 .. ChainLen(i.chain) /\ i.tick \in 0 .. EnMaxTick
  /\ \A i, j \in enQueue : i.seq = j.seq => i = j

LongestChain == Max({ChainLen(c) : c \in EnChains})

\* An event reaches its sink before any that waits on its clock with a later
\* tick, or with its own tick, its own source and a later injection, wherever
\* in the chains they are (scheduler.rs:3-5).  And a clock with work waits, with
\* the two clocks the firmware feeds, no longer than two events of the other
\* take to run through their chains: the one that is on its way when the first
\* of its own comes in, and one injected after that.
EventsFair ==
  /\ \A k \in DOMAIN enOut.sink, i \in enQueue :
       LET e == enOut.sink[k] IN
       i.chain[1] = e.chain[1] =>
         /\ i.tick >= e.tick
         /\ i.tick = e.tick /\ i.chain = e.chain => i.id > e.id
  /\ \A k \in EnClocks : enOut.waits[k] <= 2 * LongestChain
=============================================================================
