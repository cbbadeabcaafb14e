------------------------------ MODULE TxDrain ------------------------------
(***************************************************************************)
(* rf_tx_queue and the jitter gate of tx_drain_loop.  main.c, main_linux.c,*)
(* main_nrf52.cpp and main_rp2040.cpp hold the same loop.  A pass reads    *)
(* the clock once and takes up to TdLimit frames from the head; a frame    *)
(* that is not due goes back to the tail.  A frame that is due leaves the  *)
(* queue for good: it is suppressed, refused by the airtime scheduler or   *)
(* by the duty-cycle limiter, or handed to radio_transmit, which may fail; *)
(* in no case does it return.                                              *)
(*                                                                         *)
(* A frame is [due, left, wrap, waited]: its due_ms, and as history the    *)
(* ticks until it is really due, whether its deadline lies beyond the wrap *)
(* of the clock, and the passes begun since a frame with due_ms = 0 came.  *)
(***************************************************************************)
EXTENDS Naturals, Sequences, SequencesExt

CONSTANTS TdCap,       \* RF_TX_QUEUE_CAP - 1, the frames the ring holds
          TdLimit,     \* TX_DRAIN_LIMIT
          TdDelays,    \* jitters a relay may get
          TdClockMod   \* tb_millis() counts modulo TdClockMod, 2^32

ASSUME TdAssumption ==
  /\ {TdCap, TdLimit, TdClockMod} \subseteq Nat \ {0}
  /\ TdDelays \subseteq 0 .. TdClockMod - 1

VARIABLES txq,     \* rf_tx_queue
          tdNow,   \* tb_millis()
          tdPass,  \* the running pass: the time it read, the frames it may take
          tdHeld,  \* history: a frame put back although really due
          tdEarly  \* history: a frame let go before it was really due

tdVars == <<txq, tdNow, tdPass, tdHeld, tdEarly>>

TdInit ==
  /\ txq = <<>>
  /\ tdNow \in 0 .. TdClockMod - 1
  /\ tdPass = [at |-> tdNow, take |-> 0]
  /\ tdHeld = FALSE /\ tdEarly = FALSE

\* A relay is queued with its jitter: due_ms = now_ms + delay, and a frame of
\* this node with due_ms = 0.  A full queue drops the frame.
TdQueue(delay) ==
  LET due == (tdNow + delay) % TdClockMod
  IN  /\ tdPass.take = 0
      /\ Len(txq) < TdCap
      /\ txq' = Append(txq, [due |-> due, left |-> delay, waited |-> 0,
                             wrap |-> tdNow + delay >= TdClockMod])
      /\ UNCHANGED <<tdNow, tdPass, tdHeld, tdEarly>>

TdQueueNow ==
  /\ tdPass.take = 0
  /\ Len(txq) < TdCap
  /\ txq' = Append(txq, [due |-> 0, left |-> 0, waited |-> 0, wrap |-> FALSE])
  /\ UNCHANGED <<tdNow, tdPass, tdHeld, tdEarly>>

TdBegin ==
  /\ tdPass.take = 0 /\ txq # <<>>
  /\ tdPass' = [at |-> tdNow, take |-> TdLimit]
  /\ txq' = [i \in DOMAIN txq |->
               [txq[i] EXCEPT !.waited = IF txq[i].due = 0 /\ @ <= TdCap THEN @ + 1 ELSE @]]
  /\ UNCHANGED <<tdNow, tdHeld, tdEarly>>

\* Mutant: a frame is held in the very millisecond it is due.
NotDue_OffByOne(f) == f.due # 0 /\ f.due >= tdPass.at

\* The comparison the jitter gate makes, without regard to the wrap.
NotDue(f) == f.due # 0 /\ f.due > tdPass.at

Taken1 == [tdPass EXCEPT !.take = @ - 1]

\* Mutant: a frame that is not due ends the pass.
TdHold_Break ==
  /\ tdPass.take > 0 /\ txq # <<>>
  /\ NotDue(Head(txq))
  /\ txq' = Append(Tail(txq), Head(txq))
  /\ tdPass' = [tdPass EXCEPT !.take = 0]
  /\ tdHeld' = (tdHeld \/ (Head(txq).left = 0 /\ ~Head(txq).wrap))
  /\ UNCHANGED <<tdNow, tdEarly>>

TdHold ==
  /\ tdPass.take > 0 /\ txq # <<>>
  /\ NotDue(Head(txq))
  /\ txq' = Append(Tail(txq), Head(txq))
  /\ tdPass' = Taken1
  /\ tdHeld' = (tdHeld \/ (Head(txq).left = 0 /\ ~Head(txq).wrap))
  /\ UNCHANGED <<tdNow, tdEarly>>

\* The frame leaves the queue, whatever the gates behind make of it.
TdLeave ==
  /\ tdPass.take > 0 /\ txq # <<>>
  /\ ~NotDue(Head(txq))
  /\ txq' = Tail(txq)
  /\ tdPass' = Taken1
  /\ tdEarly' = (tdEarly \/ (Head(txq).left > 0 /\ ~Head(txq).wrap))
  /\ UNCHANGED <<tdNow, tdHeld>>

TdEmpty ==
  /\ tdPass.take > 0 /\ txq = <<>>
  /\ tdPass' = [tdPass EXCEPT !.take = 0]
  /\ UNCHANGED <<txq, tdNow, tdHeld, tdEarly>>

\* Time passes between passes; at the wrap of the clock the frames that wait
\* have a deadline on the other side of it.
TdTick ==
  /\ tdPass.take = 0
  /\ tdNow' = (tdNow + 1) % TdClockMod
  /\ txq' = [i \in DOMAIN txq |->
               [txq[i] EXCEPT !.left = IF @ = 0 THEN 0 ELSE @ - 1,
                              !.wrap = @ \/ (tdNow' = 0 /\ txq[i].due # 0)]]
  /\ UNCHANGED <<tdPass, tdHeld, tdEarly>>

TdNext ==
  \/ \E d \in TdDelays : TdQueue(d)
  \/ TdQueueNow \/ TdBegin \/ TdHold \/ TdLeave \/ TdEmpty \/ TdTick

-----------------------------------------------------------------------------
TdTypeOK ==
  /\ Len(txq) <= TdCap
  /\ {f.due : f \in ToSet(txq)} \cup {tdNow, tdPass.at} \subseteq 0 .. TdClockMod - 1
  /\ tdPass.take \in 0 .. TdLimit

(***************************************************************************)
(* No head-of-line blocking: however many frames wait for their jitter, a  *)
(* frame to be sent at once leaves within the passes it takes to go once   *)
(* through a full ring (tx_drain_loop, "do NOT break").                    *)
(***************************************************************************)
ImmediateLeaves ==
  \A f \in ToSet(txq) :
    f.due = 0 => f.waited <= (TdCap + TdLimit - 1) \div TdLimit

(***************************************************************************)
(* The jitter gate neither holds a frame past its due time nor lets it go  *)
(* early, as long as the clock does not wrap between the decision to relay *)
(* and the transmission; across the wrap the plain comparison of due_ms    *)
(* with the time of the pass does both.                                    *)
(***************************************************************************)
JitterKept == ~tdHeld /\ ~tdEarly
=============================================================================
