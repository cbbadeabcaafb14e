------------------------------- MODULE Fabric -------------------------------
(***************************************************************************)
(* firmware_core/rivr_fabric.c: the congestion score of a repeater, from a *)
(* ring of one bucket per second, and the verdict on a frame to relay.     *)
(* The main loop ticks the ring; the RX loop and tx_drain_loop report what *)
(* happened.  A TX pass reports with two clocks: the time it read when it  *)
(* began, and the time after a transmission (main.c lines 451, 498-515).   *)
(*                                                                         *)
(* A bucket holds the weighted sum of its counters.  The clock counts      *)
(* ticks, Sec of them to a second.                                         *)
(***************************************************************************)
EXTENDS Naturals, Sequences, SequencesExt

CONSTANTS FaBuckets,     \* FABRIC_BUCKETS
          Sec,           \* ticks of a second
          FaMod,         \* tb_millis() counts modulo FaMod, 2^32
          FaSecMod,      \* width of the second counter, 2^32
          RxWeight, BlockedWeight, FailWeight,
          LightScore, DelayScore, DropScore, GuardScore,
          FaDrain,       \* TX_DRAIN_LIMIT
          FaLoadMax      \* bound: weight reported within one tick

ASSUME FaAssumption ==
  /\ {FaBuckets, Sec, FaMod, FaSecMod} \subseteq Nat \ {0}
  \* The second counter is far from its wrap, and a pass takes far less than a cycle.
  /\ FaMod + FaBuckets * Sec <= FaSecMod * Sec
  /\ (FaDrain + 3) * Sec <= FaMod
  /\ {RxWeight, BlockedWeight, FailWeight, FaDrain, FaLoadMax,
      LightScore, DelayScore, DropScore, GuardScore} \subseteq Nat
  /\ LightScore <= DelayScore /\ DelayScore <= DropScore /\ DropScore <= GuardScore

VARIABLES fab,      \* s_fab: buckets and last_bucket_sec; s_fabric_last_score
          faNow,    \* tb_millis()
          faPass,   \* the running TX pass: the time it read, the frames it may take
          faLoad    \* history: the weight reported in each of the last ticks,
                    \* newest first

faVars == <<fab, faNow, faPass, faLoad>>

InPass == faPass.left > 0
Ring == 0 .. FaBuckets - 1
Horizon == FaBuckets * Sec
RingTotal(f) == SumFunction(f.buckets)

\* rivr_fabric_init.  The first tick of the main loop has set the second.
FaInit ==
  /\ faNow \in 0 .. FaMod - 1
  /\ fab = [buckets |-> [i \in Ring |-> 0], last |-> faNow \div Sec, score |-> 0]
  /\ faPass = [at |-> faNow, left |-> 0]
  /\ faLoad = [i \in 1 .. Horizon |-> 0]

\* Mutant: the bucket of the new second is not cleared.
FabricAdvance_KeepOne(f, t) ==
  LET sec == t \div Sec
      delta == (sec + FaSecMod - f.last) % FaSecMod
      gone == {(f.last + d) % FaBuckets :
                 d \in 1 .. (IF delta > FaBuckets THEN FaBuckets ELSE delta) - 1}
  IN  IF sec = f.last THEN f
      ELSE [f EXCEPT !.buckets = [i \in Ring |-> IF i \in gone THEN 0 ELSE @[i]],
                     !.last = sec]

\* fabric_advance: the buckets of the seconds since the last call are cleared,
\* all of them when the second went back.
FabricAdvance(f, t) ==
  LET sec == t \div Sec
      delta == (sec + FaSecMod - f.last) % FaSecMod
      gone == {(f.last + d) % FaBuckets :
                 d \in 1 .. (IF delta > FaBuckets THEN FaBuckets ELSE delta)}
  IN  IF sec = f.last THEN f
      ELSE [f EXCEPT !.buckets = [i \in Ring |-> IF i \in gone THEN 0 ELSE @[i]],
                     !.last = sec]

\* fabric_current, and the counter a report raises.
Count(f, t, w) ==
  LET g == FabricAdvance(f, t)
  IN  [g EXCEPT !.buckets[g.last % FaBuckets] = @ + w]

Reported(w) ==
  /\ faLoad[1] + w <= FaLoadMax
  /\ faLoad' = [faLoad EXCEPT ![1] = @ + w]

\* fabric_score, up to its scale.
FabricScore(f, t) == RingTotal(FabricAdvance(f, t))

\* rivr_fabric_decide_relay for a CHAT or DATA frame; other types are sent at
\* once and touch nothing.
Verdict(score) ==
  CASE score >= GuardScore -> "delay"
    [] score >= DropScore /\ score < GuardScore -> "drop"
    [] score >= LightScore /\ score < DropScore -> "delay"
    [] OTHER -> "send"

DecideRelay ==
  /\ ~InPass
  /\ fab' = [FabricAdvance(fab, faNow) EXCEPT !.score = FabricScore(fab, faNow)]
  /\ UNCHANGED <<faNow, faPass, faLoad>>

\* rivr_fabric_on_rx
OnRx ==
  /\ ~InPass
  /\ fab' = Count(fab, faNow, RxWeight)
  /\ Reported(RxWeight)
  /\ UNCHANGED <<faNow, faPass>>

\* tx_drain_loop: the pass reads the clock; refused frames are reported with
\* that time, outcomes of a transmission with the time after it.
PassBegin ==
  /\ ~InPass
  /\ faPass' = [at |-> faNow, left |-> FaDrain]
  /\ UNCHANGED <<fab, faNow, faLoad>>

PassEnd ==
  /\ InPass
  /\ faPass' = [faPass EXCEPT !.left = 0]
  /\ UNCHANGED <<fab, faNow, faLoad>>

FaTaken == InPass /\ faPass' = [faPass EXCEPT !.left = @ - 1]

\* rivr_fabric_on_tx_blocked_dc
OnTxBlocked ==
  /\ FaTaken
  /\ fab' = Count(fab, faPass.at, BlockedWeight)
  /\ Reported(BlockedWeight)
  /\ UNCHANGED faNow

\* rivr_fabric_on_tx_enqueued, then _ok or _fail after the transmission, which
\* takes up to a second.
OnTx(toa, w) ==
  LET end == (faNow + toa) % FaMod
  IN  /\ FaTaken
      /\ fab' = Count(Count(fab, faPass.at, 0), end, w)
      /\ faNow' = end
      /\ faLoad' = SubSeq([i \in 1 .. toa |-> IF i = 1 THEN w ELSE 0] \o faLoad, 1, Horizon)

\* The main loop comes round: rivr_fabric_tick.
FabricTick ==
  /\ ~InPass
  /\ faNow' = (faNow + 1) % FaMod
  /\ fab' = FabricAdvance(fab, faNow')
  /\ faLoad' = SubSeq(<<0>> \o faLoad, 1, Horizon)
  /\ UNCHANGED faPass

FaNext ==
  \/ DecideRelay \/ OnRx \/ PassBegin \/ PassEnd \/ OnTxBlocked
  \/ \E toa \in 1 .. Sec : OnTx(toa, 0) \/ OnTx(toa, FailWeight)
  \/ FabricTick

FaSpec == FaInit /\ [][FaNext]_faVars

-----------------------------------------------------------------------------
FaTypeOK ==
  /\ DOMAIN fab.buckets = Ring /\ \A i \in Ring : fab.buckets[i] \in Nat
  /\ fab.last \in 0 .. FaSecMod - 1 /\ fab.score \in Nat
  /\ faNow \in 0 .. FaMod - 1 /\ faPass.at \in 0 .. FaMod - 1 /\ faPass.left \in 0 .. FaDrain

(***************************************************************************)
(* Congestion is forgotten: what the score adds up was reported within the *)
(* last FABRIC_BUCKETS seconds, wherever the clock wraps and although a TX *)
(* pass reports with a time that has passed (rivr_fabric.c, scenario E of  *)
(* its test plan).                                                         *)
(***************************************************************************)
CongestionForgotten == RingTotal(FabricAdvance(fab, faNow)) <= SumFunction(faLoad)
=============================================================================
