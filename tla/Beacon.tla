------------------------------- MODULE Beacon -------------------------------
(***************************************************************************)
(* beacon_sched.c, driven by beacon_sink_cb on the events of a timer: a    *)
(* boot beacon, a startup burst, then beacons at least an interval and a   *)
(* jitter apart, held back while enough neighbours are live.               *)
(***************************************************************************)
EXTENDS Naturals

CONSTANTS BcMod,        \* tb_millis() counts modulo BcMod, 2^32
          BcIntervals,  \* values beacon_interval_ms may be set to
          BcJitters,    \* the jitters entropy may give
          BcWindow,     \* BEACON_STARTUP_WINDOW_MS
          BcStartup     \* BEACON_STARTUP_COUNT

ASSUME BcAssumption ==
  /\ {BcMod, BcWindow, BcStartup} \subseteq Nat \ {0}
  /\ BcIntervals \subseteq Nat /\ BcJitters \subseteq Nat
  /\ \A i \in BcIntervals, j \in BcJitters : i + j < BcMod

VARIABLES beacon,   \* s_beacon_sched
          bcNow,    \* tb_millis()
          bcGap     \* history: time since the last beacon; one came too soon

bcVars == <<beacon, bcNow, bcGap>>

BcAge(at) == (bcNow + BcMod - at) % BcMod

\* rivr_sinks_init: beacon_sched_set_initial_tx and the boot beacon.
BcInit ==
  /\ bcNow \in 0 .. BcMod - 1
  /\ beacon = [last |-> bcNow, min |-> 0, count |-> 0, done |-> FALSE]
  /\ bcGap = [since |-> 0, tooSoon |-> FALSE]

\* Mutant: the gap is measured with the clock, not with a difference.
GapOver_NoWrap == beacon.last = 0 \/ bcNow >= beacon.last + beacon.min \/ bcNow < beacon.last

\* The gap beacon_sched_tick asks for; a last beacon at time 0 counts as none.
GapOver == beacon.last = 0 \/ BcAge(beacon.last) >= beacon.min

StartupOver == beacon.done \/ bcNow >= BcWindow \/ beacon.count >= BcStartup

BeaconSent(b, interval, jitter) ==
  [b EXCEPT !.last = bcNow, !.min = interval + jitter]

BeaconStartup(interval, jitter) ==
  /\ ~StartupOver
  /\ beacon' = BeaconSent([beacon EXCEPT !.count = @ + 1,
                                         !.done = beacon.count + 1 >= BcStartup],
                          interval, jitter)
  /\ bcGap' = [bcGap EXCEPT !.since = 0]
  /\ UNCHANGED bcNow

BeaconScheduled(interval, jitter) ==
  /\ StartupOver
  /\ GapOver
  /\ beacon' = BeaconSent([beacon EXCEPT !.done = TRUE], interval, jitter)
  /\ bcGap' = [since |-> 0,
               tooSoon |-> bcGap.tooSoon \/ (bcGap.since < beacon.min /\ beacon.last # 0)]
  /\ UNCHANGED bcNow

\* Enough live neighbours, or too early.
BeaconSuppressed ==
  /\ StartupOver
  /\ beacon' = [beacon EXCEPT !.done = TRUE]
  /\ UNCHANGED <<bcNow, bcGap>>

BcTick ==
  /\ bcNow' = (bcNow + 1) % BcMod
  /\ bcGap' = [bcGap EXCEPT !.since = IF @ < BcMod THEN @ + 1 ELSE @]
  /\ UNCHANGED beacon

BcNext ==
  \/ \E i \in BcIntervals, j \in BcJitters : BeaconStartup(i, j) \/ BeaconScheduled(i, j)
  \/ BeaconSuppressed \/ BcTick

-----------------------------------------------------------------------------
BcTypeOK ==
  /\ beacon.count \in 0 .. BcStartup /\ beacon.done \in BOOLEAN
  /\ {beacon.last, beacon.min, bcNow} \subseteq 0 .. BcMod - 1

(***************************************************************************)
(* After the startup phase two beacons are at least the interval and the   *)
(* jitter drawn with the first one apart, across the wrap of the clock and *)
(* whatever the interval is set to meanwhile; except after a beacon sent   *)
(* when the clock read 0, which beacon_sched.c takes for none (line 66).   *)
(***************************************************************************)
BeaconsSpaced == ~bcGap.tooSoon
=============================================================================
