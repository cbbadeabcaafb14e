------------------------------ MODULE Sensors ------------------------------
(***************************************************************************)
(* sensors_tick and the drivers under it: a heartbeat or a reading that    *)
(* moved triggers a bundle; the AM2302 and the battery are read at once,   *)
(* the DS18B20 a conversion later, and then the bundle goes out.  The main *)
(* loop may stall, so the time between two ticks varies.                   *)
(***************************************************************************)
EXTENDS Naturals, FiniteSets

CONSTANTS SnMod,       \* tb_millis() counts modulo SnMod, 2^32
          SnSteps,     \* times between two ticks of the loop (bound)
          SnTx, SnDelta,  \* what sensors_set_config may be given
          TxFloor,     \* its lower bound on tx_ms
          DeltaFloor,  \* its lower bound on min_delta_ms
          AmInterval,  \* RIVR_AM2302_MIN_INTERVAL_MS
          ConvTime     \* DS18B20_CONV_TIME_MS

ASSUME SnAssumption ==
  /\ {SnMod, TxFloor, DeltaFloor, AmInterval, ConvTime} \subseteq Nat \ {0}
  /\ SnSteps \subseteq Nat \ {0} /\ SnTx \cup SnDelta \subseteq Nat

VARIABLES sens,      \* the statics of sensors.c and its drivers
          snNow,     \* tb_millis()
          snFitted   \* the sensors compiled in: RIVR_FEATURE_*

snVars == <<sens, snNow, snFitted>>

\* What the hardware answers in one tick; what is not fitted is silent, and a
\* value that is not read has not moved.
SnAnswers ==
  {in \in [amRead : BOOLEAN, amMoved : BOOLEAN, vbatUp : BOOLEAN, vbatMoved : BOOLEAN,
            dsThere : BOOLEAN, dsCrc : BOOLEAN] :
     /\ in.amRead => "am2302" \in snFitted
     /\ in.amMoved => in.amRead
     /\ in.vbatUp \/ in.vbatMoved => "vbat" \in snFitted
     /\ in.dsThere => "ds18b20" \in snFitted
     /\ in.dsCrc => in.dsThere}

SnConfigs == [tx : SnTx, delta : SnDelta]

SnClamped(c) == [tx |-> IF c.tx >= TxFloor THEN c.tx ELSE TxFloor,
                 delta |-> IF c.delta >= DeltaFloor THEN c.delta ELSE DeltaFloor]

SnBoot(config) ==
  [started |-> FALSE, trigger |-> 0, readings |-> {}, pending |-> FALSE,
   amKnown |-> FALSE, vbatKnown |-> FALSE, amAt |-> 0,
   ds |-> "idle", dsAt |-> 0, config |-> config, old |-> FALSE]

SnInit ==
  /\ snNow \in 0 .. SnMod - 1
  /\ snFitted \in SUBSET {"am2302", "vbat", "ds18b20"} \ {{}}
  /\ sens \in {SnBoot(SnClamped(c)) : c \in SnConfigs}

SnAge(now, at) == (now + SnMod - at) % SnMod

-----------------------------------------------------------------------------
\* am2302_tick reads only when its interval is over; 0 stands for never.
AmDue(s, now) == "am2302" \in snFitted /\ (s.amAt = 0 \/ SnAge(now, s.amAt) >= AmInterval)

SendBundle(s) ==
  IF s.readings = {} THEN s ELSE [s EXCEPT !.readings = {}, !.pending = FALSE]

\* The delta check of a tick: it reads the AM2302, which uses up its interval.
DeltaCheck(s, in, now) ==
  LET am == AmDue(s, now)
      moved == \/ am /\ in.amRead /\ s.amKnown /\ in.amMoved
               \/ "vbat" \in snFitted /\ s.vbatKnown /\ in.vbatMoved
  IN  [moved |-> moved, s |-> IF am THEN [s EXCEPT !.amAt = now] ELSE s]

\* Mutant: a conversion that is running counts as started.
StartConversion_Running(s, in, now) ==
  IF s.ds = "converting" THEN [s EXCEPT !.pending = TRUE]
  ELSE IF ~in.dsThere THEN SendBundle([s EXCEPT !.ds = "error"])
  ELSE [s EXCEPT !.ds = "converting", !.dsAt = now, !.pending = TRUE]

\* ds18b20_start_conversion, and the bundle sent at once when it refuses.
StartConversion(s, in, now) ==
  IF s.ds = "converting" THEN SendBundle(s)
  ELSE IF ~in.dsThere THEN SendBundle([s EXCEPT !.ds = "error"])
  ELSE [s EXCEPT !.ds = "converting", !.dsAt = now, !.pending = TRUE]

\* The trigger block: a bundle still waiting is dropped for the new one.
SnTrigger(s, in, now) ==
  LET am == AmDue(s, now) /\ in.amRead
      vbat == "vbat" \in snFitted /\ in.vbatUp
      t == [s EXCEPT !.trigger = now, !.pending = FALSE,
                     !.readings = (IF am THEN {"rh", "temp"} ELSE {})
                                    \cup (IF vbat THEN {"vbat"} ELSE {}),
                     !.amAt = IF AmDue(s, now) THEN now ELSE @,
                     !.amKnown = @ \/ am, !.vbatKnown = @ \/ vbat]
  IN  IF "ds18b20" \in snFitted THEN StartConversion(t, in, now) ELSE SendBundle(t)

\* ds18b20_tick.
DsAdvanced(s, in, now) ==
  IF s.ds # "converting" \/ SnAge(now, s.dsAt) < ConvTime THEN s
  ELSE [s EXCEPT !.ds = IF in.dsThere /\ in.dsCrc THEN "ready" ELSE "error"]

\* Mutant: a failed conversion is waited for.
DsCollected_NoError(s) ==
  IF s.pending /\ s.ds = "ready"
  THEN SendBundle([s EXCEPT !.readings = @ \cup {"ds18b20"}, !.ds = "idle",
                            !.old = @ \/ s.dsAt # s.trigger])
  ELSE s

\* The end of the tick: the reading, or the error, that the bundle waits for.
DsCollected(s) ==
  IF s.pending /\ s.ds = "ready"
  THEN SendBundle([s EXCEPT !.readings = @ \cup {"ds18b20"}, !.ds = "idle",
                            !.old = @ \/ s.dsAt # s.trigger])
  ELSE IF s.pending /\ s.ds = "error" THEN SendBundle(s)
  ELSE s

SnTick(step, in) ==
  LET now == (snNow + step) % SnMod
      s == IF sens.started THEN sens ELSE [sens EXCEPT !.started = TRUE, !.trigger = now]
      elapsed == SnAge(now, s.trigger)
      heartbeat == elapsed >= s.config.tx
      check == IF ~heartbeat /\ elapsed >= s.config.delta
               THEN DeltaCheck(s, in, now) ELSE [moved |-> FALSE, s |-> s]
      after == IF heartbeat \/ check.moved THEN SnTrigger(check.s, in, now) ELSE check.s
  IN  /\ snNow' = now
      /\ sens' = DsCollected(DsAdvanced(after, in, now))
      /\ UNCHANGED snFitted

\* sensors_set_config, from the command line.
SnConfigure(c) ==
  /\ sens' = [sens EXCEPT !.config = SnClamped(c)]
  /\ UNCHANGED <<snNow, snFitted>>

SnNext ==
  \/ \E step \in SnSteps, in \in SnAnswers : SnTick(step, in)
  \/ \E c \in SnConfigs : SnConfigure(c)

-----------------------------------------------------------------------------
SnTypeOK ==
  /\ sens.ds \in {"idle", "converting", "ready", "error"}
  /\ sens.readings \subseteq {"rh", "temp", "vbat"}
  /\ {snNow, sens.trigger, sens.amAt, sens.dsAt} \subseteq 0 .. SnMod - 1

\* However long the loop stalls, and whichever sensor fails, a bundle that has
\* readings waits for a conversion that runs and is not overdue, and for the one
\* its own trigger started: no reading is sent under the time of another trigger
\* (sensors.c:399-468, sensor_ds18b20.c:183-260).
BundlesTimely ==
  /\ ~sens.old
  /\ sens.readings # {} =>
       /\ sens.pending /\ sens.ds = "converting" /\ sens.dsAt = sens.trigger
       /\ SnAge(snNow, sens.dsAt) < ConvTime
=============================================================================
