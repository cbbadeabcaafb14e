------------------------------- MODULE NodeMC -------------------------------
(***************************************************************************)
(* The parts of a node between the RIVR program and the air: the gates and *)
(* budgets a frame passes on its way out, the radio, and the program, its  *)
(* parameters, beacons, channels and sensors.  They share no state but the *)
(* frames and calls that pass between them, so focus is the part that      *)
(* moves and the others rest in an initial state; what the others would do *)
(* to it comes as an input, or does not.                                   *)
(***************************************************************************)
EXTENDS DutyCycle, TxDrain, SendQueue, AirtimeSched, Radio, RelayGates, Links, Fabric,
        Beacon, Origins, Lifecycle, Engine, Sensors, Channels, Settings, Compiler, Display

VARIABLE focus

Parts == {"duty", "drain", "outbox", "airtime", "radio", "gates", "links", "fabric",
          "beacon", "origins", "lifecycle", "engine", "sensors", "channels",
          "settings", "compiler", "display"}

\* The program the engine runs: two sources on the monotonic clock, one on the
\* Lamport clock of the frames heard, with every kind of node that has state.
NodeChains == {<<0, "source", "throttle", "window", "emit">>, <<0, "source", "eager", "emit">>,
               <<1, "source", "delay", "toa", "emit">>}

NodeInit ==
  /\ focus \in Parts
  /\ Init /\ (focus # "duty" => now = 0)
  /\ TdInit /\ (focus # "drain" => tdNow = 0)
  /\ SqInit /\ (focus # "outbox" => sqNow = 0)
  /\ AtInit /\ (focus # "airtime" => atNow = 0)
  /\ RdInit /\ (focus # "radio" => rdNow = 0 /\ driver = CHOOSE d \in Drivers : TRUE)
  /\ RgInit /\ (focus # "gates" => rgNow = 0)
  /\ LnInit /\ (focus # "links" => lnDirect = {} /\ ~lnAirtime /\ lnBase = CHOOSE b \in LnBases : TRUE)
  /\ FaInit /\ (focus # "fabric" => faNow = 0)
  /\ BcInit /\ (focus # "beacon" => bcNow = 0)
  /\ OrInit /\ (focus # "origins" => orNow = 0 /\ orThrottle = CHOOSE ms \in OrThrottles : TRUE)
  /\ LcInit /\ (focus # "lifecycle" => ~hasNvs /\ ~signed)
  /\ EnInit
  /\ SnInit /\ (focus # "sensors" => snNow = 0 /\ snFitted = {"vbat"} /\ sens = SnBoot([tx |-> TxFloor, delta |-> DeltaFloor]))
  /\ ChInit
  /\ StInit /\ (focus # "settings" => stStore = "none" /\ stGroup = "sensor")
  /\ GrInit
  /\ DpInit /\ (focus # "display" => dpNow = 0 /\ dpPort = "esp32")

\* The parts out of focus rest.
Rest ==
  /\ UNCHANGED focus
  /\ focus # "duty" => UNCHANGED vars
  /\ focus # "drain" => UNCHANGED tdVars
  /\ focus # "outbox" => UNCHANGED sqVars
  /\ focus # "airtime" => UNCHANGED atVars
  /\ focus # "radio" => UNCHANGED rdVars
  /\ focus # "gates" => UNCHANGED rgVars
  /\ focus # "links" => UNCHANGED lnVars
  /\ focus # "fabric" => UNCHANGED faVars
  /\ focus # "beacon" => UNCHANGED bcVars
  /\ focus # "origins" => UNCHANGED orVars
  /\ focus # "lifecycle" => UNCHANGED lcVars
  /\ focus # "engine" => UNCHANGED enVars
  /\ focus # "sensors" => UNCHANGED snVars
  /\ focus # "channels" => UNCHANGED chVars
  /\ focus # "settings" => UNCHANGED stVars
  /\ focus # "compiler" => UNCHANGED grVars
  /\ focus # "display" => UNCHANGED dpVars

NodeNext ==
  \/ focus = "duty" /\ Next /\ Rest
  \/ focus = "drain" /\ TdNext /\ Rest
  \/ focus = "outbox" /\ SqNext /\ Rest
  \/ focus = "airtime" /\ AtNext /\ Rest
  \/ focus = "radio" /\ RdNext /\ Rest
  \/ focus = "gates" /\ RgNext /\ Rest
  \/ focus = "links" /\ LnNext /\ Rest
  \/ focus = "fabric" /\ FaNext /\ Rest
  \/ focus = "beacon" /\ BcNext /\ Rest
  \/ focus = "origins" /\ OrNext /\ Rest
  \/ focus = "lifecycle" /\ LcNext /\ Rest
  \/ focus = "engine" /\ EnNext /\ Rest
  \/ focus = "sensors" /\ SnNext /\ Rest
  \/ focus = "channels" /\ ChNext /\ Rest
  \/ focus = "settings" /\ StNext /\ Rest
  \/ focus = "compiler" /\ GrNext /\ Rest
  \/ focus = "display" /\ DpNext /\ Rest

NodeSpec ==
  NodeInit /\ [][NodeNext]_<<vars, tdVars, sqVars, atVars, rdVars, rgVars, lnVars, faVars, bcVars, orVars, lcVars,
                             enVars, snVars, chVars, stVars, grVars, dpVars, focus>>

-----------------------------------------------------------------------------
\* The counters, clocks, queues and tables of the part that moves keep their types; the
\* others keep those of their initial states.
TypesOK ==
  /\ focus = "duty" => TypeOK
  /\ focus = "drain" => TdTypeOK
  /\ focus = "outbox" => SqTypeOK
  /\ focus = "airtime" => AtTypeOK
  /\ focus = "radio" => RdTypeOK
  /\ focus = "gates" => RgTypeOK
  /\ focus = "links" => LnTypeOK
  /\ focus = "fabric" => FaTypeOK
  /\ focus = "beacon" => BcTypeOK
  /\ focus = "origins" => OrTypeOK
  /\ focus = "lifecycle" => LcTypeOK
  /\ focus = "engine" => EnTypeOK
  /\ focus = "sensors" => SnTypeOK
  /\ focus = "channels" => ChTypeOK
  /\ focus = "settings" => StTypeOK
  /\ focus = "compiler" => GrTypeOK
  /\ focus = "display" => DpTypeOK

\* The TX queue neither blocks a frame to be sent at once nor misses a due time, and
\* the outbox before it keeps order and expiry (main.c:387-520, send_queue.c:20-133).
TxQueueKept == ImmediateLeaves /\ JitterKept /\ OutboxKept

\* A relay is granted no more than the rates allow, and delayed or dropped by a score
\* that forgets what is past (policy.c:35-110, routing.c:336-386, rivr_fabric.c:60-330).
RelaysKept ==
  (focus = "gates" => RelayRateKept) /\ (focus = "fabric" => CongestionForgotten)

\* What the node sends unasked keeps its distance: beacons, frames of a phone and the
\* timers of the program (beacon_sched.c:40-78, rivr_policy.c:207-238, rivr_sources.c:1161-1212).
OriginsKept == BeaconsSpaced /\ OriginsSpaced

\* The score of a link is one it was heard to deserve, and a relay is silenced or held
\* back by the best of them (neighbor_table.c:70-330, fwd_set.h:127-270).
ScoreKept == focus = "links" => LinksKept

\* A bundle goes out with its own readings, the node sends on a channel it has
\* joined, and the screen keeps its PIN and its pages (sensors.c:399-468,
\* channel.c:206-252, display.c:741-793).
ServicesKept == BundlesTimely /\ DefaultJoined /\ ScreenKept

\* What was confirmed outlives a restart: an update of the program and a setting of the
\* operator (rivr_ota_core.c:60-150, rivr_embed.c:174-233).
ConfirmedKept == UpdatesKept /\ AnsweredKept
=============================================================================
