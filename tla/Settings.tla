------------------------------ MODULE Settings ------------------------------
(***************************************************************************)
(* The settings an operator gives a node over the command line or the BLE  *)
(* companion: kept in RAM, stored as a pair of keys, loaded at the next    *)
(* start.  The three groups of two keys - callsign and network id,         *)
(* latitude and longitude, the sensor intervals - share nothing, so one is *)
(* followed at a time.  A value stands for what is typed; 0 is an absent   *)
(* key and the compile-time default a node then runs with.                 *)
(***************************************************************************)
EXTENDS Naturals

CONSTANTS StStores,  \* stores the builds have, of "esp32", "rp2040" and "none"
          StValues,  \* values an operator may give
          StFloor    \* the lowest sensor interval a node accepts

ASSUME StAssumption ==
  /\ StStores \subseteq {"esp32", "rp2040", "none"}
  /\ StValues \subseteq Nat \ {0} /\ StFloor \in StValues

VARIABLES stStore,  \* what lies under nvs_open on this build
          stGroup,  \* the group followed
          stRam,    \* g_callsign, g_net_id, g_node_lat_e7, g_node_lon_e7, s_cfg
          stNvs,    \* the stored keys
          stSaid    \* history: the value last confirmed to the operator, if nothing since
                    \* has been reported or may have been lost

stVars == <<stStore, stGroup, stRam, stNvs, stSaid>>

StKeys == {1, 2}     \* of the group: the one written first and the other
Unset == [k \in StKeys |-> 0]
Unknown == 99
NothingSaid == [k \in StKeys |-> Unknown]

StInit ==
  /\ stStore \in StStores /\ stGroup \in {"identity", "position", "sensor"}
  /\ stRam = Unset /\ stNvs = Unset /\ stSaid = NothingSaid

-----------------------------------------------------------------------------
\* What a key may hold after one nvs_set, by whether it succeeded: on the RP2040 the
\* file is opened for writing first, so a short write leaves it unreadable.
AfterSet(k, value, ok) ==
  IF ok THEN {value} ELSE {stNvs[k]} \cup (IF stStore = "rp2040" THEN {0} ELSE {})

\* Until the commit the ESP32 may have written a key or not; the RP2040 has nothing
\* to commit.
AfterPut(k, value, ok, committed) ==
  IF stStore = "esp32" /\ ~committed THEN {stNvs[k], value} ELSE AfterSet(k, value, ok)

\* Mutant: the second nvs_set overwrites the outcome of the first.
BothSet_LastOnly(oks) == oks[2]

\* Both keys are attempted and one failure fails the store.
BothSet(oks) == \A k \in StKeys : oks[k]

\* The common shape of the three stores: open, set both, commit if both were set.
\* kept tells whether the keys are certainly stored.
Put(want, opens, oks, commits) ==
  /\ opens => stStore # "none"
  /\ commits \/ stStore = "esp32"
  /\ IF ~opens THEN UNCHANGED stNvs
     ELSE stNvs' \in {f \in [StKeys -> StValues \cup {0}] :
            \A k \in StKeys : f[k] \in AfterPut(k, want[k], oks[k], BothSet(oks) /\ commits)}

Answer(ok, want) == stSaid' = IF ok THEN want ELSE NothingSaid

\* rivr_nvs_store_identity behind "set callsign", "set netid" and their companion
\* commands: RAM changes first, both keys are written.
SetIdentity(k, value, opens, oks, commits) ==
  LET want == [stRam EXCEPT ![k] = value] IN
  /\ stGroup = "identity"
  /\ stRam' = want
  /\ Put(want, opens, oks, commits)
  /\ Answer(opens /\ BothSet(oks) /\ commits, want)

\* rivr_nvs_store_position: the command line changes RAM only when all was stored, the
\* companion has changed it before.
SetPosition(want, companion, opens, oks, commits) ==
  LET stored == opens /\ BothSet(oks) /\ commits IN
  /\ stGroup = "position"
  /\ stRam' = IF stored \/ companion THEN want ELSE stRam
  /\ Put(want, opens, oks, commits)
  /\ Answer(stored, want)

\* rivr_nvs_clear_position ignores an erase that fails, and the companion ignores its
\* result: what is confirmed although it did not happen counts as nothing said.
ClearPosition(companion, opens, oks, commits) ==
  /\ stGroup = "position"
  /\ opens => stStore # "none"
  /\ commits \/ stStore = "esp32"
  /\ stRam' = IF opens \/ companion THEN Unset ELSE stRam
  /\ IF ~opens THEN UNCHANGED stNvs
     ELSE stNvs' \in {f \in [StKeys -> StValues \cup {0}] :
            \A k \in StKeys : f[k] \in IF oks[k] /\ commits THEN {0}
                                       ELSE IF oks[k] THEN {0, stNvs[k]} ELSE {stNvs[k]}}
  /\ Answer(opens /\ commits /\ \A k \in StKeys : oks[k], Unset)

\* sensors_set_config raises a value below the floor; the command line refuses it before.
Clamped(want) == [k \in StKeys |-> IF want[k] < StFloor THEN StFloor ELSE want[k]]

\* sensors_nvs_save reports the two writes but not the commit, so only a commit that
\* succeeds counts as said.
SetSensor(want, companion, opens, oks, commits) ==
  /\ stGroup = "sensor"
  /\ companion \/ \A k \in StKeys : want[k] >= StFloor
  /\ stRam' = Clamped(want)
  /\ Put(Clamped(want), opens, oks, commits)
  /\ Answer(opens /\ BothSet(oks) /\ commits, Clamped(want))

-----------------------------------------------------------------------------
\* What a start finds: a key that cannot be read leaves the default; only the ESP32
\* main loads the sensor intervals, and it drops one below the floor.
LoadedKeys(nvs) ==
  IF stGroup # "sensor" THEN nvs
  ELSE [k \in StKeys |-> IF stStore = "esp32" /\ nvs[k] >= StFloor THEN nvs[k] ELSE 0]

\* load_node_identity and sensors_nvs_load.
Restart ==
  /\ stRam' = LoadedKeys(stNvs)
  /\ stSaid' = IF stGroup = "sensor" /\ stStore # "esp32" THEN NothingSaid ELSE stSaid
  /\ UNCHANGED stNvs

\* platform_init on the ESP32 erases a store it cannot mount.
RestartErased ==
  /\ stStore = "esp32"
  /\ stRam' = Unset /\ stNvs' = Unset /\ stSaid' = NothingSaid

\* Power is lost between the two writes of a store, or the two erases of a position:
\* the first key is new.
CutStore(value) ==
  /\ stStore # "none"
  /\ stGroup = "sensor" => value >= StFloor
  /\ value = 0 => stGroup = "position"
  /\ stNvs' = [stNvs EXCEPT ![1] = value]
  /\ stRam' = LoadedKeys(stNvs')
  /\ stSaid' = NothingSaid

\* A line of the command line, and a packet of the companion once its session began.
Command(companion, opens, oks, commits) ==
  \/ \E k \in StKeys, value \in StValues : SetIdentity(k, value, opens, oks, commits)
  \/ \E want \in [StKeys -> StValues] :
       \/ SetPosition(want, companion, opens, oks, commits)
       \/ SetSensor(want, companion, opens, oks, commits)
  \/ ClearPosition(companion, opens, oks, commits)

CliLine(opens, oks, commits) == Command(FALSE, opens, oks, commits)
CompanionPacket(opens, oks, commits) == Command(TRUE, opens, oks, commits)

StNext ==
  /\ UNCHANGED <<stStore, stGroup>>
  /\ \/ \E opens, commits \in BOOLEAN, oks \in [StKeys -> BOOLEAN] :
          CliLine(opens, oks, commits) \/ CompanionPacket(opens, oks, commits)
     \/ Restart \/ RestartErased
     \/ \E value \in StValues \cup {0} : CutStore(value)

-----------------------------------------------------------------------------
StTypeOK ==
  /\ stRam \in [StKeys -> StValues \cup {0}] /\ stNvs \in [StKeys -> StValues \cup {0}]
  /\ stSaid \in [StKeys -> StValues \cup {0, Unknown}]

\* A setting confirmed to the operator is the one the node runs with and has stored,
\* through later changes of the other key and through restarts, until a command
\* fails or power is lost inside one (rivr_embed.c:174-233, sensors.c:267-304).
AnsweredKept ==
  \A k \in StKeys : stSaid[k] # Unknown => stNvs[k] = stSaid[k] /\ stRam[k] = stSaid[k]
=============================================================================
