------------------------------- MODULE Radio -------------------------------
(***************************************************************************)
(* The radio drivers of firmware_core: radio_sx1262.c (ESP32, with guarded *)
(* recovery), radio_sx1276.c, radio_sx1262_rp2040.c, radio_sx1262_linux.c, *)
(* radio_sx1262_nrf52.c and radio_lr1110_nrf52.cpp.  The main loop calls   *)
(* radio_service_rx, radio_check_timeouts and radio_transmit one after the *)
(* other; the chip raises its interrupt line, and the interrupt handler    *)
(* sets s_dio1_pending, at any moment in between.                          *)
(*                                                                         *)
(* The interrupt is edge triggered (platform_esp32.c line 66): while an    *)
(* unmasked flag stays set in the chip no further interrupt comes.         *)
(*                                                                         *)
(* rd is the state of one driver and its chip:                             *)
(*   mode, irq, dio   the chip: mode, flags set, flags mapped to the line  *)
(*   edge             an edge of the line the handler has yet to see       *)
(*   pending, inRx    s_dio1_pending, s_in_rx                              *)
(*   lastRx           s_last_rx_event_ms, 0 while unarmed; kept for the    *)
(*                    RP2040 only, the others count a metric with it       *)
(*   fail, spurious, stuck   the three failure streaks, bytes              *)
(*   reset, resetAt   s_reset_happened, s_last_reset_ms                    *)
(*   hard             radio_hard_reset of the metrics, modulo 2            *)
(***************************************************************************)
EXTENDS Naturals, FiniteSets

CONSTANTS Drivers,       \* the drivers checked, a subset of DriverNames
          RdClockMod,    \* tb_millis() counts modulo RdClockMod, 2^32
          Backoff,       \* RADIO_RESET_BACKOFF_MS
          BusyStuckMax,  \* RADIO_BUSY_STUCK_MAX
          TxFailMax,     \* failed transmissions that ask for a reset
          SpuriousMax,   \* spurious interrupts that ask for a reset
          StreakMod,     \* the streaks count modulo StreakMod, 2^8
          Silence,       \* RADIO_RX_SILENCE_MS
          TxLimit        \* longest wait for TxDone: 2 * airtime + 100 ms, or 2 s

DriverNames == {"sx1262", "sx1276", "rp2040", "linux", "nrf52", "lr1110"}

ASSUME RadioAssumption ==
  /\ Drivers \subseteq DriverNames
  /\ {RdClockMod, Backoff, BusyStuckMax, TxFailMax, SpuriousMax, StreakMod,
      Silence, TxLimit} \subseteq Nat \ {0}
  /\ 2 * Backoff < RdClockMod /\ 2 * TxLimit < RdClockMod /\ 2 * Silence < RdClockMod
  /\ TxFailMax < StreakMod /\ SpuriousMax < StreakMod /\ BusyStuckMax < StreakMod

VARIABLES driver,   \* which of the drivers the build links
          rd,       \* its state, see above
          call,     \* the driver function the main loop is in
          rdNow,    \* tb_millis()
          rdLeft,   \* history: the last transmission failed and left its flag set
          rdGap     \* history: time since a reset; two came too close

rdVars == <<driver, rd, call, rdNow, rdLeft, rdGap>>

Flags == {"TxDone", "RxDone", "CrcErr", "Timeout"}
Idle == [op |-> "idle", irq |-> {}, t0 |-> 0]

RdAge(at) == (rdNow + RdClockMod - at) % RdClockMod
Bump(n) == (n + 1) % StreakMod

-----------------------------------------------------------------------------
(***************************************************************************)
(* The flags radio_init maps to the interrupt line.  SetDioIrqParams of    *)
(* the SX1262 drivers enables 0x0203; DIO0 of the SX1276 follows one flag. *)
(***************************************************************************)
Mask_sx1262 == {"TxDone", "RxDone", "Timeout"}
Mask_sx1276 == {"RxDone"}
Mask_rp2040 == Mask_sx1262
Mask_linux == Mask_sx1262
Mask_nrf52 == Mask_sx1262
Mask_lr1110 == Mask_sx1262

Mask == CASE driver = "sx1262" -> Mask_sx1262
          [] driver = "sx1276" -> Mask_sx1276
          [] driver = "rp2040" -> Mask_rp2040
          [] driver = "linux"  -> Mask_linux
          [] driver = "nrf52"  -> Mask_nrf52
          [] driver = "lr1110" -> Mask_lr1110

\* The chip sets flags; the line rises only when no mapped flag was set.
Raise(s, flags) ==
  [s EXCEPT !.irq = @ \cup flags,
            !.edge = @ \/ (s.irq \cap s.dio = {} /\ flags \cap s.dio # {})]

(***************************************************************************)
(* radio_start_rx.  The SX1276 clears its flags and maps DIO0 to RxDone;   *)
(* the others leave flags alone.  startReceive of the LR1110 may fail, and *)
(* then nothing changes.                                                   *)
(***************************************************************************)
StartRx_sx126x(s) == [s EXCEPT !.mode = "rx", !.inRx = TRUE]
StartRx_rp2040(s) == [s EXCEPT !.mode = "rx", !.inRx = TRUE, !.lastRx = rdNow]
StartRx_sx1276(s) == [s EXCEPT !.mode = "rx", !.inRx = TRUE, !.irq = {},
                               !.dio = {"RxDone"}]
StartRx_lr1110(s, ok) == IF ok THEN [s EXCEPT !.mode = "rx", !.inRx = TRUE] ELSE s

StartRx(s) == CASE driver = "sx1276" -> StartRx_sx1276(s)
                [] driver = "lr1110" -> StartRx_lr1110(s, TRUE)
                [] driver = "rp2040" -> StartRx_rp2040(s)
                [] OTHER -> StartRx_sx126x(s)

(***************************************************************************)
(* radio_hard_reset of radio_sx1262.c: chip reset and configured again     *)
(* (radio_apply_config), streaks cleared, reception started.  The pending  *)
(* flag of the interrupt handler stays.                                    *)
(***************************************************************************)
ApplyConfig(s) == [s EXCEPT !.mode = "standby", !.irq = {}, !.dio = Mask]

HardReset(s) ==
  StartRx(ApplyConfig([s EXCEPT !.fail = 0, !.spurious = 0, !.stuck = 0,
                                !.inRx = FALSE, !.hard = 1 - @]))

\* A reset asked for within Backoff of the last one is denied.
Denied(s) == s.reset /\ RdAge(s.resetAt) < Backoff

\* Mutant: the clock readings are compared, not subtracted.
GuardReset_NoWrap(s) ==
  IF s.reset /\ rdNow < s.resetAt + Backoff /\ rdNow >= s.resetAt THEN s
  ELSE HardReset([s EXCEPT !.reset = TRUE, !.resetAt = rdNow])

\* radio_guard_reset
GuardReset(s) ==
  IF Denied(s) THEN s
  ELSE HardReset([s EXCEPT !.reset = TRUE, !.resetAt = rdNow])

-----------------------------------------------------------------------------
\* radio_init, then the radio_start_rx at the end of the boot.
RdInit ==
  /\ driver \in Drivers
  /\ rdNow \in 0 .. RdClockMod - 1
  /\ rd = StartRx(ApplyConfig(
            [mode |-> "standby", irq |-> {}, dio |-> {}, edge |-> FALSE,
             pending |-> FALSE, inRx |-> FALSE, lastRx |-> 0, fail |-> 0,
             spurious |-> 0, stuck |-> 0, reset |-> FALSE, resetAt |-> 0,
             hard |-> 0]))
  /\ call = Idle
  /\ rdLeft = FALSE
  /\ rdGap = [since |-> Backoff, tooSoon |-> FALSE]

-----------------------------------------------------------------------------
(***************************************************************************)
(* The chip and the interrupt handler.                                     *)
(***************************************************************************)
\* A frame ends in continuous reception, with or without a CRC error.
ChipRxDone(crc) ==
  /\ rd.mode = "rx"
  /\ rd' = Raise(rd, {"RxDone"} \cup crc)
  /\ UNCHANGED <<call, rdLeft>>

ChipTxDone ==
  /\ rd.mode = "tx"
  /\ rd' = Raise([rd EXCEPT !.mode = "standby"], {"TxDone"})
  /\ UNCHANGED <<call, rdLeft>>

\* SetTx carries a timeout in two of the drivers only.
ChipTxTimeout ==
  /\ rd.mode = "tx" /\ driver \in {"sx1262", "rp2040"}
  /\ rd' = Raise([rd EXCEPT !.mode = "standby"], {"Timeout"})
  /\ UNCHANGED <<call, rdLeft>>

\* An edge on the line although no flag is set.
ChipGlitch ==
  /\ ~rd.edge
  /\ rd' = [rd EXCEPT !.edge = TRUE]
  /\ UNCHANGED <<call, rdLeft>>

\* radio_isr: it only sets the flag.
Isr ==
  /\ rd.edge
  /\ rd' = [rd EXCEPT !.edge = FALSE, !.pending = TRUE]
  /\ UNCHANGED <<call, rdLeft>>

-----------------------------------------------------------------------------
(***************************************************************************)
(* radio_service_rx: test and clear the flag, read the chip's flags, clear *)
(* the ones read, act on them.  Only radio_sx1262.c tests and clears in    *)
(* one critical section.                                                   *)
(***************************************************************************)
ServiceTest ==
  /\ call.op = "idle" /\ rd.pending
  /\ IF driver = "sx1262"
       THEN /\ rd' = [rd EXCEPT !.pending = FALSE]
            /\ call' = [Idle EXCEPT !.op = "read"]
       ELSE /\ UNCHANGED rd
            /\ call' = [Idle EXCEPT !.op = "claim"]
  /\ UNCHANGED rdLeft

ServiceClaim ==
  /\ call.op = "claim"
  /\ rd' = [rd EXCEPT !.pending = FALSE]
  /\ call' = [call EXCEPT !.op = "read"]
  /\ UNCHANGED rdLeft

ServiceRead ==
  /\ call.op = "read"
  /\ call' = [call EXCEPT !.op = "act", !.irq = rd.irq]
  /\ UNCHANGED <<rd, rdLeft>>

Cleared(flags) == [rd EXCEPT !.irq = @ \ flags]

\* What the flags read make of the state s; empty: a payload of length 0.
Act_sx1262(s, flags, empty) ==
  LET streak == [s EXCEPT !.spurious = Bump(@)]
  IN  CASE flags \cap {"TxDone", "RxDone"} = {} ->
             IF streak.spurious >= SpuriousMax THEN GuardReset(streak) ELSE streak
        [] "RxDone" \in flags -> [s EXCEPT !.spurious = 0]
        [] OTHER -> s

Act_sx1276(s, flags, empty) == s

Act_rp2040(s, flags, empty) ==
  CASE "RxDone" \notin flags -> StartRx(s)
    [] "CrcErr" \in flags -> s
    [] OTHER -> IF empty THEN StartRx(s) ELSE [s EXCEPT !.lastRx = rdNow]

\* The flag these two drivers take for a timeout, 0x0040, is the CRC error.
Act_linux(s, flags, empty) ==
  IF ("RxDone" \in flags /\ empty) \/ "CrcErr" \in flags THEN StartRx(s) ELSE s

Act_nrf52(s, flags, empty) ==
  IF ("RxDone" \in flags /\ empty) \/ "CrcErr" \in flags THEN StartRx(s) ELSE s

\* Always back to reception, whatever the library read.
Act_lr1110(s, flags, empty) == StartRx(s)

Act(s, flags, empty) ==
  CASE driver = "sx1262" -> Act_sx1262(s, flags, empty)
    [] driver = "sx1276" -> Act_sx1276(s, flags, empty)
    [] driver = "rp2040" -> Act_rp2040(s, flags, empty)
    [] driver = "linux"  -> Act_linux(s, flags, empty)
    [] driver = "nrf52"  -> Act_nrf52(s, flags, empty)
    [] driver = "lr1110" -> Act_lr1110(s, flags, empty)

\* Mutant: the pending flag is cleared at the end of the service.
ServiceAct_ClearLast(empty) ==
  /\ call.op = "act"
  /\ rd' = [Act(Cleared(call.irq), call.irq, empty) EXCEPT !.pending = FALSE]
  /\ call' = Idle
  /\ UNCHANGED rdLeft

ServiceAct(empty) ==
  /\ call.op = "act"
  /\ rd' = Act(Cleared(call.irq), call.irq, empty)
  /\ call' = Idle
  /\ UNCHANGED rdLeft

-----------------------------------------------------------------------------
(***************************************************************************)
(* radio_transmit: prepare the chip and start, then poll for the outcome.  *)
(***************************************************************************)
\* radio_sx1262.c alone looks at what wait_busy returns.
TransmitStalls ==
  LET s == [rd EXCEPT !.stuck = Bump(@)]
  IN  /\ call.op = "idle" /\ driver = "sx1262"
      /\ rd' = IF s.stuck >= BusyStuckMax THEN GuardReset([s EXCEPT !.stuck = 0]) ELSE s
      /\ UNCHANGED <<call, rdLeft>>

Arm_sx1262(s) == [s EXCEPT !.mode = "tx", !.irq = {}, !.inRx = FALSE, !.stuck = 0]
Arm_sx1276(s) == [s EXCEPT !.mode = "tx", !.irq = {}, !.inRx = FALSE, !.dio = {"TxDone"}]
Arm_rp2040(s) == [s EXCEPT !.mode = "tx", !.irq = {}]
Arm_linux(s) == [s EXCEPT !.mode = "tx", !.irq = {}]
Arm_nrf52(s) == [s EXCEPT !.mode = "tx", !.irq = {}]
Arm_lr1110(s) == [s EXCEPT !.mode = "tx", !.irq = {}, !.inRx = FALSE, !.pending = FALSE]

Arm(s) == CASE driver = "sx1262" -> Arm_sx1262(s)
            [] driver = "sx1276" -> Arm_sx1276(s)
            [] driver = "rp2040" -> Arm_rp2040(s)
            [] driver = "linux"  -> Arm_linux(s)
            [] driver = "nrf52"  -> Arm_nrf52(s)
            [] driver = "lr1110" -> Arm_lr1110(s)

TransmitStart ==
  /\ call.op = "idle"
  /\ rd' = Arm(rd)
  /\ call' = [op |-> "tx", irq |-> {}, t0 |-> rdNow]
  /\ rdLeft' = FALSE

\* The ESP32 drivers compare the clock with a sum that wraps; the others
\* compare an unsigned difference.
DeadlineOver ==
  IF driver \in {"sx1262", "sx1276"} THEN rdNow >= (call.t0 + TxLimit) % RdClockMod
  ELSE RdAge(call.t0) > TxLimit

\* TxDone: the flags are cleared and reception starts again.
TransmitDone ==
  /\ call.op = "tx" /\ "TxDone" \in rd.irq
  /\ driver \in {"sx1262", "sx1276"} => ~DeadlineOver
  /\ rd' = StartRx([rd EXCEPT !.irq = {}, !.fail = 0])
  /\ call' = Idle
  /\ UNCHANGED rdLeft

\* Mutant: reception is not started after a failure that needs no reset.
TxFailed_NoRx(s) == IF s.fail >= TxFailMax THEN GuardReset(s) ELSE s

\* The third failure in a row asks for a reset; when that is denied nothing
\* starts reception.
TxFailed(s) == IF s.fail >= TxFailMax THEN GuardReset(s) ELSE StartRx(s)

\* The chip's own timeout; radio_sx1262.c leaves its flag to the next service.
TransmitTimeout ==
  /\ call.op = "tx" /\ driver = "sx1262"
  /\ "Timeout" \in rd.irq /\ ~DeadlineOver
  /\ rd' = TxFailed([rd EXCEPT !.fail = Bump(@)])
  /\ call' = Idle
  /\ rdLeft' = (rd'.irq # {})

\* The deadline of the poll loop.
TransmitDeadline ==
  /\ call.op = "tx" /\ DeadlineOver
  /\ rd' = IF driver = "sx1262" THEN TxFailed([rd EXCEPT !.fail = Bump(@)])
           ELSE StartRx(rd)
  /\ call' = Idle
  /\ rdLeft' = (rd'.irq # {})

\* LR1110: the library reports an error, or reception does not start again.
TransmitFails_lr1110(ok) ==
  /\ call.op = "tx" /\ driver = "lr1110"
  /\ rd' = StartRx_lr1110([rd EXCEPT !.mode = "standby", !.irq = {}], ok)
  /\ call' = Idle
  /\ UNCHANGED rdLeft

-----------------------------------------------------------------------------
\* radio_check_timeouts: the others only count silence.
CheckTimeouts ==
  /\ call.op = "idle" /\ driver = "rp2040"
  /\ \/ rd.lastRx = 0 /\ rdNow # 0 /\ rd' = [rd EXCEPT !.lastRx = rdNow]
     \/ /\ rd.lastRx # 0 /\ rd.inRx /\ RdAge(rd.lastRx) >= Silence
        /\ rd' = StartRx(rd)
  /\ UNCHANGED <<call, rdLeft>>

MainLoop ==
  \/ ServiceTest \/ ServiceClaim \/ ServiceRead
  \/ \E empty \in BOOLEAN : ServiceAct(empty)
  \/ TransmitDone \/ TransmitTimeout \/ TransmitDeadline
  \/ \E ok \in BOOLEAN : TransmitFails_lr1110(ok)
  \/ TransmitStart \/ TransmitStalls
  \/ CheckTimeouts

Chip ==
  \/ \E crc \in SUBSET {"CrcErr"} : ChipRxDone(crc)
  \/ ChipTxDone \/ ChipTxTimeout \/ ChipGlitch

\* Time passes between and inside the calls.
RdTick ==
  /\ rdNow' = (rdNow + 1) % RdClockMod
  /\ rdGap' = [rdGap EXCEPT !.since = IF @ < Backoff THEN @ + 1 ELSE @]
  /\ UNCHANGED <<rd, call, rdLeft>>

\* The history of resets.
Gap ==
  rdGap' = IF rd'.hard = rd.hard THEN rdGap
           ELSE [since |-> 0, tooSoon |-> rdGap.tooSoon \/ rdGap.since < Backoff]

RdNext ==
  /\ \/ /\ MainLoop \/ Chip \/ Isr
        /\ Gap
        /\ UNCHANGED rdNow
     \/ RdTick
  /\ UNCHANGED driver

RdSpec == RdInit /\ [][RdNext]_rdVars

-----------------------------------------------------------------------------
RdTypeOK ==
  /\ driver \in Drivers
  /\ rd.mode \in {"standby", "rx", "tx"}
  /\ rd.irq \subseteq Flags /\ rd.dio \subseteq Flags
  /\ {rd.edge, rd.pending, rd.inRx, rd.reset} \subseteq BOOLEAN
  /\ {rd.lastRx, rd.resetAt, rdNow, call.t0} \subseteq 0 .. RdClockMod - 1
  /\ {rd.fail, rd.spurious, rd.stuck} \subseteq 0 .. StreakMod - 1
  /\ call.op \in {"idle", "claim", "read", "act", "tx"} /\ call.irq \subseteq Flags

(***************************************************************************)
(* No wake-up is lost: outside of a call, a flag set in the chip has left  *)
(* the pending flag set or an edge on its way.  Otherwise the line stays   *)
(* high, no further edge comes and the node is deaf until it transmits     *)
(* (radio_service_rx clears the flag before it reads the chip).  The one   *)
(* exception: a failed transmission leaves its flag set, and a frame that  *)
(* ends between the read and the clearing of that flag raises no edge.     *)
(***************************************************************************)
WakeupNotLost ==
  call.op \in {"idle", "claim"} /\ rd.irq \cap rd.dio # {}
    => rd.pending \/ rd.edge \/ rdLeft

(***************************************************************************)
(* Two hard resets are at least RADIO_RESET_BACKOFF_MS apart, whichever of *)
(* the three fault detectors asks for them and wherever the clock wraps    *)
(* (radio_sx1262.c lines 122-126).                                         *)
(***************************************************************************)
ResetsSpaced == ~rdGap.tooSoon

(***************************************************************************)
(* Outside of a call the chip receives, except after a transmission that   *)
(* failed TxFailMax times in a row and whose reset was denied: then        *)
(* nothing called radio_start_rx (radio_sx1262.c lines 780-784, 797-801).  *)
(***************************************************************************)
DeafOnlyIfDenied ==
  /\ call.op # "tx" /\ rd.mode # "rx"
  /\ driver # "lr1110"
  => rd.reset /\ rd.fail >= TxFailMax

(***************************************************************************)
(* The radio recovers: it is reset neither too often, nor left deaf without *)
(* a reset that was denied.                                                *)
(***************************************************************************)
RadioRecovers == ResetsSpaced /\ DeafOnlyIfDenied
=============================================================================
