-------------------------------- MODULE Ble --------------------------------
(***************************************************************************)
(* The BLE transport on both stacks: rivr_ble.c with rivr_ble_service.c    *)
(* (ESP32, Bluedroid) and rivr_ble_nrf52.cpp (SoftDevice), and the         *)
(* companion protocol of rivr_ble_companion.c on top.  Callbacks of the    *)
(* stack run in its task, the ticks in the main task; the companion queue  *)
(* lies between them, and its consumer is modelled load by load.           *)
(***************************************************************************)
EXTENDS Naturals

CONSTANTS Stacks,    \* subset of {"esp32", "nrf52"}
          Passkey,   \* values of RIVR_BLE_PASSKEY # 0
          BleMod,    \* tb_millis() counts modulo BleMod
          AdvDelay,  \* RIVR_BLE_ADV_RETRY_DELAY_MS
          Windows,   \* the time-outs of the modes; 0: none
          CpLen,     \* RIVR_BLE_CP_QUEUE_LEN
          CpCmds,    \* companion commands, "start" among them
          MaxConns   \* bound: connections ever made

ASSUME BleAssumption ==
  /\ Stacks \subseteq {"esp32", "nrf52"} /\ Passkey \subseteq BOOLEAN
  /\ {BleMod, CpLen} \subseteq Nat \ {0, 1} /\ AdvDelay \in 1 .. BleMod - 1
  /\ Windows \subseteq 0 .. BleMod - 1 /\ "start" \in CpCmds /\ MaxConns \in Nat

VARIABLES stack, passkey,
          ble,     \* s_ble_active, s_activate_ms, s_timeout_ms
          adv,     \* running; the request the stack has not answered; retry due
          link,    \* the connection, s_conn_handle and s_pending_conn_handle
          cp,      \* head, tail, slots and session of the companion
          cpTick,  \* where rivr_ble_companion_tick is
          bleNow,
          bleSeen  \* history: cut, stale; a retry whose due time was 0

bleVars == <<stack, passkey, ble, adv, link, cp, cpTick, bleNow, bleSeen>>

NoPkt == [conn |-> 0, cmd |-> "start"]
NoLink == [up |-> FALSE, conn |-> 0, handle |-> "none", secured |-> FALSE]
AtRest == [at |-> "idle", pkt |-> NoPkt, tail |-> 0]

-----------------------------------------------------------------------------
(* Advertising *)

ScheduleRetry(a) == [a EXCEPT !.retry = (bleNow + AdvDelay) % BleMod]

\* rivr_ble_start_adv of the ESP32 (ok: the call returned ESP_OK).
StartAdv_esp32(active, handle, a, ok) ==
  CASE ~active \/ handle # "none" \/ a.running -> a
    [] active /\ handle = "none" /\ ~a.running /\ ok ->
         [a EXCEPT !.retry = 0, !.asked = "start"]
    [] OTHER -> ScheduleRetry([a EXCEPT !.retry = 0])

\* start_adv of the nRF52; one central at a time.
StartAdv_nrf52(a) == [a EXCEPT !.running = ~link.up]

\* A retry due at time 0 reads as no retry.
RetryLost(a) == a.retry = 0 /\ a.asked = "none" /\ ~a.running /\ stack = "esp32"

SetAdv(a) ==
  /\ adv' = a
  /\ bleSeen' = [bleSeen EXCEPT !.noRetry = IF a.asked # "none" \/ a.running THEN FALSE ELSE @]

\* The handler schedules a retry.
SetRetry(a) ==
  LET b == ScheduleRetry(a) IN
  adv' = b /\ bleSeen' = [bleSeen EXCEPT !.noRetry = RetryLost(b)]

\* Either of the two, for a start that may have failed at once.
SetStarted(a, ok) ==
  IF ok \/ stack = "nrf52" \/ a.retry # 0 THEN SetAdv(a)
  ELSE adv' = a /\ bleSeen' = [bleSeen EXCEPT !.noRetry = @ \/ RetryLost(a)]

-----------------------------------------------------------------------------
(* The main task *)

\* rivr_ble_init: the stack is up and the GAP data are set when it returns.
BleInit ==
  /\ stack \in Stacks /\ passkey \in Passkey
  /\ bleNow \in 0 .. BleMod - 1
  /\ ble = [active |-> TRUE, since |-> 0,
            timeout |-> IF passkey THEN 0 ELSE CHOOSE w \in Windows \cup {0} :
                                                \A v \in Windows : v <= w]
  /\ adv = [running |-> stack = "nrf52", retry |-> 0,
            asked |-> IF stack = "esp32" THEN "start" ELSE "none"]
  /\ link = NoLink
  /\ cp = [head |-> 0, tail |-> 0, session |-> FALSE, slots |-> [i \in 0 .. CpLen - 1 |-> NoPkt]]
  /\ cpTick = AtRest
  /\ bleSeen = [cut |-> FALSE, stale |-> FALSE, noRetry |-> FALSE]

BleClock ==
  /\ bleNow' = (bleNow + 1) % BleMod
  /\ UNCHANGED <<stack, passkey, ble, adv, link, cp, cpTick, bleSeen>>

\* rivr_ble_deactivate; a link the stack is asked to close is still up.
Deactivated == [active |-> FALSE, since |-> ble.since, timeout |-> 0]
StopAdv(a) ==
  IF stack = "nrf52" THEN [a EXCEPT !.running = FALSE]
  ELSE [a EXCEPT !.retry = 0, !.asked = IF a.running THEN "stop" ELSE @]

Started == IF ble.since = 0 THEN bleNow ELSE ble.since
WindowOver == ble.timeout # 0 /\ (bleNow + BleMod - Started) % BleMod >= ble.timeout
RetryDue == adv.retry # 0 /\ (bleNow + BleMod - adv.retry) % BleMod < BleMod \div 2

\* What rivr_ble_deactivate and rivr_ble_clear_bonds of the nRF52 forget of the link; a
\* pending handle stays.
Closed == [link EXCEPT !.handle = IF @ = "open" THEN "none" ELSE @]

\* rivr_ble_tick.
BleTick(ok) ==
  LET retried == IF RetryDue
                 THEN StartAdv_esp32(TRUE, link.handle, [adv EXCEPT !.retry = 0], ok)
                 ELSE adv IN
  /\ ble.active
  /\ ble' = IF WindowOver THEN Deactivated ELSE [ble EXCEPT !.since = Started]
  /\ IF WindowOver THEN SetAdv(StopAdv(retried)) ELSE SetStarted(retried, ok)
  /\ link' = IF WindowOver /\ stack = "nrf52" THEN Closed ELSE link
  /\ UNCHANGED <<stack, passkey, cp, cpTick, bleNow>>

\* rivr_ble_activate of each stack.
BleActivate_esp32(w, ok) ==
  /\ stack = "esp32"
  /\ ble' = [active |-> TRUE, since |-> 0, timeout |-> w]
  /\ SetStarted(StartAdv_esp32(TRUE, link.handle, [adv EXCEPT !.retry = 0], ok), ok)
  /\ UNCHANGED <<stack, passkey, link, cp, cpTick, bleNow>>

BleActivate_nrf52(w) ==
  /\ stack = "nrf52"
  /\ ble' = [active |-> TRUE, since |-> 0, timeout |-> w]
  /\ SetAdv(StartAdv_nrf52(adv))
  /\ UNCHANGED <<stack, passkey, link, cp, cpTick, bleNow>>

BleDeactivate ==
  /\ ble' = Deactivated
  /\ SetAdv(StopAdv(adv))
  /\ link' = IF stack = "nrf52" THEN Closed ELSE link
  /\ UNCHANGED <<stack, passkey, cp, cpTick, bleNow>>

\* rivr_ble_clear_bonds with bonds to clear; the link is still up.
BleClearBonds_esp32(ok) ==
  /\ stack = "esp32"
  /\ link' = [link EXCEPT !.handle = "none"]
  /\ SetStarted(StartAdv_esp32(ble.active, "none", adv, ok), ok)
  /\ UNCHANGED <<stack, passkey, ble, cp, cpTick, bleNow>>

BleClearBonds_nrf52 ==
  /\ stack = "nrf52"
  /\ link' = Closed
  /\ SetAdv(IF ble.active THEN StartAdv_nrf52(adv) ELSE adv)
  /\ UNCHANGED <<stack, passkey, ble, cp, cpTick, bleNow>>

\* rivr_ble_companion_tick: the packet is copied,
CpClaim ==
  /\ cpTick.at = "idle" /\ cp.tail # cp.head
  /\ cpTick' = [at |-> "claimed", pkt |-> cp.slots[cp.tail], tail |-> cp.tail]
  /\ UNCHANGED <<stack, passkey, ble, adv, link, cp, bleNow, bleSeen>>

\* s_rx_tail, read again or not, is set to its successor,
CpAdvance ==
  /\ cpTick.at = "claimed"
  /\ \E t \in {cpTick.tail, cp.tail} : cp' = [cp EXCEPT !.tail = (t + 1) % CpLen]
  /\ cpTick' = [cpTick EXCEPT !.at = "advanced"]
  /\ UNCHANGED <<stack, passkey, ble, adv, link, bleNow, bleSeen>>

\* and the command is run: all but APP_START only ask for a session.
CpRun ==
  /\ cpTick.at = "advanced"
  /\ cp' = [cp EXCEPT !.session = @ \/ cpTick.pkt.cmd = "start"]
  /\ cpTick' = AtRest
  /\ bleSeen' = [bleSeen EXCEPT !.stale = @ \/ ~link.up \/ link.conn # cpTick.pkt.conn]
  /\ UNCHANGED <<stack, passkey, ble, adv, link, bleNow>>

-----------------------------------------------------------------------------
(* Callbacks in the task of the stack *)

\* ESP_GAP_BLE_ADV_START_COMPLETE_EVT.
AdvStarted(ok) ==
  /\ adv.asked = "start"
  /\ LET answered == [adv EXCEPT !.asked = "none", !.running = ok] IN
     IF ~ok /\ ble.active THEN SetRetry(answered)
     ELSE SetAdv(IF ok THEN [answered EXCEPT !.retry = 0] ELSE answered)
  /\ UNCHANGED <<stack, passkey, ble, link, cp, cpTick, bleNow>>

\* Mutant: the stop of the old activation is not followed by a new start.
AdvStopped_NoRetry ==
  /\ adv.asked = "stop"
  /\ SetAdv([adv EXCEPT !.asked = "none", !.running = FALSE])
  /\ UNCHANGED <<stack, passkey, ble, link, cp, cpTick, bleNow>>

\* ESP_GAP_BLE_ADV_STOP_COMPLETE_EVT.
AdvStopped ==
  /\ adv.asked = "stop"
  /\ LET answered == [adv EXCEPT !.asked = "none", !.running = FALSE] IN
     IF ble.active /\ link.handle = "none" THEN SetRetry(answered) ELSE SetAdv(answered)
  /\ UNCHANGED <<stack, passkey, ble, link, cp, cpTick, bleNow>>

\* ESP_GATTS_CONNECT_EVT and connect_cb.
BleConnect ==
  /\ adv.running /\ adv.asked # "start" /\ ~link.up /\ link.conn < MaxConns
  /\ link' = [up |-> TRUE, conn |-> link.conn + 1,
              handle |-> IF passkey THEN "pending" ELSE "open", secured |-> ~passkey]
  /\ adv' = [adv EXCEPT !.running = FALSE, !.retry = 0]
  /\ UNCHANGED <<stack, passkey, ble, cp, cpTick, bleNow, bleSeen>>

Authenticating == passkey /\ link.up /\ ~link.secured

\* ESP_GAP_BLE_AUTH_CMPL_EVT: a failure, or a handle forgotten meanwhile, leaves none.
AuthDone_esp32(ok) ==
  /\ stack = "esp32" /\ Authenticating
  /\ link' = [link EXCEPT !.secured = ok,
                          !.handle = IF ok /\ @ = "pending" THEN "open" ELSE "none"]
  /\ UNCHANGED <<stack, passkey, ble, adv, cp, cpTick, bleNow, bleSeen>>

\* security_secured_cb; security_complete_cb asks to close a link that failed.
AuthDone_nrf52(ok) ==
  /\ stack = "nrf52" /\ Authenticating
  /\ link' = [link EXCEPT !.secured = ok, !.handle = IF ok THEN "open" ELSE @]
  /\ UNCHANGED <<stack, passkey, ble, adv, cp, cpTick, bleNow, bleSeen>>

\* rivr_ble_companion_handle_rx.
CpWrite(cmd) ==
  LET next == (cp.head + 1) % CpLen IN
  /\ link.up /\ link.secured
  /\ next # cp.tail
  /\ cp' = [cp EXCEPT !.slots[cp.head] = [conn |-> link.conn, cmd |-> cmd], !.head = next]
  /\ UNCHANGED <<stack, passkey, ble, adv, link, cpTick, bleNow, bleSeen>>

\* The write callback of each stack, with the last fragment of a companion packet; what is
\* no companion packet goes to the RX ring.
RxWrite_esp32(cmd) == stack = "esp32" /\ CpWrite(cmd)
RxWrite_nrf52(cmd) == stack = "nrf52" /\ CpWrite(cmd)

\* Mutant: only the session ends; what is queued stays.
OnDisconnect_KeepQueue(c) == [c EXCEPT !.session = FALSE]

\* rivr_ble_companion_on_disconnect.
OnDisconnect(c) == [c EXCEPT !.session = FALSE, !.head = 0, !.tail = 0]

\* ESP_GATTS_DISCONNECT_EVT: advertising starts again after a while.
BleDisconnect_esp32 ==
  /\ stack = "esp32" /\ link.up
  /\ link' = [NoLink EXCEPT !.conn = link.conn]
  /\ cp' = OnDisconnect(cp)
  /\ adv' = IF ble.active THEN ScheduleRetry(adv) ELSE adv
  /\ bleSeen' = [cut |-> cpTick.at # "idle", stale |-> FALSE,
                 noRetry |-> ble.active /\ RetryLost(ScheduleRetry(adv))]
  /\ UNCHANGED <<stack, passkey, ble, cpTick, bleNow>>

\* disconnect_cb: it starts again at once.
BleDisconnect_nrf52 ==
  /\ stack = "nrf52" /\ link.up
  /\ link' = [NoLink EXCEPT !.conn = link.conn]
  /\ cp' = OnDisconnect(cp)
  /\ adv' = [adv EXCEPT !.running = @ \/ ble.active]
  /\ bleSeen' = [cut |-> cpTick.at # "idle", stale |-> FALSE, noRetry |-> FALSE]
  /\ UNCHANGED <<stack, passkey, ble, cpTick, bleNow>>

-----------------------------------------------------------------------------
BleMain ==
  \/ \E ok \in BOOLEAN : BleTick(ok) \/ BleClearBonds_esp32(ok)
  \/ \E w \in Windows, ok \in BOOLEAN : BleActivate_esp32(w, ok) \/ BleActivate_nrf52(w)
  \/ BleClearBonds_nrf52 \/ BleDeactivate \/ CpClaim \/ CpAdvance \/ CpRun

BleCallback ==
  \/ \E ok \in BOOLEAN : AdvStarted(ok) \/ AuthDone_esp32(ok) \/ AuthDone_nrf52(ok)
  \/ AdvStopped \/ BleConnect \/ BleDisconnect_esp32 \/ BleDisconnect_nrf52
  \/ \E cmd \in CpCmds : RxWrite_esp32(cmd) \/ RxWrite_nrf52(cmd)

BleNext == BleClock \/ BleMain \/ BleCallback

-----------------------------------------------------------------------------
BleTypeOK ==
  /\ ble.active \in BOOLEAN /\ {ble.since, ble.timeout, adv.retry} \subseteq 0 .. BleMod - 1
  /\ adv.running \in BOOLEAN /\ adv.asked \in {"none", "start", "stop"}
  /\ link.conn \in 0 .. MaxConns /\ link.handle \in {"none", "pending", "open"}
  /\ {cp.head, cp.tail} \subseteq 0 .. CpLen - 1 /\ cp.session \in BOOLEAN
  /\ cpTick.at \in {"idle", "claimed", "advanced"}

(***************************************************************************)
(* A disconnect that finds the companion tick at rest ends the session for *)
(* good: no command of a connection that is gone is run, and no session is *)
(* open without a connection.  (A disconnect inside a tick leaves head and *)
(* tail of the ring at odds, rivr_ble_companion.c:351-455, and is left     *)
(* out.)                                                                   *)
(***************************************************************************)
CommandsCurrent ==
  ~bleSeen.cut => ~bleSeen.stale /\ (cp.session => link.up)

(***************************************************************************)
(* While BLE is active and nobody is connected the node advertises, or a   *)
(* start it has asked for or scheduled is on its way, in whatever order    *)
(* the stack answers starts and stops of earlier activations; except when  *)
(* the retry falls due at time 0, which rivr_ble_tick takes for none.      *)
(***************************************************************************)
Discoverable ==
  ble.active /\ ~link.up /\ ~bleSeen.noRetry
    => adv.running \/ adv.asked # "none" \/ adv.retry # 0
=============================================================================
