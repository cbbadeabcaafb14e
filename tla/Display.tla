------------------------------ MODULE Display ------------------------------
(***************************************************************************)
(* display.c and display_nrf52.cpp: the main loop posts its figures into a *)
(* shared record without a lock, a task copies it, picks the page, draws   *)
(* it and sends it to the SSD1306 over I2C.  The ports differ in what a    *)
(* failed transfer does.  The record is two halves - the BLE PIN, and      *)
(* whether someone may still connect - as a copy can meet a post half way; *)
(* a drawing is its page and whether it has the PIN to type.               *)
(***************************************************************************)
EXTENDS Naturals

CONSTANTS DpMod,      \* modulus of the millisecond clock
          DpRefresh,  \* DISPLAY_REFRESH_MS
          DpRotate,   \* DISPLAY_PAGE_ROTATE_MS
          DpPages     \* DISPLAY_PAGES

ASSUME DpAssumption ==
  DpMod \in Nat /\ DpRefresh \in Nat /\ DpRotate \in Nat /\ DpPages \in Nat \ {0}

VARIABLES dpNow,     \* tb_millis()
          dpPort,    \* the build: "esp32" or "nrf52"
          dpShared,  \* s_shared_stats
          dpPost,    \* the record being posted, <<>> when none is
          dpTask,    \* next step of the task: "init", "copy", "copying" or "update"
          dpLocal,   \* the task's copy
          dpOk,      \* s_ok
          dpFail,    \* s_flush_fail_cnt
          dpPage,    \* s_page
          dpUpdate,  \* s_last_update_ms
          dpTurned,  \* s_last_rotate_ms
          dpScreen,  \* what the controller shows: a page, and a PIN or not
          dpShown,   \* history: ms the page has been on, up to DpRotate
          dpLeft     \* history: dpShown of the last page left to the next in turn

dpVars == <<dpNow, dpPort, dpShared, dpPost, dpTask, dpLocal, dpOk, dpFail, dpPage, dpUpdate,
            dpTurned, dpScreen, dpShown, dpLeft>>

Figures == [key : BOOLEAN, open : BOOLEAN]
Blank == [key |-> FALSE, open |-> FALSE]

\* show_ble_pin.
PinDue(record) == record.key /\ record.open

\* The renderers draw from the record alone, the overview its PIN.
Drawn(page, record) == [page |-> page, pin |-> PinDue(record)]

\* display_task_start: the boot record is shared before the task exists.
DpInit ==
  /\ dpNow \in 0..DpMod - 1 /\ dpPort \in {"esp32", "nrf52"}
  /\ dpShared = Blank /\ dpPost = <<>> /\ dpTask = "init" /\ dpLocal = Blank
  /\ dpOk = FALSE /\ dpFail = 0 /\ dpPage = 0 /\ dpUpdate = 0 /\ dpTurned = 0
  /\ dpScreen = Drawn(0, Blank) /\ dpShown = 0 /\ dpLeft = DpRotate

-----------------------------------------------------------------------------
\* display_post_stats, in two halves.
PostHalf(record) ==
  /\ dpPost = <<>>
  /\ dpPost' = <<record>> /\ dpShared' = [dpShared EXCEPT !.key = record.key]
  /\ UNCHANGED <<dpTask, dpLocal, dpOk, dpFail, dpPage, dpUpdate, dpTurned, dpScreen, dpLeft>>

\* The record filled by the main loop of each port.
MainPost(record) == dpPort = "esp32" /\ PostHalf(record)
NrfPost(record) == dpPort = "nrf52" /\ PostHalf(record)

PostRest ==
  /\ dpPost # <<>>
  /\ dpPost' = <<>> /\ dpShared' = dpPost[1]
  /\ UNCHANGED <<dpTask, dpLocal, dpOk, dpFail, dpPage, dpUpdate, dpTurned, dpScreen, dpLeft>>

-----------------------------------------------------------------------------
\* ssd1306_flush: every failure resets the bus, and the third in a row initialises
\* the controller again, which disables the display if it fails too.
Flush(sent, restarts) ==
  LET fails == IF sent THEN 0 ELSE dpFail + 1 IN
  /\ restarts => fails >= 3
  /\ dpFail' = IF restarts THEN 0 ELSE fails
  /\ dpOk' = (fails < 3 \/ restarts)

\* display_init: without a bus, an address that answers or a controller that takes its
\* settings the display stays off; else the boot screen is flushed.
TaskInit(found, sent, restarts) ==
  /\ dpTask = "init" /\ dpPort = "esp32"
  /\ dpTask' = "copy"
  /\ IF found
     THEN /\ Flush(sent, restarts)
          /\ dpUpdate' = dpNow /\ dpTurned' = dpNow
     ELSE UNCHANGED <<dpOk, dpFail, dpUpdate, dpTurned>>
  /\ dpLocal' = dpShared /\ dpPage' = 0
  /\ UNCHANGED <<dpShared, dpPost, dpScreen, dpLeft>>

\* On the nRF52 a single failed transfer disables the display until the next boot.
NrfFlush(sent) == dpOk' = sent /\ UNCHANGED dpFail

\* display_init_internal
NrfInit(found, sent) ==
  /\ dpTask = "init" /\ dpPort = "nrf52"
  /\ dpTask' = "copy"
  /\ IF found
     THEN NrfFlush(sent) /\ dpUpdate' = dpNow /\ dpTurned' = dpNow
     ELSE UNCHANGED <<dpOk, dpFail, dpUpdate, dpTurned>>
  /\ dpLocal' = dpShared /\ dpPage' = 0
  /\ UNCHANGED <<dpShared, dpPost, dpScreen, dpLeft>>

TaskCopyHalf ==
  /\ dpTask = "copy" /\ dpOk
  /\ dpTask' = "copying" /\ dpLocal' = [dpLocal EXCEPT !.key = dpShared.key]
  /\ UNCHANGED <<dpShared, dpPost, dpOk, dpFail, dpPage, dpUpdate, dpTurned, dpScreen, dpLeft>>

TaskCopyRest ==
  /\ dpTask = "copying"
  /\ dpTask' = "update" /\ dpLocal' = [dpLocal EXCEPT !.open = dpShared.open]
  /\ UNCHANGED <<dpShared, dpPost, dpOk, dpFail, dpPage, dpUpdate, dpTurned, dpScreen, dpLeft>>

Since(then) == (dpNow + DpMod - then) % DpMod

\* Mutant: a page held for the PIN keeps the time it was turned to.
Turned_PinForgets(record) ==
  IF ~PinDue(record) /\ Since(dpTurned) >= DpRotate THEN dpNow ELSE dpTurned

\* The time the next page is reckoned from: a waiting PIN starts it anew.
Turned(record) ==
  IF PinDue(record) \/ Since(dpTurned) >= DpRotate THEN dpNow ELSE dpTurned

\* A waiting PIN keeps the overview on, else the pages follow each other.
PageFor(record) ==
  IF PinDue(record) THEN 0
  ELSE IF Since(dpTurned) >= DpRotate THEN (dpPage + 1) % DpPages ELSE dpPage

\* An update that is due turns the page and draws.
Updated(sent) ==
  /\ Since(dpUpdate) >= DpRefresh
  /\ dpUpdate' = dpNow
  /\ dpTurned' = Turned(dpLocal) /\ dpPage' = PageFor(dpLocal)
  /\ dpLeft' = IF dpPage' # dpPage /\ ~PinDue(dpLocal) THEN dpShown ELSE dpLeft
  /\ dpScreen' = IF sent THEN Drawn(dpPage', dpLocal) ELSE dpScreen

UpdateEarly ==
  /\ Since(dpUpdate) < DpRefresh
  /\ UNCHANGED <<dpOk, dpFail, dpPage, dpUpdate, dpTurned, dpScreen, dpLeft>>

\* display_update, throttled; it draws and flushes.
TaskUpdate(sent, restarts) ==
  /\ dpTask = "update" /\ dpPort = "esp32"
  /\ dpTask' = "copy"
  /\ \/ UpdateEarly
     \/ Updated(sent) /\ Flush(sent, restarts)
  /\ UNCHANGED <<dpShared, dpPost, dpLocal>>

\* display_update_internal
NrfUpdate(sent) ==
  /\ dpTask = "update" /\ dpPort = "nrf52"
  /\ dpTask' = "copy"
  /\ \/ UpdateEarly
     \/ Updated(sent) /\ NrfFlush(sent)
  /\ UNCHANGED <<dpShared, dpPost, dpLocal>>

-----------------------------------------------------------------------------
\* Bound: a working display is updated at least once in a cycle of the clock.
DpTick ==
  /\ dpOk => Since(dpUpdate) < DpMod - 1
  /\ dpNow' = (dpNow + 1) % DpMod
  /\ dpShown' = IF dpShown < DpRotate THEN dpShown + 1 ELSE dpShown
  /\ UNCHANGED <<dpPort, dpShared, dpPost, dpTask, dpLocal, dpOk, dpFail, dpPage, dpUpdate,
                 dpTurned, dpScreen, dpLeft>>

\* A page turned to, and the boot screen, is on from now.
DpStep ==
  /\ \/ \E record \in Figures : MainPost(record) \/ NrfPost(record)
     \/ PostRest \/ TaskCopyHalf \/ TaskCopyRest
     \/ \E found, sent, restarts \in BOOLEAN :
          \/ TaskInit(found, sent, restarts) \/ TaskUpdate(sent, restarts)
          \/ NrfInit(found, sent) \/ NrfUpdate(sent)
  /\ UNCHANGED <<dpNow, dpPort>>
  /\ dpShown' = IF dpPage' # dpPage \/ dpTask = "init" THEN 0 ELSE dpShown

DpNext == DpTick \/ DpStep

-----------------------------------------------------------------------------
DpTypeOK ==
  /\ {dpNow, dpUpdate, dpTurned} \subseteq 0..DpMod - 1
  /\ dpShared \in Figures /\ dpLocal \in Figures /\ dpPage \in 0..DpPages - 1
  /\ dpTask \in {"init", "copy", "copying", "update"}

\* Whatever the copies tear, a screen with a PIN to type is the overview that shows it;
\* a page is on for its full time before the next, across a PIN that comes and goes
\* and the wrap of the clock; and a display in use has not failed three times in a
\* row, on the nRF52 not once (display.c:236-281, :741-793, display_nrf52.cpp:419-512).
ScreenKept ==
  /\ dpScreen.pin => dpScreen.page = 0
  /\ dpLeft >= DpRotate
  /\ dpOk => dpFail < IF dpPort = "esp32" THEN 3 ELSE 1
=============================================================================
