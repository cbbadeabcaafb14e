----------------------------- MODULE ReceiveMC ------------------------------
(***************************************************************************)
(* The parts of a node that take in frames and bytes, checked one at a     *)
(* time: the duplicate filters, the neighbour tables and the message layer *)
(* behind the radio, the BLE transport with its fragments, and the serial  *)
(* bridge.  They share no state but the frames that pass between them, so  *)
(* focus is the part that moves and the others rest in an initial state;   *)
(* what the others would do to it comes as an input, or does not.          *)
(***************************************************************************)
EXTENDS RxFilter, Neighbors, Rml, Ble, BleFrag, SlipBridge

VARIABLE focus

Parts == {"filter", "neighbors", "rml", "ble", "fragments", "slip"}

ReceiveInit ==
  /\ focus \in Parts
  /\ Init /\ (focus # "filter" => now = 0)
  /\ NbInit /\ (focus # "neighbors" => nbNow = 0)
  /\ BleInit /\ (focus # "ble" => bleNow = 0 /\ stack = "esp32" /\ passkey)
  /\ FgInit
  /\ RmlInit
  /\ SlInit

\* The parts out of focus rest.
Rest ==
  /\ UNCHANGED focus
  /\ focus # "filter" => UNCHANGED vars
  /\ focus # "neighbors" => UNCHANGED nbVars
  /\ focus # "ble" => UNCHANGED bleVars
  /\ focus # "fragments" => UNCHANGED fgVars
  /\ focus # "rml" => UNCHANGED rmlVars
  /\ focus # "slip" => UNCHANGED slVars

ReceiveNext ==
  \/ focus = "filter" /\ Next /\ Rest
  \/ focus = "neighbors" /\ NbNext /\ Rest
  \/ focus = "ble" /\ BleNext /\ Rest
  \/ focus = "fragments" /\ FgNext /\ Rest
  \/ focus = "rml" /\ RmlNext /\ Rest
  \/ focus = "slip" /\ SlNext /\ Rest

ReceiveSpec ==
  ReceiveInit /\ [][ReceiveNext]_<<vars, nbVars, bleVars, fgVars, rmlVars, slVars, focus>>

-----------------------------------------------------------------------------
\* Every part's queues, tables, caches and clocks keep their types.
ReceiveTyped ==
  TypeOK /\ NbTypeOK /\ BleTypeOK /\ FgTypeOK /\ RmlTypeOK /\ SlTypeOK

\* What a companion asked is answered to it and to no later one, and a node that
\* should be visible becomes so (rivr_ble_companion.c:351-455, rivr_ble.c:230-345).
BleSessionKept == CommandsCurrent /\ Discoverable
=============================================================================
