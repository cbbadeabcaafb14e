------------------------------ MODULE BleFrag ------------------------------
(***************************************************************************)
(* rivr_ble_frag.c: rivr_ble_frag_send cuts a frame that does not fit the  *)
(* ATT payload into fragments, rivr_ble_frag_ingest puts them together in  *)
(* slots found by message id.  Fragments may be lost (a write without      *)
(* response, a notify that fails), never reordered.  A unit of data is     *)
(* written as the number of the message it belongs to.                     *)
(***************************************************************************)
EXTENDS Naturals

CONSTANTS FgSlots,   \* RIVR_BLE_FRAG_RX_SLOTS
          FgIds,     \* ids 1 .. FgIds come round; the code's 255
          FgTotals,  \* lengths of messages, in fragments; total_len is a byte
          FgMsgs     \* bound: messages between two restarts

ASSUME FgAssumption ==
  /\ {FgSlots, FgIds, FgMsgs} \subseteq Nat \ {0}
  /\ FgTotals \subseteq 1 .. 255

FgMaxTotal == CHOOSE t \in FgTotals : \A u \in FgTotals : u <= t

VARIABLES fgTx,     \* the message being sent: number, length, next offset; first fragment lost
          fgRx,     \* next_slot and the slots
          fgMixed   \* history: a payload handed over was not one message

fgVars == <<fgTx, fgRx, fgMixed>>

FreeSlot == [active |-> FALSE, id |-> 0, total |-> 0, got |-> 0,
             data |-> [o \in 0 .. FgMaxTotal - 1 |-> 0]]

FgInit ==
  /\ fgTx = [msg |-> 0, total |-> 0, off |-> 0, firstLost |-> FALSE]
  /\ fgRx = [next |-> 0, slots |-> [i \in 0 .. FgSlots - 1 |-> FreeSlot]]
  /\ fgMixed = FALSE

IdOf(m) == 1 + ((m - 1) % FgIds)

\* rivr_ble_frag_find_slot, rivr_ble_frag_alloc_slot.
Holding(id) == {i \in DOMAIN fgRx.slots : fgRx.slots[i].active /\ fgRx.slots[i].id = id}
Lowest(S) == CHOOSE i \in S : \A j \in S : i <= j
FgFree == {i \in DOMAIN fgRx.slots : ~fgRx.slots[i].active}
AllocSlot == IF FgFree # {} THEN Lowest(FgFree) ELSE fgRx.next
NextSlot == IF FgFree # {} THEN fgRx.next ELSE (fgRx.next + 1) % FgSlots

\* rivr_ble_frag_start_slot and rivr_ble_frag_drop_slot; data stays as it was.
StartSlot(s, id, total) == [s EXCEPT !.active = TRUE, !.id = id, !.total = total, !.got = 0]
DropSlot(s) == [s EXCEPT !.active = FALSE, !.id = 0, !.total = 0, !.got = 0]

\* Mutant: a fragment is stored wherever it says it belongs.
FgFits_AnyOffset(s, off, total) == s.total = total

\* The fragment continues what the slot has.
FgFits(s, off, total) == s.total = total /\ s.got = off

\* rivr_ble_frag_ingest of the fragment at off of message m.
Ingest(m, off, total) ==
  LET held == Holding(IdOf(m))
      i == IF held # {} THEN Lowest(held) ELSE AllocSlot
      s == IF off = 0 THEN StartSlot(fgRx.slots[i], IdOf(m), total) ELSE fgRx.slots[i]
      stored == [s EXCEPT !.data[off] = m, !.got = off + 1]
      whole == stored.got >= total
      Put(slot) == fgRx' = [next |-> IF held = {} THEN NextSlot ELSE fgRx.next,
                            slots |-> [fgRx.slots EXCEPT ![i] = slot]]
  IN
  \/ held = {} /\ off # 0 /\ UNCHANGED <<fgRx, fgMixed>>
  \/ held # {} /\ ~FgFits(s, off, total) /\ Put(DropSlot(s)) /\ UNCHANGED fgMixed
  \/ /\ (held # {} /\ FgFits(s, off, total)) \/ (held = {} /\ off = 0)
     /\ Put(IF whole THEN DropSlot(stored) ELSE stored)
     /\ fgMixed' = (fgMixed \/ (whole /\ ~fgTx.firstLost
                                 /\ \E o \in 0 .. total - 1 : stored.data[o] # m))

\* rivr_ble_frag_send: the next message, once the last one is out or given up.
FragStart(total) ==
  /\ fgTx.msg < FgMsgs
  /\ fgTx' = [msg |-> fgTx.msg + 1, total |-> total, off |-> 0, firstLost |-> FALSE]
  /\ UNCHANGED <<fgRx, fgMixed>>

FragEmit ==
  /\ fgTx.off < fgTx.total
  /\ fgTx' = [fgTx EXCEPT !.off = @ + 1]
  /\ Ingest(fgTx.msg, fgTx.off, fgTx.total)

FragLost ==
  /\ fgTx.off < fgTx.total
  /\ fgTx' = [fgTx EXCEPT !.off = @ + 1, !.firstLost = @ \/ fgTx.off = 0]
  /\ UNCHANGED <<fgRx, fgMixed>>

\* rivr_ble_frag_reset, on a disconnect; the peer's ids go on or start over.
FragReset ==
  /\ \E i \in DOMAIN fgRx.slots : fgRx.slots[i].active
  /\ fgRx' = [next |-> 0, slots |-> [i \in DOMAIN fgRx.slots |-> DropSlot(fgRx.slots[i])]]
  /\ fgTx' = [fgTx EXCEPT !.off = fgTx.total]
  /\ UNCHANGED fgMixed

\* The node restarts, its buffers are zero.
FragRestart ==
  /\ fgTx.msg = FgMsgs /\ fgTx.off = fgTx.total
  /\ fgTx' = [msg |-> 0, total |-> 0, off |-> 0, firstLost |-> FALSE]
  /\ fgRx' = [next |-> 0, slots |-> [i \in DOMAIN fgRx.slots |-> FreeSlot]]
  /\ UNCHANGED fgMixed

FgNext ==
  \/ \E t \in FgTotals : FragStart(t)
  \/ FragEmit \/ FragLost \/ FragReset \/ FragRestart

-----------------------------------------------------------------------------
FgTypeOK ==
  /\ fgRx.next \in 0 .. FgSlots - 1
  /\ \A i \in DOMAIN fgRx.slots :
       LET s == fgRx.slots[i] IN
       s.active \in BOOLEAN /\ s.id \in 0 .. FgIds /\ s.got <= s.total

(***************************************************************************)
(* A payload handed over by rivr_ble_frag_ingest is one message, every     *)
(* fragment of it, although slots keep the data of earlier messages, are   *)
(* reused while unfinished and are found by an id that comes round; except *)
(* for a message whose first fragment was lost, which may complete an      *)
(* unfinished one with its id.                                             *)
(***************************************************************************)
PayloadsWhole == ~fgMixed
=============================================================================
