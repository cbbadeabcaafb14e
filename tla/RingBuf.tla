------------------------------ MODULE RingBuf ------------------------------
(***************************************************************************)
(* The lock-free ring of firmware_core/ringbuf.h, at the granularity of    *)
(* its atomic loads and stores.  rf_rx_ringbuf and rf_tx_queue are         *)
(* instances of it.                                                        *)
(*                                                                         *)
(* A push runs in one of the contexts in Writers, a pop in the main loop.  *)
(* The contexts in MainWriters are calls made by the main loop itself      *)
(* (radio_service_rx, the senders to rf_tx_queue): they never overlap a    *)
(* pop or each other.  A writer outside MainWriters (the BLE host task)    *)
(* interleaves with everything.  The acquire and release orders of the     *)
(* code make every atomic access below a step of its own.                  *)
(***************************************************************************)
EXTENDS Naturals, Sequences, FiniteSets

CONSTANTS Cap,          \* slots of the storage array, a power of two
          Frames,       \* the items
          Writers,      \* contexts that push
          MainWriters,  \* those of them that are calls of the main loop
          DropMod       \* width of the drops counter: 2^32 in the code

ASSUME CapAssumption == Cap \in Nat \ {0}
ASSUME CapPowerOfTwo == \E k \in 0..Cap : Cap = 2^k
ASSUME FramesAssumption == Frames # {}
ASSUME WritersAssumption == MainWriters \subseteq Writers
ASSUME DropModAssumption == DropMod \in Nat \ {0, 1}

VARIABLES
  buf,      \* the storage
  head,     \* producer index
  tail,     \* consumer index
  drops,    \* items refused because the buffer was full
  wpc,      \* where each writer is in rb_try_push
  witem,    \* the item each writer pushes
  whead,    \* each writer's local copy of head
  cpc,      \* where the main loop is in rb_pop
  citem,    \* the item the pop copied out of its slot
  out       \* the item the last successful pop returned

writerVars == <<wpc, witem, whead>>
popVars    == <<cpc, citem, out>>
vars       == <<buf, head, tail, drops, wpc, witem, whead, cpc, citem, out>>

Slots == 0 .. Cap - 1

\* (i + 1u) & (rb->cap - 1u); Cap is a power of two
NextSlot(i) == (i + 1) % Cap

\* rb_available
Available == (head + Cap - tail) % Cap

\* rb_init; the contents of the storage do not matter
Init ==
  /\ buf \in [Slots -> Frames]
  /\ head = 0
  /\ tail = 0
  /\ drops = 0
  /\ wpc = [w \in Writers |-> "idle"]
  /\ witem = [w \in Writers |-> buf[0]]
  /\ whead = [w \in Writers |-> 0]
  /\ cpc = "idle"
  /\ citem = buf[0]
  /\ out = buf[0]

\* The main loop is between two calls: it is neither popping nor pushing.
MainIdle == cpc = "idle" /\ \A w \in MainWriters : wpc[w] = "idle"

(***************************************************************************)
(* rb_try_push                                                             *)
(***************************************************************************)

\* The call: the relaxed load of head.
PushLoadHead(w, f) ==
  /\ wpc[w] = "idle"
  /\ w \in MainWriters => MainIdle
  /\ witem' = [witem EXCEPT ![w] = f]
  /\ whead' = [whead EXCEPT ![w] = head]
  /\ wpc' = [wpc EXCEPT ![w] = "loaded"]
  /\ UNCHANGED <<buf, head, tail, drops, popVars>>

\* Mutant: no full test.
PushLoadTail_NoTest(w) ==
  /\ wpc[w] = "loaded"
  /\ wpc' = [wpc EXCEPT ![w] = "room"]
  /\ UNCHANGED <<buf, head, tail, drops, witem, whead, popVars>>

\* Mutant: the full test keeps one slot too many free.
PushLoadTail_WideGap(w) ==
  /\ wpc[w] = "loaded"
  /\ wpc' = [wpc EXCEPT ![w] =
               IF tail \in {NextSlot(whead[w]), NextSlot(NextSlot(whead[w]))}
               THEN "full" ELSE "room"]
  /\ UNCHANGED <<buf, head, tail, drops, witem, whead, popVars>>

\* The acquire load of tail and the full test.
PushLoadTail(w) ==
  /\ wpc[w] = "loaded"
  /\ wpc' = [wpc EXCEPT ![w] =
               IF NextSlot(whead[w]) = tail THEN "full" ELSE "room"]
  /\ UNCHANGED <<buf, head, tail, drops, witem, whead, popVars>>

\* The full branch: count the drop, return false.
PushDrop(w) ==
  /\ wpc[w] = "full"
  /\ drops' = (drops + 1) % DropMod
  /\ wpc' = [wpc EXCEPT ![w] = "idle"]
  /\ UNCHANGED <<buf, head, tail, witem, whead, popVars>>

\* The memcpy into the slot.
PushCopy(w) ==
  /\ wpc[w] = "room"
  /\ buf' = [buf EXCEPT ![whead[w]] = witem[w]]
  /\ wpc' = [wpc EXCEPT ![w] = "copied"]
  /\ UNCHANGED <<head, tail, drops, witem, whead, popVars>>

\* The release store of head, return true.
PushStoreHead(w) ==
  /\ wpc[w] = "copied"
  /\ head' = NextSlot(whead[w])
  /\ wpc' = [wpc EXCEPT ![w] = "idle"]
  /\ UNCHANGED <<buf, tail, drops, witem, whead, popVars>>

(***************************************************************************)
(* rb_pop                                                                  *)
(***************************************************************************)

\* Mutant: the empty test leaves the last frame behind.
PopLoad_OffByOne ==
  /\ MainIdle
  /\ Available > 1
  /\ cpc' = "nonempty"
  /\ UNCHANGED <<buf, head, tail, drops, writerVars, citem, out>>

\* The loads of tail and head and the empty test: an empty pop returns false
\* and changes nothing, so only the non-empty branch is a step.
PopLoad ==
  /\ MainIdle
  /\ tail # head
  /\ cpc' = "nonempty"
  /\ UNCHANGED <<buf, head, tail, drops, writerVars, citem, out>>

\* The memcpy out of the slot.
PopCopy ==
  /\ cpc = "nonempty"
  /\ citem' = buf[tail]
  /\ cpc' = "copied"
  /\ UNCHANGED <<buf, head, tail, drops, writerVars, out>>

\* The release store of tail, return true.
PopStoreTail ==
  /\ cpc = "copied"
  /\ tail' = NextSlot(tail)
  /\ out' = citem
  /\ cpc' = "idle"
  /\ UNCHANGED <<buf, head, drops, writerVars, citem>>

PushStep(w) ==
  \/ PushLoadTail(w)
  \/ PushDrop(w)
  \/ PushCopy(w)
  \/ PushStoreHead(w)

Next ==
  \/ \E w \in Writers, f \in Frames : PushLoadHead(w, f)
  \/ \E w \in Writers : PushStep(w)
  \/ PopLoad
  \/ PopCopy
  \/ PopStoreTail

Spec == Init /\ [][Next]_vars

\* The main loop calls rb_pop for ever, and a started call runs to its end.
Fairness ==
  /\ \A w \in Writers : WF_vars(PushStep(w))
  /\ WF_vars(PopLoad \/ PopCopy \/ PopStoreTail)

FairSpec == Spec /\ Fairness

-----------------------------------------------------------------------------

TypeOK ==
  /\ buf \in [Slots -> Frames]
  /\ head \in Slots
  /\ tail \in Slots
  /\ drops \in 0 .. DropMod - 1
  /\ wpc \in [Writers -> {"idle", "loaded", "full", "room", "copied"}]
  /\ witem \in [Writers -> Frames]
  /\ whead \in [Writers -> Slots]
  /\ cpc \in {"idle", "nonempty", "copied"}
  /\ citem \in Frames
  /\ out \in Frames

\* The frames between tail and head, oldest first: what the ring holds.
Held == [i \in 1 .. Available |-> buf[(tail + i - 1) % Cap]]

\* A full test whose drop is not counted yet has already refused its frame.
Refused == (drops + Cardinality({w \in Writers : wpc[w] = "full"})) % DropMod

(***************************************************************************)
(* The ring is a bounded FIFO queue of Cap - 1 frames.  Pushes take effect *)
(* at the store of head, pops at the store of tail, refusals at the full   *)
(* test (ringbuf.h, rb_try_push and rb_pop).                               *)
(***************************************************************************)
Fifo == INSTANCE FrameQueue WITH
          q <- Held, refused <- Refused, Depth <- Cap - 1

FifoSpec == Fifo!Spec

(***************************************************************************)
(* The slot a pop is copying out of is never the one a push is copying     *)
(* into (the memcpys of rb_try_push and rb_pop never overlap).             *)
(***************************************************************************)
NoSlotConflict ==
  \A w \in Writers :
    wpc[w] \in {"room", "copied"} /\ cpc # "idle" => whead[w] # tail

(***************************************************************************)
(* The inductive invariant of a ring with one writer: the writer's copy of *)
(* head is head, a writer past the full test still has its gap (pops only  *)
(* widen it), a started pop still has its frame, and the frame it copied   *)
(* is still the one in the slot.                                           *)
(***************************************************************************)
RingInv ==
  /\ TypeOK
  /\ \A w \in Writers :
       /\ wpc[w] # "idle" => whead[w] = head
       /\ wpc[w] \in {"room", "copied"} => NextSlot(head) # tail
       /\ wpc[w] = "copied" => buf[head] = witem[w]
  /\ cpc # "idle" => tail # head
  /\ cpc = "copied" => citem = buf[tail]

(***************************************************************************)
(* A push that returns true leaves its own frame at the end of the queue   *)
(* (ringbuf.h lines 8 and 72-86).                                          *)
(***************************************************************************)
PushedFrameIsQueued ==
  [][\A w \in Writers, f \in Frames :
       PushStoreHead(w) /\ witem[w] = f =>
         Len(Held') = Len(Held) + 1 /\ Held'[Len(Held')] = f]_vars

(***************************************************************************)
(* Every queued frame leaves the ring: with the main loop popping, a       *)
(* non-empty ring moves its tail on.                                       *)
(***************************************************************************)
RingDrains == \A i \in Slots : (tail = i /\ tail # head) ~> (tail # i)

=============================================================================
