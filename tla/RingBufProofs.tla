--------------------------- MODULE RingBufProofs ---------------------------
(***************************************************************************)
(* With a single writer context the ring of RingBuf keeps RingInv, and so  *)
(* NoSlotConflict, for every capacity, item set and counter width.         *)
(***************************************************************************)
EXTENDS RingBuf, FiniteSetTheorems, SequenceTheorems, TLAPS

\* One context pushes: the contract of ringbuf.h.
SingleWriter == \A v, w \in Writers : v = w

\* Taking the remainder of a value below the modulus, or equal to it.
LEMMA ModSmall ==
  ASSUME NEW a \in Nat, NEW b \in Nat \ {0}, a <= b
  PROVE  a % b = IF a = b THEN 0 ELSE a
  OBVIOUS

\* The masked increment, without the mask.
LEMMA NextSlotValue ==
  ASSUME NEW i \in Slots
  PROVE  /\ NextSlot(i) \in Slots
         /\ NextSlot(i) = IF i + 1 = Cap THEN 0 ELSE i + 1
<1>1. i + 1 \in Nat /\ i + 1 <= Cap
  BY CapAssumption DEF Slots
<1>2. NextSlot(i) = IF i + 1 = Cap THEN 0 ELSE i + 1
  BY <1>1, ModSmall, CapAssumption DEF NextSlot
<1> QED
  BY <1>1, <1>2, CapAssumption DEF Slots

LEMMA NextSlotInjective ==
  ASSUME NEW i \in Slots, NEW j \in Slots, NextSlot(i) = NextSlot(j)
  PROVE  i = j
  BY NextSlotValue, CapAssumption DEF Slots

(***************************************************************************)
(* Type correctness, for any number of writers.                            *)
(***************************************************************************)
LEMMA TypeStep ==
  ASSUME TypeOK, [Next]_vars
  PROVE  TypeOK'
<1> USE CapAssumption, DropModAssumption DEF TypeOK
<1>1. ASSUME NEW w \in Writers, NEW f \in Frames, PushLoadHead(w, f)
      PROVE  TypeOK'
  BY <1>1 DEF PushLoadHead, popVars
<1>2. ASSUME NEW w \in Writers, PushLoadTail(w)
      PROVE  TypeOK'
  BY <1>2 DEF PushLoadTail, popVars
<1>3. ASSUME NEW w \in Writers, PushDrop(w)
      PROVE  TypeOK'
  <2>1. (drops + 1) % DropMod \in 0 .. DropMod - 1
    BY ModSmall
  <2> QED
    BY <1>3, <2>1 DEF PushDrop, popVars
<1>4. ASSUME NEW w \in Writers, PushCopy(w)
      PROVE  TypeOK'
  BY <1>4 DEF PushCopy, popVars
<1>5. ASSUME NEW w \in Writers, PushStoreHead(w)
      PROVE  TypeOK'
  BY <1>5, NextSlotValue DEF PushStoreHead, popVars
<1>6. CASE PopLoad
  BY <1>6 DEF PopLoad, writerVars
<1>7. CASE PopCopy
  BY <1>7 DEF PopCopy, writerVars
<1>8. CASE PopStoreTail
  BY <1>8, NextSlotValue DEF PopStoreTail, writerVars
<1>9. CASE UNCHANGED vars
  BY <1>9 DEF vars
<1> QED
  BY <1>1, <1>2, <1>3, <1>4, <1>5, <1>6, <1>7, <1>8, <1>9
     DEF Next, PushStep

LEMMA TypeInit == Init => TypeOK
  BY CapAssumption, DropModAssumption DEF Init, TypeOK, Slots

THEOREM RingTypeOK == Spec => []TypeOK
  BY TypeInit, TypeStep, PTL DEF Spec

(***************************************************************************)
(* The inductive invariant of a ring with one writer.                      *)
(***************************************************************************)
LEMMA RingInvInit == Init => RingInv
  BY TypeInit DEF Init, RingInv

LEMMA RingInvStep ==
  ASSUME SingleWriter, RingInv, [Next]_vars
  PROVE  RingInv'
<1>1. TypeOK'
  BY TypeStep DEF RingInv
<1> USE <1>1 DEF RingInv, TypeOK
<1>2. ASSUME NEW w \in Writers, NEW f \in Frames, PushLoadHead(w, f)
      PROVE  RingInv'
  BY <1>2 DEF PushLoadHead, popVars
<1>3. ASSUME NEW w \in Writers, PushLoadTail(w)
      PROVE  RingInv'
  BY <1>3 DEF PushLoadTail, popVars
<1>4. ASSUME NEW w \in Writers, PushDrop(w)
      PROVE  RingInv'
  BY <1>4 DEF PushDrop, popVars
<1>5. ASSUME NEW w \in Writers, PushCopy(w)
      PROVE  RingInv'
  BY <1>5 DEF PushCopy, popVars, SingleWriter
<1>6. ASSUME NEW w \in Writers, PushStoreHead(w)
      PROVE  RingInv'
  BY <1>6, NextSlotValue DEF PushStoreHead, popVars, SingleWriter
<1>7. CASE PopLoad
  BY <1>7 DEF PopLoad, writerVars
<1>8. CASE PopCopy
  BY <1>8 DEF PopCopy, writerVars
<1>9. CASE PopStoreTail
  BY <1>9, NextSlotValue, NextSlotInjective DEF PopStoreTail, writerVars
<1>10. CASE UNCHANGED vars
  BY <1>10 DEF vars
<1> QED
  BY <1>2, <1>3, <1>4, <1>5, <1>6, <1>7, <1>8, <1>9, <1>10
     DEF Next, PushStep

THEOREM OneWriterInvariant == SingleWriter => (Spec => []RingInv)
<1>1. SUFFICES ASSUME SingleWriter PROVE Spec => []RingInv
  OBVIOUS
<1>2. RingInv /\ [Next]_vars => RingInv'
  BY <1>1, RingInvStep
<1> QED
  BY <1>2, RingInvInit, PTL DEF Spec

(***************************************************************************)
(* The memcpys of a push and of a pop never touch the same slot.           *)
(***************************************************************************)
THEOREM OneWriterNoSlotConflict == SingleWriter => (Spec => []NoSlotConflict)
<1>1. RingInv => NoSlotConflict
  BY DEF RingInv, NoSlotConflict
<1> QED
  BY <1>1, OneWriterInvariant, PTL

(***************************************************************************)
(* Refinement: the ring implements the bounded FIFO queue.                 *)
(***************************************************************************)

\* A position k slots after slot t, without the mask.
LEMMA WrapValue ==
  ASSUME NEW t \in Slots, NEW k \in 0 .. Cap
  PROVE  (t + k) % Cap = IF t + k < Cap THEN t + k ELSE t + k - Cap
<1>1. CASE t + k < Cap
  <2>1. t + k \in Nat /\ t + k <= Cap /\ t + k # Cap
    BY <1>1, CapAssumption DEF Slots
  <2> QED
    BY <1>1, <2>1, ModSmall, CapAssumption
<1>2. CASE t + k >= Cap
  <2>1. PICK r \in 0 .. Cap - 1 : t + k = Cap + r
    <3>1. t + k - Cap \in 0 .. Cap - 1 /\ t + k = Cap + (t + k - Cap)
      BY <1>2, CapAssumption DEF Slots
    <3> QED
      BY <3>1
  <2>2. (Cap + r) % Cap = r
    BY CapAssumption
  <2>3. ~(t + k < Cap) /\ t + k - Cap = r
    BY <1>2, <2>1, CapAssumption DEF Slots
  <2> QED
    BY <2>1, <2>2, <2>3
<1> QED
  BY <1>1, <1>2, CapAssumption DEF Slots

\* rb_available without the mask.
LEMMA AvailableValue ==
  ASSUME NEW h \in Slots, NEW t \in Slots
  PROVE  (h + Cap - t) % Cap = IF h >= t THEN h - t ELSE h + Cap - t
<1>1. Cap - t \in 0 .. Cap /\ h + Cap - t = h + (Cap - t)
  BY CapAssumption DEF Slots
<1>2. (h + (Cap - t)) % Cap =
        IF h + (Cap - t) < Cap THEN h + (Cap - t) ELSE h + (Cap - t) - Cap
  BY <1>1, WrapValue
<1> QED
  BY <1>1, <1>2, CapAssumption DEF Slots

LEMMA HeldType ==
  ASSUME TypeOK
  PROVE  /\ Available \in 0 .. Cap - 1
         /\ Held \in Seq(Frames)
         /\ Len(Held) = Available
         /\ \A i \in 1 .. Available : Held[i] = buf[(tail + i - 1) % Cap]
<1>1. Available \in 0 .. Cap - 1
  BY AvailableValue, CapAssumption DEF TypeOK, Available, Slots
<1>2. ASSUME NEW i \in 1 .. Available PROVE buf[(tail + i - 1) % Cap] \in Frames
  <2>1. i - 1 \in 0 .. Cap /\ tail + i - 1 = tail + (i - 1) /\ tail \in Slots
    BY <1>1, CapAssumption DEF TypeOK, Slots
  <2>2. (tail + i - 1) % Cap \in Slots
    BY <1>1, <2>1, WrapValue, CapAssumption DEF Slots
  <2> QED
    BY <2>2 DEF TypeOK
<1> QED
  BY <1>1, <1>2 DEF Held

\* Storing head appends the slot it steps over to what the ring holds.
LEMMA HeldPush ==
  ASSUME TypeOK, TypeOK', NextSlot(head) # tail, head' = NextSlot(head),
         UNCHANGED <<buf, tail>>
  PROVE  Len(Held) < Cap - 1 /\ Held' = Append(Held, buf[head])
<1>1. /\ head \in Slots /\ tail \in Slots /\ head' \in Slots /\ tail' = tail
      /\ head' = IF head + 1 = Cap THEN 0 ELSE head + 1
  BY NextSlotValue DEF TypeOK
<1>a. Available = IF head >= tail THEN head - tail ELSE head + Cap - tail
  BY <1>1, AvailableValue DEF Available
<1>b. Available' = IF head' >= tail THEN head' - tail ELSE head' + Cap - tail
  BY <1>1, AvailableValue DEF Available
<1>2. Available' = Available + 1 /\ Available \in 0 .. Cap - 2
  BY <1>1, <1>a, <1>b, CapAssumption DEF Slots
<1>3. (tail + Available) % Cap = head
  <2>1. Available \in 0 .. Cap
    BY <1>2, CapAssumption
  <2>2. (tail + Available) % Cap =
          IF tail + Available < Cap THEN tail + Available ELSE tail + Available - Cap
    BY <1>1, <2>1, WrapValue
  <2> QED
    BY <1>1, <1>a, <2>2, CapAssumption DEF Slots
<1>4. /\ Len(Held) = Available /\ Held \in Seq(Frames)
      /\ \A i \in 1 .. Available : Held[i] = buf[(tail + i - 1) % Cap]
  BY HeldType
<1>5. Held' = [i \in 1 .. Available + 1 |-> buf[(tail + i - 1) % Cap]]
  BY <1>1, <1>2 DEF Held
<1>6. tail + (Available + 1) - 1 = tail + Available
  BY <1>1, <1>2 DEF Slots
<1>8. Append(Held, buf[head]) =
        [i \in 1 .. Available + 1 |-> IF i = Available + 1 THEN buf[head] ELSE Held[i]]
  BY <1>2, <1>4
<1>9. \A i \in 1 .. Available : Held[i] = buf[(tail + i - 1) % Cap]
  BY <1>4
<1>10. \A i \in 1 .. Available + 1 :
         buf[(tail + i - 1) % Cap] =
           (IF i = Available + 1 THEN buf[head] ELSE Held[i])
  <2> TAKE i \in 1 .. Available + 1
  <2>1. CASE i = Available + 1
    BY <2>1, <1>3, <1>6
  <2>2. CASE i # Available + 1
    BY <2>2, <1>9, <1>2
  <2> QED
    BY <2>1, <2>2
<1>11. Held' = Append(Held, buf[head])
  BY <1>5, <1>8, <1>10
<1> QED
  BY <1>2, <1>4, <1>11, CapAssumption

\* The slot at head is not one the ring holds, so a copy into it is invisible.
LEMMA HeldCopy ==
  ASSUME TypeOK, NEW f \in Frames, buf' = [buf EXCEPT ![head] = f],
         UNCHANGED <<head, tail>>
  PROVE  Held' = Held
<1>1. head \in Slots /\ tail \in Slots /\ buf \in [Slots -> Frames]
  BY DEF TypeOK
<1>2. Available' = Available
  BY DEF Available
<1>3. Available = IF head >= tail THEN head - tail ELSE head + Cap - tail
  BY <1>1, AvailableValue DEF Available
<1>4. ASSUME NEW i \in 1 .. Available
      PROVE  buf'[(tail + i - 1) % Cap] = buf[(tail + i - 1) % Cap]
  <2>1. i - 1 \in 0 .. Cap /\ tail + i - 1 = tail + (i - 1)
    BY <1>1, <1>3, CapAssumption DEF Slots
  <2>2. (tail + (i - 1)) % Cap =
          IF tail + (i - 1) < Cap THEN tail + (i - 1) ELSE tail + (i - 1) - Cap
    BY <1>1, <2>1, WrapValue
  <2>3. (tail + (i - 1)) % Cap \in Slots /\ (tail + (i - 1)) % Cap # head
    BY <1>1, <1>3, <2>2, CapAssumption DEF Slots
  <2> QED
    BY <1>1, <2>1, <2>3
<1> QED
  BY <1>2, <1>4 DEF Held

\* Storing tail removes the oldest frame the ring holds.
LEMMA HeldPop ==
  ASSUME TypeOK, TypeOK', tail # head, tail' = NextSlot(tail),
         UNCHANGED <<buf, head>>
  PROVE  Held # <<>> /\ Head(Held) = buf[tail] /\ Held' = Tail(Held)
<1>1. /\ head \in Slots /\ tail \in Slots /\ tail' \in Slots /\ head' = head
      /\ tail' = IF tail + 1 = Cap THEN 0 ELSE tail + 1
  BY NextSlotValue DEF TypeOK
<1>a. Available = IF head >= tail THEN head - tail ELSE head + Cap - tail
  BY <1>1, AvailableValue DEF Available
<1>b. Available' = IF head >= tail' THEN head - tail' ELSE head + Cap - tail'
  BY <1>1, AvailableValue DEF Available
<1>2. Available' = Available - 1 /\ Available \in 1 .. Cap - 1
  BY <1>1, <1>a, <1>b, CapAssumption DEF Slots
<1>3. /\ Len(Held) = Available /\ Held \in Seq(Frames)
      /\ \A i \in 1 .. Available : Held[i] = buf[(tail + i - 1) % Cap]
  BY HeldType
<1>4. (tail + 1 - 1) % Cap = tail
  <2>1. tail + 1 - 1 = tail /\ tail \in Nat /\ tail <= Cap /\ tail # Cap
    BY <1>1, CapAssumption DEF Slots
  <2> QED
    BY <2>1, ModSmall, CapAssumption
<1>5. Held # <<>> /\ Head(Held) = Held[1] /\ 1 \in 1 .. Available
  BY <1>2, <1>3
<1>6. Head(Held) = buf[tail]
  BY <1>3, <1>4, <1>5
<1>7. Held' = [i \in 1 .. Available - 1 |-> buf[(tail' + i - 1) % Cap]]
  BY <1>2 DEF Held
<1>8. /\ Tail(Held) \in Seq(Frames)
      /\ Len(Tail(Held)) = Available - 1
      /\ \A i \in 1 .. Available - 1 : Tail(Held)[i] = Held[i + 1]
  BY <1>3, <1>5, HeadTailProperties
<1>9. ASSUME NEW i \in 1 .. Available - 1
      PROVE  buf[(tail' + i - 1) % Cap] = Held[i + 1]
  <2>1. /\ i - 1 \in 0 .. Cap /\ i \in 0 .. Cap
        /\ tail' + i - 1 = tail' + (i - 1) /\ tail + (i + 1) - 1 = tail + i
        /\ i + 1 \in 1 .. Available
    BY <1>1, <1>2, CapAssumption DEF Slots
  <2>2. (tail' + (i - 1)) % Cap =
          IF tail' + (i - 1) < Cap THEN tail' + (i - 1) ELSE tail' + (i - 1) - Cap
    BY <1>1, <2>1, WrapValue
  <2>3. (tail + i) % Cap = IF tail + i < Cap THEN tail + i ELSE tail + i - Cap
    BY <1>1, <2>1, WrapValue
  <2>4. (tail' + (i - 1)) % Cap = (tail + i) % Cap
    BY <1>1, <1>2, <2>1, <2>2, <2>3, CapAssumption DEF Slots
  <2> QED
    BY <1>3, <2>1, <2>4
<1>10. /\ Held' \in Seq(Frames) /\ Len(Held') = Available - 1
       /\ \A i \in 1 .. Available - 1 : Held'[i] = Held[i + 1]
  <2>1. Available - 1 \in Nat
    BY <1>2
  <2>2. \A i \in 1 .. Available - 1 : Held[i + 1] \in Frames
    BY <1>2, <1>3
  <2>3. Held' = [i \in 1 .. Available - 1 |-> Held[i + 1]]
    BY <1>7, <1>9
  <2> QED
    BY <2>1, <2>2, <2>3
<1>11. Held' = Tail(Held)
  BY <1>8, <1>10, SeqEqual
<1> QED
  BY <1>5, <1>6, <1>11

\* With one writer, at most one refusal waits to be counted.
Counting == {w \in Writers : wpc[w] = "full"}

LEMMA CountingCases ==
  ASSUME SingleWriter, NEW w \in Writers
  PROVE  Cardinality(Counting) = IF wpc[w] = "full" THEN 1 ELSE 0
<1>1. Counting = IF wpc[w] = "full" THEN {w} ELSE {}
  BY DEF Counting, SingleWriter
<1> QED
  BY <1>1, FS_EmptySet, FS_Singleton

LEMMA RefinementInit ==
  ASSUME SingleWriter, Init
  PROVE  Fifo!Init
<1>1. TypeOK /\ head = 0 /\ tail = 0 /\ drops = 0
  BY TypeInit DEF Init
<1>2. Held = <<>>
  <2>1. Available = 0
    BY <1>1, AvailableValue, CapAssumption DEF Available, Slots
  <2> QED
    BY <2>1 DEF Held
<1>3. Counting = {}
  BY DEF Counting, Init
<1>4. Refused = 0
  <2>1. Refused = (0 + 0) % DropMod
    BY <1>1, <1>3, FS_EmptySet DEF Refused, Counting
  <2> QED
    BY <2>1, ModSmall, DropModAssumption
<1> QED
  BY <1>1, <1>2, <1>4 DEF Fifo!Init, TypeOK

\* Only the full test and the counting of a drop move Refused.
LEMMA RefusedSame ==
  ASSUME drops' = drops, {w \in Writers : wpc'[w] = "full"} = Counting
  PROVE  Refused' = Refused
  BY DEF Refused, Counting

LEMMA RefinementStep ==
  ASSUME SingleWriter, RingInv, RingInv', [Next]_vars
  PROVE  [Fifo!Next]_(Fifo!fqVars)
<1> USE DEF RingInv
<1>t. TypeOK /\ TypeOK'
  OBVIOUS
<1>1. ASSUME NEW w \in Writers, NEW f \in Frames, PushLoadHead(w, f)
      PROVE  UNCHANGED Fifo!fqVars
  <2>1. Held' = Held /\ out' = out
    BY <1>1 DEF PushLoadHead, popVars, Held, Available
  <2>2. Refused' = Refused
    BY <1>1, <1>t, RefusedSame DEF PushLoadHead, Counting, TypeOK
  <2> QED
    BY <2>1, <2>2 DEF Fifo!fqVars
<1>2. ASSUME NEW w \in Writers, PushLoadTail(w)
      PROVE  [Fifo!Next]_(Fifo!fqVars)
  <2>1. Held' = Held /\ out' = out /\ drops' = drops
    BY <1>2 DEF PushLoadTail, popVars, Held, Available
  <2>2. CASE NextSlot(whead[w]) = tail
    <3>1. wpc[w] = "loaded" /\ wpc'[w] = "full" /\ NextSlot(head) = tail
      BY <1>2, <1>t, <2>2 DEF PushLoadTail, TypeOK
    <3>2. Cardinality(Counting) = 0 /\ Cardinality(Counting') = 1
      <4>1. Counting = {} /\ Counting' = {w}
        BY <3>1 DEF Counting, SingleWriter
      <4> QED
        BY <4>1, FS_EmptySet, FS_Singleton
    <3>3. Refused = drops /\ Refused' = (drops + 1) % DropMod
      <4>1. Refused = (drops + 0) % DropMod /\ Refused' = (drops + 1) % DropMod
        BY <2>1, <3>2 DEF Refused, Counting
      <4>2. drops \in Nat /\ drops <= DropMod /\ drops # DropMod
        BY <1>t, DropModAssumption DEF TypeOK
      <4> QED
        BY <4>1, <4>2, ModSmall, DropModAssumption
    <3>4. Len(Held) = Cap - 1
      <4>1. head \in Slots /\ tail = IF head + 1 = Cap THEN 0 ELSE head + 1
        BY <1>t, <3>1, NextSlotValue DEF TypeOK
      <4>2. tail \in Slots
        BY <1>t DEF TypeOK
      <4>3. Available = IF head >= tail THEN head - tail ELSE head + Cap - tail
        BY <4>1, <4>2, AvailableValue DEF Available
      <4>4. Available = Cap - 1
        BY <4>1, <4>3, CapAssumption DEF Slots
      <4> QED
        BY <4>4, <1>t, HeldType
    <3> QED
      BY <2>1, <3>3, <3>4 DEF Fifo!Next, Fifo!Refuse
  <2>3. CASE NextSlot(whead[w]) # tail
    <3>1. Refused' = Refused
      BY <1>2, <1>t, <2>1, <2>3, RefusedSame DEF PushLoadTail, Counting, TypeOK
    <3> QED
      BY <2>1, <3>1 DEF Fifo!fqVars
  <2> QED
    BY <2>2, <2>3
<1>3. ASSUME NEW w \in Writers, PushDrop(w)
      PROVE  UNCHANGED Fifo!fqVars
  <2>1. Held' = Held /\ out' = out
    BY <1>3 DEF PushDrop, popVars, Held, Available
  <2>2. Counting = {w} /\ Counting' = {}
    BY <1>3, <1>t DEF PushDrop, Counting, SingleWriter, TypeOK
  <2>3. Refused = (drops + 1) % DropMod /\ Refused' = (drops' + 0) % DropMod
    BY <2>2, FS_EmptySet, FS_Singleton, ZenonT(60) DEF Refused, Counting
  <2>4. drops' = (drops + 1) % DropMod /\ drops' \in Nat /\ drops' < DropMod
    BY <1>3, <1>t, DropModAssumption DEF PushDrop, TypeOK
  <2>5. (drops' + 0) % DropMod = drops'
    BY <2>4, ModSmall, DropModAssumption
  <2> QED
    BY <2>1, <2>3, <2>4, <2>5 DEF Fifo!fqVars
<1>4. ASSUME NEW w \in Writers, PushCopy(w)
      PROVE  UNCHANGED Fifo!fqVars
  <2>1. /\ witem[w] \in Frames /\ buf' = [buf EXCEPT ![head] = witem[w]]
        /\ UNCHANGED <<head, tail, out, drops>>
    BY <1>4, <1>t DEF PushCopy, popVars, TypeOK
  <2>2. Held' = Held
    BY <2>1, <1>t, HeldCopy
  <2>3. Refused' = Refused
    BY <1>4, <1>t, RefusedSame DEF PushCopy, Counting, TypeOK
  <2> QED
    BY <2>1, <2>2, <2>3 DEF Fifo!fqVars
<1>5. ASSUME NEW w \in Writers, PushStoreHead(w)
      PROVE  Fifo!Next
  <2>1. /\ buf[head] = witem[w] /\ witem[w] \in Frames
        /\ NextSlot(head) # tail /\ head' = NextSlot(head)
        /\ UNCHANGED <<buf, tail, out, drops>>
    BY <1>5, <1>t DEF PushStoreHead, popVars, TypeOK
  <2>2. Len(Held) < Cap - 1 /\ Held' = Append(Held, witem[w])
    BY <2>1, <1>t, HeldPush
  <2>3. Refused' = Refused
    BY <1>5, <1>t, RefusedSame DEF PushStoreHead, Counting, TypeOK
  <2> QED
    BY <2>1, <2>2, <2>3 DEF Fifo!Next, Fifo!Push
<1>6. CASE PopLoad
  <2>1. Held' = Held /\ out' = out
    BY <1>6 DEF PopLoad, Held, Available
  <2>2. Refused' = Refused
    BY <1>6, RefusedSame DEF PopLoad, writerVars, Counting
  <2> QED
    BY <2>1, <2>2 DEF Fifo!fqVars
<1>7. CASE PopCopy
  <2>1. Held' = Held /\ out' = out
    BY <1>7 DEF PopCopy, Held, Available
  <2>2. Refused' = Refused
    BY <1>7, RefusedSame DEF PopCopy, writerVars, Counting
  <2> QED
    BY <2>1, <2>2 DEF Fifo!fqVars
<1>8. CASE PopStoreTail
  <2>1. /\ tail # head /\ citem = buf[tail] /\ tail' = NextSlot(tail)
        /\ out' = citem /\ UNCHANGED <<buf, head, drops>>
    BY <1>8, <1>t DEF PopStoreTail
  <2>2. Held # <<>> /\ Head(Held) = buf[tail] /\ Held' = Tail(Held)
    BY <2>1, <1>t, HeldPop
  <2>3. Refused' = Refused
    BY <1>8, RefusedSame DEF PopStoreTail, writerVars, Counting
  <2> QED
    BY <2>1, <2>2, <2>3 DEF Fifo!Next, Fifo!Pop
<1>9. CASE UNCHANGED vars
  BY <1>9 DEF vars, Fifo!fqVars, Held, Available, Refused
<1> QED
  BY <1>1, <1>2, <1>3, <1>4, <1>5, <1>6, <1>7, <1>8, <1>9
     DEF Next, PushStep

(***************************************************************************)
(* The ring with one writer implements the bounded FIFO queue: no accepted *)
(* frame is lost, duplicated or reordered, and a frame is refused only     *)
(* when Cap - 1 frames are queued.                                         *)
(***************************************************************************)
THEOREM OneWriterFifo == SingleWriter => (Spec => FifoSpec)
<1>1. SUFFICES ASSUME SingleWriter PROVE Spec => FifoSpec
  OBVIOUS
<1>2. Init => Fifo!Init
  BY <1>1, RefinementInit
<1>3. RingInv /\ RingInv' /\ [Next]_vars => [Fifo!Next]_(Fifo!fqVars)
  BY <1>1, RefinementStep
<1>4. Spec => []RingInv
  BY <1>1, OneWriterInvariant
<1> QED
  BY <1>2, <1>3, <1>4, PTL DEF Spec, FifoSpec, Fifo!Spec

=============================================================================
