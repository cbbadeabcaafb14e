------------------------------ MODULE SendQueue ------------------------------
(***************************************************************************)
(* send_queue.c: the outbox of originated frames, a circular array that    *)
(* the command line fills and the main loop empties into the TX ring, one  *)
(* frame a turn.  Expiry is lazy: both operations first drop the frames at *)
(* the head that are too old.                                              *)
(***************************************************************************)
EXTENDS Naturals, SequencesExt

CONSTANTS SqFrames,  \* frames
          SqSize,    \* SEND_QUEUE_SIZE
          SqExpiry,  \* SEND_QUEUE_EXPIRY_MS
          SqMod      \* tb_millis() counts modulo SqMod, 2^32

ASSUME SqAssumption == SqSize \in Nat \ {0} /\ SqExpiry \in Nat /\ SqMod \in Nat /\ SqExpiry + 1 < SqMod

VARIABLES sq,     \* g_send_queue: entries, head, tail and count
          sqNow,  \* tb_millis()
          sqRef   \* history: the frames accepted, neither handed over nor expired,
                  \* with their true age

sqVars == <<sq, sqNow, sqRef>>

SqSlots == 0 .. SqSize - 1
SqFree == [valid |-> FALSE]

SqInit ==
  /\ sq = [entries |-> [i \in SqSlots |-> SqFree], head |-> 0, tail |-> 0, count |-> 0]
  /\ sqNow \in 0 .. SqMod - 1
  /\ sqRef = <<>>

-----------------------------------------------------------------------------
\* Mutant: the ages are compared without wrap arithmetic.
SqOld_Plain(e, now) == now > e.at + SqExpiry

SqOld(e, now) == (now + SqMod - e.at) % SqMod > SqExpiry

\* The slot i places behind the head.
SqAt(q, i) == (q.head + i) % SqSize

\* The first k entries are cleared.
SqLess(q, k) ==
  [q EXCEPT !.entries = [s \in SqSlots |-> IF \E i \in 0 .. k - 1 : s = SqAt(q, i)
                                           THEN SqFree ELSE q.entries[s]],
            !.head = SqAt(q, k), !.count = q.count - k]

\* send_queue_expire: from the head on, up to the first frame that is fresh.
SqExpired(q, now) ==
  LET gone(i) == LET e == q.entries[SqAt(q, i)] IN ~e.valid \/ SqOld(e, now)
  IN  SqLess(q, CHOOSE k \in 0 .. q.count :
                  /\ \A i \in 0 .. k - 1 : gone(i)
                  /\ k = q.count \/ ~gone(k))

\* The frames that expired are the first ones of the history, as it is in the
\* order of their ages.
SqTrueOld ==
  CHOOSE k \in 0 .. Len(sqRef) : \A i \in DOMAIN sqRef : sqRef[i].age > SqExpiry <=> i <= k
SqTrueFresh == SubSeq(sqRef, SqTrueOld + 1, Len(sqRef))

\* send_queue_enqueue.
SqEnqueue(f) ==
  LET q == SqExpired(sq, sqNow)
      full == q.count >= SqSize
      e == [valid |-> TRUE, frame |-> f, at |-> sqNow]
  IN  /\ sq' = IF full THEN q
               ELSE [q EXCEPT !.entries[q.tail] = e, !.tail = (@ + 1) % SqSize, !.count = @ + 1]
      /\ sqRef' = IF Len(SqTrueFresh) >= SqSize THEN SqTrueFresh
                  ELSE Append(SqTrueFresh, [frame |-> f, age |-> 0])
      /\ UNCHANGED sqNow

\* send_queue_tick; room: the TX ring takes the frame.
SqTurn(room) ==
  LET q == SqExpired(sq, sqNow)
      k == IF q.count > 0 /\ room THEN 1 ELSE 0
  IN  /\ sq' = SqLess(q, k)
      /\ sqRef' = IF room /\ SqTrueFresh # <<>> THEN Tail(SqTrueFresh) ELSE SqTrueFresh
      /\ UNCHANGED sqNow

\* The loop turns more than once in a cycle of the clock.
SqClock ==
  /\ \A i \in DOMAIN sqRef : sqRef[i].age < SqMod - 1
  /\ sqNow' = (sqNow + 1) % SqMod
  /\ sqRef' = [i \in DOMAIN sqRef |-> [sqRef[i] EXCEPT !.age = @ + 1]]
  /\ UNCHANGED sq

SqNext == (\E f \in SqFrames : SqEnqueue(f)) \/ (\E room \in BOOLEAN : SqTurn(room)) \/ SqClock

-----------------------------------------------------------------------------
SqTypeOK ==
  /\ {sq.head, sq.tail} \subseteq SqSlots /\ sq.count \in 0 .. SqSize
  /\ \A s \in SqSlots : sq.entries[s].valid => sq.entries[s].frame \in SqFrames
  /\ sqNow \in 0 .. SqMod - 1

(***************************************************************************)
(* The outbox is a FIFO queue with an exact expiry: from the head on it    *)
(* holds the frames accepted, neither handed to the TX ring nor older than *)
(* SEND_QUEUE_EXPIRY_MS when it was last asked, in their order, and no     *)
(* other slot is in use; across the wraps of its indices and of the clock, *)
(* refusals of the ring and frames that expire together (send_queue.c      *)
(* lines 20-133).                                                          *)
(***************************************************************************)
OutboxKept ==
  /\ sq.count = Len(sqRef) /\ sq.tail = SqAt(sq, sq.count)
  /\ \A i \in SqSlots :
       LET e == sq.entries[SqAt(sq, i)] IN
       IF i < sq.count THEN e.valid /\ e.frame = sqRef[i + 1].frame ELSE ~e.valid
=============================================================================
