----------------------------- MODULE FrameQueue -----------------------------
(***************************************************************************)
(* What a frame ring of Rivr promises to its users: a bounded first-in     *)
(* first-out queue that refuses a frame only when it holds Depth of them.  *)
(* RingBuf, the lock-free implementation of firmware_core/ringbuf.h, is    *)
(* shown to implement this specification.                                  *)
(***************************************************************************)
EXTENDS Naturals, Sequences

CONSTANTS Frames,     \* the frames that can be queued
          Depth,      \* how many frames the queue holds
          DropMod     \* the refusal counter counts modulo DropMod

VARIABLES q,          \* the queued frames, oldest first
          out,        \* the frame the last successful pop returned
          refused     \* how many pushes were refused

fqVars == <<q, out, refused>>

Init ==
  /\ q = <<>>
  /\ out \in Frames
  /\ refused = 0

Push(f) ==
  /\ Len(q) < Depth
  /\ q' = Append(q, f)
  /\ UNCHANGED <<out, refused>>

Pop ==
  /\ q # <<>>
  /\ out' = Head(q)
  /\ q' = Tail(q)
  /\ UNCHANGED refused

Refuse ==
  /\ Len(q) = Depth
  /\ refused' = (refused + 1) % DropMod
  /\ UNCHANGED <<q, out>>

Next == Pop \/ Refuse \/ \E f \in Frames : Push(f)

Spec == Init /\ [][Next]_fqVars
=============================================================================
