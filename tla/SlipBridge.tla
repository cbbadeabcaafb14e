----------------------------- MODULE SlipBridge -----------------------------
(***************************************************************************)
(* The USB bridge (rivr_iface_usb.c): a node sends a frame as SLIP symbols *)
(* over a line that may lose some, and the node at the other end feeds     *)
(* what arrives, symbol by symbol, to its decoder.                         *)
(***************************************************************************)
EXTENDS SequencesExt, FiniteSets

CONSTANTS SlBytes,   \* payload bytes; "end" and "esc" are those SLIP escapes, "ESC_END"
                     \* and "ESC_ESC" those that follow an escape too
          SlMaxLen   \* RF_MAX_PAYLOAD_LEN

ASSUME SlAssumption == SlMaxLen \in Nat \ {0} /\ {"END", "ESC"} \cap SlBytes = {}

VARIABLES slLine,  \* symbols on the line, the payload they are of, and whether
                   \* none of them has been lost
          slRx,    \* s_slip_rx: buf and esc
          slGot    \* the frame last pushed to rf_rx_ringbuf

slVars == <<slLine, slRx, slGot>>

SlPayloads == UNION {[1 .. n -> SlBytes] : n \in 1 .. SlMaxLen}

SlInit ==
  /\ slLine = [left |-> <<>>, payload |-> <<>>, whole |-> FALSE]
  /\ slRx = [buf |-> <<>>, esc |-> FALSE]
  /\ slGot = <<>>

SlEscaped(b) ==
  CASE b = "end" -> <<"ESC", "ESC_END">>
    [] b = "esc" -> <<"ESC", "ESC_ESC">>
    [] OTHER -> <<b>>

\* rivr_iface_usb_send: the escaped bytes between two ENDs.  The frame counts as
\* whole only if the decoder has no escape pending with nothing before it, the
\* one state that a leading END does not clear.
SlSend(p) ==
  /\ slLine.left = <<>>
  /\ slLine' = [left |-> <<"END">> \o FlattenSeq([i \in DOMAIN p |-> SlEscaped(p[i])]) \o <<"END">>,
                payload |-> p, whole |-> ~(slRx.esc /\ slRx.buf = <<>>)]
  /\ UNCHANGED <<slRx, slGot>>

\* A symbol is lost between the two nodes.
SlLose ==
  /\ slLine.left # <<>>
  /\ slLine' = [slLine EXCEPT !.left = Tail(@), !.whole = FALSE]
  /\ UNCHANGED <<slRx, slGot>>

SlAppend(b) ==
  IF Len(slRx.buf) < SlMaxLen THEN [buf |-> Append(slRx.buf, b), esc |-> FALSE]
  ELSE [buf |-> <<>>, esc |-> FALSE]

\* Mutant: the end of a frame leaves a pending escape.
SlAfterEnd_KeepEsc == [buf |-> <<>>, esc |-> slRx.esc]

\* An END that ends a frame clears the decoder; a leading one changes nothing.
SlAfterEnd == IF slRx.buf = <<>> THEN slRx ELSE [buf |-> <<>>, esc |-> FALSE]

\* slip_feed, for a symbol that is not END.
SlFed(b) ==
  IF slRx.esc
  THEN CASE b = "ESC_END" -> SlAppend("end")
         [] b = "ESC_ESC" -> SlAppend("esc")
         [] OTHER -> [buf |-> <<>>, esc |-> FALSE]
  ELSE IF b = "ESC" THEN [slRx EXCEPT !.esc = TRUE] ELSE SlAppend(b)

\* rivr_iface_usb_tick, one symbol at a time; a full RX ring loses the frame
\* that ended, which counts as a loss on the line.
SlFeed ==
  /\ slLine.left # <<>>
  /\ slLine' = [slLine EXCEPT !.left = Tail(@)]
  /\ IF Head(slLine.left) = "END"
     THEN /\ slRx' = SlAfterEnd
          /\ slGot' = IF slRx.buf = <<>> THEN slGot ELSE slRx.buf
     ELSE slRx' = SlFed(Head(slLine.left)) /\ UNCHANGED slGot

SlNext == (\E p \in SlPayloads : SlSend(p)) \/ SlLose \/ SlFeed

-----------------------------------------------------------------------------
SlTypeOK == Len(slRx.buf) <= SlMaxLen /\ Len(slGot) <= SlMaxLen

\* After whatever losses on the frames before it, a frame of which no symbol is
\* lost arrives as it was sent: its leading END flushes what the decoder held
\* (rivr_iface_usb.c:58-105, :163).
FramesWhole == slLine.left = <<>> /\ slLine.whole => slGot = slLine.payload
=============================================================================
