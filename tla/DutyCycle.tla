----------------------------- MODULE DutyCycle -----------------------------
(***************************************************************************)
(* The duty-cycle limiter of firmware_core/dutycycle.c, driven by the      *)
(* passes of tx_drain_loop: a pass reads the clock once, then takes up to  *)
(* DrainLimit frames from rf_tx_queue, asks dutycycle_check with the time  *)
(* it read at its start, transmits, and records the transmission with the  *)
(* time at its end.                                                        *)
(*                                                                         *)
(* Airtime is counted in ticks of the clock: a frame of airtime t keeps    *)
(* radio_transmit busy for t ticks.  Nothing else in a pass takes time.    *)
(***************************************************************************)
EXTENDS Naturals, FiniteSetsExt, Functions

CONSTANTS HistoryCap,   \* DC_HISTORY_CAP
          Window,       \* DC_WINDOW_MS
          Budget,       \* DC_BUDGET_US
          Toas,         \* airtimes of frames
          DrainLimit,   \* TX_DRAIN_LIMIT
          ClockMod      \* tb_millis() counts modulo ClockMod, 2^32

ASSUME CapAssumption == HistoryCap \in Nat \ {0}
ASSUME LimitAssumption == Window \in Nat \ {0} /\ Budget \in Nat /\ DrainLimit \in Nat
ASSUME ToasAssumption == Toas \subseteq Nat \ {0}
ASSUME ClockAssumption == ClockMod \in Nat /\ ClockMod > 2 * Window

VARIABLES dc,     \* g_dc: history, head and used_us; end = 0 marks a free slot
          now,    \* tb_millis()
          pass,   \* the running pass: the time it read, the frames it may take
          air     \* history: the transmissions that ended within the window

vars == <<dc, now, pass, air>>

Slots == 0 .. HistoryCap - 1
Clock == 0 .. ClockMod - 1
Free == [end |-> 0, toa |-> 0]

\* dutycycle_init.  The clock starts anywhere, so that behaviours cross its
\* wrap at every point.
Init ==
  /\ dc = [hist |-> [i \in Slots |-> Free], head |-> 0, used |-> 0]
  /\ now \in Clock
  /\ pass = [at |-> now, left |-> 0]
  /\ air = {}

\* Unsigned subtraction of clock readings.
Age(at, end) == (at + ClockMod - end) % ClockMod

\* The airtime of the records in the slots S.
Airtime(h, S) == SumFunctionOnSet([i \in Slots |-> h[i].toa], S)

\* The records expire_old clears.
Stale(h, at) == {i \in Slots : h[i].end # 0 /\ Age(at, h[i].end) > Window}

\* Mutant: the cleared airtime is not given back.
Expire_KeepUse(d, at) ==
  [d EXCEPT !.hist = [i \in Slots |-> IF i \in Stale(d.hist, at) THEN Free ELSE @[i]]]

\* expire_old
Expire(d, at) ==
  [d EXCEPT !.hist = [i \in Slots |-> IF i \in Stale(d.hist, at) THEN Free ELSE @[i]],
            !.used = @ - Airtime(d.hist, Stale(d.hist, at))]

\* The slot dutycycle_record writes, scanning from head: the first free one,
\* else the oldest.
Victim(d, at) ==
  LET free == {i \in Slots : d.hist[i].end = 0}
      age(i) == Age(at, d.hist[i].end)
      oldest == {i \in Slots : age(i) > 0 /\ \A j \in Slots : age(j) <= age(i)}
      offset(i) == (i + HistoryCap - d.head) % HistoryCap
      first(S) == CHOOSE i \in S : \A j \in S : offset(i) <= offset(j)
  IN  IF free # {} THEN first(free)
      ELSE IF oldest # {} THEN first(oldest) ELSE 0

\* Mutant: head is not reduced to the size of the history.
Record_NoMask(d, at, toa) ==
  LET e == Expire(d, at)  i == Victim(e, at)
  IN  [hist |-> [e.hist EXCEPT ![i] = [end |-> IF at = 0 THEN 1 ELSE at, toa |-> toa]],
       head |-> i + 1,
       used |-> toa + (IF e.used >= e.hist[i].toa THEN e.used - e.hist[i].toa ELSE 0)]

\* dutycycle_record: the airtime of an evicted record is forgotten.  A reading
\* of 0, which would mark the slot free, is stored as 1.
Record(d, at, toa) ==
  LET e == Expire(d, at)  i == Victim(e, at)
  IN  [hist |-> [e.hist EXCEPT ![i] = [end |-> IF at = 0 THEN 1 ELSE at, toa |-> toa]],
       head |-> (i + 1) % HistoryCap,
       used |-> toa + (IF e.used >= e.hist[i].toa THEN e.used - e.hist[i].toa ELSE 0)]

\* dutycycle_check, after its call of expire_old.
Fits(d, toa) == d.used + toa <= Budget

\* The transmissions still in the window after t more ticks.
Later(t) == {[r EXCEPT !.age = @ + t] : r \in {s \in air : s.age + t <= Window}}

-----------------------------------------------------------------------------

\* tx_drain_loop reads the clock.
BeginPass ==
  /\ pass.left = 0
  /\ pass' = [at |-> now, left |-> DrainLimit]
  /\ UNCHANGED <<dc, now, air>>

Taken == pass.left > 0 /\ pass' = [pass EXCEPT !.left = @ - 1]

\* The queue is empty, or the frame never reaches the limiter: held back,
\* suppressed or refused by the airtime scheduler.
Skip ==
  /\ Taken
  /\ UNCHANGED <<dc, now, air>>

\* dutycycle_check refuses the frame: it is dropped.
Block(toa) ==
  LET d == Expire(dc, pass.at)
  IN  /\ Taken
      /\ ~Fits(d, toa)
      /\ dc' = d
      /\ UNCHANGED <<now, air>>

\* The frame is transmitted, and recorded with the time at its end.
Send(toa) ==
  LET d == Expire(dc, pass.at)  end == (now + toa) % ClockMod
  IN  /\ Taken
      /\ Fits(d, toa)
      /\ now' = end
      /\ dc' = Record(d, end, toa)
      /\ air' = Later(toa) \cup {[age |-> 0, toa |-> toa, zero |-> end = 0]}

\* radio_transmit returns false: nothing is recorded.
SendFails(toa) ==
  LET d == Expire(dc, pass.at)
  IN  /\ Taken
      /\ Fits(d, toa)
      /\ now' = (now + toa) % ClockMod
      /\ dc' = d
      /\ air' = Later(toa)

\* Time between passes.
Advance ==
  /\ pass.left = 0
  /\ now' = (now + 1) % ClockMod
  /\ air' = Later(1)
  /\ UNCHANGED <<dc, pass>>

Next ==
  \/ BeginPass
  \/ Skip
  \/ \E toa \in Toas : Block(toa) \/ Send(toa) \/ SendFails(toa)
  \/ Advance

Spec == Init /\ [][Next]_vars

-----------------------------------------------------------------------------

TypeOK ==
  /\ dc \in [hist : [Slots -> [end : Clock, toa : Toas \cup {0}]], head : Slots, used : Nat]
  /\ now \in Clock
  /\ pass \in [at : Clock, left : 0 .. DrainLimit]
  /\ air \subseteq [age : 0 .. Window, toa : Toas, zero : BOOLEAN]

(***************************************************************************)
(* used_us, kept by additions and subtractions in three places, is the     *)
(* airtime of the records in the history, across expiry, eviction and the  *)
(* wrap of the clock (dutycycle.c lines 53, 113-123): no airtime is leaked *)
(* into it for ever and the 64-bit subtraction never underflows.           *)
(***************************************************************************)
UsedExact == dc.used = Airtime(dc.hist, Slots)

(***************************************************************************)
(* The airtime the radio really spent in any window of DC_WINDOW_MS is at  *)
(* most DC_BUDGET_US (dutycycle.h lines 7-9), leaving out a transmission   *)
(* that ended exactly when the clock read 0.                               *)
(***************************************************************************)
BudgetKept ==
  MapThenSumSet(LAMBDA r : r.toa, {r \in air : ~r.zero}) <= Budget
=============================================================================
