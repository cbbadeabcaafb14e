----------------------------- MODULE RelayGates -----------------------------
(***************************************************************************)
(* What a flood frame must pass to be relayed, in the order of             *)
(* routing_flood_forward and of the relay stage of sources_rf_rx_drain:    *)
(* the forward budget (routing.c), charged at once, then the TTL cap and   *)
(* token bucket of policy.c, charged too, and then gates that may still    *)
(* drop the frame: the role, the fabric, back-pressure, the forward set    *)
(* and a full TX ring.  Nothing gives back what a dropped frame was        *)
(* charged.                                                                *)
(***************************************************************************)
EXTENDS Naturals, Sequences, SequencesExt

CONSTANTS RgSources,     \* sources of floods, numbers
          BucketCount,   \* POLICY_BUCKET_COUNT
          MaxTokens,     \* POLICY_MAX_TOKENS, also the initial tokens
          RgSec,         \* ticks of a second
          RgMod,         \* tb_millis() counts modulo RgMod, 2^32
          FwdCap,        \* FWDBUDGET_MAX_FWD_ROLE
          FwdFloor,      \* the least cap routing_fwdbudget_adapt sets
          FwdWindow,     \* FWDBUDGET_WINDOW_MS
          FwdAir,        \* FWDBUDGET_MAX_AIR_US_ROLE, a frame counting 1
          HourWindow,    \* FWDBUDGET_HOUR_WINDOW_MS
          HourAir        \* FWDBUDGET_MAX_HOUR_AIR_US, a frame counting 1

ASSUME RgAssumption ==
  /\ {BucketCount, MaxTokens, RgSec, RgMod, FwdCap, FwdFloor, FwdWindow, FwdAir,
      HourWindow, HourAir} \subseteq Nat \ {0}
  /\ RgSources \subseteq Nat
  /\ FwdWindow <= HourWindow /\ HourWindow < RgMod
  /\ FwdFloor <= FwdCap

VARIABLES policy,   \* g_policy: a bucket of tokens and last_refill per index
          fb,       \* g_fwdbudget: count of one type in the minute, its cap,
                    \* air of the hour, starts of both windows
          rgNow,    \* tb_millis()
          rgRef,    \* history: what a bucket filled at every tick would hold,
                    \* in parts of 1/RgSec of a token
          rgLog     \* history: forwards charged in each of the last ticks

rgVars == <<policy, fb, rgNow, rgRef, rgLog>>

Index(src) == src % BucketCount
Indices == 0 .. BucketCount - 1
RgAge(at) == (rgNow + RgMod - at) % RgMod
\* A full bucket keeps the rest of a second as well.
RefCap == MaxTokens * RgSec + RgSec - 1
Least(a, b) == IF a < b THEN a ELSE b

\* policy_init, routing_fwdbudget_init.  The clock may stand anywhere.
RgInit ==
  /\ policy = [i \in Indices |-> [tokens |-> MaxTokens, last |-> 0]]
  /\ fb = [count |-> 0, cap |-> FwdCap, start |-> 0, hour |-> 0, hourStart |-> 0]
  /\ rgNow \in 0 .. RgMod - 1
  /\ rgRef = [i \in Indices |-> RefCap]
  /\ rgLog = [i \in 1 .. FwdWindow |-> 0]

\* fwdbudget_roll_window
RollWindow(f) ==
  LET minute == IF RgAge(f.start) >= FwdWindow
                THEN [f EXCEPT !.count = 0, !.start = rgNow] ELSE f
  IN  IF RgAge(f.hourStart) >= HourWindow
      THEN [minute EXCEPT !.hour = 0, !.hourStart = rgNow] ELSE minute

\* routing_fwdbudget_check, after its roll of the windows.
BudgetAllows(f) ==
  /\ f.count < f.cap
  /\ f.count + 1 <= FwdAir
  /\ f.hour + 1 <= HourAir

\* routing_fwdbudget_record
BudgetRecord(f) == [RollWindow(f) EXCEPT !.count = @ + 1, !.hour = @ + 1]

\* Mutant: last_refill moves to now only when it is behind, and the seconds
\* already paid out are paid again.
Refill_NotMoved(b) ==
  IF rgNow < b.last THEN [b EXCEPT !.last = rgNow]
  ELSE [b EXCEPT !.tokens = Least(MaxTokens, @ + RgAge(b.last) \div RgSec)]

\* policy_check: whole seconds are paid out and their rest is kept; a clock
\* behind last_refill is taken for a reset, and nothing is paid.
Refill(b) ==
  LET secs == RgAge(b.last) \div RgSec
  IN  IF rgNow < b.last THEN [b EXCEPT !.last = rgNow]
      ELSE [tokens |-> Least(MaxTokens, b.tokens + secs), last |-> b.last + secs * RgSec]

\* policy_check on a CHAT or DATA frame that the budget let pass.  The verdict
\* of the gates behind does not matter here: none of them gives a token back.
PolicyCheck(src) ==
  LET b == Refill(policy[Index(src)])
      pass == b.tokens > 0
  IN  /\ policy' = [policy EXCEPT ![Index(src)] =
                      IF pass THEN [b EXCEPT !.tokens = @ - 1] ELSE b]
      /\ rgRef' = [rgRef EXCEPT ![Index(src)] = IF pass THEN @ - RgSec ELSE @]

\* routing_flood_forward refuses: only the windows may have rolled.
BudgetDrop ==
  /\ ~BudgetAllows(RollWindow(fb))
  /\ fb' = RollWindow(fb)
  /\ UNCHANGED <<policy, rgNow, rgRef, rgLog>>

Charged ==
  /\ BudgetAllows(RollWindow(fb))
  /\ fb' = BudgetRecord(fb)
  /\ rgLog' = [rgLog EXCEPT ![1] = @ + 1]
  /\ UNCHANGED rgNow

RelayData(src) == Charged /\ PolicyCheck(src)

\* Control frames bypass the token bucket.
RelayControl == Charged /\ UNCHANGED <<policy, rgRef>>

\* routing_fwdbudget_adapt, once per window, by the load the main loop reads.
Adapt(share) ==
  LET cap == FwdCap \div share
  IN  /\ fb' = [fb EXCEPT !.cap = IF cap < FwdFloor THEN FwdFloor ELSE cap]
      /\ UNCHANGED <<policy, rgNow, rgRef, rgLog>>

RgTick ==
  /\ rgNow' = (rgNow + 1) % RgMod
  /\ rgRef' = [i \in Indices |-> Least(RefCap, rgRef[i] + 1)]
  /\ rgLog' = SubSeq(<<0>> \o rgLog, 1, FwdWindow)
  /\ UNCHANGED <<policy, fb>>

RgNext ==
  \/ \E s \in RgSources : RelayData(s)
  \/ RelayControl \/ BudgetDrop
  \/ \E share \in {1, 2, 4} : Adapt(share)
  \/ RgTick

-----------------------------------------------------------------------------
RgTypeOK ==
  /\ policy \in [Indices -> [tokens : 0 .. MaxTokens, last : 0 .. RgMod - 1]]
  /\ fb.count \in 0 .. FwdCap /\ fb.cap \in FwdFloor .. FwdCap /\ fb.hour \in 0 .. HourAir
  /\ {fb.start, fb.hourStart, rgNow} \subseteq 0 .. RgMod - 1

PolicyKept == \A i \in Indices : Refill(policy[i]).tokens * RgSec <= rgRef[i]
BudgetKeptTwice == SumFunction(rgLog) <= 2 * FwdCap

(***************************************************************************)
(* The relay rate is bounded.  The lazy refill never gives a source more   *)
(* tokens than one a second beyond its full bucket and the rest of one     *)
(* second, although a wrapped clock is taken for a reset one (policy.c     *)
(* lines 66-80).  And                                                      *)
(* no span of FWDBUDGET_WINDOW_MS, wherever it starts and however the cap  *)
(* was adapted meanwhile, sees more than two windows' worth of forwards    *)
(* (routing.c lines 336-386).                                              *)
(***************************************************************************)
RelayRateKept == PolicyKept /\ BudgetKeptTwice
=============================================================================
