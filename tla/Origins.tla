------------------------------ MODULE Origins ------------------------------
(***************************************************************************)
(* What makes a node originate frames on its own accord or a phone's: the  *)
(* timers of the program (rivr_sources.c) and the throttle on frames that  *)
(* come in over BLE (rivr_policy_allow_origination), one time for each     *)
(* throttled type.  What the throttle lets pass goes to the TX sink, its   *)
(* header renewed; both are left out.                                      *)
(***************************************************************************)
EXTENDS Naturals, Sequences

CONSTANTS OrMod,        \* tb_millis() counts modulo OrMod, 2^32
          OrThrottles,  \* values chat_throttle_ms and data_throttle_ms may be set to
          OrIntervals,  \* intervals of timers, 0 among them
          OrTimerMax    \* RIVR_TIMER_MAX

ASSUME OrAssumption ==
  /\ {OrMod, OrTimerMax} \subseteq Nat \ {0}
  /\ OrThrottles \subseteq 1..OrMod - 1 /\ OrIntervals \subseteq 0..OrMod - 1

VARIABLES orNow,     \* tb_millis()
          orLast,    \* s_last_chat_orig_ms (s_last_data_orig_ms is its twin)
          orThrottle,\* chat_throttle_ms
          orTimers,  \* s_timers: interval and last_fire_ms
          orPass,    \* history: time since a frame passed; one passed too soon
          orFires    \* history: each timer's time since it fired or was registered;
                     \* one fired too soon, or was left waiting by a drain

orVars == <<orNow, orLast, orThrottle, orTimers, orPass, orFires>>

OrSince(then) == (orNow + OrMod - then) % OrMod
OrLater(age) == IF age < OrMod THEN age + 1 ELSE age

\* rivr_policy_init and sources_timer_reset at boot.
OrInit ==
  /\ orNow \in 0..OrMod - 1
  /\ orLast = 0 /\ orThrottle \in OrThrottles
  /\ orTimers = <<>>
  /\ orPass = [since |-> OrMod, tooSoon |-> FALSE]
  /\ orFires = [since |-> <<>>, wrong |-> FALSE]

-----------------------------------------------------------------------------
\* Mutant: the window is compared without wrap arithmetic.
Allowed_NoWrap == orLast = 0 \/ orNow >= orLast + orThrottle \/ orNow < orLast

\* A time of 0 counts as none.
Allowed == orLast = 0 \/ OrSince(orLast) >= orThrottle

\* source_handle_ble_origination with a throttled type; dropped, it changes nothing.
PhoneFrame ==
  /\ IF Allowed
     THEN /\ orLast' = orNow
          /\ orPass' = [since |-> 0,
                        tooSoon |-> orPass.tooSoon \/ (orPass.since < orThrottle /\ orLast # 0)]
     ELSE UNCHANGED <<orLast, orPass>>
  /\ UNCHANGED <<orNow, orThrottle, orTimers, orFires>>

\* rivr_policy_set_param.
SetThrottle(ms) ==
  /\ orThrottle' = ms
  /\ UNCHANGED <<orNow, orLast, orTimers, orPass, orFires>>

\* sources_register_timer: the first firing is an interval away; without an interval or
\* room the timer never exists.
RegisterTimer(interval) ==
  /\ IF interval > 0 /\ Len(orTimers) < OrTimerMax
     THEN /\ orTimers' = Append(orTimers, [interval |-> interval, last |-> orNow])
          /\ orFires' = [orFires EXCEPT !.since = Append(@, 0)]
     ELSE UNCHANGED <<orTimers, orFires>>
  /\ UNCHANGED <<orNow, orLast, orThrottle, orPass>>

\* sources_timer_reset, when a program is replaced.
ResetTimers ==
  /\ orTimers' = <<>> /\ orFires' = [orFires EXCEPT !.since = <<>>]
  /\ UNCHANGED <<orNow, orLast, orThrottle, orPass>>

\* Mutant: the next firing is reckoned from the one that was due.
Fired_CatchUp(timer) == [timer EXCEPT !.last = (@ + timer.interval) % OrMod]

\* A late timer is not made up for: the next interval starts now.
Fired(timer) == [timer EXCEPT !.last = orNow]

\* sources_timer_drain, in every turn of the main loop or later.
DrainTimers ==
  LET due == {i \in DOMAIN orTimers : OrSince(orTimers[i].last) >= orTimers[i].interval}
      left == [i \in DOMAIN orTimers |-> IF i \in due THEN Fired(orTimers[i]) ELSE orTimers[i]]
  IN  /\ orTimers' = left
      /\ orFires' =
           [since |-> [i \in DOMAIN orTimers |-> IF i \in due THEN 0 ELSE orFires.since[i]],
            wrong |-> orFires.wrong
                      \/ \E i \in DOMAIN orTimers :
                           orFires.since[i] < OrMod
                           /\ (i \in due) # (orFires.since[i] >= orTimers[i].interval)]
      /\ UNCHANGED <<orNow, orLast, orThrottle, orPass>>

OrTick ==
  /\ orNow' = (orNow + 1) % OrMod
  /\ orPass' = [orPass EXCEPT !.since = OrLater(@)]
  /\ orFires' = [orFires EXCEPT !.since = [i \in DOMAIN @ |-> OrLater(@[i])]]
  /\ UNCHANGED <<orLast, orThrottle, orTimers>>

OrNext ==
  \/ PhoneFrame \/ ResetTimers \/ DrainTimers \/ OrTick
  \/ \E ms \in OrThrottles : SetThrottle(ms)
  \/ \E interval \in OrIntervals : RegisterTimer(interval)

-----------------------------------------------------------------------------
OrTypeOK ==
  /\ {orNow, orLast} \subseteq 0..OrMod - 1 /\ orThrottle \in OrThrottles
  /\ Len(orTimers) <= OrTimerMax
  /\ \A i \in DOMAIN orTimers : orTimers[i] \in [interval : OrIntervals \ {0}, last : 0..OrMod - 1]

\* Two frames of a phone pass at least the throttle in force at the second apart, unless
\* the first passed when the clock read 0; and a drain fires exactly the timers whose
\* interval has passed since they fired or were registered, however late it comes short
\* of a whole cycle of the clock (rivr_policy.c:207-238, rivr_sources.c:1161-1212).
OriginsSpaced == ~orPass.tooSoon /\ ~orFires.wrong
=============================================================================
