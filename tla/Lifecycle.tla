----------------------------- MODULE Lifecycle -----------------------------
(***************************************************************************)
(* The RIVR program of a node: pushed over the air (PKT_PROG_PUSH), stored *)
(* in NVS, loaded by the next pass of the main loop and again at boot.     *)
(*                                                                         *)
(* A push is handled in one call, but each of its writes to flash is one   *)
(* step: a reset may fall between any two of them.  The nRF52 has no NVS,  *)
(* keeps the sequence number in RAM, and never loads what it was pushed.   *)
(* A signed build takes signed programs, an unsigned one plain programs    *)
(* and @PARAMS updates, which regenerate the program from the parameters.  *)
(*                                                                         *)
(* Abstractions.  A program is a name with the timers it declares; a       *)
(* parameter set is a number, 0 the compiled-in one.  A push whose         *)
(* signature does not verify changes nothing and is left out.              *)
(***************************************************************************)
EXTENDS Integers, Sequences

CONSTANTS LcPrograms,   \* programs that may be pushed
          LcBroken,     \* those of them the engine does not compile
          LcParams,     \* parameter sets an @PARAMS update may leave behind
          MaxPushSeq,   \* bound: sequence numbers of signed pushes are 1..MaxPushSeq
          MaxAccepted   \* bound: pushes accepted

ASSUME LcAssumption ==
  /\ LcBroken \subseteq LcPrograms
  /\ "policy" \notin LcBroken    \* what the parameters make always compiles
  /\ {MaxPushSeq, MaxAccepted} \subseteq Nat

VARIABLES hasNvs,     \* the platform keeps its NVS over a reset
          signed,     \* RIVR_SIGNED_PROG
          nvs,        \* the stored program, sequence number and pending flag
          params,     \* g_policy_params
          engine,     \* the program in ENGINE_SLOT
          timers,     \* s_timers, by the program that registered them
          reload,     \* g_program_reload_pending
          push,       \* the push being handled and how far it got
          mode,       \* up, or hung in the error loop of rivr_embed_init
          accepted    \* history: sequence numbers accepted since NVS was last empty

lcVars == <<hasNvs, signed, nvs, params, engine, timers, reload, push, mode, accepted>>

NoProg == <<"none", 0>>
NoPush == [at |-> "none", seq |-> 0, prog |-> NoProg]

\* rivr_policy_build_program
PolicyProgram(p) == <<"policy", p>>

Pushed == {<<p, 0>> : p \in LcPrograms}
Programs == Pushed \cup {PolicyProgram(p) : p \in LcParams \cup {0}}

\* rivr_engine_init: parse and compile.
Compiles(prog) == prog[1] \notin LcBroken

Nvs0 == [prog |-> NoProg, seq |-> 0, pnd |-> 0]

\* nvs_load_program, and the fallback to the parameters.
Loaded(prog, p) == IF prog = NoProg THEN PolicyProgram(p) ELSE prog

-----------------------------------------------------------------------------
\* rivr_embed_init at the first boot: no program in NVS, default parameters.
LcInit ==
  /\ hasNvs \in BOOLEAN
  /\ signed \in BOOLEAN
  /\ nvs = Nvs0
  /\ params = 0
  /\ engine = PolicyProgram(0) /\ timers = PolicyProgram(0)
  /\ reload = FALSE /\ push = NoPush /\ mode = "up"
  /\ accepted = <<>>

\* Mutant: a program pushed again is accepted again.
FreshSeq_Equal(s) == s >= nvs.seq

\* Step 2 of rivr_ota_verify.
FreshSeq(s) == s > nvs.seq

Running == mode = "up" /\ push.at = "none"

\* rivr_ota_verify: the sequence number is saved before anything else is.
\* When ota_platform_save_seq fails, the push is refused and nothing changes.
Verify ==
  /\ Running /\ signed /\ Len(accepted) < MaxAccepted
  /\ \E s \in 1..MaxPushSeq, p \in Pushed :
       /\ FreshSeq(s)
       /\ nvs' = [nvs EXCEPT !.seq = s]
       /\ push' = [at |-> "verified", seq |-> s, prog |-> p]
  /\ UNCHANGED <<hasNvs, signed, params, engine, timers, reload, mode, accepted>>

\* The three storage calls of rivr_ota_activate.  On the nRF52 the commit
\* only fills a buffer that nothing reads.
Activate ==
  /\ push.at = "verified"
  /\ nvs' = IF hasNvs THEN [nvs EXCEPT !.prog = push.prog] ELSE nvs
  /\ push' = [push EXCEPT !.at = "stored"]
  /\ accepted' = Append(accepted, push.seq)
  /\ UNCHANGED <<hasNvs, signed, params, engine, timers, reload, mode>>

\* ota_storage_commit failed: the sequence number is used up all the same.
ActivateFails ==
  /\ push.at = "verified" /\ hasNvs
  /\ push' = NoPush
  /\ UNCHANGED <<hasNvs, signed, nvs, params, engine, timers, reload, mode, accepted>>

\* The pending flag, whose failure is ignored, and the reload request.
MarkPending ==
  /\ push.at = "stored"
  /\ \E saved \in BOOLEAN : nvs' = IF saved THEN [nvs EXCEPT !.pnd = 1] ELSE nvs
  /\ push' = NoPush
  /\ reload' = TRUE
  /\ UNCHANGED <<hasNvs, signed, params, engine, timers, mode, accepted>>

\* The unsigned path: rivr_nvs_store_program, which fails without an NVS.
PushPlain ==
  /\ Running /\ ~signed /\ hasNvs
  /\ \E p \in Pushed : nvs' = [nvs EXCEPT !.prog = p]
  /\ reload' = TRUE
  /\ UNCHANGED <<hasNvs, signed, params, engine, timers, push, mode, accepted>>

\* An @PARAMS update: the parameters change first, then the program made of
\* them is stored; when that fails they stay changed and nothing is reloaded.
PushParams ==
  /\ Running /\ ~signed
  /\ \E p \in LcParams, ok \in BOOLEAN :
       /\ ok => hasNvs
       /\ params' = p
       /\ nvs' = IF ok THEN [nvs EXCEPT !.prog = PolicyProgram(p)] ELSE nvs
       /\ reload' = (reload \/ ok)
  /\ UNCHANGED <<hasNvs, signed, engine, timers, push, mode, accepted>>

\* Mutant: the timers are registered before the program is compiled.
TimersAfter_Early(prog) == prog

\* sources_timer_reset comes first; only an engine that compiled registers its
\* timers again.
TimersAfter(prog) == IF Compiles(prog) THEN prog ELSE NoProg

\* rivr_embed_reload; rivr_engine_init keeps the former engine on any error.
Reload ==
  /\ Running /\ reload
  /\ LET prog == Loaded(nvs.prog, params)
     IN  /\ timers' = TimersAfter(prog)
         /\ engine' = IF Compiles(prog) THEN prog ELSE engine
  /\ reload' = FALSE
  /\ UNCHANGED <<hasNvs, signed, nvs, params, push, mode, accepted>>

\* What a reset leaves in NVS.
Kept(n) == IF hasNvs THEN n ELSE Nvs0

\* A reset at any point, and the boot that follows: rivr_policy_init, then
\* rivr_embed_init, which stops in an endless loop when the stored program
\* does not compile.
Reset ==
  /\ LET prog == Loaded(Kept(nvs).prog, 0)
     IN  /\ engine' = IF Compiles(prog) THEN prog ELSE NoProg
         /\ timers' = IF Compiles(prog) THEN prog ELSE NoProg
         /\ mode' = IF Compiles(prog) THEN "up" ELSE "hung"
  /\ nvs' = Kept(nvs)
  /\ params' = 0 /\ reload' = FALSE /\ push' = NoPush
  /\ accepted' = IF hasNvs THEN accepted ELSE <<>>
  /\ UNCHANGED <<hasNvs, signed>>

LcNext == Verify \/ Activate \/ ActivateFails \/ MarkPending \/ PushPlain
          \/ PushParams \/ Reload \/ Reset

-----------------------------------------------------------------------------
LcTypeOK ==
  /\ nvs \in [prog : Programs \cup {NoProg}, seq : 0..MaxPushSeq, pnd : {0, 1}]
  /\ params \in LcParams \cup {0}
  /\ engine \in Programs \cup {NoProg} /\ timers \in Programs \cup {NoProg}
  /\ push.at \in {"none", "verified", "stored"} /\ mode \in {"up", "hung"}

\* No push is accepted twice, whatever resets fall between its steps
\* (rivr_ota.h, rivr_ota_core.c); without an NVS only within one boot.
NoReplay ==
  \A i, j \in DOMAIN accepted : i < j => accepted[i] < accepted[j]

\* The timers that fire are those of the program the engine runs, or none
\* (rivr_embed_reload, sources_timer_reset); a program that does not compile
\* is never run, and only its boot hangs the node.
TimersMatch ==
  /\ timers \in {engine, NoProg}
  /\ engine # NoProg => Compiles(engine)
  /\ mode = "hung" <=> engine = NoProg
  /\ mode = "hung" => hasNvs /\ ~Compiles(nvs.prog)

UpdatesKept == NoReplay /\ TimersMatch
=============================================================================
