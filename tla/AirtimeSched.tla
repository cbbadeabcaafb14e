--------------------------- MODULE AirtimeSched ----------------------------
(***************************************************************************)
(* firmware_core/airtime_sched.c: one global token bucket for all frames   *)
(* but control frames, and a bucket per source of relayed frames, in a     *)
(* table of NbMax slots that evicts the least recently refilled.  Buckets  *)
(* are refilled lazily, in 32-bit arithmetic, from the time of their last  *)
(* refill; the history keeps buckets of the same size that are refilled at *)
(* every tick and never evicted.                                           *)
(***************************************************************************)
EXTENDS Naturals, FiniteSets

CONSTANTS GCap, GRate,   \* AIRTIME_CAPACITY_US, AIRTIME_REFILL_US_PER_MS
          NCap, NRate,   \* AIRTIME_NB_CAPACITY_US, AIRTIME_NB_REFILL_US_PER_MS
          NbMax,         \* AIRTIME_NB_MAX
          AtSources,     \* sources of relayed frames
          AtToas,        \* airtimes
          AtMod          \* 2^32: the clock and the tokens count modulo AtMod

ASSUME AtAssumption ==
  /\ {GCap, GRate, NCap, NRate, NbMax, AtMod} \subseteq Nat \ {0}
  /\ AtToas \subseteq Nat \ {0}
  /\ GCap < AtMod /\ NCap < AtMod
  /\ 0 \notin AtSources

VARIABLES at,      \* g_airtime
          atNow,   \* tb_millis()
          atRef    \* history: the eager buckets, and the sources once evicted

atVars == <<at, atNow, atRef>>

NbSlots == 0 .. NbMax - 1
NoSource == 0
FreeNb == [id |-> NoSource, tokens |-> 0, last |-> 0]

\* airtime_sched_init.  The clock starts anywhere.
AtInit ==
  /\ at = [tokens |-> GCap, last |-> 0, nb |-> [i \in NbSlots |-> FreeNb]]
  /\ atNow \in 0 .. AtMod - 1
  /\ atRef = [g |-> GCap, n |-> [s \in AtSources |-> NCap], evicted |-> {}]

\* global_refill, nb_refill: the tokens after a refill.  Product and sum wrap.
Filled(tokens, last, rate, cap) ==
  LET sum == (tokens + ((atNow + AtMod - last) % AtMod) * rate) % AtMod
  IN  IF sum > cap THEN cap ELSE sum

\* nb_get_or_alloc: the slot of src, else the first free one, else the one
\* with the smallest time of refill.
NbSlot(nb, src) ==
  LET own == {i \in NbSlots : nb[i].id = src}
      free == {i \in NbSlots : nb[i].id = NoSource}
      old == {i \in NbSlots : \A j \in NbSlots : nb[i].last <= nb[j].last}
      first(S) == CHOOSE i \in S : \A j \in S : i <= j
  IN  first(CASE own # {} -> own [] own = {} /\ free # {} -> free [] OTHER -> old)

\* Mutant: the time of the refill is not stored.
NbBucket_KeepLast(nb, src) ==
  LET b == nb[NbSlot(nb, src)]
  IN  [id |-> src, last |-> IF b.id = src THEN b.last ELSE atNow,
       tokens |-> IF b.id = src THEN Filled(b.tokens, b.last, NRate, NCap) ELSE NCap]

\* The bucket of src after nb_get_or_alloc and nb_refill.
NbBucket(nb, src) ==
  LET b == nb[NbSlot(nb, src)]
  IN  [id |-> src, last |-> atNow,
       tokens |-> IF b.id = src THEN Filled(b.tokens, b.last, NRate, NCap) ELSE NCap]

\* The source a new bucket for src pushes out of the table.
Evicts(nb, src) == {nb[NbSlot(nb, src)].id} \ {src, NoSource}

\* airtime_sched_check_consume lets a control frame pass: nothing changes, so
\* no action.  A frame of this node, or an unmarked one: the global bucket.
AtOwn(toa) ==
  LET g == Filled(at.tokens, at.last, GRate, GCap)
  IN  /\ at' = [at EXCEPT !.last = atNow, !.tokens = IF g < toa THEN g ELSE g - toa]
      /\ atRef' = [atRef EXCEPT !.g = IF g < toa THEN @ ELSE @ - toa]
      /\ UNCHANGED atNow

\* A relayed frame: the bucket of its source too; a refusal there gives the
\* global tokens back.
AtRelay(src, toa) ==
  LET g == Filled(at.tokens, at.last, GRate, GCap)
      i == NbSlot(at.nb, src)
      b == NbBucket(at.nb, src)
      sent == g >= toa /\ b.tokens >= toa
  IN  /\ at' = [tokens |-> IF sent THEN g - toa ELSE g,
                last |-> atNow,
                nb |-> IF g < toa THEN at.nb
                       ELSE [at.nb EXCEPT ![i] = IF sent THEN [b EXCEPT !.tokens = @ - toa]
                                                 ELSE b]]
      /\ atRef' = [g |-> IF sent THEN atRef.g - toa ELSE atRef.g,
                   n |-> IF sent /\ src \notin atRef.evicted
                         THEN [atRef.n EXCEPT ![src] = @ - toa] ELSE atRef.n,
                   evicted |-> IF g < toa THEN atRef.evicted
                               ELSE atRef.evicted \cup Evicts(at.nb, src)]
      /\ UNCHANGED atNow

AtTick ==
  /\ atNow' = (atNow + 1) % AtMod
  /\ atRef' = [atRef EXCEPT !.g = IF @ + GRate > GCap THEN GCap ELSE @ + GRate,
                            !.n = [s \in AtSources |->
                                     IF @[s] + NRate > NCap THEN NCap ELSE @[s] + NRate]]
  /\ UNCHANGED at

AtNext ==
  \/ \E t \in AtToas : AtOwn(t) \/ \E s \in AtSources : AtRelay(s, t)
  \/ AtTick

-----------------------------------------------------------------------------
AtTypeOK ==
  /\ at.tokens \in 0 .. GCap /\ at.last \in 0 .. AtMod - 1
  /\ at.nb \in [NbSlots -> [id : AtSources \cup {NoSource}, tokens : 0 .. NCap,
                            last : 0 .. AtMod - 1]]
  /\ atNow \in 0 .. AtMod - 1

GlobalKept == Filled(at.tokens, at.last, GRate, GCap) <= atRef.g

SourcesKept ==
  \A s \in AtSources \ atRef.evicted : NbBucket(at.nb, s).tokens <= atRef.n[s]

(***************************************************************************)
(* Lazy refill never gives more airtime than the rate allows, however long *)
(* the node was idle, across the wrap of the clock and the overflow of     *)
(* elapsed * rate (airtime_sched.c lines 58-89): the tokens that the next  *)
(* frame would find are at most those of a bucket filled at every tick.    *)
(* This holds of the global bucket, and of the bucket of every source that *)
(* was never evicted from the table, whatever the other sources do; an     *)
(* evicted source starts again with a full bucket.                         *)
(***************************************************************************)
NotOverGranted == GlobalKept /\ SourcesKept
=============================================================================
