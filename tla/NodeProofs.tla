----------------------------- MODULE NodeProofs -----------------------------
(***************************************************************************)
(* The parts of a node, each proved about for every size of its tables,    *)
(* every rate and every width of its clock.  As the parts share no state,  *)
(* a behaviour of the node is one of each part: NodeSpec implies the       *)
(* initial condition and the steps of every part.                          *)
(***************************************************************************)
EXTENDS NodeMC, BasicProofs

nodeVars == <<vars, tdVars, sqVars, atVars, rdVars, rgVars, lnVars, faVars, bcVars, orVars,
              lcVars, enVars, snVars, chVars, stVars, grVars, dpVars, focus>>

\* A step of the node is a step of each part.
LEMMA PartSteps ==
  ASSUME [NodeNext]_nodeVars
  PROVE  /\ [Next]_vars /\ [TdNext]_tdVars /\ [SqNext]_sqVars /\ [AtNext]_atVars
         /\ [RdNext]_rdVars /\ [RgNext]_rgVars /\ [LnNext]_lnVars /\ [FaNext]_faVars
         /\ [BcNext]_bcVars /\ [OrNext]_orVars /\ [LcNext]_lcVars /\ [EnNext]_enVars
         /\ [SnNext]_snVars /\ [ChNext]_chVars /\ [StNext]_stVars /\ [GrNext]_grVars
         /\ [DpNext]_dpVars
<1>1. [Next]_vars
  BY DEF NodeNext, Rest, nodeVars
<1>2. [TdNext]_tdVars
  BY DEF NodeNext, Rest, nodeVars
<1>3. [SqNext]_sqVars
  BY DEF NodeNext, Rest, nodeVars
<1>4. [AtNext]_atVars
  BY DEF NodeNext, Rest, nodeVars
<1>5. [RdNext]_rdVars
  BY DEF NodeNext, Rest, nodeVars
<1>6. [RgNext]_rgVars
  BY DEF NodeNext, Rest, nodeVars
<1>7. [LnNext]_lnVars
  BY DEF NodeNext, Rest, nodeVars
<1>8. [FaNext]_faVars
  BY DEF NodeNext, Rest, nodeVars
<1>9. [BcNext]_bcVars
  BY DEF NodeNext, Rest, nodeVars
<1>10. [OrNext]_orVars
  BY DEF NodeNext, Rest, nodeVars
<1>11. [LcNext]_lcVars
  BY DEF NodeNext, Rest, nodeVars
<1>12. [EnNext]_enVars
  BY DEF NodeNext, Rest, nodeVars
<1>13. [SnNext]_snVars
  BY DEF NodeNext, Rest, nodeVars
<1>14. [ChNext]_chVars
  BY DEF NodeNext, Rest, nodeVars
<1>15. [StNext]_stVars
  BY DEF NodeNext, Rest, nodeVars
<1>16. [GrNext]_grVars
  BY DEF NodeNext, Rest, nodeVars
<1>17. [DpNext]_dpVars
  BY DEF NodeNext, Rest, nodeVars
<1>. QED  BY <1>1, <1>2, <1>3, <1>4, <1>5, <1>6, <1>7, <1>8, <1>9,
            <1>10, <1>11, <1>12, <1>13, <1>14, <1>15, <1>16, <1>17

-----------------------------------------------------------------------------
(***************************************************************************)
(* The duty-cycle limiter.                                                 *)
(***************************************************************************)
Limiters == [hist : [Slots -> [end : Nat, toa : Nat]], head : Slots, used : Nat]

\* used_us is the airtime of the history.
Exact(d) == d \in Limiters /\ d.used = Airtime(d.hist, Slots)

LEMMA DutySlots == IsFiniteSet(Slots) /\ 0 \in Slots /\ Slots # {}
<1>1. 0 \in Int /\ HistoryCap - 1 \in Int /\ 0 <= HistoryCap - 1
  BY CapAssumption
<1>2. IsFiniteSet(0 .. HistoryCap - 1)
  BY <1>1, FS_Interval
<1>3. 0 \in 0 .. HistoryCap - 1
  BY <1>1
<1>. QED  BY <1>2, <1>3 DEF Slots

\* What expires is taken from used_us, which holds that much.
LEMMA ExpireExact ==
  ASSUME NEW d, Exact(d), NEW clock
  PROVE  Exact(Expire(d, clock))
<1>. DEFINE S == Stale(d.hist, clock)
            h == [i \in Slots |-> IF i \in S THEN Free ELSE d.hist[i]]
            f == [i \in Slots |-> d.hist[i].toa]
            g == [i \in Slots |-> h[i].toa]
<1>1. d \in Limiters /\ d.used = SumFunctionOnSet(f, Slots)
  BY DEF Exact, Airtime
<1>2. S \in SUBSET Slots
  BY DEF Stale
<1>. HIDE DEF S
<1>3. h \in [Slots -> [end : Nat, toa : Nat]]
  BY <1>1 DEF Limiters, Free
<1>4. f \in [Slots -> Nat] /\ g \in [Slots -> Nat]
  <2>1. f \in [Slots -> Nat]
    BY <1>1 DEF Limiters
  <2>. HIDE DEF h
  <2>2. g \in [Slots -> Nat]
    BY <1>3
  <2>. QED  BY <2>1, <2>2
<1>5. (\A i \in S : g[i] = 0) /\ \A i \in Slots \ S : f[i] = g[i]
  BY <1>2 DEF Free
<1>6. Expire(d, clock) = [d EXCEPT !.hist = h, !.used = d.used - SumFunctionOnSet(f, S)]
  BY <1>1 DEF Expire, Airtime, S, Limiters
<1>. HIDE DEF f, g
<1>7. /\ SumFunctionOnSet(f, Slots) = SumFunctionOnSet(f, S) + SumFunctionOnSet(f, Slots \ S)
      /\ SumFunctionOnSet(g, Slots) = SumFunctionOnSet(g, S) + SumFunctionOnSet(g, Slots \ S)
  BY <1>2, <1>4, DutySlots, SumSplit
<1>8. SumFunctionOnSet(g, S) = 0
  BY <1>2, <1>4, <1>5, DutySlots, SumZero
<1>9. SumFunctionOnSet(f, Slots \ S) = SumFunctionOnSet(g, Slots \ S)
  BY <1>4, <1>5, DutySlots, SumSame
<1>10. SumFunctionOnSet(f, S) \in Nat /\ SumFunctionOnSet(f, Slots \ S) \in Nat
  BY <1>2, <1>4, DutySlots, SumRecursion
<1>11. d.used - SumFunctionOnSet(f, S) = SumFunctionOnSet(g, Slots)
       /\ d.used - SumFunctionOnSet(f, S) \in Nat
  BY <1>1, <1>7, <1>8, <1>9, <1>10
<1>. HIDE DEF h
<1>12. Expire(d, clock) \in Limiters
  BY <1>1, <1>3, <1>6, <1>11 DEF Limiters
<1>13. Expire(d, clock).used = SumFunctionOnSet(g, Slots) /\ Expire(d, clock).hist = h
  BY <1>1, <1>6, <1>11 DEF Limiters
<1>. QED  BY <1>12, <1>13 DEF Exact, Airtime, g

LEMMA VictimSlot ==
  ASSUME NEW d \in Limiters, NEW end
  PROVE  Victim(d, end) \in Slots
<1>. DEFINE offset(i) == (i + HistoryCap - d.head) % HistoryCap
            first(S) == CHOOSE i \in S : \A j \in S : offset(i) <= offset(j)
<1>1. ASSUME NEW S \in SUBSET Slots, S # {} PROVE first(S) \in Slots
  <2>. DEFINE f == [i \in Slots |-> offset(i)]
  <2>1. \A i \in S : f[i] \in Nat
    <3>1. d.head \in 0 .. HistoryCap - 1 /\ HistoryCap \in Nat \ {0}
      BY CapAssumption DEF Limiters, Slots
    <3>2. \A i \in 0 .. HistoryCap - 1 : (i + HistoryCap - d.head) % HistoryCap \in Nat
      BY <3>1
    <3>. QED  BY <3>2 DEF Slots
  <2>2. \E i \in S : \A j \in S : f[i] <= f[j]
    <3>. HIDE DEF f
    <3>. QED  BY <1>1, <2>1, LeastMember
  <2>3. \E i \in S : \A j \in S : offset(i) <= offset(j)
    BY <2>2
  <2>. QED  BY <2>3
<1>. DEFINE free == {i \in Slots : d.hist[i].end = 0}
            age(i) == Age(end, d.hist[i].end)
            oldest == {i \in Slots : age(i) > 0 /\ \A j \in Slots : age(j) <= age(i)}
<1>2. Victim(d, end) = IF free # {} THEN first(free)
                       ELSE IF oldest # {} THEN first(oldest) ELSE 0
  BY DEF Victim
<1>3. free \in SUBSET Slots /\ oldest \in SUBSET Slots
  OBVIOUS
<1>. HIDE DEF free, oldest, first
<1>. QED  BY <1>1, <1>2, <1>3, DutySlots

\* A record takes the place of one whose airtime is taken from used_us.
LEMMA RecordExact ==
  ASSUME NEW d, Exact(d), NEW end \in Nat, NEW toa \in Nat
  PROVE  Exact(Record(d, end, toa))
<1>. DEFINE e == Expire(d, end)
            i == Victim(e, end)
            r == [end |-> IF end = 0 THEN 1 ELSE end, toa |-> toa]
            h == [e.hist EXCEPT ![i] = r]
            f == [k \in Slots |-> e.hist[k].toa]
            g == [k \in Slots |-> h[k].toa]
<1>1. Record(d, end, toa) =
        [hist |-> h, head |-> (i + 1) % HistoryCap,
         used |-> toa + (IF e.used >= e.hist[i].toa THEN e.used - e.hist[i].toa ELSE 0)]
  BY DEF Record
<1>2. e \in Limiters /\ e.used = SumFunctionOnSet(f, Slots)
  BY ExpireExact DEF Exact, Airtime
<1>. HIDE DEF e
<1>3. i \in Slots
  BY <1>2, VictimSlot
<1>. HIDE DEF i
<1>4. r \in [end : Nat, toa : Nat] /\ r.toa = toa
  OBVIOUS
<1>. HIDE DEF r
<1>5. h \in [Slots -> [end : Nat, toa : Nat]] /\ h[i] = r
      /\ \A k \in Slots \ {i} : h[k] = e.hist[k]
  BY <1>2, <1>3, <1>4 DEF Limiters
<1>. HIDE DEF h
<1>6. /\ f \in [Slots -> Nat] /\ f[i] = e.hist[i].toa
      /\ g \in [Slots -> Nat] /\ g[i] = toa
      /\ \A k \in Slots \ {i} : f[k] = g[k]
  BY <1>2, <1>3, <1>4, <1>5 DEF Limiters
<1>. HIDE DEF f, g
<1>7. /\ SumFunctionOnSet(f, Slots) = f[i] + SumFunctionOnSet(f, Slots \ {i})
      /\ SumFunctionOnSet(g, Slots) = g[i] + SumFunctionOnSet(g, Slots \ {i})
  BY <1>3, <1>6, DutySlots, SumRemove
<1>8. SumFunctionOnSet(f, Slots \ {i}) = SumFunctionOnSet(g, Slots \ {i})
  BY <1>6, DutySlots, SumSame
<1>9. SumFunctionOnSet(f, Slots \ {i}) \in Nat
  BY <1>6, DutySlots, SumRecursion
<1>10. /\ toa + (IF e.used >= e.hist[i].toa THEN e.used - e.hist[i].toa ELSE 0)
            = SumFunctionOnSet(g, Slots)
       /\ SumFunctionOnSet(g, Slots) \in Nat
  BY <1>2, <1>3, <1>6, <1>7, <1>8, <1>9
<1>11. (i + 1) % HistoryCap \in Slots
  BY <1>3, CapAssumption DEF Slots
<1>12. Record(d, end, toa) = [hist |-> h, head |-> (i + 1) % HistoryCap,
                              used |-> SumFunctionOnSet(g, Slots)]
  BY <1>1, <1>10
<1>13. Record(d, end, toa) \in Limiters
  BY <1>5, <1>10, <1>11, <1>12 DEF Limiters
<1>14. Record(d, end, toa).hist = h /\ Record(d, end, toa).used = SumFunctionOnSet(g, Slots)
  BY <1>12
<1>. QED  BY <1>13, <1>14 DEF Exact, Airtime, g

DutyInv == Exact(dc) /\ now \in Clock

LEMMA DutyInitially == Init => DutyInv
<1>. SUFFICES ASSUME Init PROVE DutyInv
  OBVIOUS
<1>1. dc = [hist |-> [i \in Slots |-> Free], head |-> 0, used |-> 0] /\ now \in Clock
  BY DEF Init
<1>2. dc \in Limiters
  BY <1>1, DutySlots DEF Limiters, Free
<1>. DEFINE f == [i \in Slots |-> dc.hist[i].toa]
<1>3. f \in [Slots -> Nat] /\ \A i \in Slots : f[i] = 0
  BY <1>1 DEF Free
<1>4. SumFunctionOnSet(f, Slots) = 0
  <2>. HIDE DEF f
  <2>. QED  BY <1>3, DutySlots, SumZero
<1>. QED  BY <1>1, <1>2, <1>4 DEF DutyInv, Exact, Airtime

LEMMA DutyInductive ==
  ASSUME DutyInv, [Next]_vars
  PROVE  DutyInv'
<1>1. ASSUME NEW toa \in Toas, Block(toa) PROVE DutyInv'
  <2>1. dc' = Expire(dc, pass.at) /\ now' = now
    BY <1>1 DEF Block
  <2>2. Exact(Expire(dc, pass.at))
    BY ExpireExact DEF DutyInv
  <2>. QED  BY <2>1, <2>2 DEF DutyInv, Exact, Airtime
<1>2. ASSUME NEW toa \in Toas, Send(toa) PROVE DutyInv'
  <2>1. dc' = Record(Expire(dc, pass.at), now', toa) /\ now' = (now + toa) % ClockMod
    BY <1>2 DEF Send
  <2>2. now' \in Clock /\ now' \in Nat /\ toa \in Nat
    BY <2>1, ToasAssumption, ClockAssumption, LimitAssumption DEF DutyInv, Clock
  <2>3. Exact(Record(Expire(dc, pass.at), now', toa))
    BY <2>2, ExpireExact, RecordExact DEF DutyInv
  <2>. QED  BY <2>1, <2>2, <2>3 DEF DutyInv, Exact, Airtime
<1>3. ASSUME NEW toa \in Toas, SendFails(toa) PROVE DutyInv'
  <2>1. dc' = Expire(dc, pass.at) /\ now' = (now + toa) % ClockMod
    BY <1>3 DEF SendFails
  <2>2. now' \in Clock
    BY <2>1, ToasAssumption, ClockAssumption, LimitAssumption DEF DutyInv, Clock
  <2>3. Exact(Expire(dc, pass.at))
    BY ExpireExact DEF DutyInv
  <2>. QED  BY <2>1, <2>2, <2>3 DEF DutyInv, Exact, Airtime
<1>4. CASE Advance
  <2>1. dc' = dc /\ now' = (now + 1) % ClockMod
    BY <1>4 DEF Advance
  <2>2. now' \in Clock
    BY <2>1, ClockAssumption, LimitAssumption DEF DutyInv, Clock
  <2>. QED  BY <2>1, <2>2 DEF DutyInv, Exact, Airtime
<1>5. CASE UNCHANGED <<dc, now>>
  BY <1>5 DEF DutyInv, Exact, Airtime
<1>6. BeginPass \/ Skip \/ UNCHANGED vars => UNCHANGED <<dc, now>>
  BY DEF BeginPass, Skip, vars
<1>. QED  BY <1>1, <1>2, <1>3, <1>4, <1>5, <1>6 DEF Next

(***************************************************************************)
(* used_us of the limiter is at all times the airtime of the records in    *)
(* its history (dutycycle.c lines 53, 113-123).                            *)
(***************************************************************************)
THEOREM UsedAlwaysExact == NodeSpec => []UsedExact
<1>1. NodeInit => DutyInv
  BY DutyInitially DEF NodeInit
<1>2. DutyInv /\ [NodeNext]_nodeVars => DutyInv'
  BY PartSteps, DutyInductive
<1>3. DutyInv => UsedExact
  BY DEF DutyInv, Exact, UsedExact
<1>. QED  BY <1>1, <1>2, <1>3, PTL DEF NodeSpec, nodeVars

-----------------------------------------------------------------------------
(***************************************************************************)
(* The airtime scheduler.  A bucket filled at every tick holds at least    *)
(* what a bucket filled since the time of its last refill would.           *)
(***************************************************************************)
AtAge(last) == (atNow + AtMod - last) % AtMod

AtDue(tokens, last, rate, cap) ==
  IF tokens + AtAge(last) * rate > cap THEN cap ELSE tokens + AtAge(last) * rate

AtType ==
  /\ at \in [tokens : 0 .. GCap, last : 0 .. AtMod - 1,
             nb : [NbSlots -> [id : AtSources \cup {NoSource}, tokens : 0 .. NCap,
                               last : 0 .. AtMod - 1]]]
  /\ atNow \in 0 .. AtMod - 1
  /\ atRef \in [g : Nat, n : [AtSources -> Nat], evicted : SUBSET AtSources]

\* A source has one bucket at most.
AtUnique ==
  \A i, j \in NbSlots : at.nb[i].id = at.nb[j].id /\ at.nb[i].id # NoSource => i = j

\* Of a source that was never evicted: its bucket, or none, for which it gets a full one.
AtSourceTrue(s) ==
  /\ \A i \in NbSlots : at.nb[i].id = s
       => AtDue(at.nb[i].tokens, at.nb[i].last, NRate, NCap) <= atRef.n[s]
  /\ (\A i \in NbSlots : at.nb[i].id # s) => NCap <= atRef.n[s]

AtInv ==
  /\ AtType /\ AtUnique
  /\ AtDue(at.tokens, at.last, GRate, GCap) <= atRef.g
  /\ \A s \in AtSources \ atRef.evicted : AtSourceTrue(s)

LEMMA AtConstants ==
  /\ GCap \in Nat /\ GRate \in Nat /\ NCap \in Nat /\ NRate \in Nat
  /\ NbMax \in Nat \ {0} /\ AtMod \in Nat \ {0} /\ AtToas \subseteq Nat /\ NoSource \notin AtSources
  BY AtAssumption DEF NoSource

\* Products and sums that wrap lose tokens, never add any.
LEMMA FilledLess ==
  ASSUME AtType, NEW cap \in Nat, NEW rate \in Nat, NEW tokens \in 0 .. cap,
         NEW last \in 0 .. AtMod - 1
  PROVE  /\ Filled(tokens, last, rate, cap) \in 0 .. cap
         /\ Filled(tokens, last, rate, cap) <= AtDue(tokens, last, rate, cap)
<1>. DEFINE sum == tokens + AtAge(last) * rate
<1>1. AtAge(last) \in Nat
  BY AtConstants, ClockType DEF AtAge, AtType
<1>2. sum \in Nat
  BY <1>1, TimesNext
<1>3. sum % AtMod \in Nat /\ sum % AtMod <= sum
  BY <1>2, AtConstants, ModLess
<1>4. /\ Filled(tokens, last, rate, cap) = IF sum % AtMod > cap THEN cap ELSE sum % AtMod
      /\ AtDue(tokens, last, rate, cap) = IF sum > cap THEN cap ELSE sum
  BY DEF Filled, AtDue, AtAge
<1>. HIDE DEF sum
<1>. QED  BY <1>2, <1>3, <1>4

\* Nothing is due to a bucket that was filled just now.
LEMMA DueNow ==
  ASSUME AtType, NEW cap \in Nat, NEW rate \in Nat, NEW tokens \in 0 .. cap
  PROVE  AtDue(tokens, atNow, rate, cap) = tokens
<1>1. AtAge(atNow) = 0
  BY AtConstants, AgeZero DEF AtAge, AtType
<1>2. AtAge(atNow) * rate = 0
  BY <1>1
<1>. QED  BY <1>2 DEF AtDue

\* With a tick, at most the rate is due in addition.
LEMMA DueTick ==
  ASSUME AtType, atNow' = (atNow + 1) % AtMod, NEW cap \in Nat, NEW rate \in Nat,
         NEW tokens \in 0 .. cap, NEW last \in 0 .. AtMod - 1,
         NEW ref \in Nat, AtDue(tokens, last, rate, cap) <= ref
  PROVE  AtDue(tokens, last, rate, cap)' <= IF ref + rate > cap THEN cap ELSE ref + rate
<1>. DEFINE age == AtAge(last)
            next == (atNow' + AtMod - last) % AtMod
            p == age * rate
            q == next * rate
<1>1. age \in Nat /\ next \in Nat /\ (next = age + 1 \/ next = 0)
  <2>1. AtMod \in Nat \ {0} /\ atNow \in 0 .. AtMod - 1
    BY AtConstants DEF AtType
  <2>2. age \in Nat
    BY <2>1, ClockType DEF AtAge
  <2>3. next = age + 1 \/ next = 0
    BY <2>1, ClockStep, ClockRound DEF AtAge
  <2>. QED  BY <2>2, <2>3
<1>2. p \in Nat /\ q \in Nat /\ (q = p + rate \/ q = 0)
  <2>1. p \in Nat /\ (age + 1) * rate = p + rate /\ 0 * rate = 0
    <3>. HIDE DEF age
    <3>. QED  BY <1>1, TimesNext
  <2>. HIDE DEF age, next, p
  <2>. QED  BY <1>1, <2>1
<1>3. AtDue(tokens, last, rate, cap) = IF tokens + p > cap THEN cap ELSE tokens + p
  BY DEF AtDue
<1>4. AtDue(tokens, last, rate, cap)' = IF tokens + q > cap THEN cap ELSE tokens + q
  BY DEF AtDue, AtAge
<1>. HIDE DEF p, q
<1>. QED  BY <1>2, <1>3, <1>4

LEMMA NbSlotFound ==
  ASSUME AtType, NEW s
  PROVE  /\ NbSlot(at.nb, s) \in NbSlots
         /\ (\E i \in NbSlots : at.nb[i].id = s) => at.nb[NbSlot(at.nb, s)].id = s
<1>. DEFINE own == {i \in NbSlots : at.nb[i].id = s}
            free == {i \in NbSlots : at.nb[i].id = NoSource}
            old == {i \in NbSlots : \A j \in NbSlots : at.nb[i].last <= at.nb[j].last}
            first(S) == CHOOSE i \in S : \A j \in S : i <= j
<1>1. ASSUME NEW S \in SUBSET NbSlots, S # {} PROVE first(S) \in S
  <2>. DEFINE f == [i \in NbSlots |-> i]
  <2>1. \A i \in S : f[i] \in Nat
    BY DEF NbSlots
  <2>2. \E i \in S : \A j \in S : f[i] <= f[j]
    <3>. HIDE DEF f
    <3>. QED  BY <1>1, <2>1, LeastMember
  <2>. QED  BY <2>2
<1>2. old # {}
  <2>. DEFINE f == [i \in NbSlots |-> at.nb[i].last]
  <2>1. NbSlots # {} /\ \A i \in NbSlots : f[i] \in Nat
    <3>1. 0 \in NbSlots
      BY AtConstants DEF NbSlots
    <3>2. \A i \in NbSlots : at.nb[i].last \in 0 .. AtMod - 1
      BY DEF AtType
    <3>. QED  BY <3>1, <3>2
  <2>2. \E i \in NbSlots : \A j \in NbSlots : f[i] <= f[j]
    <3>. HIDE DEF f
    <3>. QED  BY <2>1, LeastMember, SMTT(60)
  <2>. QED  BY <2>2
<1>3. /\ own # {} => NbSlot(at.nb, s) = first(own)
      /\ own = {} /\ free # {} => NbSlot(at.nb, s) = first(free)
      /\ own = {} /\ free = {} => NbSlot(at.nb, s) = first(old)
  BY Zenon DEF NbSlot
<1>4. own \in SUBSET NbSlots /\ free \in SUBSET NbSlots /\ old \in SUBSET NbSlots
  OBVIOUS
<1>5. \A i \in own : at.nb[i].id = s
  OBVIOUS
<1>6. (\E i \in NbSlots : at.nb[i].id = s) => own # {}
  OBVIOUS
<1>. HIDE DEF own, free, old, first
<1>. QED  BY <1>1, <1>2, <1>3, <1>4, <1>5, <1>6

\* The bucket the next frame of s would find.
LEMMA BucketLess ==
  ASSUME AtInv, NEW s \in AtSources
  PROVE  /\ NbBucket(at.nb, s) \in [id : {s}, tokens : 0 .. NCap, last : {atNow}]
         /\ s \notin atRef.evicted => NbBucket(at.nb, s).tokens <= atRef.n[s]
<1>. DEFINE i == NbSlot(at.nb, s)
            b == at.nb[i]
<1>1. AtType /\ i \in NbSlots /\ ((\E j \in NbSlots : at.nb[j].id = s) => b.id = s)
  BY NbSlotFound DEF AtInv
<1>2. NbBucket(at.nb, s) =
        [id |-> s, last |-> atNow,
         tokens |-> IF b.id = s THEN Filled(b.tokens, b.last, NRate, NCap) ELSE NCap]
  BY DEF NbBucket
<1>. HIDE DEF i
<1>3. b.tokens \in 0 .. NCap /\ b.last \in 0 .. AtMod - 1
  BY <1>1 DEF AtType
<1>4. /\ Filled(b.tokens, b.last, NRate, NCap) \in 0 .. NCap
      /\ Filled(b.tokens, b.last, NRate, NCap) <= AtDue(b.tokens, b.last, NRate, NCap)
  BY <1>1, <1>3, AtConstants, FilledLess
<1>5. NCap \in 0 .. NCap
  BY AtConstants
<1>6. NbBucket(at.nb, s) \in [id : {s}, tokens : 0 .. NCap, last : {atNow}]
  BY <1>2, <1>4, <1>5
<1>7. ASSUME s \notin atRef.evicted PROVE NbBucket(at.nb, s).tokens <= atRef.n[s]
  <2>1. AtSourceTrue(s) /\ atRef.n[s] \in Nat
    BY <1>1, <1>7 DEF AtInv, AtType
  <2>2. CASE b.id = s
    <3>1. AtDue(b.tokens, b.last, NRate, NCap) <= atRef.n[s]
      BY <1>1, <2>1, <2>2 DEF AtSourceTrue
    <3>2. NbBucket(at.nb, s).tokens = Filled(b.tokens, b.last, NRate, NCap)
      BY <1>2, <2>2
    <3>3. AtDue(b.tokens, b.last, NRate, NCap) \in Int
      <4>1. AtAge(b.last) \in Nat
        BY <1>1, <1>3, AtConstants, ClockType DEF AtAge, AtType
      <4>2. AtAge(b.last) * NRate \in Nat
        BY <4>1, AtConstants, TimesNext
      <4>. QED  BY <1>3, <4>2, AtConstants DEF AtDue
    <3>. QED  BY <1>4, <2>1, <3>1, <3>2, <3>3
  <2>3. CASE b.id # s
    <3>1. NCap <= atRef.n[s]
      BY <1>1, <2>1, <2>3 DEF AtSourceTrue
    <3>2. NbBucket(at.nb, s).tokens = NCap
      BY <1>2, <2>3
    <3>. QED  BY <3>1, <3>2
  <2>. QED  BY <2>2, <2>3
<1>. QED  BY <1>6, <1>7

LEMMA GlobalLess ==
  ASSUME AtInv
  PROVE  /\ Filled(at.tokens, at.last, GRate, GCap) \in 0 .. GCap
         /\ Filled(at.tokens, at.last, GRate, GCap) <= atRef.g
<1>1. AtType /\ at.tokens \in 0 .. GCap /\ at.last \in 0 .. AtMod - 1 /\ atRef.g \in Nat
  BY DEF AtInv, AtType
<1>2. /\ Filled(at.tokens, at.last, GRate, GCap) \in 0 .. GCap
      /\ Filled(at.tokens, at.last, GRate, GCap) <= AtDue(at.tokens, at.last, GRate, GCap)
  BY <1>1, AtConstants, FilledLess
<1>3. AtDue(at.tokens, at.last, GRate, GCap) \in Int
  <2>1. AtAge(at.last) \in Nat
    BY <1>1, AtConstants, ClockType DEF AtAge, AtType
  <2>2. AtAge(at.last) * GRate \in Nat
    BY <2>1, AtConstants, TimesNext
  <2>. QED  BY <1>1, <2>2, AtConstants DEF AtDue
<1>. QED  BY <1>1, <1>2, <1>3, AtConstants DEF AtInv

LEMMA AtInitially == AtInit => AtInv
<1>. SUFFICES ASSUME AtInit PROVE AtInv
  OBVIOUS
<1>1. AtType
  BY AtConstants DEF AtInit, AtType, FreeNb
<1>2. AtUnique
  BY DEF AtInit, AtUnique, FreeNb
<1>3. AtDue(at.tokens, at.last, GRate, GCap) <= atRef.g
  <2>1. at.tokens = GCap /\ at.last = 0 /\ atRef.g = GCap /\ 0 \in 0 .. AtMod - 1
    BY AtConstants DEF AtInit
  <2>2. AtAge(0) \in Nat
    BY <1>1, <2>1, AtConstants, ClockType DEF AtAge, AtType
  <2>3. AtAge(0) * GRate \in Nat
    BY <2>2, AtConstants, TimesNext
  <2>. QED  BY <2>1, <2>3, AtConstants DEF AtDue
<1>4. ASSUME NEW s \in AtSources PROVE AtSourceTrue(s)
  <2>1. (\A i \in NbSlots : at.nb[i].id # s) /\ atRef.n[s] = NCap
    BY AtConstants DEF AtInit, FreeNb
  <2>. QED  BY <2>1, AtConstants DEF AtSourceTrue
<1>. QED  BY <1>1, <1>2, <1>3, <1>4 DEF AtInv

LEMMA AtOwnInv ==
  ASSUME AtInv, NEW toa \in AtToas, AtOwn(toa)
  PROVE  AtInv'
<1>. DEFINE g == Filled(at.tokens, at.last, GRate, GCap)
            left == IF g < toa THEN g ELSE g - toa
            ref == IF g < toa THEN atRef.g ELSE atRef.g - toa
<1>1. /\ at' = [at EXCEPT !.last = atNow, !.tokens = left]
      /\ atRef' = [atRef EXCEPT !.g = ref] /\ atNow' = atNow
  BY DEF AtOwn, AtInv, AtType
<1>2. g \in 0 .. GCap /\ g <= atRef.g /\ atRef.g \in Nat /\ toa \in Nat
  BY GlobalLess, AtConstants DEF AtInv, AtType
<1>3. left \in 0 .. GCap /\ ref \in Nat /\ left <= ref
  <2>. HIDE DEF g
  <2>. QED  BY <1>2, AtConstants
<1>. HIDE DEF left, ref
<1>4. AtType' /\ at'.nb = at.nb /\ at'.tokens = left /\ at'.last = atNow
      /\ atRef'.g = ref /\ atRef'.n = atRef.n /\ atRef'.evicted = atRef.evicted
  BY <1>1, <1>3 DEF AtInv, AtType
<1>5. AtDue(at.tokens, at.last, GRate, GCap)' <= atRef'.g
  <2>1. AtDue(left, atNow, GRate, GCap) = left
    BY <1>3, AtConstants, DueNow DEF AtInv
  <2>. QED  BY <1>1, <1>3, <1>4, <2>1 DEF AtDue, AtAge
<1>. QED  BY <1>1, <1>4, <1>5 DEF AtInv, AtUnique, AtSourceTrue, AtDue, AtAge

LEMMA AtTickInv ==
  ASSUME AtInv, AtTick
  PROVE  AtInv'
<1>. DEFINE n == [s \in AtSources |-> IF atRef.n[s] + NRate > NCap THEN NCap ELSE atRef.n[s] + NRate]
            g == IF atRef.g + GRate > GCap THEN GCap ELSE atRef.g + GRate
<1>1. at' = at /\ atNow' = (atNow + 1) % AtMod /\ atRef' = [atRef EXCEPT !.g = g, !.n = n]
  BY DEF AtTick, AtInv, AtType
<1>2. g \in Nat /\ n \in [AtSources -> Nat]
  BY AtConstants DEF AtInv, AtType
<1>3. atRef'.g = g /\ atRef'.n = n /\ atRef'.evicted = atRef.evicted
  BY <1>1 DEF AtInv, AtType
<1>4. AtType'
  <2>. HIDE DEF g, n
  <2>1. atRef' \in [g : Nat, n : [AtSources -> Nat], evicted : SUBSET AtSources]
    BY <1>1, <1>2 DEF AtInv, AtType
  <2>2. atNow' \in 0 .. AtMod - 1
    BY <1>1, AtConstants DEF AtInv, AtType
  <2>. QED  BY <1>1, <2>1, <2>2 DEF AtInv, AtType
<1>5. AtDue(at.tokens, at.last, GRate, GCap)' <= atRef'.g
  <2>1. AtDue(at.tokens, at.last, GRate, GCap)' <= g
    <3>1. /\ at.tokens \in 0 .. GCap /\ at.last \in 0 .. AtMod - 1 /\ atRef.g \in Nat /\ AtType
          /\ AtDue(at.tokens, at.last, GRate, GCap) <= atRef.g
      BY DEF AtInv, AtType
    <3>. DEFINE D(t, l) == AtDue(t, l, GRate, GCap)
    <3>2. \A t \in 0 .. GCap, l \in 0 .. AtMod - 1 :
            D(t, l) <= atRef.g => D(t, l)' <= g
      BY <1>1, <3>1, AtConstants, DueTick
    <3>. QED  BY <1>1, <3>1, <3>2 DEF AtDue, AtAge
  <2>. QED  BY <1>3, <2>1
<1>6. ASSUME NEW s \in AtSources \ atRef'.evicted PROVE AtSourceTrue(s)'
  <2>1. AtSourceTrue(s) /\ AtType /\ atRef.n[s] \in Nat /\ n[s] \in Nat
        /\ n[s] = IF atRef.n[s] + NRate > NCap THEN NCap ELSE atRef.n[s] + NRate
    BY <1>2, <1>3 DEF AtInv, AtType
  <2>2. ASSUME NEW i \in NbSlots, at.nb[i].id = s
        PROVE  AtDue(at.nb[i].tokens, at.nb[i].last, NRate, NCap)' <= n[s]
    <3>1. /\ at.nb[i].tokens \in 0 .. NCap /\ at.nb[i].last \in 0 .. AtMod - 1
          /\ AtDue(at.nb[i].tokens, at.nb[i].last, NRate, NCap) <= atRef.n[s]
      BY <2>1, <2>2 DEF AtType, AtSourceTrue
    <3>. DEFINE D(t, l) == AtDue(t, l, NRate, NCap)
    <3>2. \A t \in 0 .. NCap, l \in 0 .. AtMod - 1 :
            D(t, l) <= atRef.n[s] => D(t, l)' <= n[s]
      <4>. HIDE DEF n
      <4>. QED  BY <1>1, <2>1, AtConstants, DueTick
    <3>. QED  BY <1>1, <3>1, <3>2 DEF AtDue, AtAge
  <2>3. (\A i \in NbSlots : at.nb[i].id # s) => NCap <= n[s]
    BY <2>1, AtConstants DEF AtSourceTrue
  <2>. HIDE DEF n
  <2>. QED  BY <1>1, <1>3, <2>2, <2>3 DEF AtSourceTrue
<1>7. AtUnique'
  BY <1>1 DEF AtInv, AtUnique
<1>. QED  BY <1>4, <1>5, <1>6, <1>7 DEF AtInv

\* The bucket of a relayed frame's source is filled and, with the global one, pays for
\* the frame or not.
LEMMA AtRelayInv ==
  ASSUME AtInv, NEW s \in AtSources, NEW toa \in AtToas, AtRelay(s, toa)
  PROVE  AtInv'
<1>. DEFINE g == Filled(at.tokens, at.last, GRate, GCap)
            i == NbSlot(at.nb, s)
            b == NbBucket(at.nb, s)
            sent == g >= toa /\ b.tokens >= toa
            c == IF sent THEN [b EXCEPT !.tokens = b.tokens - toa] ELSE b
            gone == Evicts(at.nb, s)
            fresh == g >= toa
            left == IF sent THEN g - toa ELSE g
            ref == IF sent THEN atRef.g - toa ELSE atRef.g
            refs == IF sent /\ s \notin atRef.evicted
                    THEN [atRef.n EXCEPT ![s] = atRef.n[s] - toa] ELSE atRef.n
<1>1. /\ g \in 0 .. GCap /\ g <= atRef.g /\ atRef.g \in Nat /\ toa \in Nat
      /\ AtType /\ AtUnique
  BY GlobalLess, AtConstants DEF AtInv, AtType
<1>2. /\ b \in [id : {s}, tokens : 0 .. NCap, last : {atNow}]
      /\ s \notin atRef.evicted => b.tokens <= atRef.n[s]
  BY BucketLess
<1>3. i \in NbSlots /\ ((\E j \in NbSlots : at.nb[j].id = s) => at.nb[i].id = s)
  BY <1>1, NbSlotFound
<1>4. /\ fresh => at' = [tokens |-> left, last |-> atNow, nb |-> [at.nb EXCEPT ![i] = c]]
      /\ ~fresh => at' = [tokens |-> left, last |-> atNow, nb |-> at.nb]
      /\ fresh => atRef' = [g |-> ref, n |-> refs, evicted |-> atRef.evicted \cup gone]
      /\ ~fresh => atRef' = [g |-> ref, n |-> refs, evicted |-> atRef.evicted]
      /\ atNow' = atNow
  <2>1. fresh <=> ~(g < toa)
    <3>. HIDE DEF g
    <3>. QED  BY <1>1
  <2>. QED  BY <2>1 DEF AtRelay
<1>5. gone = {at.nb[i].id} \ {s, NoSource}
  BY DEF Evicts
<1>6. sent => fresh
  OBVIOUS
<1>7. b.tokens \in 0 .. NCap /\ b.id = s /\ b.last = atNow
  BY <1>2
<1>. HIDE DEF i, gone
<1>8. left \in 0 .. GCap /\ ref \in Nat /\ left <= ref
  <2>. HIDE DEF g, b
  <2>. QED  BY <1>1, AtConstants
<1>9. /\ c.id = s /\ c.last = atNow /\ c.tokens \in 0 .. NCap
      /\ c.tokens = IF sent THEN b.tokens - toa ELSE b.tokens
      /\ c \in [id : AtSources \cup {NoSource}, tokens : 0 .. NCap, last : 0 .. AtMod - 1]
  <2>. HIDE DEF g, b
  <2>. QED  BY <1>1, <1>2, AtConstants DEF AtType
<1>10. /\ refs \in [AtSources -> Nat]
       /\ \A r \in AtSources \ {s} : refs[r] = atRef.n[r]
       /\ s \notin atRef.evicted => refs[s] = (IF sent THEN atRef.n[s] - toa ELSE atRef.n[s])
  <2>1. atRef.n \in [AtSources -> Nat]
    BY <1>1 DEF AtType
  <2>. HIDE DEF g, b
  <2>. QED  BY <1>1, <1>2, <1>7, <2>1
<1>11. AtDue(left, atNow, GRate, GCap) = left
  BY <1>1, <1>8, AtConstants, DueNow
<1>12. AtDue(c.tokens, c.last, NRate, NCap) = c.tokens
  BY <1>1, <1>9, AtConstants, DueNow
<1>13. s \notin atRef.evicted => c.tokens <= refs[s]
  <2>1. atRef.n[s] \in Nat
    BY <1>1 DEF AtType
  <2>. HIDE DEF g, b, c, refs
  <2>. QED  BY <1>1, <1>2, <1>7, <1>9, <1>10, <2>1
<1>. HIDE DEF left, ref, c, refs, b, g, sent, fresh
<1>14. /\ \A j \in NbSlots : at'.nb[j] = IF fresh /\ j = i THEN c ELSE at.nb[j]
       /\ at'.tokens = left /\ at'.last = atNow
       /\ atRef'.g = ref /\ atRef'.n = refs
       /\ atRef'.evicted = IF fresh THEN atRef.evicted \cup gone ELSE atRef.evicted
  <2>1. at.nb \in [NbSlots -> [id : AtSources \cup {NoSource}, tokens : 0 .. NCap,
                               last : 0 .. AtMod - 1]]
    BY <1>1 DEF AtType
  <2>2. CASE fresh
    BY <1>3, <1>4, <2>1, <2>2
  <2>3. CASE ~fresh
    BY <1>4, <2>3
  <2>. QED  BY <2>2, <2>3
<1>15. AtType'
  <2>1. at' \in [tokens : 0 .. GCap, last : 0 .. AtMod - 1,
                 nb : [NbSlots -> [id : AtSources \cup {NoSource}, tokens : 0 .. NCap,
                                   last : 0 .. AtMod - 1]]]
    BY <1>1, <1>3, <1>4, <1>8, <1>9 DEF AtType
  <2>2. gone \subseteq AtSources
    BY <1>1, <1>3, <1>5 DEF AtType
  <2>3. atRef' \in [g : Nat, n : [AtSources -> Nat], evicted : SUBSET AtSources]
    BY <1>1, <1>4, <1>8, <1>10, <2>2 DEF AtType
  <2>. QED  BY <1>1, <1>4, <2>1, <2>3 DEF AtType
<1>16. AtUnique'
  <2>. SUFFICES ASSUME NEW j \in NbSlots, NEW k \in NbSlots,
                       at'.nb[j].id = at'.nb[k].id, at'.nb[j].id # NoSource
                PROVE  j = k
    BY DEF AtUnique
  <2>1. fresh /\ (\E m \in NbSlots : at.nb[m].id = s) => at.nb[i].id = s
    BY <1>3
  <2>. QED  BY <1>1, <1>3, <1>9, <1>14, <2>1 DEF AtUnique
<1>17. AtDue(at.tokens, at.last, GRate, GCap)' <= atRef'.g
  <2>1. AtDue(at.tokens, at.last, GRate, GCap)' = AtDue(left, atNow, GRate, GCap)
    BY <1>4, <1>14 DEF AtDue, AtAge
  <2>. QED  BY <1>8, <1>11, <1>14, <2>1
<1>18. ASSUME NEW r \in AtSources \ atRef'.evicted PROVE AtSourceTrue(r)'
  <2>1. r \notin atRef.evicted /\ AtSourceTrue(r)
    BY <1>14 DEF AtInv
  <2>2. ASSUME NEW j \in NbSlots, at'.nb[j].id = r
        PROVE  AtDue(at.nb[j].tokens, at.nb[j].last, NRate, NCap)' <= atRef'.n[r]
    <3>1. CASE fresh /\ j = i
      <4>1. at'.nb[j] = c /\ r = s
        BY <1>9, <1>14, <2>2, <3>1
      <4>2. AtDue(at.nb[j].tokens, at.nb[j].last, NRate, NCap)'
              = AtDue(c.tokens, c.last, NRate, NCap)
        BY <1>4, <4>1 DEF AtDue, AtAge
      <4>. QED  BY <1>12, <1>13, <1>14, <2>1, <4>1, <4>2
    <3>2. CASE ~(fresh /\ j = i)
      <4>1. at'.nb[j] = at.nb[j] /\ at.nb[j].id = r
        BY <1>14, <2>2, <3>2
      <4>2. AtDue(at.nb[j].tokens, at.nb[j].last, NRate, NCap)'
              = AtDue(at.nb[j].tokens, at.nb[j].last, NRate, NCap)
        BY <1>4, <4>1 DEF AtDue, AtAge
      <4>3. AtDue(at.nb[j].tokens, at.nb[j].last, NRate, NCap) <= atRef.n[r]
        BY <2>1, <4>1 DEF AtSourceTrue
      <4>4. refs[r] = atRef.n[r]
        <5>1. CASE r # s
          BY <1>10, <5>1
        <5>2. CASE r = s
          <6>1. at.nb[i].id = s /\ i = j
            BY <1>1, <1>3, <4>1, <5>2, AtConstants DEF AtUnique
          <6>2. ~fresh /\ ~sent
            BY <1>6, <3>2, <6>1
          <6>. QED  BY <1>10, <2>1, <5>2, <6>2
        <5>. QED  BY <5>1, <5>2
      <4>. QED  BY <1>14, <4>2, <4>3, <4>4
    <3>. QED  BY <3>1, <3>2
  <2>3. ASSUME \A j \in NbSlots : at'.nb[j].id # r
        PROVE  NCap <= atRef'.n[r]
    <3>1. \A j \in NbSlots : at.nb[j].id # r
      <4>. SUFFICES ASSUME NEW j \in NbSlots, at.nb[j].id = r PROVE FALSE
        OBVIOUS
      <4>1. fresh /\ j = i
        BY <1>14, <2>3
      <4>2. r # s
        BY <1>3, <1>9, <1>14, <2>3, <4>1
      <4>3. r \in gone
        BY <1>5, <4>1, <4>2, AtConstants
      <4>. QED  BY <1>14, <4>1, <4>3
    <3>2. NCap <= atRef.n[r]
      BY <2>1, <3>1 DEF AtSourceTrue
    <3>3. refs[r] = atRef.n[r]
      <4>1. CASE r # s
        BY <1>10, <4>1
      <4>2. CASE r = s
        <5>1. ~fresh
          BY <1>3, <1>9, <1>14, <2>3, <4>2
        <5>. QED  BY <1>6, <1>10, <2>1, <4>2, <5>1
      <4>. QED  BY <4>1, <4>2
    <3>. QED  BY <1>14, <3>2, <3>3
  <2>. QED  BY <2>2, <2>3 DEF AtSourceTrue
<1>. QED  BY <1>15, <1>16, <1>17, <1>18 DEF AtInv

LEMMA AtInductive ==
  ASSUME AtInv, [AtNext]_atVars
  PROVE  AtInv'
<1>1. CASE UNCHANGED atVars
  BY <1>1 DEF atVars, AtInv, AtType, AtUnique, AtSourceTrue, AtDue, AtAge
<1>. QED  BY <1>1, AtOwnInv, AtRelayInv, AtTickInv DEF AtNext

LEMMA AtGranted == AtInv => NotOverGranted
<1>. SUFFICES ASSUME AtInv PROVE NotOverGranted
  OBVIOUS
<1>1. GlobalKept
  BY GlobalLess DEF GlobalKept
<1>2. SourcesKept
  BY BucketLess DEF SourcesKept
<1>. QED  BY <1>1, <1>2 DEF NotOverGranted

(***************************************************************************)
(* Lazy refill never gives more airtime than the rates allow, however the  *)
(* clock wraps, the products overflow and the table evicts                 *)
(* (airtime_sched.c lines 58-89).                                          *)
(***************************************************************************)
THEOREM NeverOverGranted == NodeSpec => []NotOverGranted
<1>1. NodeInit => AtInv
  BY AtInitially DEF NodeInit
<1>2. AtInv /\ [NodeNext]_nodeVars => AtInv'
  BY PartSteps, AtInductive
<1>. QED  BY <1>1, <1>2, AtGranted, PTL DEF NodeSpec, nodeVars

-----------------------------------------------------------------------------
(***************************************************************************)
(* The radio drivers.                                                      *)
(***************************************************************************)
RdClock == 0 .. RdClockMod - 1
Streak == 0 .. StreakMod - 1
LineFlags == {"TxDone", "RxDone", "Timeout"}

RdState ==
  [mode : {"standby", "rx", "tx"}, irq : SUBSET Flags, dio : SUBSET LineFlags,
   edge : BOOLEAN, pending : BOOLEAN, inRx : BOOLEAN, lastRx : RdClock,
   fail : Streak, spurious : Streak, stuck : Streak,
   reset : BOOLEAN, resetAt : RdClock, hard : {0, 1}]

RdType ==
  /\ driver \in Drivers /\ rd \in RdState
  /\ call \in [op : {"idle", "claim", "read", "act", "tx"}, irq : SUBSET Flags, t0 : RdClock]
  /\ rdNow \in RdClock /\ rdLeft \in BOOLEAN

\* A transmission sets no flag until it ends; reception sets no other than its own,
\* unless a failed transmission left one; and only the drivers that can fail without
\* a reset stay in standby outside of a call.
RdChip ==
  /\ rd.mode = "tx" => rd.irq = {}
  /\ ~rdLeft /\ rd.mode = "rx" => rd.irq \subseteq {"RxDone", "CrcErr"}
  /\ driver # "sx1262" /\ call.op # "tx"
       => rd.mode = "rx" \/ (driver = "lr1110" /\ rd.mode = "standby" /\ rd.irq = {})

\* A flag that no service has read, on the line, has woken the driver or will.
RdWake ==
  /\ ~rdLeft /\ call.op \in {"idle", "claim"} /\ rd.irq \cap rd.dio # {}
       => rd.pending \/ rd.edge
  /\ ~rdLeft /\ call.op = "act" /\ (rd.irq \ call.irq) \cap rd.dio # {}
       => rd.pending \/ rd.edge

RdInv == RdType /\ RdChip /\ RdWake /\ DeafOnlyIfDenied

-----------------------------------------------------------------------------
\* What a step of a driver makes of the state s of driver and chip.
KeptAs(s, t) ==
  /\ t.mode = s.mode /\ t.irq = s.irq /\ t.dio = s.dio /\ t.edge = s.edge
  /\ t.pending = s.pending /\ t.fail = s.fail
  /\ t.reset = s.reset /\ t.resetAt = s.resetAt /\ t.hard = s.hard

Started(s, t) ==
  /\ t.mode = "rx" /\ (t.irq = {} \/ (t.irq = s.irq /\ t.dio = s.dio)) /\ t.edge = s.edge
  /\ t.pending = s.pending /\ t.fail = s.fail
  /\ t.reset = s.reset /\ t.resetAt = s.resetAt /\ t.hard = s.hard

WasReset(s, t) ==
  /\ t.mode = "rx" /\ t.irq = {} /\ t.edge = s.edge /\ t.pending = s.pending /\ t.fail = 0
  /\ ~Denied(s) /\ t.reset = TRUE /\ t.resetAt = rdNow /\ t.hard = 1 - s.hard

\* A step resets the chip, which the backoff allows then, or leaves the last reset alone.
ResetStep ==
  \/ rd'.hard = rd.hard /\ rd'.reset = rd.reset /\ rd'.resetAt = rd.resetAt
  \/ rd'.hard = 1 - rd.hard /\ ~Denied(rd) /\ rd'.reset = TRUE /\ rd'.resetAt = rdNow

LEMMA RdConstants ==
  /\ Drivers \subseteq DriverNames
  /\ RdClockMod \in Nat \ {0} /\ Backoff \in Nat \ {0} /\ StreakMod \in Nat \ {0}
  /\ TxFailMax \in Nat /\ 0 \in RdClock /\ 0 \in Streak
  BY RadioAssumption DEF RdClock, Streak

LEMMA BumpType == \A n \in Streak : Bump(n) \in Streak
  BY RdConstants DEF Bump, Streak

LEMMA MaskType == driver \in Drivers => Mask \subseteq LineFlags
  BY RdConstants DEF Mask, Mask_sx1262, Mask_sx1276, Mask_rp2040, Mask_linux, Mask_nrf52,
     Mask_lr1110, LineFlags, DriverNames

LEMMA StartRxEffect ==
  ASSUME driver \in Drivers, rdNow \in RdClock, NEW s \in RdState
  PROVE  StartRx(s) \in RdState /\ Started(s, StartRx(s))
<1>. DEFINE yes == TRUE
<1>0. yes \in BOOLEAN
  OBVIOUS
<1>. HIDE DEF yes
<1>1. CASE driver = "sx1276"
  <2>1. StartRx(s) = [s EXCEPT !.mode = "rx", !.inRx = yes, !.irq = {}, !.dio = {"RxDone"}]
    BY <1>1 DEF StartRx, StartRx_sx1276, yes
  <2>. DEFINE a == [s EXCEPT !.mode = "rx"]
              b == [a EXCEPT !.inRx = yes]
  <2>2. a \in RdState /\ Started(s, a)
    BY DEF RdState, Started
  <2>3. StartRx(s) = [b EXCEPT !.irq = {}, !.dio = {"RxDone"}]
    BY <2>1
  <2>. HIDE DEF a
  <2>4. b \in RdState /\ Started(s, b)
    BY <1>0, <2>2 DEF RdState, Started
  <2>. HIDE DEF b
  <2>. DEFINE c == [b EXCEPT !.irq = {}]
  <2>7. c \in RdState
    BY <2>4 DEF RdState
  <2>8. StartRx(s) = [c EXCEPT !.dio = {"RxDone"}]
    BY <2>3
  <2>. HIDE DEF c
  <2>9. {"RxDone"} \in SUBSET LineFlags
    BY DEF LineFlags
  <2>5. StartRx(s) \in RdState
    BY <2>7, <2>8, <2>9 DEF RdState
  <2>6. Started(s, StartRx(s))
    BY <2>3, <2>4 DEF RdState, Started
  <2>. QED  BY <2>5, <2>6
<1>2. CASE driver = "rp2040"
  <2>1. StartRx(s) = [s EXCEPT !.mode = "rx", !.inRx = yes, !.lastRx = rdNow]
    BY <1>2 DEF StartRx, StartRx_rp2040, yes
  <2>. QED  BY <1>0, <2>1 DEF RdState, Started
<1>3. CASE driver \notin {"sx1276", "rp2040"}
  <2>1. StartRx(s) = [s EXCEPT !.mode = "rx", !.inRx = yes]
    BY <1>3, RdConstants DEF StartRx, StartRx_sx126x, StartRx_lr1110, DriverNames, yes
  <2>. DEFINE a == [s EXCEPT !.mode = "rx"]
  <2>2. a \in RdState /\ Started(s, a)
    BY DEF RdState, Started
  <2>3. StartRx(s) = [a EXCEPT !.inRx = yes]
    BY <2>1
  <2>. HIDE DEF a
  <2>4. [a EXCEPT !.inRx = yes] \in RdState /\ Started(s, [a EXCEPT !.inRx = yes])
    BY <1>0, <2>2 DEF RdState, Started
  <2>. QED  BY <2>3, <2>4
<1>. QED  BY <1>1, <1>2, <1>3

LEMMA GuardResetEffect ==
  ASSUME driver \in Drivers, rdNow \in RdClock, NEW s \in RdState
  PROVE  /\ GuardReset(s) \in RdState
         /\ \/ Denied(s) /\ GuardReset(s) = s
            \/ WasReset(s, GuardReset(s))
<1>1. CASE Denied(s)
  BY <1>1 DEF GuardReset
<1>2. CASE ~Denied(s)
  <2>. DEFINE yes == TRUE
              no == FALSE
  <2>0. yes \in BOOLEAN /\ no \in BOOLEAN
    OBVIOUS
  <2>. HIDE DEF yes, no
  <2>. DEFINE a == [s EXCEPT !.reset = yes, !.resetAt = rdNow]
              b == [a EXCEPT !.fail = 0, !.spurious = 0, !.stuck = 0, !.inRx = no, !.hard = 1 - s.hard]
              c == [b EXCEPT !.mode = "standby", !.irq = {}, !.dio = Mask]
  <2>1. a \in RdState /\ a.edge = s.edge /\ a.pending = s.pending /\ a.hard = s.hard
        /\ a.reset = yes /\ a.resetAt = rdNow
    BY <2>0 DEF RdState
  <2>2. 1 - s.hard \in {0, 1}
    BY DEF RdState
  <2>3. GuardReset(s) = StartRx(c)
    BY <1>2, <2>1 DEF GuardReset, HardReset, ApplyConfig, yes, no
  <2>. HIDE DEF a
  <2>7. b \in RdState /\ b.edge = a.edge /\ b.pending = a.pending /\ b.fail = 0
        /\ b.reset = a.reset /\ b.resetAt = a.resetAt /\ b.hard = 1 - s.hard
    BY <2>0, <2>1, <2>2, RdConstants DEF RdState
  <2>. HIDE DEF b
  <2>4. c \in RdState /\ c.edge = s.edge /\ c.pending = s.pending /\ c.fail = 0
        /\ c.reset = yes /\ c.resetAt = rdNow /\ c.hard = 1 - s.hard /\ c.irq = {}
    BY <2>1, <2>7, MaskType DEF RdState
  <2>. HIDE DEF c
  <2>5. StartRx(c) \in RdState /\ Started(c, StartRx(c))
    BY <2>4, StartRxEffect
  <2>6. WasReset(s, StartRx(c))
    BY <1>2, <2>4, <2>5 DEF Started, WasReset, yes
  <2>. QED  BY <2>3, <2>5, <2>6
<1>. QED  BY <1>1, <1>2

\* Only radio_sx1262.c resets in a service, and it never starts reception there.
LEMMA ActEffect ==
  ASSUME driver \in Drivers, rdNow \in RdClock, NEW s \in RdState, NEW flags,
         NEW empty \in BOOLEAN
  PROVE  /\ Act(s, flags, empty) \in RdState
         /\ \/ KeptAs(s, Act(s, flags, empty))
            \/ driver # "sx1262" /\ Started(s, Act(s, flags, empty))
            \/ WasReset(s, Act(s, flags, empty))
<1>. DEFINE A == Act(s, flags, empty)
<1>0. KeptAs(s, s) /\ driver \in DriverNames
  BY RdConstants DEF KeptAs
<1>1. CASE driver = "sx1262"
  <2>. DEFINE streak == [s EXCEPT !.spurious = Bump(s.spurious)]
  <2>1. streak \in RdState /\ KeptAs(s, streak)
    BY BumpType DEF RdState, KeptAs
  <2>2. [s EXCEPT !.spurious = 0] \in RdState /\ KeptAs(s, [s EXCEPT !.spurious = 0])
    BY RdConstants DEF RdState, KeptAs
  <2>3. A = Act_sx1262(s, flags, empty)
    BY <1>1 DEF Act
  <2>4. Act_sx1262(s, flags, empty) \in {GuardReset(streak), streak, [s EXCEPT !.spurious = 0], s}
    BY DEF Act_sx1262
  <2>5. GuardReset(streak) \in RdState
        /\ (GuardReset(streak) = streak \/ WasReset(streak, GuardReset(streak)))
    <3>. HIDE DEF streak
    <3>. QED  BY <2>1, GuardResetEffect
  <2>6. \A t : WasReset(streak, t) => WasReset(s, t)
    <3>1. Denied(streak) <=> Denied(s)
      <4>. HIDE DEF streak
      <4>. QED  BY <2>1 DEF KeptAs, Denied
    <3>. HIDE DEF streak
    <3>. QED  BY <2>1, <3>1 DEF WasReset, KeptAs
  <2>. HIDE DEF streak, A
  <2>7. A \in RdState /\ (KeptAs(s, A) \/ WasReset(s, A))
    BY <1>0, <2>1, <2>2, <2>3, <2>4, <2>5, <2>6
  <2>. QED  BY <2>7 DEF A
<1>2. CASE driver # "sx1262"
  <2>1. A \in {s, StartRx(s), [s EXCEPT !.lastRx = rdNow]}
    <3>1. CASE driver = "sx1276"
      BY <3>1 DEF Act, Act_sx1276
    <3>2. CASE driver = "rp2040"
      BY <3>2 DEF Act, Act_rp2040
    <3>3. CASE driver = "linux"
      BY <3>3 DEF Act, Act_linux
    <3>4. CASE driver = "nrf52"
      BY <3>4 DEF Act, Act_nrf52
    <3>5. CASE driver = "lr1110"
      BY <3>5 DEF Act, Act_lr1110
    <3>. QED  BY <1>0, <1>2, <3>1, <3>2, <3>3, <3>4, <3>5 DEF DriverNames
  <2>2. [s EXCEPT !.lastRx = rdNow] \in RdState /\ KeptAs(s, [s EXCEPT !.lastRx = rdNow])
    BY DEF RdState, KeptAs
  <2>3. StartRx(s) \in RdState /\ Started(s, StartRx(s))
    BY StartRxEffect
  <2>. HIDE DEF A
  <2>4. A \in RdState /\ (KeptAs(s, A) \/ Started(s, A))
    BY <1>0, <2>1, <2>2, <2>3
  <2>. QED  BY <1>2, <2>4 DEF A
<1>. QED  BY <1>1, <1>2

LEMMA ArmEffect ==
  ASSUME driver \in Drivers, NEW s \in RdState
  PROVE  /\ Arm(s) \in RdState /\ Arm(s).mode = "tx" /\ Arm(s).irq = {}
         /\ Arm(s).reset = s.reset /\ Arm(s).resetAt = s.resetAt /\ Arm(s).hard = s.hard
<1>0. driver \in DriverNames
  BY RdConstants
<1>. DEFINE no == FALSE
<1>5. no \in BOOLEAN
  OBVIOUS
<1>. HIDE DEF no
<1>1. CASE driver = "sx1262"
  <2>1. Arm(s) = [s EXCEPT !.mode = "tx", !.irq = {}, !.inRx = no, !.stuck = 0]
    BY <1>1 DEF Arm, Arm_sx1262, no
  <2>. QED  BY <1>5, <2>1, RdConstants, ZenonT(60) DEF RdState
<1>2. CASE driver = "sx1276"
  <2>1. Arm(s) = [s EXCEPT !.mode = "tx", !.irq = {}, !.inRx = no, !.dio = {"TxDone"}]
    BY <1>2 DEF Arm, Arm_sx1276, no
  <2>. DEFINE a == [s EXCEPT !.mode = "tx", !.irq = {}]
              b == [a EXCEPT !.inRx = no]
  <2>2. a \in RdState /\ a.mode = "tx" /\ a.irq = {}
        /\ a.reset = s.reset /\ a.resetAt = s.resetAt /\ a.hard = s.hard
    BY DEF RdState
  <2>3. Arm(s) = [b EXCEPT !.dio = {"TxDone"}]
    BY <2>1
  <2>. HIDE DEF a
  <2>4. b \in RdState /\ b.mode = a.mode /\ b.irq = a.irq
        /\ b.reset = a.reset /\ b.resetAt = a.resetAt /\ b.hard = a.hard
    BY <1>5, <2>2 DEF RdState
  <2>. HIDE DEF b
  <2>. QED  BY <2>2, <2>3, <2>4 DEF RdState, LineFlags
<1>3. CASE driver = "lr1110"
  <2>1. Arm(s) = [s EXCEPT !.mode = "tx", !.irq = {}, !.inRx = no, !.pending = no]
    BY <1>3 DEF Arm, Arm_lr1110, no
  <2>. DEFINE a == [s EXCEPT !.mode = "tx", !.irq = {}]
  <2>2. a \in RdState /\ a.mode = "tx" /\ a.irq = {}
        /\ a.reset = s.reset /\ a.resetAt = s.resetAt /\ a.hard = s.hard
    BY DEF RdState
  <2>3. Arm(s) = [a EXCEPT !.inRx = no, !.pending = no]
    BY <2>1
  <2>. HIDE DEF a
  <2>. QED  BY <1>5, <2>2, <2>3 DEF RdState
<1>4. CASE driver \in {"rp2040", "linux", "nrf52"}
  <2>1. Arm(s) = [s EXCEPT !.mode = "tx", !.irq = {}]
    BY <1>4 DEF Arm, Arm_rp2040, Arm_linux, Arm_nrf52
  <2>. QED  BY <1>5, <2>1 DEF RdState
<1>. QED  BY <1>0, <1>1, <1>2, <1>3, <1>4 DEF DriverNames

LEMMA RaiseEffect ==
  ASSUME NEW s \in RdState, NEW flags \in SUBSET Flags
  PROVE  /\ Raise(s, flags) \in RdState
         /\ Raise(s, flags).mode = s.mode /\ Raise(s, flags).irq = s.irq \cup flags
         /\ Raise(s, flags).dio = s.dio /\ Raise(s, flags).pending = s.pending
         /\ Raise(s, flags).fail = s.fail /\ Raise(s, flags).reset = s.reset
         /\ Raise(s, flags).resetAt = s.resetAt /\ Raise(s, flags).hard = s.hard
         /\ Raise(s, flags).edge <=> (s.edge \/ (s.irq \cap s.dio = {} /\ flags \cap s.dio # {}))
<1>1. Raise(s, flags) = [s EXCEPT !.irq = s.irq \cup flags,
                                  !.edge = s.edge \/ (s.irq \cap s.dio = {} /\ flags \cap s.dio # {})]
  BY DEF Raise
<1>. DEFINE e == s.edge \/ (s.irq \cap s.dio = {} /\ flags \cap s.dio # {})
<1>2. e \in BOOLEAN
  OBVIOUS
<1>. HIDE DEF e
<1>3. Raise(s, flags) = [s EXCEPT !.irq = s.irq \cup flags, !.edge = e]
  BY <1>1 DEF e
<1>4. Raise(s, flags) \in RdState
  BY <1>2, <1>3 DEF RdState
<1>5. Raise(s, flags).edge = e
  BY <1>3, Zenon DEF RdState
<1>. QED  BY <1>2, <1>3, <1>4, <1>5, Zenon DEF RdState, e

-----------------------------------------------------------------------------
\* What each step of the chip and of the main loop does to the invariant.
LEMMA RdStart ==
  ASSUME RdInit
  PROVE  RdInv
<1>. DEFINE no == FALSE
            r == [mode |-> "standby", irq |-> {}, dio |-> {}, edge |-> no,
                  pending |-> no, inRx |-> no, lastRx |-> 0, fail |-> 0,
                  spurious |-> 0, stuck |-> 0, reset |-> no, resetAt |-> 0, hard |-> 0]
            c == [r EXCEPT !.mode = "standby", !.irq = {}, !.dio = Mask]
<1>0. driver \in Drivers /\ rdNow \in RdClock /\ rdLeft \in BOOLEAN /\ no \in BOOLEAN
  BY DEF RdInit, RdClock
<1>1. rd = StartRx(c) /\ call = Idle /\ ~rdLeft
  BY DEF RdInit, ApplyConfig
<1>. HIDE DEF no
<1>2. r \in RdState
  BY <1>0, RdConstants DEF RdState
<1>. HIDE DEF r
<1>3. c \in RdState /\ c.irq = {}
  BY <1>0, <1>2, MaskType DEF RdState
<1>. HIDE DEF c
<1>4. rd \in RdState /\ rd.mode = "rx" /\ rd.irq = {}
  BY <1>0, <1>1, <1>3, StartRxEffect DEF Started
<1>5. call \in [op : {"idle", "claim", "read", "act", "tx"}, irq : SUBSET Flags, t0 : RdClock]
      /\ call.op = "idle"
  BY <1>1, RdConstants DEF Idle
<1>. QED  BY <1>0, <1>1, <1>4, <1>5 DEF RdInv, RdType, RdChip, RdWake, DeafOnlyIfDenied

LEMMA RxDoneKeeps ==
  ASSUME RdInv, NEW crc \in SUBSET {"CrcErr"}, ChipRxDone(crc), UNCHANGED <<driver, rdNow>>
  PROVE  RdInv' /\ ResetStep
<1>. DEFINE f == {"RxDone"} \cup crc
<1>1. f \in SUBSET Flags /\ f \subseteq {"RxDone", "CrcErr"}
  BY DEF Flags
<1>2. rd' = Raise(rd, f) /\ rd.mode = "rx" /\ UNCHANGED <<call, rdLeft>>
  BY DEF ChipRxDone
<1>. HIDE DEF f
<1>3. rd \in RdState
  BY DEF RdInv, RdType
<1>4. rd' \in RdState /\ rd'.mode = rd.mode /\ rd'.irq = rd.irq \cup f
      /\ rd'.dio = rd.dio /\ rd'.pending = rd.pending
      /\ rd'.fail = rd.fail /\ rd'.reset = rd.reset
      /\ (rd'.edge <=> (rd.edge \/ (rd.irq \cap rd.dio = {} /\ f \cap rd.dio # {})))
  BY <1>1, <1>2, <1>3, RaiseEffect
<1>5. RdType'
  BY <1>2, <1>4 DEF RdInv, RdType
<1>6. RdChip'
  BY <1>1, <1>2, <1>4 DEF RdInv, RdChip
<1>7. (~rdLeft /\ call.op \in {"idle", "claim"} /\ rd.irq \cap rd.dio # {}
       => rd.pending \/ rd.edge)'
  BY <1>1, <1>2, <1>4 DEF RdInv, RdWake
<1>8. (~rdLeft /\ call.op = "act" /\ (rd.irq \ call.irq) \cap rd.dio # {}
       => rd.pending \/ rd.edge)'
  <2>. SUFFICES ASSUME ~rdLeft, call.op = "act", ((rd.irq \ call.irq) \cap rd.dio)' # {},
                       ~rd.pending, ~rd.edge
                PROVE  rd'.edge
    BY <1>2, <1>4
  <2>1. (rd.irq \ call.irq) \cap rd.dio = {}
    BY DEF RdInv, RdWake
  <2>2. rd.irq \subseteq {"RxDone", "CrcErr"}
    BY <1>2 DEF RdInv, RdChip
  <2>3. "CrcErr" \notin rd.dio
    BY <1>3 DEF RdState, LineFlags
  <2>. QED  BY <1>1, <1>2, <1>4, <2>1, <2>2, <2>3, ZenonT(60)
<1>9. DeafOnlyIfDenied'
  BY <1>2, <1>4 DEF RdInv, DeafOnlyIfDenied
<1>10. ResetStep
  BY <1>1, <1>2, <1>3, RaiseEffect DEF ResetStep
<1>. QED  BY <1>5, <1>6, <1>7, <1>8, <1>9, <1>10 DEF RdInv, RdWake

\* The end of a transmission: no flag was set, so the line rises.
LEMMA TxEndKeeps ==
  ASSUME RdInv, NEW s, s = [rd EXCEPT !.mode = "standby"],
         NEW f \in SUBSET Flags, rd.mode = "tx", rd' = Raise(s, f),
         UNCHANGED <<call, rdLeft, driver, rdNow>>
  PROVE  RdInv' /\ ResetStep
<1>1. rd \in RdState
  BY DEF RdInv, RdType
<1>2. s \in RdState /\ s.mode = "standby" /\ s.irq = rd.irq /\ s.dio = rd.dio
      /\ s.edge = rd.edge /\ s.pending = rd.pending /\ s.fail = rd.fail /\ s.reset = rd.reset
      /\ s.resetAt = rd.resetAt /\ s.hard = rd.hard
  BY <1>1 DEF RdState
<1>3. s \in RdState
      => /\ Raise(s, f) \in RdState
         /\ Raise(s, f).mode = s.mode /\ Raise(s, f).irq = s.irq \cup f
         /\ Raise(s, f).dio = s.dio /\ Raise(s, f).pending = s.pending
         /\ Raise(s, f).fail = s.fail /\ Raise(s, f).reset = s.reset
         /\ Raise(s, f).resetAt = s.resetAt /\ Raise(s, f).hard = s.hard
         /\ (Raise(s, f).edge <=> (s.edge \/ (s.irq \cap s.dio = {} /\ f \cap s.dio # {})))
  BY RaiseEffect
<1>4. rd' \in RdState /\ rd'.mode = "standby" /\ rd'.irq = rd.irq \cup f
      /\ rd'.dio = rd.dio /\ rd'.pending = rd.pending
      /\ rd'.fail = rd.fail /\ rd'.reset = rd.reset
  BY <1>2, <1>3
<1>10. rd'.edge <=> (s.edge \/ (s.irq \cap s.dio = {} /\ f \cap s.dio # {}))
  BY <1>2, <1>3
<1>5. rd.irq = {}
  BY DEF RdInv, RdChip
<1>6. RdType'
  BY <1>4 DEF RdInv, RdType
<1>7. RdChip'
  BY <1>4 DEF RdInv, RdChip
<1>8. RdWake'
  BY <1>2, <1>4, <1>5, <1>10 DEF RdWake
<1>9. DeafOnlyIfDenied'
  BY <1>4 DEF RdInv, DeafOnlyIfDenied
<1>11. ResetStep
  BY <1>2, <1>3 DEF ResetStep
<1>. QED  BY <1>6, <1>7, <1>8, <1>9, <1>11 DEF RdInv

LEMMA LineKeeps ==
  ASSUME RdInv, ChipGlitch \/ Isr, UNCHANGED <<driver, rdNow>>
  PROVE  RdInv' /\ ResetStep
<1>1. rd \in RdState /\ UNCHANGED <<call, rdLeft>>
  BY DEF RdInv, RdType, ChipGlitch, Isr
<1>. DEFINE yes == TRUE
            no == FALSE
<1>2. yes \in BOOLEAN /\ no \in BOOLEAN /\ yes
  OBVIOUS
<1>3. rd' = [rd EXCEPT !.edge = yes] \/ rd' = [rd EXCEPT !.edge = no, !.pending = yes]
  BY DEF ChipGlitch, Isr
<1>. HIDE DEF yes, no
<1>4. rd' \in RdState
  BY <1>1, <1>2, <1>3 DEF RdState
<1>5. rd'.mode = rd.mode /\ rd'.irq = rd.irq /\ rd'.dio = rd.dio
      /\ rd'.fail = rd.fail /\ rd'.reset = rd.reset
      /\ rd'.resetAt = rd.resetAt /\ rd'.hard = rd.hard
  BY <1>1, <1>3 DEF RdState
<1>6. rd'.pending = yes \/ rd'.edge = yes
  BY <1>1, <1>2, <1>3 DEF RdState
<1>7. RdType'
  BY <1>1, <1>4 DEF RdInv, RdType
<1>8. RdChip' /\ DeafOnlyIfDenied'
  BY <1>1, <1>5 DEF RdInv, RdChip, DeafOnlyIfDenied
<1>9. RdWake'
  BY <1>2, <1>6 DEF RdWake
<1>. QED  BY <1>5, <1>7, <1>8, <1>9 DEF RdInv, ResetStep

\* The test and the clearing of the pending flag, and the reading of the chip's flags.
LEMMA ServiceReadKeeps ==
  ASSUME RdInv, ServiceTest \/ ServiceClaim \/ ServiceRead, UNCHANGED <<driver, rdNow>>
  PROVE  RdInv' /\ ResetStep
<1>1. rd \in RdState /\ rdLeft' = rdLeft /\ driver \in Drivers /\ rdNow \in RdClock
      /\ call \in [op : {"idle", "claim", "read", "act", "tx"}, irq : SUBSET Flags, t0 : RdClock]
  BY DEF RdInv, RdType, ServiceTest, ServiceClaim, ServiceRead
<1>2. rd' = rd \/ (rd' = [rd EXCEPT !.pending = FALSE] /\ call'.op = "read")
  BY <1>1 DEF ServiceTest, ServiceClaim, ServiceRead, Idle
<1>3. /\ call' \in [op : {"idle", "claim", "read", "act", "tx"}, irq : SUBSET Flags, t0 : RdClock]
      /\ call'.op = "read" \/ (call.op = "idle" /\ call'.op = "claim")
         \/ (call'.op = "act" /\ call'.irq = rd.irq /\ rd' = rd)
      /\ call.op # "tx"
  BY <1>1, RdConstants DEF ServiceTest, ServiceClaim, ServiceRead, Idle, RdState
<1>4. rd' \in RdState /\ rd'.mode = rd.mode /\ rd'.irq = rd.irq /\ rd'.dio = rd.dio
      /\ rd'.fail = rd.fail /\ rd'.reset = rd.reset /\ rd'.edge = rd.edge
      /\ rd'.resetAt = rd.resetAt /\ rd'.hard = rd.hard
  <2>. DEFINE no == FALSE
  <2>1. no \in BOOLEAN /\ (rd' = rd \/ rd' = [rd EXCEPT !.pending = no])
    BY <1>2
  <2>. HIDE DEF no
  <2>. QED  BY <1>1, <2>1 DEF RdState
<1>5. RdType'
  BY <1>1, <1>3, <1>4 DEF RdInv, RdType
<1>6. RdChip' /\ DeafOnlyIfDenied'
  BY <1>1, <1>3, <1>4 DEF RdInv, RdChip, DeafOnlyIfDenied
<1>7. RdWake'
  BY <1>1, <1>2, <1>3, <1>4 DEF RdInv, RdWake
<1>. QED  BY <1>4, <1>5, <1>6, <1>7 DEF RdInv, ResetStep

\* What a service makes of the flags it read.
LEMMA ServiceActKeeps ==
  ASSUME RdInv, NEW empty \in BOOLEAN, ServiceAct(empty), UNCHANGED <<driver, rdNow>>
  PROVE  RdInv' /\ ResetStep
<1>. DEFINE s == Cleared(call.irq)
<1>1. rd \in RdState /\ rdLeft' = rdLeft /\ driver \in Drivers /\ rdNow \in RdClock
      /\ call.op = "act" /\ call' = Idle /\ rd' = Act(s, call.irq, empty)
  BY DEF RdInv, RdType, ServiceAct
<1>2. s \in RdState /\ s.irq = rd.irq \ call.irq /\ s.mode = rd.mode /\ s.dio = rd.dio
      /\ s.edge = rd.edge /\ s.pending = rd.pending /\ s.fail = rd.fail /\ s.reset = rd.reset
      /\ s.resetAt = rd.resetAt /\ s.hard = rd.hard
  BY <1>1 DEF Cleared, RdState
<1>. HIDE DEF s
<1>3. rd' \in RdState
      /\ \/ KeptAs(s, rd')
         \/ driver # "sx1262" /\ Started(s, rd')
         \/ WasReset(s, rd')
  BY <1>1, <1>2, ActEffect
<1>4. call' \in [op : {"idle", "claim", "read", "act", "tx"}, irq : SUBSET Flags, t0 : RdClock]
      /\ call'.op = "idle" /\ call.op # "tx"
  BY <1>1, RdConstants DEF Idle
<1>5. RdType'
  BY <1>1, <1>3, <1>4 DEF RdInv, RdType
<1>6. rd.mode = "tx" => rd.irq = {}
  BY DEF RdInv, RdChip
<1>7. ~rdLeft /\ rd.mode = "rx" => rd.irq \subseteq {"RxDone", "CrcErr"}
  BY DEF RdInv, RdChip
<1>8. driver # "sx1262" => rd.mode = "rx" \/ (driver = "lr1110" /\ rd.mode = "standby" /\ rd.irq = {})
  BY <1>4 DEF RdInv, RdChip
<1>9. RdChip'
  <2>1. CASE KeptAs(s, rd')
    BY <1>1, <1>2, <1>6, <1>7, <1>8, <2>1 DEF KeptAs, RdChip
  <2>2. CASE driver # "sx1262" /\ Started(s, rd')
    BY <1>1, <1>2, <1>6, <1>7, <1>8, <2>2 DEF Started, RdChip
  <2>3. CASE WasReset(s, rd')
    BY <2>3 DEF WasReset, RdChip
  <2>. QED  BY <1>3, <2>1, <2>2, <2>3
<1>10. ~rdLeft /\ s.irq \cap s.dio # {} => s.pending \/ s.edge
  BY <1>1, <1>2 DEF RdInv, RdWake
<1>11. RdWake'
  <2>1. CASE KeptAs(s, rd')
    BY <1>1, <1>4, <1>10, <2>1 DEF KeptAs, RdWake
  <2>2. CASE Started(s, rd')
    BY <1>1, <1>4, <1>10, <2>2 DEF Started, RdWake
  <2>3. CASE WasReset(s, rd')
    BY <2>3 DEF WasReset, RdWake
  <2>. QED  BY <1>3, <2>1, <2>2, <2>3
<1>12. DeafOnlyIfDenied'
  <2>1. CASE KeptAs(s, rd')
    BY <1>1, <1>2, <1>4, <2>1 DEF KeptAs, DeafOnlyIfDenied, RdInv
  <2>2. CASE Started(s, rd') \/ WasReset(s, rd')
    BY <2>2 DEF Started, WasReset, DeafOnlyIfDenied
  <2>. QED  BY <1>3, <2>1, <2>2
<1>13. ResetStep
  BY <1>2, <1>3 DEF KeptAs, Started, WasReset, ResetStep, Denied
<1>. QED  BY <1>5, <1>9, <1>11, <1>12, <1>13 DEF RdInv

\* The busy line stays high: the frame is given up, and the chip reset when it happens often.
LEMMA StallKeeps ==
  ASSUME RdInv, TransmitStalls, UNCHANGED <<driver, rdNow>>
  PROVE  RdInv' /\ ResetStep
<1>. DEFINE s == [rd EXCEPT !.stuck = Bump(rd.stuck)]
            z == [s EXCEPT !.stuck = 0]
<1>1. rd \in RdState /\ UNCHANGED <<call, rdLeft>> /\ driver \in Drivers /\ rdNow \in RdClock
      /\ call.op = "idle" /\ driver = "sx1262" /\ rd' \in {GuardReset(z), s}
  BY DEF RdInv, RdType, TransmitStalls
<1>2. s \in RdState /\ KeptAs(rd, s)
  BY <1>1, BumpType DEF RdState, KeptAs
<1>. HIDE DEF s
<1>3. z \in RdState /\ KeptAs(rd, z)
  BY <1>2, RdConstants DEF RdState, KeptAs
<1>. HIDE DEF z
<1>4. GuardReset(z) \in RdState
      /\ \/ GuardReset(z) = z
         \/ WasReset(z, GuardReset(z))
  BY <1>1, <1>3, GuardResetEffect
<1>5. \A t : WasReset(z, t) => WasReset(rd, t)
  BY <1>3 DEF WasReset, KeptAs, Denied
<1>6. rd' \in RdState /\ (KeptAs(rd, rd') \/ WasReset(rd, rd'))
  BY <1>1, <1>2, <1>3, <1>4, <1>5
<1>7. RdType'
  BY <1>1, <1>6 DEF RdInv, RdType
<1>8. RdChip' /\ RdWake' /\ DeafOnlyIfDenied'
  BY <1>1, <1>6 DEF RdInv, RdChip, RdWake, DeafOnlyIfDenied, KeptAs, WasReset
<1>9. ResetStep
  BY <1>6 DEF KeptAs, WasReset, ResetStep
<1>. QED  BY <1>7, <1>8, <1>9 DEF RdInv

LEMMA TransmitStartKeeps ==
  ASSUME RdInv, TransmitStart, UNCHANGED <<driver, rdNow>>
  PROVE  RdInv' /\ ResetStep
<1>1. rd \in RdState /\ driver \in Drivers /\ rdNow \in RdClock /\ rd' = Arm(rd) /\ rdLeft' = FALSE
      /\ call' = [op |-> "tx", irq |-> {}, t0 |-> rdNow]
  BY DEF RdInv, RdType, TransmitStart
<1>2. call' \in [op : {"idle", "claim", "read", "act", "tx"}, irq : SUBSET Flags, t0 : RdClock]
      /\ call'.op = "tx"
  BY <1>1
<1>3. rd' \in RdState /\ rd'.mode = "tx" /\ rd'.irq = {}
      /\ rd'.reset = rd.reset /\ rd'.resetAt = rd.resetAt /\ rd'.hard = rd.hard
  BY <1>1, ArmEffect
<1>4. RdType' /\ RdChip' /\ RdWake' /\ DeafOnlyIfDenied'
  BY <1>1, <1>2, <1>3 DEF RdType, RdChip, RdWake, DeafOnlyIfDenied
<1>. QED  BY <1>3, <1>4 DEF RdInv, ResetStep

\* A transmission ends: reception starts, or the reset it asked for was denied.
Ended(s, t) ==
  \/ Started(s, t)
  \/ driver = "sx1262" /\ KeptAs(s, t) /\ s.fail >= TxFailMax /\ Denied(s)
  \/ WasReset(s, t)

LEMMA EndedKeeps ==
  ASSUME RdInv, NEW s \in RdState, rd' \in RdState, Ended(s, rd'), call.op = "tx", call' = Idle,
         s.mode # "tx" \/ s.irq = {}, s.reset = rd.reset, s.resetAt = rd.resetAt, s.hard = rd.hard,
         rdLeft' \in BOOLEAN, ~rdLeft' => rd'.irq = {}, UNCHANGED <<driver, rdNow>>
  PROVE  RdInv' /\ ResetStep
<1>1. driver \in Drivers /\ rdNow \in RdClock
      /\ call' \in [op : {"idle", "claim", "read", "act", "tx"}, irq : SUBSET Flags, t0 : RdClock]
      /\ call'.op = "idle"
  BY RdConstants DEF RdInv, RdType, Idle
<1>2. RdType'
  BY <1>1 DEF RdInv, RdType
<1>3. RdChip'
  BY <1>1 DEF Ended, Started, KeptAs, WasReset, RdChip
<1>4. RdWake'
  BY <1>1 DEF RdWake
<1>5. DeafOnlyIfDenied'
  BY DEF Ended, Started, KeptAs, WasReset, DeafOnlyIfDenied, Denied
<1>6. ResetStep
  BY DEF Ended, Started, KeptAs, WasReset, ResetStep, Denied
<1>. QED  BY <1>2, <1>3, <1>4, <1>5, <1>6 DEF RdInv

LEMMA TxFailedEffect ==
  ASSUME driver \in Drivers, driver = "sx1262", rdNow \in RdClock, NEW s \in RdState
  PROVE  TxFailed(s) \in RdState /\ Ended(s, TxFailed(s))
<1>1. CASE s.fail >= TxFailMax
  <2>1. TxFailed(s) = GuardReset(s)
    BY <1>1 DEF TxFailed
  <2>2. KeptAs(s, s)
    BY DEF KeptAs
  <2>. QED  BY <1>1, <2>1, <2>2, GuardResetEffect DEF Ended
<1>2. CASE ~(s.fail >= TxFailMax)
  BY <1>2, StartRxEffect DEF TxFailed, Ended
<1>. QED  BY <1>1, <1>2

LEMMA TransmitDoneKeeps ==
  ASSUME RdInv, TransmitDone, UNCHANGED <<driver, rdNow>>
  PROVE  RdInv' /\ ResetStep
<1>. DEFINE s == [rd EXCEPT !.irq = {}, !.fail = 0]
<1>1. rd \in RdState /\ UNCHANGED rdLeft /\ rdLeft \in BOOLEAN /\ driver \in Drivers
      /\ rdNow \in RdClock /\ call.op = "tx" /\ call' = Idle /\ rd' = StartRx(s)
  BY DEF RdInv, RdType, TransmitDone
<1>2. s \in RdState /\ s.irq = {} /\ s.reset = rd.reset /\ s.resetAt = rd.resetAt /\ s.hard = rd.hard
  BY <1>1, RdConstants DEF RdState
<1>. HIDE DEF s
<1>3. rd' \in RdState /\ Started(s, rd')
  BY <1>1, <1>2, StartRxEffect
<1>. QED  BY <1>1, <1>2, <1>3, EndedKeeps DEF Ended, Started

\* The deadline of the poll loop passes, or the chip's own timeout.
LEMMA TransmitLateKeeps ==
  ASSUME RdInv, TransmitTimeout \/ TransmitDeadline, UNCHANGED <<driver, rdNow>>
  PROVE  RdInv' /\ ResetStep
<1>. DEFINE s == [rd EXCEPT !.fail = Bump(rd.fail)]
<1>1. rd \in RdState /\ driver \in Drivers
      /\ rdNow \in RdClock /\ call.op = "tx" /\ call' = Idle
      /\ rdLeft' \in BOOLEAN /\ (~rdLeft' => rd'.irq = {})
      /\ (rd.mode = "tx" => rd.irq = {})
  BY DEF RdInv, RdType, RdChip, TransmitTimeout, TransmitDeadline
<1>2. \/ driver = "sx1262" /\ rd' = TxFailed(s)
      \/ rd' = StartRx(rd)
  BY DEF TransmitTimeout, TransmitDeadline
<1>3. s \in RdState /\ s.irq = rd.irq /\ s.mode = rd.mode
      /\ s.reset = rd.reset /\ s.resetAt = rd.resetAt /\ s.hard = rd.hard
  BY <1>1, BumpType DEF RdState
<1>. HIDE DEF s
<1>4. CASE driver = "sx1262" /\ rd' = TxFailed(s)
  <2>1. rd' \in RdState /\ Ended(s, rd')
    BY <1>1, <1>3, <1>4, TxFailedEffect
  <2>. QED  BY <1>1, <1>3, <2>1, EndedKeeps
<1>5. CASE rd' = StartRx(rd)
  <2>1. rd' \in RdState /\ Ended(rd, rd')
    BY <1>1, <1>5, StartRxEffect DEF Ended
  <2>. QED  BY <1>1, <2>1, EndedKeeps
<1>. QED  BY <1>2, <1>4, <1>5

\* The LR1110 stays in standby when the library cannot start reception.
LEMMA TransmitFailsKeeps ==
  ASSUME RdInv, NEW ok \in BOOLEAN, TransmitFails_lr1110(ok), UNCHANGED <<driver, rdNow>>
  PROVE  RdInv' /\ ResetStep
<1>. DEFINE s == [rd EXCEPT !.mode = "standby", !.irq = {}]
<1>1. rd \in RdState /\ UNCHANGED rdLeft /\ rdLeft \in BOOLEAN /\ driver \in Drivers
      /\ rdNow \in RdClock /\ call.op = "tx" /\ call' = Idle /\ driver = "lr1110"
      /\ rd' \in {StartRx(s), s}
  BY DEF RdInv, RdType, TransmitFails_lr1110, StartRx_lr1110, StartRx
<1>2. s \in RdState /\ s.irq = {} /\ s.mode = "standby"
      /\ s.reset = rd.reset /\ s.resetAt = rd.resetAt /\ s.hard = rd.hard
  BY <1>1 DEF RdState
<1>. HIDE DEF s
<1>3. CASE rd' = StartRx(s)
  <2>1. rd' \in RdState /\ Started(s, rd')
    BY <1>1, <1>2, <1>3, StartRxEffect
  <2>. QED  BY <1>1, <1>2, <2>1, EndedKeeps DEF Ended, Started
<1>4. CASE rd' = s
  <2>1. call' \in [op : {"idle", "claim", "read", "act", "tx"}, irq : SUBSET Flags, t0 : RdClock]
        /\ call'.op = "idle"
    BY <1>1, RdConstants DEF Idle
  <2>2. RdType' /\ RdChip' /\ RdWake' /\ DeafOnlyIfDenied'
    BY <1>1, <1>2, <1>4, <2>1 DEF RdType, RdChip, RdWake, DeafOnlyIfDenied
  <2>. QED  BY <1>2, <1>4, <2>2 DEF RdInv, ResetStep
<1>. QED  BY <1>1, <1>3, <1>4

\* The RP2040 driver starts reception again after a long silence.
LEMMA CheckKeeps ==
  ASSUME RdInv, CheckTimeouts, UNCHANGED <<driver, rdNow>>
  PROVE  RdInv' /\ ResetStep
<1>1. rd \in RdState /\ UNCHANGED <<call, rdLeft>> /\ driver \in Drivers /\ rdNow \in RdClock
      /\ call.op = "idle" /\ driver = "rp2040" /\ rd.mode = "rx"
      /\ rd' \in {StartRx(rd), [rd EXCEPT !.lastRx = rdNow]}
  BY DEF RdInv, RdType, RdChip, CheckTimeouts
<1>2. [rd EXCEPT !.lastRx = rdNow] \in RdState /\ KeptAs(rd, [rd EXCEPT !.lastRx = rdNow])
  BY <1>1 DEF RdState, KeptAs
<1>3. StartRx(rd) \in RdState /\ Started(rd, StartRx(rd))
  BY <1>1, StartRxEffect
<1>4. rd' \in RdState /\ (KeptAs(rd, rd') \/ Started(rd, rd'))
  BY <1>1, <1>2, <1>3
<1>5. RdType'
  BY <1>1, <1>4 DEF RdInv, RdType
<1>6. RdChip' /\ RdWake' /\ DeafOnlyIfDenied'
  BY <1>1, <1>4 DEF RdInv, RdChip, RdWake, DeafOnlyIfDenied, KeptAs, Started
<1>7. ResetStep
  BY <1>4 DEF KeptAs, Started, ResetStep
<1>. QED  BY <1>5, <1>6, <1>7 DEF RdInv

LEMMA RdInvTick ==
  ASSUME RdInv, RdTick, UNCHANGED driver
  PROVE  RdInv'
<1>1. UNCHANGED <<rd, call, rdLeft, driver>> /\ rdNow' = (rdNow + 1) % RdClockMod
  BY DEF RdTick
<1>2. rdNow' \in RdClock
  BY <1>1, RdConstants DEF RdInv, RdType, RdClock
<1>3. RdType'
  BY <1>1, <1>2 DEF RdInv, RdType
<1>. QED  BY <1>1, <1>3 DEF RdInv, RdChip, RdWake, DeafOnlyIfDenied

-----------------------------------------------------------------------------
\* The time since the last reset, as the history counts it, is no less than what the
\* driver makes of its clock; after Backoff the clock may wrap as it will.
RdSpaced ==
  /\ rdGap \in [since : 0 .. Backoff, tooSoon : BOOLEAN]
  /\ ~rdGap.tooSoon
  /\ rdGap.since < Backoff => rd.reset /\ RdAge(rd.resetAt) <= rdGap.since

LEMMA SpacedStart == RdInit => RdSpaced
<1>. DEFINE no == FALSE
<1>1. no \in BOOLEAN /\ ~no
  OBVIOUS
<1>2. RdInit => rdGap = [since |-> Backoff, tooSoon |-> no]
  BY DEF RdInit
<1>. HIDE DEF no
<1>3. RdInit => rdGap \in [since : 0 .. Backoff, tooSoon : BOOLEAN] /\ rdGap.since = Backoff
                /\ rdGap.tooSoon = no
  BY <1>1, <1>2, RdConstants
<1>. QED  BY <1>1, <1>3, RdConstants DEF RdSpaced

LEMMA SpacedStep ==
  ASSUME RdInv, RdSpaced, ResetStep, RdInv', Gap, UNCHANGED rdNow
  PROVE  RdSpaced'
<1>1. CASE rd'.hard = rd.hard /\ rd'.reset = rd.reset /\ rd'.resetAt = rd.resetAt
  <2>1. rdGap' = rdGap
    BY <1>1 DEF Gap
  <2>. QED  BY <1>1, <2>1 DEF RdSpaced, RdAge
<1>2. CASE rd'.hard = 1 - rd.hard /\ ~Denied(rd) /\ rd'.reset = TRUE /\ rd'.resetAt = rdNow
  <2>. DEFINE no == FALSE
  <2>1. no \in BOOLEAN /\ ~no
    OBVIOUS
  <2>2. rd \in RdState /\ rdNow \in RdClock
    BY DEF RdInv, RdType
  <2>3. rd'.hard # rd.hard
    BY <1>2, <2>2 DEF RdState
  <2>4. RdAge(rd.resetAt) \in 0 .. RdClockMod - 1
    BY <2>2, RdConstants, ClockType DEF RdAge, RdState, RdClock
  <2>5. ~(rdGap.since < Backoff)
    BY <1>2, <2>4, RdConstants DEF RdSpaced, Denied
  <2>6. rdGap' = [since |-> 0, tooSoon |-> no]
    BY <2>3, <2>5 DEF Gap, RdSpaced
  <2>. HIDE DEF no
  <2>7. rdGap' \in [since : 0 .. Backoff, tooSoon : BOOLEAN] /\ rdGap'.since = 0
        /\ rdGap'.tooSoon = no
    BY <2>1, <2>6, RdConstants
  <2>8. RdAge(rdNow) = 0
    BY <2>2, RdConstants, AgeZero DEF RdAge, RdClock
  <2>. QED  BY <1>2, <2>1, <2>7, <2>8 DEF RdSpaced, RdAge
<1>. QED  BY <1>1, <1>2 DEF ResetStep

LEMMA SpacedTick ==
  ASSUME RdInv, RdSpaced, RdTick, UNCHANGED driver
  PROVE  RdSpaced'
<1>1. rd \in RdState /\ rdNow \in RdClock /\ rd' = rd /\ rdNow' = (rdNow + 1) % RdClockMod
      /\ rdGap' = [rdGap EXCEPT !.since = IF rdGap.since < Backoff THEN rdGap.since + 1 ELSE rdGap.since]
  BY DEF RdInv, RdType, RdTick
<1>. DEFINE n == IF rdGap.since < Backoff THEN rdGap.since + 1 ELSE rdGap.since
<1>2. n \in 0 .. Backoff
  BY RdConstants DEF RdSpaced
<1>3. rdGap' = [rdGap EXCEPT !.since = n]
  BY <1>1
<1>. HIDE DEF n
<1>4. rdGap' \in [since : 0 .. Backoff, tooSoon : BOOLEAN] /\ rdGap'.since = n
      /\ rdGap'.tooSoon = rdGap.tooSoon
  BY <1>2, <1>3 DEF RdSpaced
<1>5. ASSUME n < Backoff PROVE rd.reset /\ RdAge(rd.resetAt)' <= n
  <2>1. rdGap.since < Backoff /\ n = rdGap.since + 1
    BY <1>2, <1>5, RdConstants DEF n, RdSpaced
  <2>2. rd.reset /\ RdAge(rd.resetAt) <= rdGap.since
    BY <2>1 DEF RdSpaced
  <2>3. 2 * Backoff < RdClockMod
    BY RadioAssumption
  <2>4. rd.resetAt \in 0 .. RdClockMod - 1 /\ rdNow \in 0 .. RdClockMod - 1
        /\ rdGap.since \in 0 .. Backoff
    BY <1>1 DEF RdState, RdClock, RdSpaced
  <2>5. RdAge(rd.resetAt) \in 0 .. RdClockMod - 1
    BY <2>4, RdConstants, ClockType DEF RdAge
  <2>6. RdAge(rd.resetAt) < RdClockMod - 1
    BY <2>1, <2>2, <2>3, <2>4, <2>5, RdConstants
  <2>7. RdAge(rd.resetAt)' = RdAge(rd.resetAt) + 1
    BY <1>1, <2>4, <2>6, RdConstants, ClockStep DEF RdAge
  <2>. QED  BY <2>1, <2>2, <2>4, <2>5, <2>7
<1>. QED  BY <1>1, <1>4, <1>5 DEF RdSpaced

LEMMA RdInductive ==
  ASSUME RdInv, RdSpaced, [RdNext]_rdVars
  PROVE  RdInv' /\ RdSpaced'
<1>1. CASE UNCHANGED rdVars
  BY <1>1 DEF rdVars, RdInv, RdType, RdChip, RdWake, DeafOnlyIfDenied, RdSpaced, RdAge
<1>2. CASE RdTick /\ UNCHANGED driver
  BY <1>2, RdInvTick, SpacedTick
<1>3. CASE (MainLoop \/ Chip \/ Isr) /\ Gap /\ UNCHANGED <<rdNow, driver>>
  <2>1. CASE ServiceTest \/ ServiceClaim \/ ServiceRead
    BY <1>3, <2>1, ServiceReadKeeps, SpacedStep
  <2>2. CASE \E empty \in BOOLEAN : ServiceAct(empty)
    BY <1>3, <2>2, ServiceActKeeps, SpacedStep
  <2>3. CASE TransmitDone
    BY <1>3, <2>3, TransmitDoneKeeps, SpacedStep
  <2>4. CASE TransmitTimeout \/ TransmitDeadline
    BY <1>3, <2>4, TransmitLateKeeps, SpacedStep
  <2>5. CASE \E ok \in BOOLEAN : TransmitFails_lr1110(ok)
    BY <1>3, <2>5, TransmitFailsKeeps, SpacedStep
  <2>6. CASE TransmitStart
    BY <1>3, <2>6, TransmitStartKeeps, SpacedStep
  <2>7. CASE TransmitStalls
    BY <1>3, <2>7, StallKeeps, SpacedStep
  <2>8. CASE CheckTimeouts
    BY <1>3, <2>8, CheckKeeps, SpacedStep
  <2>9. CASE \E crc \in SUBSET {"CrcErr"} : ChipRxDone(crc)
    BY <1>3, <2>9, RxDoneKeeps, SpacedStep
  <2>10. CASE ChipTxDone \/ ChipTxTimeout
    <3>. DEFINE s == [rd EXCEPT !.mode = "standby"]
    <3>1. {"TxDone"} \in SUBSET Flags /\ {"Timeout"} \in SUBSET Flags
      BY DEF Flags
    <3>2. \E f \in SUBSET Flags : rd' = Raise(s, f)
      BY <2>10, <3>1 DEF ChipTxDone, ChipTxTimeout
    <3>3. rd.mode = "tx" /\ UNCHANGED <<call, rdLeft>>
      BY <2>10 DEF ChipTxDone, ChipTxTimeout
    <3>4. \E q : q = [rd EXCEPT !.mode = "standby"] /\ q = s
      OBVIOUS
    <3>. HIDE DEF s
    <3>5. RdInv' /\ ResetStep
      BY <1>3, <3>2, <3>3, <3>4, TxEndKeeps
    <3>. QED  BY <1>3, <3>5, SpacedStep
  <2>11. CASE ChipGlitch \/ Isr
    BY <1>3, <2>11, LineKeeps, SpacedStep
  <2>. QED  BY <1>3, <2>1, <2>2, <2>3, <2>4, <2>5, <2>6, <2>7, <2>8, <2>9, <2>10, <2>11
            DEF MainLoop, Chip
<1>. QED  BY <1>1, <1>2, <1>3 DEF RdNext

LEMMA RdAlways == NodeSpec => [](RdInv /\ RdSpaced)
<1>1. NodeInit => RdInv /\ RdSpaced
  BY RdStart, SpacedStart DEF NodeInit
<1>2. RdInv /\ RdSpaced /\ [NodeNext]_nodeVars => (RdInv /\ RdSpaced)'
  BY PartSteps, RdInductive
<1>. QED  BY <1>1, <1>2, PTL DEF NodeSpec, nodeVars

(***************************************************************************)
(* No wake-up is lost in any of the drivers: a flag on the interrupt line  *)
(* has set the pending flag or will (radio_service_rx).                    *)
(***************************************************************************)
THEOREM WakeupNeverLost == NodeSpec => []WakeupNotLost
<1>1. RdInv => WakeupNotLost
  BY DEF RdInv, RdWake, WakeupNotLost
<1>. QED  BY <1>1, RdAlways, PTL

(***************************************************************************)
(* Two resets are never closer than the backoff, wherever the clock wraps, *)
(* and the radio is left deaf only where a reset was denied                *)
(* (radio_sx1262.c lines 122-126, 780-801).                                *)
(***************************************************************************)
THEOREM RadioAlwaysRecovers == NodeSpec => []RadioRecovers
<1>1. RdInv /\ RdSpaced => RadioRecovers
  BY DEF RdInv, RdSpaced, RadioRecovers, ResetsSpaced
<1>. QED  BY <1>1, RdAlways, PTL

-----------------------------------------------------------------------------
(***************************************************************************)
(* The beacons, the throttle and the timers: each keeps one time, and the  *)
(* time passed since, counted up to a whole cycle of the clock, is what    *)
(* the code makes of it.                                                   *)
(***************************************************************************)
BcState == [last : 0 .. BcMod - 1, min : 0 .. BcMod - 1, count : 0 .. BcStartup, done : BOOLEAN]

BcInv ==
  /\ bcNow \in 0 .. BcMod - 1 /\ beacon \in BcState
  /\ bcGap \in [since : 0 .. BcMod, tooSoon : BOOLEAN] /\ ~bcGap.tooSoon
  /\ bcGap.since < BcMod => BcAge(beacon.last) = bcGap.since

LEMMA BcConstants ==
  BcMod \in Nat \ {0} /\ BcStartup \in Nat /\ 0 \in 0 .. BcMod - 1 /\ 0 \in 0 .. BcMod
  BY BcAssumption

LEMMA BcStart == BcInit => BcInv
<1>. SUFFICES ASSUME BcInit PROVE BcInv
  OBVIOUS
<1>. DEFINE no == FALSE
<1>1. no \in BOOLEAN /\ ~no
  OBVIOUS
<1>2. /\ bcNow \in 0 .. BcMod - 1 /\ beacon = [last |-> bcNow, min |-> 0, count |-> 0, done |-> no]
      /\ bcGap = [since |-> 0, tooSoon |-> no]
  BY DEF BcInit
<1>. HIDE DEF no
<1>3. bcGap \in [since : 0 .. BcMod, tooSoon : BOOLEAN] /\ bcGap.since = 0 /\ bcGap.tooSoon = no
  BY <1>1, <1>2, BcConstants
<1>4. beacon \in BcState /\ beacon.last = bcNow
  BY <1>1, <1>2, BcConstants DEF BcState
<1>5. BcAge(bcNow) = 0
  BY <1>2, BcConstants, AgeZero DEF BcAge
<1>. QED  BY <1>1, <1>2, <1>3, <1>4, <1>5, BcConstants DEF BcInv

LEMMA BcSentInv ==
  ASSUME BcInv, NEW i \in BcIntervals, NEW j \in BcJitters,
         NEW n \in 0 .. BcStartup, NEW d \in BOOLEAN,
         beacon' = BeaconSent([beacon EXCEPT !.count = n, !.done = d], i, j),
         bcGap' = [since |-> 0, tooSoon |-> bcGap.tooSoon], UNCHANGED bcNow
  PROVE  BcInv'
<1>1. i + j \in 0 .. BcMod - 1
  BY BcAssumption
<1>. DEFINE b == [beacon EXCEPT !.count = n, !.done = d]
<1>4. b \in BcState
  BY DEF BcInv, BcState
<1>5. beacon' = [b EXCEPT !.last = bcNow, !.min = i + j]
  BY DEF BeaconSent
<1>. HIDE DEF b
<1>6. beacon' \in BcState /\ beacon'.last = bcNow
  BY <1>1, <1>4, <1>5 DEF BcInv, BcState
<1>2. BcAge(bcNow) = 0
  BY BcConstants, AgeZero DEF BcAge, BcInv
<1>3. bcGap' \in [since : 0 .. BcMod, tooSoon : BOOLEAN] /\ bcGap'.since = 0
      /\ bcGap'.tooSoon = bcGap.tooSoon
  BY BcConstants DEF BcInv
<1>. QED  BY <1>2, <1>3, <1>6 DEF BcInv, BcAge

LEMMA BcInductive ==
  ASSUME BcInv, [BcNext]_bcVars
  PROVE  BcInv'
<1>1. CASE UNCHANGED bcVars
  BY <1>1 DEF bcVars, BcInv, BcAge
<1>2. CASE BcTick
  <2>. DEFINE n == IF bcGap.since < BcMod THEN bcGap.since + 1 ELSE bcGap.since
  <2>1. bcNow' = (bcNow + 1) % BcMod /\ bcGap' = [bcGap EXCEPT !.since = n] /\ beacon' = beacon
    BY <1>2 DEF BcTick
  <2>2. bcNow' \in 0 .. BcMod - 1
    BY <2>1, BcConstants DEF BcInv
  <2>3. n \in 0 .. BcMod /\ (n < BcMod => BcAge(beacon.last)' = n)
    BY <2>1, BcConstants, ClockFollowed DEF BcInv, BcAge, BcState
  <2>. HIDE DEF n
  <2>4. bcGap' \in [since : 0 .. BcMod, tooSoon : BOOLEAN] /\ bcGap'.since = n
        /\ bcGap'.tooSoon = bcGap.tooSoon
    BY <2>1, <2>3 DEF BcInv
  <2>. QED  BY <2>1, <2>2, <2>3, <2>4 DEF BcInv
<1>3. CASE BeaconSuppressed
  <2>. DEFINE yes == TRUE
  <2>1. yes \in BOOLEAN /\ beacon' = [beacon EXCEPT !.done = yes] /\ UNCHANGED <<bcNow, bcGap>>
    BY <1>3 DEF BeaconSuppressed
  <2>. HIDE DEF yes
  <2>2. beacon' \in BcState /\ beacon'.last = beacon.last
    BY <2>1 DEF BcInv, BcState
  <2>. QED  BY <2>1, <2>2 DEF BcInv, BcAge
<1>4. ASSUME NEW i \in BcIntervals, NEW j \in BcJitters, BeaconStartup(i, j)
      PROVE  BcInv'
  <2>. DEFINE n == beacon.count + 1
              d == n >= BcStartup
  <2>1. beacon' = BeaconSent([beacon EXCEPT !.count = n, !.done = d], i, j)
        /\ bcGap' = [bcGap EXCEPT !.since = 0] /\ UNCHANGED bcNow /\ beacon.count < BcStartup
    BY <1>4, BcConstants DEF BeaconStartup, StartupOver, BcInv, BcState
  <2>2. n \in 0 .. BcStartup /\ d \in BOOLEAN
    BY <2>1, BcConstants DEF BcInv, BcState
  <2>3. bcGap' = [since |-> 0, tooSoon |-> bcGap.tooSoon]
    BY <2>1 DEF BcInv
  <2>. HIDE DEF n, d
  <2>. QED  BY <2>1, <2>2, <2>3, BcSentInv, Zenon
<1>5. ASSUME NEW i \in BcIntervals, NEW j \in BcJitters, BeaconScheduled(i, j)
      PROVE  BcInv'
  <2>. DEFINE yes == TRUE
  <2>1. /\ GapOver /\ beacon' = BeaconSent([beacon EXCEPT !.done = yes], i, j) /\ UNCHANGED bcNow
        /\ bcGap' = [since |-> 0,
               tooSoon |-> bcGap.tooSoon \/ (bcGap.since < beacon.min /\ beacon.last # 0)]
        /\ yes \in BOOLEAN
    BY <1>5 DEF BeaconScheduled
  <2>. HIDE DEF yes
  <2>2. ~(bcGap.since < beacon.min /\ beacon.last # 0)
    BY <2>1, BcConstants DEF BcInv, BcState, GapOver
  <2>3. bcGap' = [since |-> 0, tooSoon |-> bcGap.tooSoon]
    BY <2>1, <2>2 DEF BcInv
  <2>4. beacon.count \in 0 .. BcStartup
        /\ [beacon EXCEPT !.done = yes] = [beacon EXCEPT !.count = beacon.count, !.done = yes]
    BY DEF BcInv, BcState
  <2>5. beacon' = BeaconSent([beacon EXCEPT !.count = beacon.count, !.done = yes], i, j)
    BY <2>1, <2>4
  <2>. QED  BY <2>1, <2>3, <2>4, <2>5, BcSentInv, Zenon
<1>. QED  BY <1>1, <1>2, <1>3, <1>4, <1>5 DEF BcNext

-----------------------------------------------------------------------------
OrTimer == [interval : 1 .. OrMod - 1, last : 0 .. OrMod - 1]

\* The times since, of the throttle and of every timer, are what the clock tells.
OrTimersInv ==
  /\ orTimers \in Seq(OrTimer) /\ orFires \in [since : Seq(0 .. OrMod), wrong : BOOLEAN]
  /\ Len(orFires.since) = Len(orTimers) /\ ~orFires.wrong
  /\ \A i \in 1 .. Len(orTimers) :
       orFires.since[i] < OrMod => OrSince(orTimers[i].last) = orFires.since[i]

OrPassInv ==
  /\ orLast \in 0 .. OrMod - 1 /\ orThrottle \in 1 .. OrMod - 1
  /\ orPass \in [since : 0 .. OrMod, tooSoon : BOOLEAN] /\ ~orPass.tooSoon
  /\ orPass.since < OrMod => OrSince(orLast) = orPass.since

OrInv == orNow \in 0 .. OrMod - 1 /\ OrTimersInv /\ OrPassInv

LEMMA OrConstants ==
  /\ OrMod \in Nat \ {0} /\ 0 \in 0 .. OrMod - 1 /\ 0 \in 0 .. OrMod /\ OrMod \in 0 .. OrMod
  /\ OrThrottles \subseteq 1 .. OrMod - 1 /\ OrIntervals \subseteq 0 .. OrMod - 1
  BY OrAssumption

\* What the invariant says of the sequences, element by element.
LEMMA TimersHeld ==
  ASSUME OrTimersInv
  PROVE  /\ Len(orTimers) \in Nat /\ DOMAIN orTimers = 1 .. Len(orTimers)
         /\ DOMAIN orFires.since = 1 .. Len(orTimers)
         /\ \A i \in 1 .. Len(orTimers) : orTimers[i] \in OrTimer
         /\ \A i \in 1 .. Len(orTimers) : orFires.since[i] \in 0 .. OrMod
<1>. DEFINE T == OrTimer
            W == 0 .. OrMod
<1>1. orTimers \in Seq(T) /\ orFires.since \in Seq(W) /\ Len(orFires.since) = Len(orTimers)
  BY DEF OrTimersInv
<1>. HIDE DEF T, W
<1>2. /\ Len(orTimers) \in Nat /\ DOMAIN orTimers = 1 .. Len(orTimers)
      /\ DOMAIN orFires.since = 1 .. Len(orTimers)
      /\ \A i \in 1 .. Len(orTimers) : orTimers[i] \in T
      /\ \A i \in 1 .. Len(orTimers) : orFires.since[i] \in W
  BY <1>1
<1>. QED  BY <1>2 DEF T, W

LEMMA OrStart == OrInit => OrInv
<1>. SUFFICES ASSUME OrInit PROVE OrInv
  OBVIOUS
<1>. DEFINE no == FALSE
<1>1. no \in BOOLEAN /\ ~no
  OBVIOUS
<1>2. /\ orNow \in 0 .. OrMod - 1 /\ orLast = 0 /\ orThrottle \in OrThrottles /\ orTimers = <<>>
      /\ orPass = [since |-> OrMod, tooSoon |-> no] /\ orFires = [since |-> <<>>, wrong |-> no]
  BY DEF OrInit
<1>. HIDE DEF no
<1>3. OrTimersInv
  BY <1>1, <1>2 DEF OrTimersInv
<1>4. OrPassInv
  BY <1>1, <1>2, OrConstants DEF OrPassInv
<1>. QED  BY <1>2, <1>3, <1>4 DEF OrInv

LEMMA PhoneFrameInv ==
  ASSUME OrInv, PhoneFrame
  PROVE  OrInv'
<1>1. UNCHANGED <<orNow, orThrottle, orTimers, orFires>>
  BY DEF PhoneFrame
<1>2. OrTimersInv'
  BY <1>1 DEF OrInv, OrTimersInv, OrSince
<1>3. CASE Allowed
  <2>. DEFINE no == FALSE
  <2>1. no \in BOOLEAN /\ ~no
    OBVIOUS
  <2>2. ~(orPass.since < orThrottle /\ orLast # 0)
    BY <1>3, OrConstants DEF OrInv, OrPassInv, Allowed
  <2>3. orLast' = orNow /\ orPass' = [since |-> 0, tooSoon |-> no]
    BY <1>3, <2>2 DEF PhoneFrame, OrInv, OrPassInv
  <2>. HIDE DEF no
  <2>4. orPass' \in [since : 0 .. OrMod, tooSoon : BOOLEAN] /\ orPass'.since = 0
        /\ orPass'.tooSoon = no
    BY <2>1, <2>3, OrConstants
  <2>5. OrSince(orNow) = 0
    BY OrConstants, AgeZero DEF OrInv, OrSince
  <2>6. OrPassInv'
    BY <1>1, <2>1, <2>3, <2>4, <2>5 DEF OrInv, OrPassInv, OrSince
  <2>. QED  BY <1>1, <1>2, <2>6 DEF OrInv
<1>4. CASE ~Allowed
  BY <1>1, <1>2, <1>4 DEF PhoneFrame, OrInv, OrPassInv, OrSince
<1>. QED  BY <1>3, <1>4

LEMMA RegisterInv ==
  ASSUME OrInv, NEW interval \in OrIntervals, RegisterTimer(interval)
  PROVE  OrInv'
<1>1. UNCHANGED <<orNow, orLast, orThrottle, orPass>>
  BY DEF RegisterTimer
<1>2. OrPassInv'
  BY <1>1 DEF OrInv, OrPassInv, OrSince
<1>3. CASE interval > 0 /\ Len(orTimers) < OrTimerMax
  <2>. DEFINE t == [interval |-> interval, last |-> orNow]
              since == Append(orFires.since, 0)
  <2>1. t \in OrTimer /\ t.last = orNow
    BY <1>3, OrConstants DEF OrTimer, OrInv
  <2>2. orTimers' = Append(orTimers, t) /\ orFires' = [orFires EXCEPT !.since = since]
    BY <1>3 DEF RegisterTimer
  <2>. HIDE DEF t
  <2>3. since \in Seq(0 .. OrMod) /\ Len(since) = Len(orTimers) + 1
        /\ since[Len(orTimers) + 1] = 0
        /\ \A i \in 1 .. Len(orTimers) : since[i] = orFires.since[i]
    BY OrConstants DEF OrInv, OrTimersInv
  <2>. HIDE DEF since
  <2>4. orTimers' \in Seq(OrTimer) /\ Len(orTimers') = Len(orTimers) + 1
        /\ orTimers'[Len(orTimers) + 1] = t
        /\ \A i \in 1 .. Len(orTimers) : orTimers'[i] = orTimers[i]
    BY <2>1, <2>2 DEF OrInv, OrTimersInv
  <2>5. orFires' \in [since : Seq(0 .. OrMod), wrong : BOOLEAN] /\ orFires'.since = since
        /\ orFires'.wrong = orFires.wrong
    BY <2>2, <2>3 DEF OrInv, OrTimersInv
  <2>6. OrSince(orNow) = 0
    BY OrConstants, AgeZero DEF OrInv, OrSince
  <2>7. ASSUME NEW i \in 1 .. Len(orTimers'), since[i] < OrMod
        PROVE  OrSince(orTimers'[i].last) = since[i]
    <3>1. Len(orTimers) \in Nat
      BY DEF OrInv, OrTimersInv
    <3>2. CASE i = Len(orTimers) + 1
      BY <2>1, <2>3, <2>4, <2>6, <3>2
    <3>3. CASE i # Len(orTimers) + 1
      <4>1. i \in 1 .. Len(orTimers)
        BY <2>4, <3>1, <3>3
      <4>. QED  BY <2>3, <2>4, <2>7, <4>1 DEF OrInv, OrTimersInv
    <3>. QED  BY <3>2, <3>3
  <2>8. OrTimersInv'
    BY <1>1, <2>3, <2>4, <2>5, <2>7 DEF OrInv, OrTimersInv, OrSince
  <2>. QED  BY <1>1, <1>2, <2>8 DEF OrInv
<1>4. CASE ~(interval > 0 /\ Len(orTimers) < OrTimerMax)
  BY <1>1, <1>2, <1>4 DEF RegisterTimer, OrInv, OrTimersInv, OrSince
<1>. QED  BY <1>3, <1>4

LEMMA ResetInv ==
  ASSUME OrInv, ResetTimers
  PROVE  OrInv'
<1>1. UNCHANGED <<orNow, orLast, orThrottle, orPass>>
      /\ orTimers' = <<>> /\ orFires' = [orFires EXCEPT !.since = <<>>]
  BY DEF ResetTimers
<1>2. OrPassInv'
  BY <1>1 DEF OrInv, OrPassInv, OrSince
<1>. DEFINE e == <<>>
<1>4. e \in Seq(0 .. OrMod) /\ Len(e) = 0 /\ orTimers' = e /\ e \in Seq(OrTimer)
  BY <1>1
<1>5. orFires' = [orFires EXCEPT !.since = e]
  BY <1>1
<1>. HIDE DEF e
<1>6. orFires' \in [since : Seq(0 .. OrMod), wrong : BOOLEAN] /\ orFires'.since = e
      /\ orFires'.wrong = orFires.wrong
  BY <1>4, <1>5 DEF OrInv, OrTimersInv
<1>3. OrTimersInv'
  BY <1>4, <1>6 DEF OrInv, OrTimersInv
<1>. QED  BY <1>1, <1>2, <1>3 DEF OrInv

\* A drain fires the timers whose interval has passed, and no other.
LEMMA DrainInv ==
  ASSUME OrInv, DrainTimers
  PROVE  OrInv'
<1>. DEFINE n == Len(orTimers)
            due == {i \in 1 .. n : OrSince(orTimers[i].last) >= orTimers[i].interval}
            left == [i \in 1 .. n |-> IF i \in due THEN Fired(orTimers[i]) ELSE orTimers[i]]
            since == [i \in 1 .. n |-> IF i \in due THEN 0 ELSE orFires.since[i]]
            no == FALSE
<1>1. UNCHANGED <<orNow, orLast, orThrottle, orPass>>
  BY DEF DrainTimers
<1>2. OrPassInv'
  BY <1>1 DEF OrInv, OrPassInv, OrSince
<1>3. n \in Nat /\ DOMAIN orTimers = 1 .. n /\ orNow \in 0 .. OrMod - 1 /\ ~orFires.wrong
      /\ \A i \in 1 .. n : orTimers[i] \in OrTimer /\ orFires.since[i] \in 0 .. OrMod
  <2>1. orNow \in 0 .. OrMod - 1 /\ ~orFires.wrong
    BY DEF OrInv, OrTimersInv
  <2>. QED  BY <2>1, TimersHeld DEF OrInv
<1>4. \A i \in 1 .. n : orFires.since[i] < OrMod
          => OrSince(orTimers[i].last) = orFires.since[i]
  BY DEF OrInv, OrTimersInv
<1>5. \A i \in 1 .. n : orFires.since[i] < OrMod
          => (i \in due <=> orFires.since[i] >= orTimers[i].interval)
  BY <1>4
<1>6. orTimers' = left /\ orFires' = [since |-> since, wrong |-> no]
  <2>1. orTimers' = left
    BY <1>3 DEF DrainTimers
  <2>. DEFINE w == orFires.wrong
                   \/ \E i \in 1 .. n : orFires.since[i] < OrMod
                                       /\ (i \in due) # (orFires.since[i] >= orTimers[i].interval)
  <2>2. orFires' = [since |-> since, wrong |-> w]
    BY <1>3 DEF DrainTimers
  <2>3. ~w
    BY <1>3, <1>5
  <2>4. w = no
    <3>. HIDE DEF w
    <3>. QED  BY <2>2, <2>3
  <2>. QED  BY <2>1, <2>2, <2>4
<1>7. \A i \in 1 .. n : Fired(orTimers[i]) \in OrTimer /\ Fired(orTimers[i]).last = orNow
  BY <1>3 DEF Fired, OrTimer
<1>8. left \in [1 .. n -> OrTimer]
      /\ \A i \in 1 .. n : left[i] = IF i \in due THEN Fired(orTimers[i]) ELSE orTimers[i]
  BY <1>3, <1>7
<1>9. since \in [1 .. n -> 0 .. OrMod]
      /\ \A i \in 1 .. n : since[i] = IF i \in due THEN 0 ELSE orFires.since[i]
  BY <1>3, OrConstants
<1>10. no \in BOOLEAN /\ ~no
  OBVIOUS
<1>. HIDE DEF due, left, since, no, n
<1>11. left \in Seq(OrTimer) /\ Len(left) = n /\ since \in Seq(0 .. OrMod) /\ Len(since) = n
  BY <1>3, <1>8, <1>9, FunctionSeq
<1>12. OrSince(orNow) = 0
  BY <1>3, OrConstants, AgeZero DEF OrSince
<1>13. \A i \in 1 .. n : since[i] < OrMod => OrSince(left[i].last) = since[i]
  BY <1>4, <1>7, <1>8, <1>9, <1>12
<1>14. orFires' \in [since : Seq(0 .. OrMod), wrong : BOOLEAN] /\ orFires'.since = since
       /\ orFires'.wrong = no
  BY <1>6, <1>10, <1>11
<1>15. OrTimersInv'
  BY <1>1, <1>6, <1>10, <1>11, <1>13, <1>14 DEF OrTimersInv, OrSince
<1>. QED  BY <1>1, <1>2, <1>3, <1>15 DEF OrInv

LEMMA OrTickInv ==
  ASSUME OrInv, OrTick
  PROVE  OrInv'
<1>. DEFINE n == Len(orTimers)
            since == [i \in 1 .. n |-> OrLater(orFires.since[i])]
            p == OrLater(orPass.since)
<1>1. UNCHANGED <<orLast, orThrottle, orTimers>> /\ orNow' = (orNow + 1) % OrMod
      /\ orPass' = [orPass EXCEPT !.since = p]
  BY DEF OrTick
<1>2. orNow' \in 0 .. OrMod - 1
  BY <1>1, OrConstants DEF OrInv
<1>3. n \in Nat /\ DOMAIN orFires.since = 1 .. n /\ orNow \in 0 .. OrMod - 1
      /\ orLast \in 0 .. OrMod - 1 /\ orPass.since \in 0 .. OrMod
      /\ \A i \in 1 .. n : orTimers[i] \in OrTimer /\ orFires.since[i] \in 0 .. OrMod
  <2>1. orNow \in 0 .. OrMod - 1 /\ orLast \in 0 .. OrMod - 1 /\ orPass.since \in 0 .. OrMod
    BY DEF OrInv, OrPassInv
  <2>. QED  BY <2>1, TimersHeld DEF OrInv
<1>4. orFires' = [orFires EXCEPT !.since = since]
  BY <1>3 DEF OrTick
<1>5. p \in 0 .. OrMod /\ (p < OrMod => OrSince(orLast)' = p)
  BY <1>1, <1>3, OrConstants, ClockFollowed, SMTT(30) DEF OrInv, OrPassInv, OrSince, OrLater
<1>6. ASSUME NEW i \in 1 .. n
      PROVE  /\ OrLater(orFires.since[i]) \in 0 .. OrMod
             /\ OrLater(orFires.since[i]) < OrMod
                  => OrSince(orTimers[i].last)' = OrLater(orFires.since[i])
  <2>1. orTimers[i].last \in 0 .. OrMod - 1 /\ orFires.since[i] \in 0 .. OrMod
    BY <1>3 DEF OrTimer
  <2>2. orFires.since[i] < OrMod => OrSince(orTimers[i].last) = orFires.since[i]
    BY DEF OrInv, OrTimersInv
  <2>3. OrSince(orTimers[i].last)' = (((orNow + 1) % OrMod) + OrMod - orTimers[i].last) % OrMod
    BY <1>1 DEF OrSince
  <2>. DEFINE k == orFires.since[i]
              a == orTimers[i].last
  <2>4. k < OrMod => (orNow + OrMod - a) % OrMod = k
    BY <2>2 DEF OrSince
  <2>5. k \in 0 .. OrMod /\ a \in 0 .. OrMod - 1
    BY <2>1
  <2>. HIDE DEF k, a
  <2>6. /\ (IF k < OrMod THEN k + 1 ELSE k) \in 0 .. OrMod
        /\ (IF k < OrMod THEN k + 1 ELSE k) < OrMod
             => (((orNow + 1) % OrMod) + OrMod - a) % OrMod = (IF k < OrMod THEN k + 1 ELSE k)
    BY <1>3, <2>4, <2>5, OrConstants, ClockFollowed
  <2>. QED  BY <2>3, <2>6 DEF OrLater, k, a
<1>7. since \in [1 .. n -> 0 .. OrMod] /\ \A i \in 1 .. n : since[i] = OrLater(orFires.since[i])
  BY <1>6
<1>. HIDE DEF since, p
<1>8. since \in Seq(0 .. OrMod) /\ Len(since) = n
  BY <1>3, <1>7, FunctionSeq
<1>9. orFires' \in [since : Seq(0 .. OrMod), wrong : BOOLEAN] /\ orFires'.since = since
      /\ orFires'.wrong = orFires.wrong
  BY <1>4, <1>8 DEF OrInv, OrTimersInv
<1>10. orPass' \in [since : 0 .. OrMod, tooSoon : BOOLEAN] /\ orPass'.since = p
       /\ orPass'.tooSoon = orPass.tooSoon
  BY <1>1, <1>5 DEF OrInv, OrPassInv
<1>11. OrPassInv'
  BY <1>1, <1>5, <1>10 DEF OrInv, OrPassInv
<1>12. OrTimersInv'
  BY <1>1, <1>6, <1>7, <1>8, <1>9 DEF OrInv, OrTimersInv
<1>. QED  BY <1>2, <1>11, <1>12 DEF OrInv

LEMMA OrInductive ==
  ASSUME OrInv, [OrNext]_orVars
  PROVE  OrInv'
<1>1. CASE UNCHANGED orVars
  BY <1>1 DEF orVars, OrInv, OrTimersInv, OrPassInv, OrSince
<1>2. ASSUME NEW ms \in OrThrottles, SetThrottle(ms)
      PROVE  OrInv'
  BY <1>2, OrConstants DEF SetThrottle, OrInv, OrTimersInv, OrPassInv, OrSince
<1>. QED  BY <1>1, <1>2, PhoneFrameInv, RegisterInv, ResetInv, DrainInv, OrTickInv DEF OrNext

(***************************************************************************)
(* Whatever the intervals, jitters and throttles are set to and wherever   *)
(* the clock wraps, beacons and frames of a phone keep their distance and  *)
(* a drain fires exactly the timers that are due (beacon_sched.c:40-78,    *)
(* rivr_policy.c:207-238, rivr_sources.c:1161-1212).                       *)
(***************************************************************************)
THEOREM OriginsAlwaysKept == NodeSpec => []OriginsKept
<1>1. NodeInit => BcInv /\ OrInv
  BY BcStart, OrStart DEF NodeInit
<1>2. BcInv /\ OrInv /\ [NodeNext]_nodeVars => BcInv' /\ OrInv'
  BY PartSteps, BcInductive, OrInductive
<1>3. BcInv /\ OrInv => OriginsKept
  BY DEF BcInv, OrInv, OrTimersInv, OrPassInv, OriginsKept, BeaconsSpaced, OriginsSpaced
<1>. QED  BY <1>1, <1>2, <1>3, PTL DEF NodeSpec, nodeVars

-----------------------------------------------------------------------------
(***************************************************************************)
(* The program of a node.  A sequence number is saved before the program   *)
(* it came with, so every number accepted is at most the one in NVS, and   *)
(* below it while a verified program waits to be stored.                   *)
(***************************************************************************)
LcProg == Programs \cup {NoProg}

LcType ==
  /\ nvs \in [prog : LcProg, seq : Nat, pnd : {0, 1}]
  /\ push \in [at : {"none", "verified", "stored"}, seq : Nat, prog : LcProg]
  /\ accepted \in Seq(Nat) /\ mode \in {"up", "hung"}

LcOrder ==
  /\ NoReplay
  /\ \A i \in 1 .. Len(accepted) : accepted[i] <= nvs.seq
  /\ push.at = "verified"
       => push.seq = nvs.seq /\ \A i \in 1 .. Len(accepted) : accepted[i] < push.seq

LcInv == LcType /\ LcOrder /\ TimersMatch /\ (mode = "hung" => push.at = "none")

LEMMA LcConstants ==
  /\ MaxPushSeq \in Nat
  /\ \A p : Compiles(PolicyProgram(p)) /\ PolicyProgram(p) # NoProg
  BY LcAssumption DEF Compiles, PolicyProgram, NoProg

LEMMA LoadedIs ==
  \A prog, p : Loaded(prog, p) # NoProg /\ (~Compiles(Loaded(prog, p)) => Loaded(prog, p) = prog)
  BY LcConstants DEF Loaded

LEMMA LcStart == LcInit => LcInv
<1>. SUFFICES ASSUME LcInit PROVE LcInv
  OBVIOUS
<1>1. /\ nvs = [prog |-> NoProg, seq |-> 0, pnd |-> 0] /\ push.at = "none" /\ mode = "up"
      /\ push \in [at : {"none", "verified", "stored"}, seq : Nat, prog : LcProg]
      /\ accepted = <<>> /\ engine = PolicyProgram(0) /\ timers = PolicyProgram(0)
  BY DEF LcInit, Nvs0, NoPush, LcProg
<1>2. nvs \in [prog : LcProg, seq : Nat, pnd : {0, 1}] /\ accepted \in Seq(Nat) /\ Len(accepted) = 0
      /\ DOMAIN accepted = {}
  BY <1>1 DEF LcProg
<1>3. LcType /\ LcOrder
  BY <1>1, <1>2 DEF LcType, LcOrder, NoReplay
<1>4. TimersMatch
  BY <1>1, LcConstants DEF TimersMatch
<1>. QED  BY <1>1, <1>3, <1>4 DEF LcInv

\* A step that leaves the pushes accepted and the sequence number alone.
LEMMA LcSameOrder ==
  ASSUME LcInv, UNCHANGED accepted, nvs'.seq = nvs.seq,
         push'.at = "verified" => push' = push
  PROVE  LcOrder'
  BY DEF LcInv, LcOrder, NoReplay

LEMMA VerifyInv ==
  ASSUME LcInv, Verify
  PROVE  LcInv'
<1>1. PICK s \in 1 .. MaxPushSeq, p \in Pushed :
        /\ s > nvs.seq /\ nvs' = [nvs EXCEPT !.seq = s]
        /\ push' = [at |-> "verified", seq |-> s, prog |-> p]
  BY DEF Verify, FreshSeq
<1>2. /\ UNCHANGED <<hasNvs, signed, params, engine, timers, reload, mode, accepted>> /\ mode = "up"
      /\ s \in Nat /\ p \in LcProg
  BY LcConstants DEF Verify, Running, LcProg, Programs
<1>3. nvs' \in [prog : LcProg, seq : Nat, pnd : {0, 1}] /\ nvs'.seq = s /\ nvs'.prog = nvs.prog
  BY <1>1, <1>2 DEF LcInv, LcType
<1>4. push' \in [at : {"none", "verified", "stored"}, seq : Nat, prog : LcProg] /\ push'.seq = s
  BY <1>1, <1>2
<1>5. LcType'
  BY <1>2, <1>3, <1>4 DEF LcInv, LcType
<1>6. \A i \in 1 .. Len(accepted) : accepted[i] \in Nat
  BY DEF LcInv, LcType
<1>7. nvs.seq \in Nat
  BY DEF LcInv, LcType
<1>8. \A i \in 1 .. Len(accepted) : accepted[i] < s
  BY <1>1, <1>2, <1>6, <1>7 DEF LcInv, LcOrder
<1>9. LcOrder'
  BY <1>2, <1>3, <1>4, <1>6, <1>8 DEF LcInv, LcOrder, NoReplay
<1>. QED  BY <1>2, <1>3, <1>5, <1>9 DEF LcInv, TimersMatch

LEMMA ActivateInv ==
  ASSUME LcInv, Activate
  PROVE  LcInv'
<1>1. /\ UNCHANGED <<hasNvs, signed, params, engine, timers, reload, mode>>
      /\ push.at = "verified" /\ push' = [push EXCEPT !.at = "stored"]
      /\ accepted' = Append(accepted, push.seq)
      /\ nvs' \in {[nvs EXCEPT !.prog = push.prog], nvs}
  BY DEF Activate
<1>2. accepted \in Seq(Nat) /\ push.seq \in Nat /\ nvs.seq \in Nat /\ push.prog \in LcProg
      /\ Len(accepted) \in Nat
  BY DEF LcInv, LcType
<1>3. nvs' \in [prog : LcProg, seq : Nat, pnd : {0, 1}] /\ nvs'.seq = nvs.seq
  BY <1>1, <1>2 DEF LcInv, LcType
<1>4. push' \in [at : {"none", "verified", "stored"}, seq : Nat, prog : LcProg] /\ push'.at = "stored"
  BY <1>1 DEF LcInv, LcType
<1>5. /\ accepted' \in Seq(Nat) /\ Len(accepted') = Len(accepted) + 1
      /\ DOMAIN accepted' = 1 .. Len(accepted) + 1 /\ DOMAIN accepted = 1 .. Len(accepted)
      /\ accepted'[Len(accepted) + 1] = push.seq
      /\ \A i \in 1 .. Len(accepted) : accepted'[i] = accepted[i]
  BY <1>1, <1>2
<1>6. LcType'
  BY <1>1, <1>3, <1>4, <1>5 DEF LcInv, LcType
<1>7. push.seq = nvs.seq /\ \A i \in 1 .. Len(accepted) : accepted[i] < push.seq
  BY <1>1 DEF LcInv, LcOrder
<1>8. NoReplay'
  <2>. SUFFICES ASSUME NEW i \in 1 .. Len(accepted) + 1, NEW j \in 1 .. Len(accepted) + 1, i < j
                PROVE  accepted'[i] < accepted'[j]
    BY <1>5 DEF NoReplay
  <2>1. i \in 1 .. Len(accepted)
    BY <1>2
  <2>2. CASE j = Len(accepted) + 1
    BY <1>5, <1>7, <2>1, <2>2
  <2>3. CASE j # Len(accepted) + 1
    <3>1. j \in 1 .. Len(accepted)
      BY <1>2, <2>3
    <3>. QED  BY <1>5, <2>1, <3>1 DEF LcInv, LcOrder, NoReplay
  <2>. QED  BY <2>2, <2>3
<1>9. ASSUME NEW i \in 1 .. Len(accepted) + 1
      PROVE  accepted'[i] <= nvs.seq
  <2>1. CASE i = Len(accepted) + 1
    BY <1>2, <1>5, <1>7, <2>1
  <2>2. CASE i # Len(accepted) + 1
    <3>1. i \in 1 .. Len(accepted)
      BY <1>2, <2>2
    <3>. QED  BY <1>5, <3>1 DEF LcInv, LcOrder
  <2>. QED  BY <2>1, <2>2
<1>10. LcOrder'
  BY <1>3, <1>4, <1>5, <1>8, <1>9 DEF LcOrder
<1>11. mode # "hung"
  BY <1>1 DEF LcInv
<1>. QED  BY <1>1, <1>6, <1>10, <1>11 DEF LcInv, TimersMatch

LEMMA PushedInv ==
  ASSUME LcInv, ActivateFails \/ MarkPending \/ PushPlain \/ PushParams
  PROVE  LcInv'
<1>1. UNCHANGED <<hasNvs, signed, engine, timers, mode, accepted>>
  BY DEF ActivateFails, MarkPending, PushPlain, PushParams
<1>2. /\ push' \in {push, NoPush} /\ (push'.at = "verified" => push' = push)
      /\ mode # "hung"
  BY DEF ActivateFails, MarkPending, PushPlain, PushParams, NoPush, Running, LcInv
<1>3. push' \in [at : {"none", "verified", "stored"}, seq : Nat, prog : LcProg]
  BY <1>2 DEF LcInv, LcType, NoPush, LcProg
<1>4. \/ nvs' = nvs
      \/ nvs' = [nvs EXCEPT !.pnd = 1]
      \/ \E p \in LcProg : nvs' = [nvs EXCEPT !.prog = p]
  BY DEF ActivateFails, MarkPending, PushPlain, PushParams, LcProg, Programs
<1>5. nvs' \in [prog : LcProg, seq : Nat, pnd : {0, 1}] /\ nvs'.seq = nvs.seq
  BY <1>4 DEF LcInv, LcType
<1>6. LcType'
  BY <1>1, <1>3, <1>5 DEF LcInv, LcType
<1>7. LcOrder'
  BY <1>1, <1>2, <1>5, LcSameOrder
<1>8. TimersMatch'
  BY <1>1, <1>2 DEF LcInv, TimersMatch
<1>. QED  BY <1>1, <1>2, <1>6, <1>7, <1>8 DEF LcInv

LEMMA ReloadInv ==
  ASSUME LcInv, Reload
  PROVE  LcInv'
<1>. DEFINE prog == Loaded(nvs.prog, params)
<1>1. /\ timers' = TimersAfter(prog) /\ engine' = (IF Compiles(prog) THEN prog ELSE engine)
      /\ UNCHANGED <<hasNvs, signed, nvs, params, push, mode, accepted>> /\ mode = "up"
  BY DEF Reload, Running
<1>2. prog # NoProg
  BY LoadedIs
<1>. HIDE DEF prog
<1>3. TimersMatch'
  BY <1>1, <1>2 DEF LcInv, TimersMatch, TimersAfter
<1>4. LcType' /\ LcOrder'
  BY <1>1 DEF LcInv, LcType, LcOrder, NoReplay
<1>. QED  BY <1>1, <1>3, <1>4 DEF LcInv

LEMMA LcResetInv ==
  ASSUME LcInv, Reset
  PROVE  LcInv'
<1>. DEFINE prog == Loaded(Kept(nvs).prog, 0)
<1>1. /\ engine' = (IF Compiles(prog) THEN prog ELSE NoProg)
      /\ timers' = (IF Compiles(prog) THEN prog ELSE NoProg)
      /\ mode' = (IF Compiles(prog) THEN "up" ELSE "hung")
      /\ nvs' = Kept(nvs) /\ push' = NoPush /\ accepted' = (IF hasNvs THEN accepted ELSE <<>>)
      /\ hasNvs' = hasNvs
  BY DEF Reset
<1>2. prog # NoProg /\ (~Compiles(prog) => prog = Kept(nvs).prog)
  BY LoadedIs
<1>3. ~hasNvs => Kept(nvs).prog = NoProg /\ Kept(nvs).seq = 0 /\ Kept(nvs) = Nvs0
  BY DEF Kept, Nvs0
<1>. HIDE DEF prog
<1>4. TimersMatch'
  BY <1>1, <1>2, <1>3 DEF TimersMatch
<1>5. push' \in [at : {"none", "verified", "stored"}, seq : Nat, prog : LcProg] /\ push'.at = "none"
  BY <1>1 DEF NoPush, LcProg
<1>6. nvs' \in [prog : LcProg, seq : Nat, pnd : {0, 1}]
  BY <1>1 DEF Kept, Nvs0, LcInv, LcType, LcProg
<1>7. accepted' \in Seq(Nat) /\ mode' \in {"up", "hung"}
  BY <1>1 DEF LcInv, LcType
<1>8. LcOrder'
  <2>1. CASE hasNvs
    BY <1>1, <1>5, <2>1 DEF Kept, LcInv, LcOrder, NoReplay
  <2>2. CASE ~hasNvs
    <3>1. Len(accepted') = 0 /\ DOMAIN accepted' = {}
      BY <1>1, <2>2
    <3>. QED  BY <1>5, <3>1 DEF LcOrder, NoReplay
  <2>. QED  BY <2>1, <2>2
<1>. QED  BY <1>4, <1>5, <1>6, <1>7, <1>8 DEF LcInv, LcType

LEMMA LcInductive ==
  ASSUME LcInv, [LcNext]_lcVars
  PROVE  LcInv'
<1>1. CASE UNCHANGED lcVars
  BY <1>1 DEF lcVars, LcInv, LcType, LcOrder, NoReplay, TimersMatch
<1>. QED  BY <1>1, VerifyInv, ActivateInv, PushedInv, ReloadInv, LcResetInv DEF LcNext

-----------------------------------------------------------------------------
(***************************************************************************)
(* The settings.  A sensor interval that was confirmed is one a start does *)
(* not drop, so a confirmed value is loaded again in every group.          *)
(***************************************************************************)
StKept == StValues \cup {0}

StInv ==
  /\ stRam \in [StKeys -> StKept] /\ stNvs \in [StKeys -> StKept]
  /\ DOMAIN stSaid = StKeys
  /\ AnsweredKept
  /\ stGroup = "sensor" => \A k \in StKeys : stSaid[k] # Unknown => stSaid[k] >= StFloor

LEMMA StConstants == StKept \subseteq Nat /\ 0 \in StKept /\ StFloor \in StKept
  BY StAssumption DEF StKept

LEMMA NothingKeeps ==
  ASSUME stRam' \in [StKeys -> StKept], stNvs' \in [StKeys -> StKept], stSaid' = NothingSaid
  PROVE  StInv'
<1>1. DOMAIN stSaid' = StKeys /\ \A k \in StKeys : stSaid'[k] = Unknown
  BY DEF NothingSaid
<1>. QED  BY <1>1 DEF StInv, AnsweredKept

LEMMA StStart == StInit => StInv
<1>. SUFFICES ASSUME StInit PROVE StInv
  OBVIOUS
<1>1. Unset \in [StKeys -> StKept]
  BY StConstants DEF Unset
<1>2. stRam = Unset /\ stNvs = Unset /\ stSaid = NothingSaid
  BY DEF StInit
<1>3. DOMAIN stSaid = StKeys /\ \A k \in StKeys : stSaid[k] = Unknown
  BY <1>2 DEF NothingSaid
<1>. QED  BY <1>1, <1>2, <1>3 DEF StInv, AnsweredKept

\* When both keys were set and committed, they hold what was asked for.
LEMMA PutStores ==
  ASSUME StInv, NEW want \in [StKeys -> StKept], NEW opens \in BOOLEAN, NEW commits \in BOOLEAN,
         NEW oks \in [StKeys -> BOOLEAN], Put(want, opens, oks, commits)
  PROVE  /\ stNvs' \in [StKeys -> StKept]
         /\ opens /\ BothSet(oks) /\ commits => \A k \in StKeys : stNvs'[k] = want[k]
<1>1. CASE ~opens
  BY <1>1 DEF Put, StInv
<1>2. CASE opens
  <2>1. /\ stNvs' \in [StKeys -> StKept]
        /\ \A k \in StKeys : stNvs'[k] \in AfterPut(k, want[k], oks[k], BothSet(oks) /\ commits)
    BY <1>2 DEF Put, StKept
  <2>2. ASSUME BothSet(oks), commits, NEW k \in StKeys
        PROVE  AfterPut(k, want[k], oks[k], BothSet(oks) /\ commits) = {want[k]}
    BY <2>2 DEF BothSet, AfterPut, AfterSet
  <2>. QED  BY <2>1, <2>2
<1>. QED  BY <1>1, <1>2

\* A command that confirms what it stored, or confirms nothing.
LEMMA AnswerKeeps ==
  ASSUME StInv, NEW want \in [StKeys -> StKept], NEW opens \in BOOLEAN, NEW commits \in BOOLEAN,
         NEW oks \in [StKeys -> BOOLEAN], Put(want, opens, oks, commits),
         Answer(opens /\ BothSet(oks) /\ commits, want), stRam' \in [StKeys -> StKept],
         opens /\ BothSet(oks) /\ commits => stRam' = want,
         stGroup = "sensor" => \A k \in StKeys : want[k] >= StFloor, UNCHANGED stGroup
  PROVE  StInv'
<1>1. /\ stNvs' \in [StKeys -> StKept]
      /\ opens /\ BothSet(oks) /\ commits => \A k \in StKeys : stNvs'[k] = want[k]
  BY PutStores
<1>2. CASE opens /\ BothSet(oks) /\ commits
  <2>1. stSaid' = want /\ stRam' = want
    BY <1>2 DEF Answer
  <2>. QED  BY <1>1, <1>2, <2>1 DEF StInv, AnsweredKept
<1>3. CASE ~(opens /\ BothSet(oks) /\ commits)
  BY <1>1, <1>3, NothingKeeps DEF Answer
<1>. QED  BY <1>2, <1>3

LEMMA ClampedType ==
  ASSUME NEW want \in [StKeys -> StValues]
  PROVE  Clamped(want) \in [StKeys -> StKept] /\ \A k \in StKeys : Clamped(want)[k] >= StFloor
<1>1. \A k \in StKeys : want[k] \in StKept /\ want[k] \in Nat /\ StFloor \in Nat
  BY StConstants DEF StKept
<1>. QED  BY <1>1, StConstants DEF Clamped

LEMMA CommandInv ==
  ASSUME StInv, NEW companion \in BOOLEAN, NEW opens \in BOOLEAN, NEW commits \in BOOLEAN,
         NEW oks \in [StKeys -> BOOLEAN], Command(companion, opens, oks, commits),
         UNCHANGED stGroup
  PROVE  StInv'
<1>1. ASSUME NEW k \in StKeys, NEW value \in StValues, SetIdentity(k, value, opens, oks, commits)
      PROVE  StInv'
  <2>. DEFINE want == [stRam EXCEPT ![k] = value]
  <2>1. want \in [StKeys -> StKept]
    BY DEF StInv, StKept
  <2>2. /\ stGroup = "identity" /\ stRam' = want /\ Put(want, opens, oks, commits)
        /\ Answer(opens /\ BothSet(oks) /\ commits, want)
    BY <1>1 DEF SetIdentity
  <2>. HIDE DEF want
  <2>. QED  BY <2>1, <2>2, AnswerKeeps
<1>2. ASSUME NEW want \in [StKeys -> StValues], SetPosition(want, companion, opens, oks, commits)
      PROVE  StInv'
  <2>1. want \in [StKeys -> StKept]
    BY DEF StKept
  <2>2. /\ stGroup = "position" /\ stRam' \in {want, stRam} /\ Put(want, opens, oks, commits)
        /\ Answer(opens /\ BothSet(oks) /\ commits, want)
        /\ opens /\ BothSet(oks) /\ commits => stRam' = want
    BY <1>2 DEF SetPosition
  <2>3. stRam' \in [StKeys -> StKept]
    BY <2>1, <2>2 DEF StInv
  <2>. QED  BY <2>1, <2>2, <2>3, AnswerKeeps
<1>3. ASSUME NEW want \in [StKeys -> StValues], SetSensor(want, companion, opens, oks, commits)
      PROVE  StInv'
  <2>1. /\ stRam' = Clamped(want) /\ Put(Clamped(want), opens, oks, commits)
        /\ Answer(opens /\ BothSet(oks) /\ commits, Clamped(want))
    BY <1>3 DEF SetSensor
  <2>. QED  BY <2>1, ClampedType, AnswerKeeps
<1>4. CASE ClearPosition(companion, opens, oks, commits)
  <2>0. stGroup' = stGroup
    OBVIOUS
  <2>1. /\ stGroup = "position" /\ stRam' \in {Unset, stRam}
        /\ Answer(opens /\ commits /\ \A k \in StKeys : oks[k], Unset)
        /\ opens => stRam' = Unset
    BY <1>4 DEF ClearPosition
  <2>2. Unset \in [StKeys -> StKept] /\ \A k \in StKeys : Unset[k] = 0
    BY StConstants DEF Unset
  <2>3. stRam' \in [StKeys -> StKept]
    BY <2>1, <2>2 DEF StInv
  <2>4. /\ stNvs' \in [StKeys -> StKept]
        /\ (opens /\ commits /\ \A k \in StKeys : oks[k]) => \A k \in StKeys : stNvs'[k] = 0
    <3>1. CASE ~opens
      BY <1>4, <3>1 DEF ClearPosition, StInv
    <3>2. CASE opens
      BY <1>4, <3>2 DEF ClearPosition, StKept
    <3>. QED  BY <3>1, <3>2
  <2>. DEFINE said == opens /\ commits /\ \A k \in StKeys : oks[k]
  <2>7. stSaid' = (IF said THEN Unset ELSE NothingSaid)
    BY <2>1 DEF Answer
  <2>8. /\ said => stRam' = Unset
        /\ said => \A k \in StKeys : stNvs'[k] = 0
    BY <2>1, <2>4
  <2>. HIDE DEF said
  <2>5. CASE said
    <3>1. stSaid' = Unset /\ stRam' = Unset /\ DOMAIN stSaid' = StKeys
      BY <2>5, <2>7, <2>8 DEF Unset
    <3>. QED  BY <2>0, <2>1, <2>2, <2>3, <2>4, <2>5, <2>8, <3>1 DEF StInv, AnsweredKept
  <2>6. CASE ~said
    BY <2>3, <2>4, <2>6, <2>7, NothingKeeps
  <2>. QED  BY <2>5, <2>6
<1>. QED  BY <1>1, <1>2, <1>3, <1>4 DEF Command

LEMMA LoadedType ==
  ASSUME NEW keys \in [StKeys -> StKept]
  PROVE  LoadedKeys(keys) \in [StKeys -> StKept]
  BY StConstants DEF LoadedKeys

LEMMA RestartInv ==
  ASSUME StInv, Restart, UNCHANGED stGroup
  PROVE  StInv'
<1>1. stRam' = LoadedKeys(stNvs) /\ stNvs' = stNvs
      /\ stSaid' = (IF stGroup = "sensor" /\ stStore # "esp32" THEN NothingSaid ELSE stSaid)
  BY DEF Restart
<1>2. stRam' \in [StKeys -> StKept] /\ stNvs' \in [StKeys -> StKept]
  BY <1>1, LoadedType DEF StInv
<1>3. CASE stGroup = "sensor" /\ stStore # "esp32"
  BY <1>1, <1>2, <1>3, NothingKeeps
<1>4. CASE ~(stGroup = "sensor" /\ stStore # "esp32")
  <2>1. ASSUME NEW k \in StKeys, stSaid[k] # Unknown
        PROVE  LoadedKeys(stNvs)[k] = stSaid[k]
    BY <1>4, <2>1 DEF StInv, AnsweredKept, LoadedKeys
  <2>. QED  BY <1>1, <1>2, <1>4, <2>1 DEF StInv, AnsweredKept
<1>. QED  BY <1>3, <1>4

LEMMA StInductive ==
  ASSUME StInv, [StNext]_stVars
  PROVE  StInv'
<1>1. CASE UNCHANGED stVars
  BY <1>1 DEF stVars, StInv, AnsweredKept
<1>2. CASE StNext /\ ~UNCHANGED stVars
  <2>0. UNCHANGED stGroup
    BY <1>2 DEF StNext
  <2>1. ASSUME NEW opens \in BOOLEAN, NEW commits \in BOOLEAN, NEW oks \in [StKeys -> BOOLEAN],
               CliLine(opens, oks, commits) \/ CompanionPacket(opens, oks, commits)
        PROVE  StInv'
    <3>1. \E companion \in BOOLEAN : Command(companion, opens, oks, commits)
      BY <2>1 DEF CliLine, CompanionPacket
    <3>. QED  BY <2>0, <3>1, CommandInv
  <2>2. CASE RestartErased
    <3>1. Unset \in [StKeys -> StKept]
      BY StConstants DEF Unset
    <3>. QED  BY <2>2, <3>1, NothingKeeps DEF RestartErased
  <2>3. ASSUME NEW value \in StKept, CutStore(value)
        PROVE  StInv'
    <3>1. stNvs' \in [StKeys -> StKept] /\ stRam' = LoadedKeys(stNvs') /\ stSaid' = NothingSaid
      BY <2>3 DEF CutStore, StInv
    <3>2. stRam' \in [StKeys -> StKept]
      BY <3>1, LoadedType
    <3>. QED  BY <3>1, <3>2, NothingKeeps
  <2>4. CASE Restart
    BY <2>0, <2>4, RestartInv
  <2>. QED  BY <1>2, <2>1, <2>2, <2>3, <2>4 DEF StNext, StKept
<1>. QED  BY <1>1, <1>2

(***************************************************************************)
(* What was confirmed outlives a restart: no push is accepted twice and    *)
(* the timers are those of the program that runs, whatever reset falls     *)
(* between two writes (rivr_ota_core.c:60-150); a confirmed setting is     *)
(* stored and in use (rivr_embed.c:174-233).                               *)
(***************************************************************************)
THEOREM ConfirmedAlwaysKept == NodeSpec => []ConfirmedKept
<1>1. NodeInit => LcInv /\ StInv
  BY LcStart, StStart DEF NodeInit
<1>2. LcInv /\ StInv /\ [NodeNext]_nodeVars => LcInv' /\ StInv'
  BY PartSteps, LcInductive, StInductive
<1>3. LcInv /\ StInv => ConfirmedKept
  BY DEF LcInv, LcOrder, StInv, ConfirmedKept, UpdatesKept
<1>. QED  BY <1>1, <1>2, <1>3, PTL DEF NodeSpec, nodeVars

-----------------------------------------------------------------------------
(***************************************************************************)
(* The TX queue and its jitter gate.                                       *)
(***************************************************************************)
TdFrames == [due : 0 .. TdClockMod - 1, left : Nat, wrap : BOOLEAN, waited : Nat]

TdShape ==
  /\ txq \in Seq(TdFrames) /\ Len(txq) <= TdCap
  /\ tdNow \in 0 .. TdClockMod - 1
  /\ tdPass.take \in 0 .. TdLimit
  /\ tdPass = [at |-> tdPass.at, take |-> tdPass.take]
  /\ tdPass.take > 0 => tdPass.at = tdNow

\* What due_ms says of a frame whose deadline the clock has not wrapped past.
TdDue(f) == ~f.wrap => IF f.left > 0 THEN f.due = tdNow + f.left ELSE f.due <= tdNow

\* A frame to be sent at once has come forward by TdLimit places in each pass
\* begun since it came, less the places the running pass has still to go.
TdForward(i, waited) ==
  /\ waited = 0 => tdPass.take = 0
  /\ i + waited * TdLimit <= TdCap + tdPass.take

TdInv ==
  /\ TdShape
  /\ \A i \in 1 .. Len(txq) : TdDue(txq[i])
  /\ \A i \in 1 .. Len(txq) : txq[i].due = 0 => TdForward(i, txq[i].waited)
  /\ ~tdHeld /\ ~tdEarly

LEMMA TdConstants ==
  TdCap \in Nat \ {0} /\ TdLimit \in Nat \ {0} /\ TdClockMod \in Nat \ {0}
  /\ 0 \in 0 .. TdClockMod - 1
  BY TdAssumption

LEMMA TdStart == TdInit => TdInv
<1>. SUFFICES ASSUME TdInit PROVE TdInv
  OBVIOUS
<1>1. txq = <<>> /\ Len(txq) = 0 /\ txq \in Seq(TdFrames)
  BY DEF TdInit
<1>. QED  BY <1>1, TdConstants DEF TdInit, TdInv, TdShape

\* A frame joins the end of the queue between two passes.
LEMMA TdJoins ==
  ASSUME TdInv, tdPass.take = 0, Len(txq) < TdCap, NEW f \in TdFrames, f.waited = 0, TdDue(f),
         txq' = Append(txq, f), UNCHANGED <<tdNow, tdPass, tdHeld, tdEarly>>
  PROVE  TdInv'
<1>. DEFINE n == Len(txq)
<1>1. txq \in Seq(TdFrames) /\ n \in Nat
  BY DEF TdInv, TdShape
<1>2. /\ txq' \in Seq(TdFrames) /\ Len(txq') = n + 1
      /\ \A i \in 1 .. n : txq'[i] = txq[i]
      /\ txq'[n + 1] = f
  BY <1>1
<1>3. \A i \in 1 .. n + 1 : i = n + 1 \/ i \in 1 .. n
  BY <1>1
<1>4. TdShape'
  BY <1>2, TdConstants, <1>1 DEF TdInv, TdShape
<1>5. \A i \in 1 .. n + 1 : TdDue(txq'[i])
  BY <1>2, <1>3 DEF TdInv
<1>6. \A i \in 1 .. n + 1 : txq'[i].due = 0 => TdForward(i, txq'[i].waited)
  <2>1. TdForward(n + 1, 0)
    BY <1>1, TdConstants DEF TdForward, TdInv, TdShape
  <2>. QED  BY <1>2, <1>3, <2>1 DEF TdInv
<1>7. (\A i \in 1 .. Len(txq) : TdDue(txq[i]))'
  BY <1>2, <1>5 DEF TdDue
<1>8. (\A i \in 1 .. Len(txq) : txq[i].due = 0 => TdForward(i, txq[i].waited))'
  BY <1>2, <1>6 DEF TdForward
<1>. QED  BY <1>4, <1>7, <1>8 DEF TdInv

LEMMA TdQueueInv ==
  ASSUME TdInv, TdQueueNow \/ \E delay \in TdDelays : TdQueue(delay)
  PROVE  TdInv'
<1>1. tdNow \in 0 .. TdClockMod - 1
  BY DEF TdInv, TdShape
<1>2. CASE TdQueueNow
  <2>. DEFINE no == FALSE
              f == [due |-> 0, left |-> 0, waited |-> 0, wrap |-> no]
  <2>1. no \in BOOLEAN /\ txq' = Append(txq, f)
    BY <1>2 DEF TdQueueNow
  <2>. HIDE DEF no
  <2>2. f \in TdFrames /\ TdDue(f)
    BY <1>1, <2>1, TdConstants DEF TdFrames, TdDue
  <2>. QED  BY <1>2, <2>1, <2>2, TdJoins DEF TdQueueNow
<1>3. ASSUME NEW delay \in TdDelays, TdQueue(delay)
      PROVE  TdInv'
  <2>. DEFINE due == (tdNow + delay) % TdClockMod
              late == tdNow + delay >= TdClockMod
              f == [due |-> due, left |-> delay, waited |-> 0, wrap |-> late]
  <2>1. delay \in Nat
    BY TdAssumption
  <2>2. due \in 0 .. TdClockMod - 1
    BY <1>1, <2>1, TdConstants
  <2>3. ~late => due = tdNow + delay
    BY <1>1, <2>1, TdConstants
  <2>4. late \in BOOLEAN /\ txq' = Append(txq, f)
    BY <1>3 DEF TdQueue
  <2>. HIDE DEF due, late
  <2>5. f \in TdFrames
    BY <2>1, <2>2, <2>4 DEF TdFrames
  <2>6. TdDue(f)
    BY <1>1, <2>1, <2>3 DEF TdDue
  <2>. QED  BY <1>3, <2>4, <2>5, <2>6, TdJoins DEF TdQueue
<1>. QED  BY <1>2, <1>3

LEMMA TdBeginInv ==
  ASSUME TdInv, TdBegin
  PROVE  TdInv'
<1>. DEFINE n == Len(txq)
<1>1. txq \in Seq(TdFrames) /\ n \in Nat /\ DOMAIN txq = 1 .. n
  BY DEF TdInv, TdShape
<1>2. /\ tdPass' = [at |-> tdNow, take |-> TdLimit] /\ tdPass.take = 0
      /\ UNCHANGED <<tdNow, tdHeld, tdEarly>>
      /\ txq' = [i \in 1 .. n |->
                   [txq[i] EXCEPT !.waited = IF txq[i].due = 0 /\ @ <= TdCap THEN @ + 1 ELSE @]]
  BY <1>1 DEF TdBegin
<1>3. ASSUME NEW i \in 1 .. n
      PROVE  /\ txq[i] \in TdFrames /\ txq'[i] \in TdFrames
             /\ txq'[i].due = txq[i].due /\ txq'[i].left = txq[i].left
             /\ txq'[i].wrap = txq[i].wrap
             /\ txq[i].due = 0 /\ txq[i].waited <= TdCap => txq'[i].waited = txq[i].waited + 1
  <2>1. txq[i] \in TdFrames
    BY <1>1
  <2>. DEFINE w == IF txq[i].due = 0 /\ txq[i].waited <= TdCap THEN txq[i].waited + 1
                   ELSE txq[i].waited
  <2>2. txq'[i] = [txq[i] EXCEPT !.waited = w]
    BY <1>2
  <2>3. w \in Nat
    BY <2>1 DEF TdFrames
  <2>4. txq[i].due = 0 /\ txq[i].waited <= TdCap => w = txq[i].waited + 1
    OBVIOUS
  <2>. HIDE DEF w
  <2>. QED  BY <2>1, <2>2, <2>3, <2>4 DEF TdFrames
<1>4. txq' \in Seq(TdFrames) /\ Len(txq') = n
  <2>1. DOMAIN txq' = 1 .. n /\ txq' = [i \in 1 .. n |-> txq'[i]]
    BY <1>2
  <2>. QED  BY <1>1, <1>3, <2>1, FunctionSeq
<1>5. TdShape'
  BY <1>2, <1>4, TdConstants DEF TdInv, TdShape
<1>6. (\A i \in 1 .. Len(txq) : TdDue(txq[i]))'
  BY <1>2, <1>3, <1>4 DEF TdInv, TdDue
<1>7. ASSUME NEW i \in 1 .. n, txq'[i].due = 0
      PROVE  TdForward(i, txq[i].waited)'
  <2>. DEFINE w == txq[i].waited
  <2>1. txq[i].due = 0 /\ w \in Nat
    BY <1>3, <1>7 DEF TdFrames
  <2>2. i + w * TdLimit <= TdCap
    BY <1>2, <2>1, TdConstants DEF TdInv, TdForward
  <2>3. w * TdLimit \in Nat /\ (w + 1) * TdLimit = w * TdLimit + TdLimit
    BY <2>1, TdConstants, TimesNext
  <2>4. w <= w * TdLimit
    BY <2>1, TdConstants, TimesMore
  <2>5. w <= TdCap
    BY <2>1, <2>2, <2>3, <2>4, TdConstants, SMTT(30)
  <2>. HIDE DEF w
  <2>6. i + (w + 1) * TdLimit <= TdCap + TdLimit /\ w + 1 # 0
    BY <2>1, <2>2, <2>3, TdConstants
  <2>7. txq'[i].waited = w + 1
    BY <1>3, <2>1, <2>5 DEF w
  <2>8. tdPass'.take = TdLimit
    BY <1>2
  <2>. QED  BY <2>6, <2>7, <2>8 DEF TdForward
<1>8. (\A i \in 1 .. Len(txq) : txq[i].due = 0 => TdForward(i, txq[i].waited))'
  BY <1>4, <1>7
<1>. QED  BY <1>2, <1>5, <1>6, <1>8 DEF TdInv

\* In a pass a frame of the queue is due in truth when the gate finds it due.
LEMMA TdGateExact ==
  ASSUME TdInv, tdPass.take > 0, txq # <<>>
  PROVE  ~Head(txq).wrap => (NotDue(Head(txq)) <=> Head(txq).left > 0)
<1>1. txq \in Seq(TdFrames) /\ Len(txq) >= 1
  BY DEF TdInv, TdShape
<1>2. Head(txq) = txq[1] /\ txq[1] \in TdFrames /\ TdDue(txq[1])
  BY <1>1 DEF TdInv
<1>3. tdPass.at = tdNow /\ tdNow \in Nat
  BY TdConstants DEF TdInv, TdShape
<1>. QED  BY <1>2, <1>3 DEF NotDue, TdDue, TdFrames

\* The frame at the head goes, to the tail or for good, and the pass has taken one.
LEMMA TdMovesUp ==
  ASSUME TdInv, tdPass.take > 0, txq # <<>>, tdPass' = Taken1, UNCHANGED tdNow,
         \/ txq' = Tail(txq)
         \/ NotDue(Head(txq)) /\ txq' = Append(Tail(txq), Head(txq)),
         ~tdHeld' /\ ~tdEarly'
  PROVE  TdInv'
<1>. DEFINE n == Len(txq)
            h == Head(txq)
<1>1. txq \in Seq(TdFrames) /\ n \in Nat /\ n >= 1 /\ h = txq[1] /\ h \in TdFrames
  BY DEF TdInv, TdShape
<1>2. /\ Tail(txq) \in Seq(TdFrames) /\ Len(Tail(txq)) = n - 1
      /\ \A i \in 1 .. n - 1 : Tail(txq)[i] = txq[i + 1]
  BY <1>1
<1>3. /\ tdPass.take \in 1 .. TdLimit /\ tdPass.at = tdNow /\ tdNow \in 0 .. TdClockMod - 1
      /\ tdPass' = [at |-> tdNow, take |-> tdPass.take - 1] /\ n <= TdCap
  <2>1. /\ tdPass.take \in 0 .. TdLimit /\ tdPass = [at |-> tdPass.at, take |-> tdPass.take]
        /\ tdPass.at = tdNow /\ tdNow \in 0 .. TdClockMod - 1
    BY DEF TdInv, TdShape
  <2>2. Taken1 = [at |-> tdPass.at, take |-> tdPass.take - 1]
    BY <2>1 DEF Taken1
  <2>. QED  BY <2>1, <2>2, TdConstants DEF TdInv, TdShape
<1>4. /\ txq' \in Seq(TdFrames) /\ Len(txq') <= n
      /\ \A i \in 1 .. Len(txq') : \/ i \in 1 .. n - 1 /\ txq'[i] = txq[i + 1]
                                   \/ txq'[i] = h /\ NotDue(h)
  <2>. HIDE DEF h
  <2>1. CASE txq' = Tail(txq)
    BY <1>1, <1>2, <2>1
  <2>2. CASE NotDue(h) /\ txq' = Append(Tail(txq), h)
    <3>0. PICK s : s = Tail(txq)
      OBVIOUS
    <3>1. /\ txq' \in Seq(TdFrames) /\ Len(txq') = n
          /\ \A i \in 1 .. n - 1 : txq'[i] = s[i]
          /\ txq'[n] = h
      <4>1. s \in Seq(TdFrames) /\ Len(s) = n - 1 /\ txq' = Append(s, h)
        BY <1>2, <2>2, <3>0, Zenon
      <4>. QED  BY <1>1, <4>1
    <3>2. ASSUME NEW i \in 1 .. Len(txq')
          PROVE  \/ i \in 1 .. n - 1 /\ txq'[i] = txq[i + 1]
                 \/ txq'[i] = h /\ NotDue(h)
      <4>1. i = n \/ i \in 1 .. n - 1
        BY <1>1, <3>1, SMTT(60)
      <4>2. CASE i = n
        BY <2>2, <3>1, <4>2, Zenon
      <4>3. CASE i \in 1 .. n - 1
        BY <1>2, <3>0, <3>1, <4>3
      <4>. QED  BY <4>1, <4>2, <4>3
    <3>. QED  BY <1>1, <3>1, <3>2
  <2>. QED  BY <2>1, <2>2 DEF h
<1>5. TdShape'
  BY <1>1, <1>3, <1>4, TdConstants DEF TdShape
<1>6. \A i \in 1 .. n - 1 : i + 1 \in 1 .. n
  BY <1>1
<1>7. ASSUME NEW i \in 1 .. Len(txq')
      PROVE  TdDue(txq[i])'
  <2>1. \A k \in 1 .. n : TdDue(txq[k])
    BY DEF TdInv
  <2>2. CASE i \in 1 .. n - 1 /\ txq'[i] = txq[i + 1]
    <3>1. TdDue(txq[i + 1])
      BY <1>6, <2>1, <2>2
    <3>. QED  BY <2>2, <3>1 DEF TdDue
  <2>3. CASE txq'[i] = h
    <3>1. h = txq[1] /\ 1 \in 1 .. n
      BY <1>1
    <3>2. TdDue(h)
      BY <2>1, <3>1
    <3>. HIDE DEF h
    <3>. QED  BY <2>3, <3>2 DEF TdDue
  <2>. QED  BY <1>4, <2>2, <2>3
<1>8. ASSUME NEW i \in 1 .. Len(txq'), txq'[i].due = 0
      PROVE  TdForward(i, txq[i].waited)'
  <2>1. i \in 1 .. n - 1 /\ txq'[i] = txq[i + 1]
    BY <1>4, <1>8 DEF NotDue
  <2>2. TdForward(i + 1, txq[i + 1].waited)
    BY <1>6, <1>8, <2>1 DEF TdInv
  <2>. DEFINE w == txq[i + 1].waited
              g == w * TdLimit
  <2>3. w \in Nat
    <3>1. i + 1 \in 1 .. n
      BY <1>6, <2>1
    <3>2. txq[i + 1] \in TdFrames
      BY <1>1, <3>1
    <3>. QED  BY <3>2 DEF TdFrames
  <2>4. g \in Nat
    BY <2>3, TdConstants, TimesNext
  <2>5. w # 0 /\ i + 1 + g <= TdCap + tdPass.take
    BY <1>3, <2>2 DEF TdForward
  <2>. HIDE DEF w, g
  <2>6. i + g <= TdCap + (tdPass.take - 1)
    BY <1>3, <2>1, <2>4, <2>5, TdConstants
  <2>7. txq'[i].waited = w /\ tdPass'.take = tdPass.take - 1
    BY <1>3, <2>1 DEF w
  <2>. QED  BY <2>5, <2>6, <2>7 DEF TdForward, g
<1>. QED  BY <1>5, <1>7, <1>8 DEF TdInv

LEMMA TdTickInv ==
  ASSUME TdInv, TdTick
  PROVE  TdInv'
<1>. DEFINE n == Len(txq)
<1>1. txq \in Seq(TdFrames) /\ n \in Nat /\ DOMAIN txq = 1 .. n
  BY DEF TdInv, TdShape
<1>2. /\ tdPass.take = 0 /\ tdNow' = (tdNow + 1) % TdClockMod
      /\ tdPass' = tdPass /\ tdHeld' = tdHeld /\ tdEarly' = tdEarly
  BY Zenon DEF TdTick
<1>0. txq' = [i \in 1 .. n |->
               [txq[i] EXCEPT !.left = IF @ = 0 THEN 0 ELSE @ - 1,
                              !.wrap = @ \/ (tdNow' = 0 /\ txq[i].due # 0)]]
  BY <1>1, Zenon DEF TdTick
<1>3. /\ tdNow \in 0 .. TdClockMod - 1 /\ tdNow' \in 0 .. TdClockMod - 1
      /\ tdNow' # 0 => tdNow' = tdNow + 1
  <2>1. tdNow \in 0 .. TdClockMod - 1
    BY DEF TdInv, TdShape
  <2>2. tdNow' = IF tdNow + 1 = TdClockMod THEN 0 ELSE tdNow + 1
    BY <1>2, <2>1, TdConstants, ClockNext
  <2>. QED  BY <2>1, <2>2, TdConstants
<1>4. ASSUME NEW i \in 1 .. n
      PROVE  /\ txq[i] \in TdFrames /\ txq'[i] \in TdFrames
             /\ txq'[i].due = txq[i].due /\ txq'[i].waited = txq[i].waited
             /\ txq'[i].left = IF txq[i].left = 0 THEN 0 ELSE txq[i].left - 1
             /\ txq'[i].wrap <=> txq[i].wrap \/ (tdNow' = 0 /\ txq[i].due # 0)
  <2>1. txq[i] \in TdFrames
    BY <1>1
  <2>. DEFINE l == IF txq[i].left = 0 THEN 0 ELSE txq[i].left - 1
              w == txq[i].wrap \/ (tdNow' = 0 /\ txq[i].due # 0)
  <2>2. txq'[i] = [txq[i] EXCEPT !.left = l, !.wrap = w]
    BY <1>0, Zenon
  <2>3. l \in Nat /\ w \in BOOLEAN
    BY <2>1 DEF TdFrames
  <2>. HIDE DEF l, w
  <2>4. PICK f : f = [txq[i] EXCEPT !.left = l]
    OBVIOUS
  <2>5. f \in TdFrames /\ f.due = txq[i].due /\ f.waited = txq[i].waited /\ f.left = l
    BY <2>1, <2>3, <2>4 DEF TdFrames
  <2>6. txq'[i] = [f EXCEPT !.wrap = w]
    BY <2>1, <2>2, <2>4 DEF TdFrames
  <2>7. /\ txq'[i] \in TdFrames /\ txq'[i].due = f.due /\ txq'[i].waited = f.waited
        /\ txq'[i].left = f.left
    BY <2>3, <2>5, <2>6 DEF TdFrames
  <2>8. txq'[i].wrap = w
    BY <2>5, <2>6, Zenon DEF TdFrames
  <2>9. txq'[i].wrap <=> w
    BY <2>8
  <2>. QED  BY <2>1, <2>5, <2>7, <2>9 DEF l, w
<1>5. txq' \in Seq(TdFrames) /\ Len(txq') = n
  <2>1. DOMAIN txq' = 1 .. n /\ txq' = [i \in 1 .. n |-> txq'[i]]
    BY <1>0, Zenon
  <2>. QED  BY <1>1, <1>4, <2>1, FunctionSeq
<1>6. TdShape'
  <2>1. tdPass' = tdPass /\ tdPass.take = 0
    BY <1>2
  <2>2. tdPass = [at |-> tdPass.at, take |-> tdPass.take] /\ n <= TdCap
    BY DEF TdInv, TdShape
  <2>. QED  BY <1>3, <1>5, <2>1, <2>2, TdConstants DEF TdShape
<1>7. ASSUME NEW i \in 1 .. n
      PROVE  TdDue(txq[i])'
  <2>1. TdDue(txq[i])
    BY DEF TdInv
  <2>2. txq[i].left \in Nat /\ txq[i].due \in Nat
    BY <1>4, TdConstants DEF TdFrames
  <2>. SUFFICES ASSUME ~txq'[i].wrap
                PROVE  IF txq'[i].left > 0 THEN txq'[i].due = tdNow' + txq'[i].left
                       ELSE txq'[i].due <= tdNow'
    BY DEF TdDue
  <2>3. ~txq[i].wrap /\ (tdNow' # 0 \/ txq[i].due = 0)
    BY <1>4
  <2>4. IF txq[i].left > 0 THEN txq[i].due = tdNow + txq[i].left ELSE txq[i].due <= tdNow
    BY <2>1, <2>3 DEF TdDue
  <2>5. /\ txq'[i].due = txq[i].due
        /\ txq'[i].left = IF txq[i].left = 0 THEN 0 ELSE txq[i].left - 1
    BY <1>4
  <2>6. CASE tdNow' # 0
    BY <1>3, <2>2, <2>4, <2>5, <2>6, TdConstants
  <2>7. CASE txq[i].due = 0
    <3>1. txq[i].left = 0
      BY <1>3, <2>2, <2>4, <2>7, TdConstants
    <3>. QED  BY <1>3, <2>5, <2>7, <3>1, TdConstants
  <2>. QED  BY <2>3, <2>6, <2>7
<1>8. ASSUME NEW i \in 1 .. n, txq'[i].due = 0
      PROVE  TdForward(i, txq[i].waited)'
  <2>1. txq[i].due = 0 /\ txq'[i].waited = txq[i].waited
    BY <1>4, <1>8
  <2>2. TdForward(i, txq[i].waited)
    BY <2>1 DEF TdInv
  <2>. QED  BY <1>2, <2>1, <2>2 DEF TdForward
<1>9. ~tdHeld' /\ ~tdEarly'
  BY <1>2 DEF TdInv
<1>. QED  BY <1>5, <1>6, <1>7, <1>8, <1>9 DEF TdInv

LEMMA TdInductive == TdInv /\ [TdNext]_tdVars => TdInv'
<1>. SUFFICES ASSUME TdInv, [TdNext]_tdVars PROVE TdInv'
  OBVIOUS
<1>1. ASSUME tdPass.take > 0, txq # <<>>
      PROVE  /\ NotDue(Head(txq)) => ~(Head(txq).left = 0 /\ ~Head(txq).wrap)
             /\ ~NotDue(Head(txq)) => ~(Head(txq).left > 0 /\ ~Head(txq).wrap)
  BY <1>1, TdGateExact
<1>2. ~tdHeld /\ ~tdEarly
  BY DEF TdInv
<1>3. CASE TdHold
  BY <1>1, <1>2, <1>3, TdMovesUp DEF TdHold
<1>4. CASE TdLeave
  BY <1>1, <1>2, <1>4, TdMovesUp DEF TdLeave
<1>5. CASE TdEmpty
  <2>1. tdPass' = [at |-> tdPass.at, take |-> 0] /\ txq = <<>> /\ UNCHANGED <<txq, tdNow, tdHeld, tdEarly>>
    <3>1. tdPass = [at |-> tdPass.at, take |-> tdPass.take]
      BY DEF TdInv, TdShape
    <3>. QED  BY <1>5, <3>1 DEF TdEmpty
  <2>2. Len(txq) = 0
    BY <2>1
  <2>. QED  BY <2>1, <2>2, TdConstants DEF TdInv, TdShape
<1>6. CASE UNCHANGED tdVars
  BY <1>6 DEF tdVars, TdInv, TdShape, TdDue, TdForward
<1>. QED  BY <1>3, <1>4, <1>5, <1>6, TdQueueInv, TdBeginInv, TdTickInv DEF TdNext

LEMMA TdKept == TdInv => ImmediateLeaves /\ JitterKept
<1>. SUFFICES ASSUME TdInv PROVE ImmediateLeaves
  BY DEF TdInv, JitterKept
<1>1. txq \in Seq(TdFrames) /\ tdPass.take \in 0 .. TdLimit
  BY DEF TdInv, TdShape
<1>2. ASSUME NEW i \in 1 .. Len(txq), txq[i].due = 0
      PROVE  txq[i].waited <= (TdCap + TdLimit - 1) \div TdLimit
  <2>. DEFINE w == txq[i].waited
  <2>0. txq[i] \in TdFrames
    BY <1>1
  <2>1. w \in Nat /\ i >= 1
    BY <2>0 DEF TdFrames
  <2>2. i + w * TdLimit <= TdCap + tdPass.take
    BY <1>2 DEF TdInv, TdForward
  <2>3. w * TdLimit \in Nat
    BY <2>1, TdConstants, TimesNext
  <2>4. w * TdLimit <= TdCap + TdLimit - 1
    BY <1>1, <2>1, <2>2, <2>3, TdConstants, SMTT(60)
  <2>. HIDE DEF w
  <2>5. w <= (TdCap + TdLimit - 1) \div TdLimit
    BY <2>1, <2>4, TdConstants, TimesWithin
  <2>. QED  BY <2>5 DEF w
<1>3. \A f \in ToSet(txq) : \E i \in 1 .. Len(txq) : f = txq[i]
  BY <1>1 DEF ToSet
<1>. QED  BY <1>2, <1>3 DEF ImmediateLeaves

-----------------------------------------------------------------------------
(***************************************************************************)
(* The outbox.                                                             *)
(***************************************************************************)
SqHeld == [frame : SqFrames, age : Nat]

SqQueue(q) ==
  /\ q = [entries |-> q.entries, head |-> q.head, tail |-> q.tail, count |-> q.count]
  /\ q.entries = [s \in SqSlots |-> q.entries[s]]
  /\ q.head \in SqSlots /\ q.tail \in SqSlots /\ q.count \in 0 .. SqSize

\* Entry e holds frame r, which entered the queue r.age ticks before clock.
SqHolds(e, r, clock) ==
  /\ e.valid /\ e.frame = r.frame /\ e.at \in 0 .. SqMod - 1
  /\ (clock + SqMod - e.at) % SqMod = r.age

\* The queue holds ref, the oldest first, and nothing else.
SqMatches(q, ref, clock) ==
  /\ SqQueue(q) /\ clock \in 0 .. SqMod - 1
  /\ ref \in Seq(SqHeld)
  /\ q.count = Len(ref) /\ q.tail = SqAt(q, q.count)
  /\ \A i \in 1 .. Len(ref) : SqHolds(q.entries[SqAt(q, i - 1)], ref[i], clock)
  /\ \A i \in Len(ref) .. SqSize - 1 : q.entries[SqAt(q, i)] = SqFree
  /\ \A i, j \in 1 .. Len(ref) : i < j => ref[i].age >= ref[j].age

SqInv == SqMatches(sq, sqRef, sqNow)

LEMMA SqConstants ==
  /\ SqSize \in Nat \ {0} /\ SqExpiry \in Nat /\ SqMod \in Nat \ {0} /\ SqExpiry + 1 < SqMod
  /\ 0 \in SqSlots /\ 0 \in 0 .. SqMod - 1 /\ SqSlots = 0 .. SqSize - 1
  BY SqAssumption DEF SqSlots

\* Places are slots, each slot one place, and counted on from a later head.
LEMMA SqPlaces ==
  ASSUME NEW q, SqQueue(q)
  PROVE  /\ \A i \in 0 .. SqSize : SqAt(q, i) = IF q.head + i < SqSize THEN q.head + i
                                                ELSE q.head + i - SqSize
         /\ \A i \in 0 .. SqSize : SqAt(q, i) \in SqSlots
         /\ \A i, j \in 0 .. SqSize - 1 : SqAt(q, i) = SqAt(q, j) => i = j
         /\ SqAt(q, 0) = q.head /\ SqAt(q, SqSize) = q.head
<1>1. q.head \in 0 .. SqSize - 1
  BY SqConstants DEF SqQueue
<1>2. ASSUME NEW i \in 0 .. SqSize
      PROVE  SqAt(q, i) = IF q.head + i < SqSize THEN q.head + i ELSE q.head + i - SqSize
  <2>1. PICK x : x = q.head + i
    OBVIOUS
  <2>2. x \in Nat /\ x < SqSize + SqSize
    BY <1>1, <2>1, SqConstants
  <2>3. x % SqSize = IF x < SqSize THEN x ELSE x - SqSize
    BY <2>2, SqConstants, ModOnce
  <2>4. SqAt(q, i) = x % SqSize
    BY <2>1 DEF SqAt
  <2>. QED  BY <1>1, <2>1, <2>3, <2>4, SqConstants
<1>3. ASSUME NEW i \in 0 .. SqSize
      PROVE  SqAt(q, i) \in SqSlots
  <2>1. PICK h \in 0 .. SqSize - 1 : h = q.head
    BY <1>1
  <2>2. SqAt(q, i) = IF h + i < SqSize THEN h + i ELSE h + i - SqSize
    BY <1>2, <2>1
  <2>. QED  BY <2>2, SqAssumption DEF SqSlots
<1>4. ASSUME NEW i \in 0 .. SqSize - 1, NEW j \in 0 .. SqSize - 1, SqAt(q, i) = SqAt(q, j)
      PROVE  i = j
  <2>1. i \in 0 .. SqSize /\ j \in 0 .. SqSize
    BY SqConstants
  <2>2. PICK h \in 0 .. SqSize - 1 : h = q.head
    BY <1>1
  <2>3. /\ SqAt(q, i) = IF h + i < SqSize THEN h + i ELSE h + i - SqSize
        /\ SqAt(q, j) = IF h + j < SqSize THEN h + j ELSE h + j - SqSize
    BY <1>2, <2>1, <2>2
  <2>4. (IF h + i < SqSize THEN h + i ELSE h + i - SqSize)
          = (IF h + j < SqSize THEN h + j ELSE h + j - SqSize)
    BY <1>4, <2>3
  <2>. QED  BY <2>4, SqAssumption
<1>5. SqAt(q, 0) = q.head /\ SqAt(q, SqSize) = q.head
  <2>1. 0 \in 0 .. SqSize /\ SqSize \in 0 .. SqSize
    BY SqConstants
  <2>2. /\ SqAt(q, 0) = IF q.head + 0 < SqSize THEN q.head + 0 ELSE q.head + 0 - SqSize
        /\ SqAt(q, SqSize) = IF q.head + SqSize < SqSize THEN q.head + SqSize
                              ELSE q.head + SqSize - SqSize
    BY <1>2, <2>1
  <2>. QED  BY <1>1, <2>2, SqConstants
<1>. QED  BY <1>2, <1>3, <1>4, <1>5

LEMMA SqLessParts ==
  ASSUME NEW q, SqQueue(q), NEW k \in 0 .. q.count
  PROVE  /\ SqQueue(SqLess(q, k))
         /\ SqLess(q, k).head = SqAt(q, k) /\ SqLess(q, k).count = q.count - k
         /\ SqLess(q, k).tail = q.tail
         /\ \A i \in 0 .. SqSize - 1 :
              SqLess(q, k).entries[SqAt(q, i)] = IF i < k THEN SqFree ELSE q.entries[SqAt(q, i)]
<1>. DEFINE e == [s \in SqSlots |-> IF \E i \in 0 .. k - 1 : s = SqAt(q, i)
                                    THEN SqFree ELSE q.entries[s]]
            h == SqAt(q, k)
            c == q.count - k
<1>1. k \in 0 .. SqSize /\ c \in 0 .. SqSize
  BY SqConstants DEF SqQueue
<1>2. h \in SqSlots
  BY <1>1, SqPlaces
<1>3. SqLess(q, k) = [q EXCEPT !.entries = e, !.head = h, !.count = c]
  BY DEF SqLess
<1>4. ASSUME NEW i \in 0 .. SqSize - 1
      PROVE  e[SqAt(q, i)] = IF i < k THEN SqFree ELSE q.entries[SqAt(q, i)]
  <2>1. SqAt(q, i) \in SqSlots
    BY SqPlaces, SqConstants
  <2>2. (\E j \in 0 .. k - 1 : SqAt(q, i) = SqAt(q, j)) <=> i < k
    BY <1>1, SqPlaces, SqConstants, SMTT(60)
  <2>. QED  BY <2>1, <2>2
<1>5. e = [s \in SqSlots |-> e[s]]
  OBVIOUS
<1>. HIDE DEF e, h, c
<1>6. SqLess(q, k) = [entries |-> e, head |-> h, tail |-> q.tail, count |-> c]
  BY <1>3 DEF SqQueue
<1>7. SqLess(q, k).entries = e /\ SqLess(q, k).head = h /\ SqLess(q, k).tail = q.tail
      /\ SqLess(q, k).count = c
  BY <1>6
<1>8. SqQueue(SqLess(q, k))
  BY <1>1, <1>2, <1>5, <1>6, <1>7 DEF SqQueue
<1>. QED  BY <1>4, <1>7, <1>8 DEF h, c

\* The first k frames go from the queue and from the history.
LEMMA SqLessMatches ==
  ASSUME NEW q, NEW ref, NEW clock, SqMatches(q, ref, clock), NEW k \in 0 .. Len(ref)
  PROVE  SqMatches(SqLess(q, k), SubSeq(ref, k + 1, Len(ref)), clock)
<1>. DEFINE p == SqLess(q, k)
            n == Len(ref)
            kept == SubSeq(ref, k + 1, Len(ref))
<1>1. SqQueue(q) /\ n = q.count /\ n \in 0 .. SqSize /\ ref \in Seq(SqHeld) /\ q.head \in SqSlots
  BY DEF SqMatches, SqQueue
<1>2. /\ SqQueue(p) /\ p.head = SqAt(q, k) /\ p.count = n - k /\ p.tail = q.tail
      /\ \A i \in 0 .. SqSize - 1 :
           p.entries[SqAt(q, i)] = IF i < k THEN SqFree ELSE q.entries[SqAt(q, i)]
  BY <1>1, SqLessParts
<1>3. kept \in Seq(SqHeld) /\ Len(kept) = n - k /\ \A i \in 1 .. n - k : kept[i] = ref[i + k]
  BY <1>1
<1>. HIDE DEF p, kept
<1>4. ASSUME NEW i \in 0 .. SqSize
      PROVE  /\ i + k <= SqSize => SqAt(p, i) = SqAt(q, i + k)
             /\ i + k > SqSize => SqAt(p, i) = SqAt(q, i + k - SqSize)
  <2>1. k \in 0 .. SqSize /\ q.head \in 0 .. SqSize - 1
    BY <1>1, SqConstants
  <2>2. SqAt(q, k) = IF q.head + k < SqSize THEN q.head + k ELSE q.head + k - SqSize
    BY <1>1, <2>1, SqPlaces
  <2>3. SqAt(p, i) = IF p.head + i < SqSize THEN p.head + i ELSE p.head + i - SqSize
    BY <1>2, SqPlaces
  <2>4. CASE i + k <= SqSize
    <3>1. PICK j \in 0 .. SqSize : j = i + k
      BY <2>1, <2>4
    <3>2. SqAt(q, j) = IF q.head + j < SqSize THEN q.head + j ELSE q.head + j - SqSize
      BY <1>1, SqPlaces
    <3>. QED  BY <1>2, <2>1, <2>2, <2>3, <2>4, <3>1, <3>2, SqConstants, SMTT(60)
  <2>5. CASE i + k > SqSize
    <3>1. PICK j \in 0 .. SqSize : j = i + k - SqSize
      BY <2>1, <2>5, SqConstants
    <3>2. SqAt(q, j) = IF q.head + j < SqSize THEN q.head + j ELSE q.head + j - SqSize
      BY <1>1, SqPlaces
    <3>. QED  BY <1>2, <2>1, <2>2, <2>3, <2>5, <3>1, <3>2, SqConstants, SMTT(60)
  <2>. QED  BY <2>1, <2>4, <2>5, SqConstants
<1>5. ASSUME NEW i \in 1 .. n - k
      PROVE  SqHolds(p.entries[SqAt(p, i - 1)], kept[i], clock)
  <2>1. PICK j \in 1 .. n : j = i + k
    BY <1>1
  <2>2. SqHolds(q.entries[SqAt(q, j - 1)], ref[j], clock)
    BY DEF SqMatches
  <2>3. j - 1 \in 0 .. SqSize - 1 /\ ~(j - 1 < k)
    BY <1>1, <2>1, SqConstants
  <2>4. PICK m \in 0 .. SqSize : m = i - 1
    BY <1>1, SqConstants
  <2>5. SqAt(p, i - 1) = SqAt(q, j - 1)
    <3>1. m + k = j - 1 /\ m + k <= SqSize
      BY <1>1, <2>1, <2>4, SqConstants
    <3>. QED  BY <1>4, <2>4, <3>1
  <2>. QED  BY <1>2, <1>3, <2>1, <2>2, <2>3, <2>5
<1>6. ASSUME NEW i \in n - k .. SqSize - 1
      PROVE  p.entries[SqAt(p, i)] = SqFree
  <2>1. i \in 0 .. SqSize - 1 /\ k \in 0 .. n
    BY <1>1, SqConstants
  <2>2. CASE i + k < SqSize
    <3>1. PICK j \in n .. SqSize - 1 : j = i + k
      BY <1>1, <2>1, <2>2, SqConstants
    <3>2. q.entries[SqAt(q, j)] = SqFree
      BY DEF SqMatches
    <3>3. j \in 0 .. SqSize - 1 /\ SqAt(p, i) = SqAt(q, j)
      BY <1>1, <1>4, <2>1, <2>2, <3>1, SqConstants
    <3>. QED  BY <1>2, <3>2, <3>3
  <2>3. CASE i + k >= SqSize
    <3>1. PICK j \in 0 .. SqSize - 1 : j = i + k - SqSize
      BY <1>1, <2>1, <2>3, SqConstants
    <3>2. j < k
      BY <1>1, <2>1, <3>1, SqConstants
    <3>3. SqAt(p, i) = SqAt(q, j)
      <4>1. CASE i + k > SqSize
        BY <1>4, <2>1, <3>1, <4>1, SqConstants
      <4>2. CASE i + k = SqSize
        <5>1. SqAt(p, i) = SqAt(q, SqSize)
          BY <1>4, <2>1, <4>2, SqConstants
        <5>2. j = 0
          BY <1>1, <2>1, <3>1, <4>2, SqConstants
        <5>. QED  BY <1>1, <5>1, <5>2, SqPlaces
      <4>. QED  BY <1>1, <2>1, <2>3, <4>1, <4>2, SqConstants
    <3>. QED  BY <1>2, <3>2, <3>3
  <2>. QED  BY <1>1, <2>1, <2>2, <2>3, SqConstants
<1>7. p.tail = SqAt(p, p.count)
  <2>1. PICK c \in 0 .. SqSize : c = n - k
    BY <1>1, SqConstants
  <2>2. c + k = n /\ c + k <= SqSize
    BY <1>1, <2>1, SqConstants
  <2>3. SqAt(p, c) = SqAt(q, n)
    BY <1>4, <2>2
  <2>4. q.tail = SqAt(q, n)
    BY <1>1 DEF SqMatches
  <2>. QED  BY <1>2, <2>1, <2>3, <2>4
<1>8. ASSUME NEW i \in 1 .. n - k, NEW j \in 1 .. n - k, i < j
      PROVE  kept[i].age >= kept[j].age
  <2>1. i + k \in 1 .. n /\ j + k \in 1 .. n /\ i + k < j + k
    BY <1>1, <1>8
  <2>. QED  BY <1>3, <2>1 DEF SqMatches
<1>9. clock \in 0 .. SqMod - 1
  BY DEF SqMatches
<1>. QED  BY <1>2, <1>3, <1>5, <1>6, <1>7, <1>8, <1>9 DEF SqMatches, p, kept

\* What the queue finds expired are the frames that are too old.
LEMMA SqExpiryExact ==
  ASSUME SqInv
  PROVE  /\ SqTrueOld \in 0 .. Len(sqRef)
         /\ SqExpired(sq, sqNow) = SqLess(sq, SqTrueOld)
<1>. DEFINE n == Len(sqRef)
            old(i) == sqRef[i].age > SqExpiry
            gone(i) == LET e == sq.entries[SqAt(sq, i)] IN ~e.valid \/ SqOld(e, sqNow)
            Split(k) == \A i \in 1 .. n : old(i) <=> i <= k
<1>1. sqRef \in Seq(SqHeld) /\ n \in Nat /\ n = sq.count /\ DOMAIN sqRef = 1 .. n
  BY DEF SqInv, SqMatches
<1>2. \A i \in 1 .. n : sqRef[i].age \in Nat
  <2>1. \A i \in 1 .. n : sqRef[i] \in SqHeld
    BY <1>1
  <2>. QED  BY <2>1 DEF SqHeld
<1>3. \A i, j \in 1 .. n : i < j /\ old(j) => old(i)
  BY <1>2, SqConstants DEF SqInv, SqMatches
<1>4. \E k \in 0 .. n : Split(k)
  <2>. DEFINE S == {i \in 1 .. n : old(i)}
  <2>. HIDE DEF old
  <2>1. CASE S = {}
    <3>1. Split(0)
      BY <1>1, <2>1
    <3>. QED  BY <1>1, <3>1
  <2>2. CASE S # {}
    <3>1. S \subseteq 0 .. n
      BY <1>1
    <3>. HIDE DEF S
    <3>2. PICK k \in S : \A i \in S : k >= i
      BY <1>1, <2>2, <3>1, GreatestMember
    <3>3. Split(k) /\ k \in 1 .. n
      BY <1>1, <1>3, <3>2 DEF S
    <3>. QED  BY <1>1, <3>3
  <2>. QED  BY <2>1, <2>2
<1>5. SqTrueOld = CHOOSE k \in 0 .. n : Split(k)
  BY <1>1 DEF SqTrueOld
<1>6. SqTrueOld \in 0 .. n /\ Split(SqTrueOld)
  <2>. HIDE DEF old, Split
  <2>. QED  BY <1>4, <1>5
<1>7. ASSUME NEW i \in 0 .. n - 1
      PROVE  gone(i) <=> old(i + 1)
  <2>1. PICK j \in 1 .. n : j = i + 1
    BY <1>1
  <2>2. SqHolds(sq.entries[SqAt(sq, j - 1)], sqRef[j], sqNow) /\ j - 1 = i
    BY <1>1, <2>1 DEF SqInv, SqMatches
  <2>. QED  BY <2>1, <2>2 DEF SqHolds, SqOld
<1>. DEFINE Stops(k) == (\A i \in 0 .. k - 1 : gone(i)) /\ (k = n \/ ~gone(k))
<1>8. SqExpired(sq, sqNow) = SqLess(sq, CHOOSE k \in 0 .. n : Stops(k))
  BY <1>1 DEF SqExpired
<1>. HIDE DEF gone, old
<1>9. ASSUME NEW k \in 0 .. n
      PROVE  Stops(k) <=> k = SqTrueOld
  <2>1. PICK m \in 0 .. n : m = SqTrueOld /\ Split(m)
    BY <1>6
  <2>2. \A i \in 0 .. n - 1 : gone(i) <=> i + 1 <= m
    <3>. SUFFICES ASSUME NEW i \in 0 .. n - 1 PROVE gone(i) <=> i + 1 <= m
      OBVIOUS
    <3>1. i + 1 \in 1 .. n
      BY <1>1
    <3>. QED  BY <1>7, <2>1, <3>1
  <2>3. CASE k = m
    BY <1>1, <2>1, <2>2, <2>3
  <2>4. CASE k < m
    <3>1. k \in 0 .. n - 1 /\ k # n /\ gone(k)
      BY <1>1, <2>1, <2>2, <2>4
    <3>. QED  BY <1>1, <2>1, <2>4, <3>1
  <2>5. CASE k > m
    <3>1. m \in 0 .. n - 1 /\ ~gone(m) /\ m \in 0 .. k - 1
      BY <1>1, <2>1, <2>2, <2>5
    <3>. QED  BY <1>1, <2>1, <2>5, <3>1
  <2>. QED  BY <1>1, <2>1, <2>3, <2>4, <2>5
<1>10. (CHOOSE k \in 0 .. n : Stops(k)) = SqTrueOld
  <2>. HIDE DEF Stops
  <2>. QED  BY <1>6, <1>9
<1>. QED  BY <1>6, <1>8, <1>10

LEMMA SqFresh ==
  ASSUME SqInv
  PROVE  SqMatches(SqExpired(sq, sqNow), SqTrueFresh, sqNow)
<1>1. SqTrueOld \in 0 .. Len(sqRef) /\ SqExpired(sq, sqNow) = SqLess(sq, SqTrueOld)
  BY SqExpiryExact
<1>2. SqTrueFresh = SubSeq(sqRef, SqTrueOld + 1, Len(sqRef))
  BY DEF SqTrueFresh
<1>. HIDE DEF SqTrueFresh
<1>. QED  BY <1>1, <1>2, SqLessMatches DEF SqInv

LEMMA SqStart == SqInit => SqInv
<1>. SUFFICES ASSUME SqInit PROVE SqInv
  OBVIOUS
<1>1. /\ sq = [entries |-> [i \in SqSlots |-> SqFree], head |-> 0, tail |-> 0, count |-> 0]
      /\ sqNow \in 0 .. SqMod - 1 /\ sqRef = <<>>
  BY DEF SqInit
<1>. DEFINE e == [i \in SqSlots |-> SqFree]
<1>2. e = [s \in SqSlots |-> e[s]] /\ \A s \in SqSlots : e[s] = SqFree
  OBVIOUS
<1>3. sq.entries = e /\ sq.head = 0 /\ sq.tail = 0 /\ sq.count = 0
  BY <1>1
<1>. HIDE DEF e
<1>4. SqQueue(sq)
  BY <1>1, <1>2, <1>3, SqConstants DEF SqQueue, e
<1>5. SqAt(sq, 0) = 0 /\ \A i \in 0 .. SqSize : SqAt(sq, i) \in SqSlots
  BY <1>3, <1>4, SqPlaces
<1>6. sqRef \in Seq(SqHeld) /\ Len(sqRef) = 0
  BY <1>1
<1>7. \A i \in 0 .. SqSize - 1 : i \in 0 .. SqSize
  BY SqConstants
<1>8. \A i \in Len(sqRef) .. SqSize - 1 : sq.entries[SqAt(sq, i)] = SqFree
  BY <1>2, <1>3, <1>5, <1>6, <1>7
<1>9. 1 .. Len(sqRef) = {}
  BY <1>6
<1>10. sq.count = Len(sqRef) /\ sq.tail = SqAt(sq, sq.count)
  BY <1>3, <1>5, <1>6
<1>. QED  BY <1>1, <1>4, <1>6, <1>8, <1>9, <1>10 DEF SqInv, SqMatches

\* A frame is put into the slot at the tail of a queue that is not full.
LEMMA SqPutMatches ==
  ASSUME NEW q, NEW ref, NEW clock, SqMatches(q, ref, clock), Len(ref) < SqSize, NEW f \in SqFrames,
         NEW e, e.valid, e.frame = f, e.at = clock, NEW r \in SqHeld, r.frame = f, r.age = 0
  PROVE  SqMatches([q EXCEPT !.entries[q.tail] = e, !.tail = (@ + 1) % SqSize, !.count = @ + 1],
                   Append(ref, r), clock)
<1>. DEFINE n == Len(ref)
            p == [q EXCEPT !.entries[q.tail] = e, !.tail = (@ + 1) % SqSize, !.count = @ + 1]
            more == Append(ref, r)
            es == [q.entries EXCEPT ![q.tail] = e]
            t == (q.tail + 1) % SqSize
<1>1. /\ SqQueue(q) /\ n = q.count /\ n \in Nat /\ n < SqSize /\ ref \in Seq(SqHeld)
      /\ q.tail = SqAt(q, n) /\ clock \in 0 .. SqMod - 1 /\ q.head \in SqSlots /\ q.tail \in SqSlots
  BY DEF SqMatches, SqQueue
<1>2. p = [entries |-> es, head |-> q.head, tail |-> t, count |-> n + 1]
  <2>1. p = [q EXCEPT !.entries = es, !.tail = t, !.count = n + 1]
    BY <1>1
  <2>. HIDE DEF es, t, p
  <2>2. q = [entries |-> q.entries, head |-> q.head, tail |-> q.tail, count |-> q.count]
    BY <1>1 DEF SqQueue
  <2>. QED  BY <2>1, <2>2
<1>3. /\ es = [s \in SqSlots |-> es[s]]
      /\ \A s \in SqSlots : es[s] = IF s = q.tail THEN e ELSE q.entries[s]
  BY <1>1 DEF SqQueue
<1>4. t \in SqSlots /\ t = IF q.tail + 1 = SqSize THEN 0 ELSE q.tail + 1
  <2>1. t = IF q.tail + 1 = SqSize THEN 0 ELSE q.tail + 1
    BY <1>1, SqConstants, ClockNext
  <2>. QED  BY <1>1, <2>1, SqConstants
<1>. HIDE DEF es, t, p
<1>5. p.entries = es /\ p.head = q.head /\ p.tail = t /\ p.count = n + 1
  BY <1>2
<1>6. SqQueue(p)
  <2>1. n + 1 \in 0 .. SqSize
    BY <1>1, SqConstants
  <2>. QED  BY <1>1, <1>2, <1>3, <1>4, <1>5, <2>1 DEF SqQueue
<1>7. \A i \in 0 .. SqSize : SqAt(p, i) = SqAt(q, i)
  BY <1>5 DEF SqAt
<1>8. /\ more \in Seq(SqHeld) /\ Len(more) = n + 1 /\ more[n + 1] = r
      /\ \A i \in 1 .. n : more[i] = ref[i]
  BY <1>1
<1>. HIDE DEF more
<1>9. ASSUME NEW i \in 1 .. n + 1
      PROVE  SqHolds(p.entries[SqAt(p, i - 1)], more[i], clock)
  <2>1. i - 1 \in 0 .. SqSize - 1 /\ n \in 0 .. SqSize - 1 /\ i - 1 \in 0 .. SqSize
    BY <1>1, SqConstants
  <2>2. SqAt(q, i - 1) \in SqSlots /\ (SqAt(q, i - 1) = q.tail <=> i - 1 = n)
    BY <1>1, <2>1, SqPlaces
  <2>3. CASE i = n + 1
    <3>1. (clock + SqMod - clock) % SqMod = 0
      BY <1>1, SqConstants, AgeZero
    <3>2. p.entries[SqAt(p, i - 1)] = e /\ more[i] = r
      BY <1>1, <1>3, <1>5, <1>7, <1>8, <2>1, <2>2, <2>3
    <3>. QED  BY <1>1, <3>1, <3>2 DEF SqHolds
  <2>4. CASE i \in 1 .. n
    <3>1. p.entries[SqAt(p, i - 1)] = q.entries[SqAt(q, i - 1)] /\ more[i] = ref[i]
      BY <1>1, <1>3, <1>5, <1>7, <1>8, <2>1, <2>2, <2>4
    <3>. QED  BY <2>4, <3>1 DEF SqMatches
  <2>. QED  BY <1>1, <2>3, <2>4
<1>10. ASSUME NEW i \in n + 1 .. SqSize - 1
       PROVE  p.entries[SqAt(p, i)] = SqFree
  <2>1. i \in 0 .. SqSize - 1 /\ n \in 0 .. SqSize - 1 /\ i \in n .. SqSize - 1 /\ i # n
    BY <1>1, SqConstants
  <2>2. SqAt(q, i) \in SqSlots /\ SqAt(q, i) # q.tail /\ SqAt(p, i) = SqAt(q, i)
    <3>1. i \in 0 .. SqSize
      BY <2>1, SqConstants
    <3>2. SqAt(q, i) # SqAt(q, n)
      BY <1>1, <2>1, SqPlaces
    <3>. QED  BY <1>1, <1>7, <3>1, <3>2, SqPlaces
  <2>3. q.entries[SqAt(q, i)] = SqFree
    BY <2>1 DEF SqMatches
  <2>. QED  BY <1>3, <1>5, <2>2, <2>3
<1>11. p.tail = SqAt(p, p.count)
  <2>1. n + 1 \in 0 .. SqSize /\ n \in 0 .. SqSize
    BY <1>1, SqConstants
  <2>2. /\ SqAt(q, n + 1) = IF q.head + (n + 1) < SqSize THEN q.head + (n + 1)
                            ELSE q.head + (n + 1) - SqSize
        /\ SqAt(q, n) = IF q.head + n < SqSize THEN q.head + n ELSE q.head + n - SqSize
    BY <1>1, <2>1, SqPlaces
  <2>3. SqAt(p, n + 1) = SqAt(q, n + 1)
    BY <1>7, <2>1
  <2>4. t = IF q.tail + 1 = SqSize THEN 0 ELSE q.tail + 1
    BY <1>1, SqConstants, ClockNext DEF SqSlots, t
  <2>5. t = SqAt(q, n + 1)
    <3>. HIDE DEF t
    <3>. QED  BY <1>1, <2>2, <2>4, SqConstants, SMTT(60) DEF SqSlots
  <2>. QED  BY <1>1, <1>4, <1>5, <2>3, <2>5
<1>12. ASSUME NEW i \in 1 .. n + 1, NEW j \in 1 .. n + 1, i < j
       PROVE  more[i].age >= more[j].age
  <2>1. i \in 1 .. n /\ (j = n + 1 \/ j \in 1 .. n)
    BY <1>1, <1>12
  <2>2. ref[i].age \in Nat
    <3>1. ref[i] \in SqHeld
      BY <1>1, <2>1
    <3>. QED  BY <3>1 DEF SqHeld
  <2>3. CASE j = n + 1
    BY <1>8, <2>1, <2>2, <2>3
  <2>4. CASE j \in 1 .. n
    BY <1>8, <1>12, <2>1, <2>4 DEF SqMatches
  <2>. QED  BY <2>1, <2>3, <2>4
<1>. QED  BY <1>1, <1>5, <1>6, <1>8, <1>9, <1>10, <1>11, <1>12 DEF SqMatches, p, more

LEMMA SqEnqueueInv ==
  ASSUME SqInv, NEW f \in SqFrames, SqEnqueue(f)
  PROVE  SqInv'
<1>1. PICK q : q = SqExpired(sq, sqNow)
  OBVIOUS
<1>2. PICK ref : ref = SqTrueFresh
  OBVIOUS
<1>3. SqMatches(q, ref, sqNow) /\ q.count = Len(ref) /\ Len(ref) \in 0 .. SqSize
  <2>1. SqMatches(q, ref, sqNow)
    BY <1>1, <1>2, SqFresh
  <2>. QED  BY <2>1 DEF SqMatches, SqQueue
<1>. DEFINE yes == TRUE
            e == [valid |-> yes, frame |-> f, at |-> sqNow]
            r == [frame |-> f, age |-> 0]
<1>4. /\ sq' = IF q.count >= SqSize THEN q
               ELSE [q EXCEPT !.entries[q.tail] = e, !.tail = (@ + 1) % SqSize, !.count = @ + 1]
      /\ sqRef' = IF Len(ref) >= SqSize THEN ref ELSE Append(ref, r)
      /\ sqNow' = sqNow
  BY <1>1, <1>2 DEF SqEnqueue
<1>5. yes
  OBVIOUS
<1>. HIDE DEF yes
<1>6. e.valid /\ e.frame = f /\ e.at = sqNow
  BY <1>5
<1>7. r \in SqHeld /\ r.frame = f /\ r.age = 0
  BY DEF SqHeld
<1>. HIDE DEF e, r
<1>8. CASE Len(ref) >= SqSize
  BY <1>3, <1>4, <1>8 DEF SqInv
<1>9. CASE Len(ref) < SqSize
  <2>1. ~(Len(ref) >= SqSize)
    BY <1>3, <1>9, SqConstants
  <2>2. SqMatches([q EXCEPT !.entries[q.tail] = e, !.tail = (@ + 1) % SqSize, !.count = @ + 1],
                  Append(ref, r), sqNow)
    BY <1>3, <1>6, <1>7, <1>9, SqPutMatches, Zenon
  <2>. QED  BY <1>3, <1>4, <2>1, <2>2 DEF SqInv
<1>. QED  BY <1>3, <1>8, <1>9, SqConstants

LEMMA SqTurnInv ==
  ASSUME SqInv, NEW room \in BOOLEAN, SqTurn(room)
  PROVE  SqInv'
<1>1. PICK q : q = SqExpired(sq, sqNow)
  OBVIOUS
<1>2. PICK ref : ref = SqTrueFresh
  OBVIOUS
<1>3. SqMatches(q, ref, sqNow) /\ q.count = Len(ref) /\ Len(ref) \in 0 .. SqSize
      /\ ref \in Seq(SqHeld)
  <2>1. SqMatches(q, ref, sqNow)
    BY <1>1, <1>2, SqFresh
  <2>. QED  BY <2>1 DEF SqMatches, SqQueue
<1>4. /\ sq' = SqLess(q, IF q.count > 0 /\ room THEN 1 ELSE 0)
      /\ sqRef' = IF room /\ ref # <<>> THEN Tail(ref) ELSE ref
      /\ sqNow' = sqNow
  BY <1>1, <1>2 DEF SqTurn
<1>5. PICK k : k = IF Len(ref) > 0 /\ room THEN 1 ELSE 0
  OBVIOUS
<1>6. k \in 0 .. Len(ref)
  BY <1>3, <1>5
<1>7. SqMatches(SqLess(q, k), SubSeq(ref, k + 1, Len(ref)), sqNow)
  BY <1>3, <1>6, SqLessMatches
<1>8. sqRef' = SubSeq(ref, k + 1, Len(ref))
  <2>1. CASE k = 1
    <3>1. room /\ ref # <<>> /\ Tail(ref) = SubSeq(ref, 2, Len(ref))
      BY <1>3, <1>5, <2>1
    <3>. QED  BY <1>4, <2>1, <3>1
  <2>2. CASE k = 0
    <3>1. ~room \/ ref = <<>>
      BY <1>3, <1>5, <2>2
    <3>2. SubSeq(ref, 1, Len(ref)) = ref
      BY <1>3
    <3>. QED  BY <1>4, <2>2, <3>1, <3>2
  <2>. QED  BY <1>5, <2>1, <2>2
<1>. QED  BY <1>3, <1>4, <1>5, <1>7, <1>8 DEF SqInv

LEMMA SqClockInv ==
  ASSUME SqInv, SqClock
  PROVE  SqInv'
<1>. DEFINE n == Len(sqRef)
<1>1. /\ sqRef \in Seq(SqHeld) /\ n \in Nat /\ DOMAIN sqRef = 1 .. n /\ sqNow \in 0 .. SqMod - 1
      /\ SqQueue(sq) /\ n \in 0 .. SqSize
  BY DEF SqInv, SqMatches, SqQueue
<1>2. /\ \A i \in 1 .. n : sqRef[i].age < SqMod - 1
      /\ sqNow' = (sqNow + 1) % SqMod /\ sq' = sq
      /\ sqRef' = [i \in 1 .. n |-> [sqRef[i] EXCEPT !.age = @ + 1]]
  BY <1>1 DEF SqClock
<1>3. ASSUME NEW i \in 1 .. n
      PROVE  /\ sqRef[i] \in SqHeld /\ sqRef'[i] \in SqHeld /\ sqRef'[i].frame = sqRef[i].frame
             /\ sqRef'[i].age = sqRef[i].age + 1
  <2>1. sqRef[i] \in SqHeld
    BY <1>1
  <2>2. sqRef'[i] = [sqRef[i] EXCEPT !.age = @ + 1]
    BY <1>2
  <2>. QED  BY <2>1, <2>2 DEF SqHeld
<1>4. sqRef' \in Seq(SqHeld) /\ Len(sqRef') = n
  <2>1. DOMAIN sqRef' = 1 .. n /\ sqRef' = [i \in 1 .. n |-> sqRef'[i]]
    BY <1>2
  <2>. QED  BY <1>1, <1>3, <2>1, FunctionSeq
<1>5. sqNow' \in 0 .. SqMod - 1
  BY <1>1, <1>2, SqConstants
<1>6. ASSUME NEW i \in 1 .. n
      PROVE  SqHolds(sq.entries[SqAt(sq, i - 1)], sqRef'[i], sqNow')
  <2>. DEFINE e == sq.entries[SqAt(sq, i - 1)]
  <2>1. SqHolds(e, sqRef[i], sqNow) /\ sqRef[i].age < SqMod - 1
    BY <1>2 DEF SqInv, SqMatches
  <2>. HIDE DEF e
  <2>2. e.at \in 0 .. SqMod - 1 /\ (sqNow + SqMod - e.at) % SqMod < SqMod - 1
    BY <2>1 DEF SqHolds
  <2>3. (sqNow' + SqMod - e.at) % SqMod = ((sqNow + SqMod - e.at) % SqMod) + 1
    BY <1>1, <1>2, <2>2, SqConstants, ClockStep
  <2>. QED  BY <1>3, <2>1, <2>3 DEF SqHolds, e
<1>7. \A i \in 0 .. SqSize : SqAt(sq', i) = SqAt(sq, i)
  BY <1>2
<1>8. ASSUME NEW i \in 1 .. n, NEW j \in 1 .. n, i < j
      PROVE  sqRef'[i].age >= sqRef'[j].age
  <2>1. sqRef[i].age >= sqRef[j].age
    BY <1>8 DEF SqInv, SqMatches
  <2>2. sqRef[i].age \in Nat /\ sqRef[j].age \in Nat
    BY <1>3 DEF SqHeld
  <2>. QED  BY <1>3, <2>1, <2>2
<1>9. /\ SqQueue(sq) /\ sq.count = n /\ sq.tail = SqAt(sq, sq.count)
      /\ \A i \in n .. SqSize - 1 : sq.entries[SqAt(sq, i)] = SqFree
  BY DEF SqInv, SqMatches
<1>10. SqMatches(sq, sqRef', sqNow')
  BY <1>4, <1>5, <1>6, <1>8, <1>9 DEF SqMatches
<1>. QED  BY <1>2, <1>10 DEF SqInv

LEMMA SqInductive == SqInv /\ [SqNext]_sqVars => SqInv'
<1>1. SqInv /\ UNCHANGED sqVars => SqInv'
  BY DEF SqInv, sqVars
<1>. QED  BY <1>1, SqEnqueueInv, SqTurnInv, SqClockInv DEF SqNext

LEMMA SqKept == SqInv => OutboxKept
<1>. SUFFICES ASSUME SqInv PROVE OutboxKept
  OBVIOUS
<1>1. /\ SqQueue(sq) /\ sq.count = Len(sqRef) /\ sq.tail = SqAt(sq, sq.count)
      /\ Len(sqRef) \in 0 .. SqSize
  BY DEF SqInv, SqMatches, SqQueue
<1>2. ASSUME NEW i \in 0 .. SqSize - 1, i < Len(sqRef)
      PROVE  sq.entries[SqAt(sq, i)].valid /\ sq.entries[SqAt(sq, i)].frame = sqRef[i + 1].frame
  <2>1. PICK j \in 1 .. Len(sqRef) : j = i + 1
    BY <1>1, <1>2, SqConstants
  <2>2. SqHolds(sq.entries[SqAt(sq, j - 1)], sqRef[j], sqNow) /\ j - 1 = i
    BY <1>1, <2>1 DEF SqInv, SqMatches
  <2>. QED  BY <2>1, <2>2 DEF SqHolds
<1>3. ASSUME NEW i \in 0 .. SqSize - 1, ~(i < Len(sqRef))
      PROVE  ~sq.entries[SqAt(sq, i)].valid
  <2>1. i \in Len(sqRef) .. SqSize - 1
    BY <1>1, <1>3, SqConstants
  <2>. QED  BY <2>1 DEF SqInv, SqMatches, SqFree
<1>. QED  BY <1>1, <1>2, <1>3 DEF OutboxKept, SqSlots

(***************************************************************************)
(* A frame put in the queue to leave at once is never held behind the      *)
(* jitter of another, one with a due time leaves in the pass that reaches  *)
(* it (main.c:387-520), and the outbox gives out the frames it was given,  *)
(* in their order and while they are fresh (send_queue.c:20-133), whatever *)
(* the sizes of the two queues and wherever the clocks wrap.               *)
(***************************************************************************)
THEOREM TxQueueAlwaysKept == NodeSpec => []TxQueueKept
<1>1. NodeInit => TdInv /\ SqInv
  BY TdStart, SqStart DEF NodeInit
<1>2. TdInv /\ SqInv /\ [NodeNext]_nodeVars => TdInv' /\ SqInv'
  BY PartSteps, TdInductive, SqInductive
<1>3. TdInv /\ SqInv => TxQueueKept
  BY TdKept, SqKept DEF TxQueueKept
<1>. QED  BY <1>1, <1>2, <1>3, PTL DEF NodeSpec, nodeVars

-----------------------------------------------------------------------------
(***************************************************************************)
(* The sensors.                                                            *)
(***************************************************************************)
SnTimes == 0 .. SnMod - 1
SnNames == {"rh", "temp", "vbat", "ds18b20"}

SnStates ==
  [started : BOOLEAN, trigger : SnTimes, readings : SUBSET SnNames, pending : BOOLEAN,
   amKnown : BOOLEAN, vbatKnown : BOOLEAN, amAt : SnTimes,
   ds : {"idle", "converting", "ready", "error"}, dsAt : SnTimes,
   config : [tx : Nat, delta : Nat], old : BOOLEAN]

\* What waits, waits for the conversion of its own trigger; one that failed
\* leaves an empty bundle waiting until the next trigger.
SnWaits(s) ==
  /\ ~s.old
  /\ s.pending => s.ds # "idle" /\ (s.ds # "error" => s.dsAt = s.trigger)
  /\ s.readings # {} => s.pending
  /\ ~s.started => ~s.pending
  /\ "ds18b20" \notin s.readings    \* added only to a bundle that leaves at once

SnInv ==
  /\ sens \in SnStates /\ snNow \in SnTimes
  /\ SnWaits(sens)
  /\ sens.readings # {} => sens.ds = "converting"
  /\ sens.ds = "converting" => SnAge(snNow, sens.dsAt) < ConvTime
  /\ sens.pending => sens.ds \in {"converting", "error"}

LEMMA SnConstants ==
  /\ SnMod \in Nat \ {0} /\ ConvTime \in Nat \ {0} /\ TxFloor \in Nat /\ DeltaFloor \in Nat
  /\ SnSteps \subseteq Nat /\ 0 \in SnTimes
  BY SnAssumption DEF SnTimes

LEMMA SnClampedType ==
  ASSUME NEW c \in SnConfigs
  PROVE  SnClamped(c) \in [tx : Nat, delta : Nat]
<1>1. c.tx \in Nat /\ c.delta \in Nat
  BY SnAssumption DEF SnConfigs
<1>. QED  BY <1>1, SnConstants DEF SnClamped

LEMMA SnStart == SnInit => SnInv
<1>. SUFFICES ASSUME SnInit PROVE SnInv
  OBVIOUS
<1>1. PICK c \in SnConfigs : sens = SnBoot(SnClamped(c))
  BY DEF SnInit
<1>2. sens \in SnStates
  BY <1>1, SnClampedType, SnConstants DEF SnBoot, SnStates
<1>. QED  BY <1>1, <1>2 DEF SnInit, SnInv, SnBoot, SnWaits, SnTimes

LEMMA SentBundle ==
  ASSUME NEW s \in SnStates
  PROVE  /\ SendBundle(s) \in SnStates
         /\ SendBundle(s).readings = {}
         /\ s.readings # {} => ~SendBundle(s).pending
         /\ s.readings = {} => SendBundle(s) = s
         /\ SendBundle(s).ds = s.ds /\ SendBundle(s).dsAt = s.dsAt
         /\ SendBundle(s).old = s.old /\ SendBundle(s).trigger = s.trigger
         /\ SendBundle(s).started = s.started
         /\ SendBundle(s).pending => s.pending
<1>1. CASE s.readings = {}
  BY <1>1 DEF SendBundle
<1>2. CASE s.readings # {}
  BY <1>2 DEF SendBundle, SnStates
<1>. QED  BY <1>1, <1>2

\* A trigger leaves nothing of an earlier bundle, and what it leaves waiting
\* waits for the conversion it started.
LEMMA TriggerWaits ==
  ASSUME NEW s \in SnStates, NEW in \in SnAnswers, NEW t \in SnTimes, ~s.old, s.started
  PROVE  LET r == SnTrigger(s, in, t) IN
         /\ r \in SnStates /\ SnWaits(r) /\ r.started
         /\ r.pending => r.ds = "converting"
         /\ r.readings # {} => r.pending
<1>. DEFINE am == AmDue(s, t) /\ in.amRead
            vbat == "vbat" \in snFitted /\ in.vbatUp
            u == [s EXCEPT !.trigger = t, !.pending = FALSE,
                     !.readings = (IF am THEN {"rh", "temp"} ELSE {})
                                    \cup (IF vbat THEN {"vbat"} ELSE {}),
                     !.amAt = IF AmDue(s, t) THEN t ELSE @,
                     !.amKnown = @ \/ am, !.vbatKnown = @ \/ vbat]
<1>1. in.amRead \in BOOLEAN /\ in.vbatUp \in BOOLEAN /\ in.dsThere \in BOOLEAN
  BY DEF SnAnswers
<1>2. /\ u \in SnStates /\ u.trigger = t /\ ~u.pending /\ ~u.old /\ u.started
      /\ "ds18b20" \notin u.readings
  <2>1. /\ u \in SnStates /\ u.trigger = t /\ ~u.pending /\ ~u.old /\ u.started
    BY <1>1, ZenonT(60) DEF SnStates, SnNames, AmDue
  <2>2. u.readings = (IF am THEN {"rh", "temp"} ELSE {}) \cup (IF vbat THEN {"vbat"} ELSE {})
    <3>. HIDE DEF am, vbat
    <3>. QED  BY DEF SnStates
  <2>3. "ds18b20" \notin u.readings
    <3>. HIDE DEF am, vbat, u
    <3>. QED  BY <2>2
  <2>. QED  BY <2>1, <2>3
<1>3. SnTrigger(s, in, t) = IF "ds18b20" \in snFitted THEN StartConversion(u, in, t) ELSE SendBundle(u)
  BY DEF SnTrigger
<1>. HIDE DEF u
<1>4. CASE "ds18b20" \notin snFitted \/ u.ds = "converting"
  <2>1. SnTrigger(s, in, t) = SendBundle(u)
    BY <1>3, <1>4 DEF StartConversion
  <2>. QED  BY <1>2, <2>1, SentBundle DEF SnWaits
<1>5. CASE "ds18b20" \in snFitted /\ u.ds # "converting" /\ ~in.dsThere
  <2>. DEFINE v == [u EXCEPT !.ds = "error"]
  <2>1. v \in SnStates /\ ~v.pending /\ ~v.old /\ v.started
    BY <1>2 DEF SnStates
  <2>2. SnTrigger(s, in, t) = SendBundle(v)
    BY <1>3, <1>5 DEF StartConversion
  <2>. HIDE DEF v
  <2>. QED  BY <2>1, <2>2, SentBundle DEF SnWaits
<1>6. CASE "ds18b20" \in snFitted /\ u.ds # "converting" /\ in.dsThere
  <2>. DEFINE v == [u EXCEPT !.ds = "converting", !.dsAt = t, !.pending = TRUE]
  <2>1. /\ v \in SnStates /\ v.pending /\ v.ds = "converting" /\ v.dsAt = v.trigger /\ ~v.old /\ v.started
        /\ "ds18b20" \notin v.readings
    BY <1>2 DEF SnStates
  <2>2. SnTrigger(s, in, t) = v
    BY <1>3, <1>6 DEF StartConversion
  <2>. HIDE DEF v
  <2>. QED  BY <2>1, <2>2 DEF SnWaits
<1>. QED  BY <1>1, <1>4, <1>5, <1>6

LEMMA DsAdvances ==
  ASSUME NEW s \in SnStates, NEW in \in SnAnswers, NEW t \in SnTimes, SnWaits(s), s.started
  PROVE  LET r == DsAdvanced(s, in, t) IN
         /\ r \in SnStates /\ SnWaits(r) /\ r.started
         /\ r.ds = "converting" => SnAge(t, r.dsAt) < ConvTime
<1>1. CASE s.ds # "converting" \/ SnAge(t, s.dsAt) < ConvTime
  BY <1>1 DEF DsAdvanced
<1>2. CASE ~(s.ds # "converting" \/ SnAge(t, s.dsAt) < ConvTime)
  <2>. DEFINE r == [s EXCEPT !.ds = IF in.dsThere /\ in.dsCrc THEN "ready" ELSE "error"]
  <2>1. r = DsAdvanced(s, in, t)
    BY <1>2 DEF DsAdvanced
  <2>2. r \in SnStates /\ r.ds \in {"ready", "error"} /\ SnWaits(r) /\ r.started
    BY <1>2 DEF SnStates, SnWaits
  <2>. HIDE DEF r
  <2>. QED  BY <2>1, <2>2
<1>. QED  BY <1>1, <1>2

LEMMA DsCollects ==
  ASSUME NEW s \in SnStates, NEW t \in SnTimes, SnWaits(s), s.started,
         s.ds = "converting" => SnAge(t, s.dsAt) < ConvTime
  PROVE  LET r == DsCollected(s) IN
         /\ r \in SnStates /\ SnWaits(r)
         /\ r.readings # {} => r.ds = "converting"
         /\ r.ds = "converting" => SnAge(t, r.dsAt) < ConvTime
         /\ r.pending => r.ds \in {"converting", "error"}
<1>1. CASE s.pending /\ s.ds = "ready"
  <2>. DEFINE u == [s EXCEPT !.readings = @ \cup {"ds18b20"}, !.ds = "idle",
                            !.old = @ \/ s.dsAt # s.trigger]
  <2>1. u \in SnStates /\ u.readings # {} /\ ~u.old /\ u.ds = "idle" /\ u.started
    BY <1>1 DEF SnStates, SnNames, SnWaits
  <2>2. DsCollected(s) = SendBundle(u)
    BY <1>1 DEF DsCollected
  <2>. HIDE DEF u
  <2>. QED  BY <2>1, <2>2, SentBundle DEF SnWaits
<1>2. CASE s.pending /\ s.ds = "error"
  <2>1. DsCollected(s) = SendBundle(s)
    BY <1>2 DEF DsCollected
  <2>. QED  BY <1>2, <2>1, SentBundle DEF SnWaits
<1>3. CASE ~(s.pending /\ s.ds \in {"ready", "error"})
  <2>1. DsCollected(s) = s
    BY <1>3 DEF DsCollected
  <2>2. s.ds \in {"idle", "converting", "ready", "error"}
    BY DEF SnStates
  <2>. QED  BY <1>3, <2>1, <2>2 DEF SnWaits
<1>. QED  BY <1>1, <1>2, <1>3

LEMMA SnTickInv ==
  ASSUME SnInv, NEW step \in SnSteps, NEW in \in SnAnswers, SnTick(step, in)
  PROVE  SnInv'
<1>. DEFINE t == (snNow + step) % SnMod
            s == IF sens.started THEN sens ELSE [sens EXCEPT !.started = TRUE, !.trigger = t]
            elapsed == SnAge(t, s.trigger)
            heartbeat == elapsed >= s.config.tx
            check == IF ~heartbeat /\ elapsed >= s.config.delta
                     THEN DeltaCheck(s, in, t) ELSE [moved |-> FALSE, s |-> s]
            after == IF heartbeat \/ check.moved THEN SnTrigger(check.s, in, t) ELSE check.s
            advanced == DsAdvanced(after, in, t)
<1>1. snNow \in Nat /\ step \in Nat
  BY SnConstants DEF SnInv, SnTimes
<1>2. t \in SnTimes
  BY <1>1, SnConstants DEF SnTimes
<1>3. snNow' = t /\ sens' = DsCollected(advanced)
  BY DEF SnTick
<1>. HIDE DEF t
<1>4. s \in SnStates /\ SnWaits(s) /\ s.started
  BY <1>2 DEF SnInv, SnWaits, SnStates
<1>. HIDE DEF s
<1>5. check.s \in SnStates /\ SnWaits(check.s) /\ check.s.started
  <2>1. CASE check.s = s
    BY <1>4, <2>1
  <2>2. CASE check.s = [s EXCEPT !.amAt = t]
    BY <1>2, <1>4, <2>2 DEF SnStates, SnWaits
  <2>. QED  BY <2>1, <2>2 DEF DeltaCheck
<1>. HIDE DEF check
<1>6. after \in SnStates /\ SnWaits(after) /\ after.started
  <2>1. ~check.s.old
    BY <1>5 DEF SnWaits
  <2>. QED  BY <1>2, <1>5, <2>1, TriggerWaits
<1>. HIDE DEF after
<1>7. advanced \in SnStates /\ SnWaits(advanced) /\ advanced.started
      /\ (advanced.ds = "converting" => SnAge(t, advanced.dsAt) < ConvTime)
  BY <1>2, <1>6, DsAdvances
<1>. HIDE DEF advanced
<1>8. LET r == DsCollected(advanced) IN
         /\ r \in SnStates /\ SnWaits(r)
         /\ r.readings # {} => r.ds = "converting"
         /\ r.ds = "converting" => SnAge(t, r.dsAt) < ConvTime
         /\ r.pending => r.ds \in {"converting", "error"}
  BY <1>2, <1>7, DsCollects
<1>. QED  BY <1>2, <1>3, <1>8 DEF SnInv

LEMMA SnInductive == SnInv /\ [SnNext]_snVars => SnInv'
<1>1. SnInv /\ UNCHANGED snVars => SnInv'
  BY DEF SnInv, snVars
<1>2. ASSUME SnInv, NEW c \in SnConfigs, SnConfigure(c) PROVE SnInv'
  <2>1. sens' = [sens EXCEPT !.config = SnClamped(c)] /\ snNow' = snNow
    BY <1>2 DEF SnConfigure
  <2>2. sens' \in SnStates
    BY <1>2, <2>1, SnClampedType DEF SnInv, SnStates
  <2>. QED  BY <1>2, <2>1, <2>2 DEF SnInv, SnStates, SnWaits
<1>. QED  BY <1>1, <1>2, SnTickInv DEF SnNext

LEMMA SnTimely == SnInv => BundlesTimely
  BY DEF SnInv, SnWaits, BundlesTimely

-----------------------------------------------------------------------------
(***************************************************************************)
(* The channels.  Global is never left, so there is always one to fall     *)
(* back to, and what was saved was so too.                                 *)
(***************************************************************************)
ChTables == [joined : SUBSET Channels, default : SUBSET Channels, index : Channels]

ChInv ==
  /\ chTable \in ChTables /\ DefaultJoined /\ 0 \in chTable.joined
  /\ chSaved = <<>> \/ \E t \in ChTables :
       /\ chSaved = <<t>> /\ 0 \in t.joined
       /\ \E c \in t.joined : t.default = {c}

LEMMA ChStart == ChInit => ChInv
<1>. SUFFICES ASSUME ChInit PROVE ChInv
  OBVIOUS
<1>. QED  BY ChAssumption DEF ChInit, ChDefaults, ChInv, ChTables, DefaultJoined

LEMMA ChInductive == ChInv /\ [ChNext]_chVars => ChInv'
<1>. SUFFICES ASSUME ChInv, [ChNext]_chVars PROVE ChInv'
  OBVIOUS
<1>. USE DEF ChInv, DefaultJoined
<1>1. CASE UNCHANGED chVars
  BY <1>1 DEF chVars
<1>2. ASSUME NEW c \in Channels, ChJoin(c) PROVE ChInv'
  BY <1>2 DEF ChJoin, ChTables
<1>3. ASSUME NEW c \in Channels, ChLeave(c) PROVE ChInv'
  <2>1. CASE c \in chTable.default
    BY <1>3, <2>1, ChAssumption, ZenonT(60) DEF ChLeave, ChLeft, ChTables
  <2>2. CASE c \notin chTable.default
    BY <1>3, <2>2 DEF ChLeave, ChLeft, ChTables
  <2>. QED  BY <2>1, <2>2
<1>4. ASSUME NEW c \in Channels, ChSetDefault(c) PROVE ChInv'
  BY <1>4 DEF ChSetDefault, ChTables
<1>5. CASE ChSave
  <2>. DEFINE t == [chTable EXCEPT !.index = 0]
  <2>1. t \in ChTables /\ 0 \in t.joined /\ t.default = {chTable.index} /\ chTable.index \in t.joined
    BY ChAssumption DEF ChTables
  <2>2. chSaved' = <<t>> /\ UNCHANGED chTable
    BY <1>5 DEF ChSave
  <2>. HIDE DEF t
  <2>. QED  BY <2>1, <2>2
<1>6. ASSUME NEW loads \in BOOLEAN, ChRestart(loads) PROVE ChInv'
  <2>1. CASE ~loads
    BY <1>6, <2>1, ChAssumption DEF ChRestart, ChDefaults, ChTables
  <2>2. CASE loads
    <3>1. PICK t \in ChTables : /\ chSaved = <<t>> /\ 0 \in t.joined
                                /\ \E c \in t.joined : t.default = {c}
      BY <1>6, <2>2 DEF ChRestart
    <3>2. PICK c \in t.joined : t.default = {c}
      BY <3>1
    <3>3. c \in Channels /\ c \in Nat
      BY ChAssumption, <3>1, <3>2 DEF ChTables
    <3>4. (CHOOSE x \in t.default : \A d \in t.default : d <= x) = c
      BY <3>2, <3>3
    <3>5. chTable' = [t EXCEPT !.index = c] /\ UNCHANGED chSaved
      BY <1>6, <2>2, <3>1, <3>2, <3>4 DEF ChRestart
    <3>6. /\ chTable' \in ChTables /\ 0 \in chTable'.joined
          /\ chTable'.default = {chTable'.index} /\ chTable'.index \in chTable'.joined
      BY <3>1, <3>2, <3>3, <3>5 DEF ChTables
    <3>. QED  BY <3>5, <3>6
  <2>. QED  BY <2>1, <2>2
<1>. QED  BY <1>1, <1>2, <1>3, <1>4, <1>5, <1>6 DEF ChNext

-----------------------------------------------------------------------------
(***************************************************************************)
(* The display.  While it is in use, the time since the page was turned is *)
(* at most the time the page has been on.                                  *)
(***************************************************************************)
\* The time since the page was turned.
DpOn == (dpNow + DpMod - dpTurned) % DpMod

DpInv ==
  /\ dpNow \in 0 .. DpMod - 1 /\ dpTurned \in 0 .. DpMod - 1
  /\ dpPort \in {"esp32", "nrf52"}
  /\ dpShared \in Figures /\ dpLocal \in Figures /\ (dpPost = <<>> \/ \E r \in Figures : dpPost = <<r>>)
  /\ dpOk \in BOOLEAN /\ dpFail \in Nat /\ dpShown \in 0 .. DpRotate /\ dpLeft = DpRotate
  /\ dpTask = "init" => ~dpOk
  /\ dpTask \in {"copying", "update"} => dpOk
  /\ dpOk => DpOn <= dpShown \/ dpShown = DpRotate
  /\ dpScreen.pin => dpScreen.page = 0
  /\ dpPort = "nrf52" => dpFail = 0
  /\ dpOk => dpFail < 3

LEMMA DpStart == DpInit => DpInv
<1>. SUFFICES ASSUME DpInit PROVE DpInv
  OBVIOUS
<1>1. DpMod \in Nat /\ dpNow \in 0 .. DpMod - 1
  BY DpAssumption DEF DpInit
<1>2. 0 \in 0 .. DpMod - 1
  BY <1>1
<1>3. Blank \in Figures
  BY DEF Blank, Figures
<1>4. dpScreen.page = 0
  BY DEF DpInit, Drawn
<1>5. dpTask = "init" /\ ~dpOk /\ dpFail = 0 /\ dpOk \in BOOLEAN /\ dpPost = <<>>
  BY DEF DpInit
<1>6. dpShown \in 0 .. DpRotate /\ dpLeft = DpRotate /\ dpTurned = 0
  BY DpAssumption DEF DpInit
<1>7. dpPort \in {"esp32", "nrf52"} /\ dpShared = Blank /\ dpLocal = Blank
  BY DEF DpInit
<1>. QED  BY <1>1, <1>2, <1>3, <1>4, <1>5, <1>6, <1>7 DEF DpInv

LEMMA DpTickInv == DpInv /\ DpTick => DpInv'
<1>. SUFFICES ASSUME DpInv, DpTick PROVE DpInv'
  OBVIOUS
<1>1. DpMod \in Nat \ {0} /\ dpNow \in 0 .. DpMod - 1 /\ dpTurned \in 0 .. DpMod - 1
      /\ dpNow' = (dpNow + 1) % DpMod /\ dpTurned' = dpTurned /\ DpRotate \in Nat
  BY DpAssumption DEF DpInv, DpTick
<1>2. dpNow' \in 0 .. DpMod - 1
  BY <1>1
<1>3. DpOn' <= DpOn + 1 /\ DpOn \in Nat
  <2>1. DpOn \in Nat
    BY <1>1 DEF DpOn
  <2>2. CASE DpOn < DpMod - 1
    BY <1>1, <2>1, <2>2, ClockStep DEF DpOn
  <2>3. CASE ~(DpOn < DpMod - 1)
    BY <1>1, <2>1, <2>3, ClockRound DEF DpOn
  <2>. QED  BY <2>1, <2>2, <2>3
<1>4. DpOn' \in Nat
  BY <1>1, <1>2 DEF DpOn
<1>5. dpOk' => DpOn' <= dpShown' \/ dpShown' = DpRotate
  BY <1>1, <1>3, <1>4 DEF DpInv, DpTick
<1>6. dpShown' \in 0 .. DpRotate
  BY <1>1 DEF DpInv, DpTick
<1>. QED  BY <1>1, <1>2, <1>5, <1>6 DEF DpInv, DpTick

\* A flush that leaves the display in use has not failed too often.
LEMMA FlushKeeps ==
  ASSUME NEW sent \in BOOLEAN, NEW restarts \in BOOLEAN, dpFail \in Nat, Flush(sent, restarts)
  PROVE  dpFail' \in Nat /\ dpOk' \in BOOLEAN /\ (dpOk' => dpFail' < 3)
  BY DEF Flush

LEMMA UpdatedKeeps ==
  ASSUME DpInv, dpOk, NEW sent \in BOOLEAN, Updated(sent), dpNow' = dpNow,
         dpShown' = IF dpPage' # dpPage THEN 0 ELSE dpShown
  PROVE  /\ dpTurned' \in 0 .. DpMod - 1 /\ dpLeft' = DpRotate
         /\ dpShown' \in 0 .. DpRotate
         /\ DpOn' <= dpShown' \/ dpShown' = DpRotate
         /\ dpScreen'.pin => dpScreen'.page = 0
<1>1. DpMod \in Nat \ {0} /\ dpNow \in 0 .. DpMod - 1 /\ dpTurned \in 0 .. DpMod - 1
      /\ DpRotate \in Nat /\ dpShown \in 0 .. DpRotate
  BY DpAssumption DEF DpInv
<1>2. DpOn \in Nat /\ Since(dpTurned) = DpOn
  BY <1>1 DEF Since, DpOn
<1>3. dpTurned' = Turned(dpLocal) /\ dpPage' = PageFor(dpLocal)
  BY DEF Updated
<1>4. dpTurned' = dpNow => DpOn' = 0
  BY <1>1 DEF DpOn
<1>5. PinDue(dpLocal) \in BOOLEAN
  BY DEF DpInv, PinDue, Figures
<1>6. /\ dpScreen'.pin => dpScreen'.page = 0
  <2>1. CASE sent
    BY <1>3, <1>5, <2>1 DEF Updated, Drawn, PageFor
  <2>2. CASE ~sent
    BY <2>2 DEF Updated, DpInv
  <2>. QED  BY <2>1, <2>2
<1>7. CASE PinDue(dpLocal) \/ Since(dpTurned) >= DpRotate
  <2>1. dpTurned' = dpNow /\ DpOn' = 0
    BY <1>2, <1>3, <1>4, <1>7 DEF Turned
  <2>2. dpShown' \in 0 .. DpRotate /\ 0 <= dpShown'
    BY <1>1
  <2>3. dpPage' # dpPage /\ ~PinDue(dpLocal) => dpShown = DpRotate
    BY <1>1, <1>2, <1>7 DEF DpInv
  <2>4. dpLeft' = DpRotate
    BY <2>3 DEF Updated, DpInv
  <2>. QED  BY <1>1, <1>6, <2>1, <2>2, <2>4
<1>8. CASE ~PinDue(dpLocal) /\ ~(Since(dpTurned) >= DpRotate)
  <2>1. dpTurned' = dpTurned /\ dpPage' = dpPage
    BY <1>3, <1>8 DEF Turned, PageFor
  <2>2. dpShown' = dpShown /\ dpLeft' = dpLeft
    BY <2>1 DEF Updated
  <2>3. DpOn' = DpOn
    BY <2>1 DEF DpOn
  <2>. QED  BY <1>1, <1>6, <2>1, <2>2, <2>3 DEF DpInv
<1>. QED  BY <1>5, <1>7, <1>8

LEMMA DpStepInv == DpInv /\ DpStep => DpInv'
<1>. SUFFICES ASSUME DpInv, DpStep PROVE DpInv'
  OBVIOUS
<1>1. DpMod \in Nat \ {0} /\ dpNow \in 0 .. DpMod - 1 /\ 0 \in 0 .. DpRotate
      /\ dpNow' = dpNow /\ dpPort' = dpPort /\ DpRotate \in Nat
      /\ dpShown' = (IF dpPage' # dpPage \/ dpTask = "init" THEN 0 ELSE dpShown)
  BY DpAssumption DEF DpInv, DpStep
<1>2. dpTurned' = dpNow => DpOn' = 0
  BY <1>1 DEF DpOn
<1>3. ASSUME NEW r \in Figures, PostHalf(r) PROVE DpInv'
  <2>1. dpShared' \in Figures
    BY <1>3 DEF PostHalf, DpInv, Figures
  <2>2. /\ dpShown' = dpShown \/ (dpTask = "init" /\ dpShown' = 0)
        /\ UNCHANGED <<dpTask, dpLocal, dpOk, dpFail, dpPage, dpUpdate, dpTurned, dpScreen, dpLeft, dpNow>>
    BY <1>1, <1>3 DEF PostHalf
  <2>3. DpOn' = DpOn
    BY <2>2 DEF DpOn
  <2>. QED  BY <1>1, <1>3, <2>1, <2>2, <2>3 DEF DpInv, PostHalf
<1>4. CASE PostRest
  <2>1. dpShared' \in Figures
    BY <1>4 DEF PostRest, DpInv
  <2>2. /\ dpShown' = dpShown \/ (dpTask = "init" /\ dpShown' = 0)
        /\ UNCHANGED <<dpTask, dpLocal, dpOk, dpFail, dpPage, dpUpdate, dpTurned, dpScreen, dpLeft, dpNow>>
    BY <1>1, <1>4 DEF PostRest
  <2>3. DpOn' = DpOn
    BY <2>2 DEF DpOn
  <2>. QED  BY <1>1, <1>4, <2>1, <2>2, <2>3 DEF DpInv, PostRest
<1>5. CASE TaskCopyHalf \/ TaskCopyRest
  <2>1. dpLocal' \in Figures /\ dpOk
    BY <1>5 DEF TaskCopyHalf, TaskCopyRest, DpInv, Figures
  <2>2. /\ dpTask # "init" /\ dpShown' = dpShown /\ dpTask' # "init"
        /\ UNCHANGED <<dpShared, dpPost, dpOk, dpFail, dpPage, dpUpdate, dpTurned, dpScreen, dpLeft, dpNow>>
    BY <1>1, <1>5 DEF TaskCopyHalf, TaskCopyRest
  <2>3. DpOn' = DpOn
    BY <2>2 DEF DpOn
  <2>. QED  BY <1>1, <2>1, <2>2, <2>3 DEF DpInv
<1>6. ASSUME NEW found \in BOOLEAN, NEW sent \in BOOLEAN, NEW restarts \in BOOLEAN,
             TaskInit(found, sent, restarts) \/ NrfInit(found, sent)
      PROVE  DpInv'
  <2>1. /\ dpTask = "init" /\ dpTask' = "copy" /\ dpLocal' = dpShared /\ ~dpOk /\ dpShown' = 0
        /\ UNCHANGED <<dpShared, dpPost, dpScreen, dpLeft>>
    BY <1>1, <1>6 DEF TaskInit, NrfInit, DpInv
  <2>2. CASE found
    <3>1. dpTurned' = dpNow /\ DpOn' = 0
      BY <1>1, <1>2, <1>6, <2>2 DEF TaskInit, NrfInit
    <3>2. /\ dpFail' \in Nat /\ dpOk' \in BOOLEAN /\ (dpOk' => dpFail' < 3)
          /\ dpPort = "nrf52" => dpFail' = 0
      BY <1>6, <2>2, FlushKeeps DEF TaskInit, NrfInit, NrfFlush, DpInv
    <3>. QED  BY <1>1, <2>1, <3>1, <3>2 DEF DpInv
  <2>3. CASE ~found
    <3>1. UNCHANGED <<dpOk, dpFail, dpTurned>>
      BY <1>6, <2>3 DEF TaskInit, NrfInit
    <3>. QED  BY <1>1, <2>1, <3>1 DEF DpInv
  <2>. QED  BY <2>2, <2>3
<1>7. ASSUME NEW sent \in BOOLEAN, NEW restarts \in BOOLEAN,
             TaskUpdate(sent, restarts) \/ NrfUpdate(sent)
      PROVE  DpInv'
  <2>1. /\ dpTask = "update" /\ dpTask' = "copy" /\ dpOk
        /\ UNCHANGED <<dpShared, dpPost, dpLocal>>
        /\ dpShown' = IF dpPage' # dpPage THEN 0 ELSE dpShown
    BY <1>1, <1>7 DEF TaskUpdate, NrfUpdate, DpInv
  <2>2. CASE UpdateEarly
    <3>1. /\ dpShown' = dpShown
          /\ UNCHANGED <<dpOk, dpFail, dpPage, dpUpdate, dpTurned, dpScreen, dpLeft, dpNow>>
      BY <1>1, <2>1, <2>2 DEF UpdateEarly
    <3>2. DpOn' = DpOn
      BY <3>1 DEF DpOn
    <3>. QED  BY <1>1, <2>1, <3>1, <3>2 DEF DpInv
  <2>3. CASE Updated(sent)
    <3>1. /\ dpTurned' \in 0 .. DpMod - 1 /\ dpLeft' = DpRotate
          /\ dpShown' \in 0 .. DpRotate
          /\ DpOn' <= dpShown' \/ dpShown' = DpRotate
          /\ dpScreen'.pin => dpScreen'.page = 0
      BY <1>1, <2>1, <2>3, UpdatedKeeps
    <3>2. /\ dpFail' \in Nat /\ dpOk' \in BOOLEAN /\ (dpOk' => dpFail' < 3)
          /\ dpPort = "nrf52" => dpFail' = 0
      BY <1>7, <2>2, FlushKeeps DEF TaskUpdate, NrfUpdate, NrfFlush, DpInv, UpdateEarly
    <3>. QED  BY <1>1, <2>1, <3>1, <3>2 DEF DpInv
  <2>. QED  BY <1>7, <2>2, <2>3 DEF TaskUpdate, NrfUpdate
<1>. QED  BY <1>3, <1>4, <1>5, <1>6, <1>7 DEF DpStep, MainPost, NrfPost

LEMMA DpInductive == DpInv /\ [DpNext]_dpVars => DpInv'
<1>1. DpInv /\ UNCHANGED dpVars => DpInv'
  BY DEF DpInv, dpVars, DpOn
<1>. QED  BY <1>1, DpTickInv, DpStepInv DEF DpNext

LEMMA DpKept == DpInv => ScreenKept
  BY DpAssumption DEF DpInv, ScreenKept

(***************************************************************************)
(* A bundle waits for the conversion its own trigger started, which runs   *)
(* and is not overdue (sensors.c:399-468); the default channel is one, and *)
(* joined, by flag and by index (channel.c:206-252, :386-437); a PIN is    *)
(* shown where it can be read, a page stays for its time, and a display in *)
(* use has not failed too often (display.c:236-281, :741-793), wherever    *)
(* the clocks wrap and however copies, saves and restarts interleave.      *)
(***************************************************************************)
THEOREM ServicesAlwaysKept == NodeSpec => []ServicesKept
<1>1. NodeInit => SnInv /\ ChInv /\ DpInv
  BY SnStart, ChStart, DpStart DEF NodeInit
<1>2. SnInv /\ ChInv /\ DpInv /\ [NodeNext]_nodeVars => SnInv' /\ ChInv' /\ DpInv'
  BY PartSteps, SnInductive, ChInductive, DpInductive
<1>3. SnInv /\ ChInv /\ DpInv => ServicesKept
  BY SnTimely, DpKept DEF ChInv, ServicesKept
<1>. QED  BY <1>1, <1>2, <1>3, PTL DEF NodeSpec, nodeVars

-----------------------------------------------------------------------------
(***************************************************************************)
(* The gates a relay passes.  A lazy bucket is worth its tokens and the    *)
(* time since it was last paid; when the clock has come round, the tokens  *)
(* only.                                                                   *)
(***************************************************************************)
RgClock == 0 .. RgMod - 1
Buckets == [tokens : 0 .. MaxTokens, last : RgClock]

Below(b, t, ref) ==
  /\ b.tokens * RgSec <= ref
  /\ b.last <= t => Least(RefCap, b.tokens * RgSec + (t - b.last)) <= ref

RgPaid ==
  /\ policy \in [Indices -> Buckets] /\ rgRef \in [Indices -> 0 .. RefCap] /\ rgNow \in RgClock
  /\ \A i \in Indices : Below(policy[i], rgNow, rgRef[i])

LEMMA RgConstants ==
  /\ BucketCount \in Nat \ {0} /\ MaxTokens \in Nat \ {0} /\ RgSec \in Nat \ {0} /\ RgMod \in Nat \ {0}
  /\ FwdCap \in Nat \ {0} /\ FwdFloor \in Nat \ {0} /\ FwdWindow \in Nat \ {0} /\ FwdWindow < RgMod
  /\ FwdFloor <= FwdCap /\ HourWindow \in Nat /\ HourAir \in Nat /\ RgSources \subseteq Nat
  /\ 0 \in RgClock /\ RefCap \in Nat /\ RefCap = MaxTokens * RgSec + RgSec - 1
  /\ MaxTokens * RgSec \in Nat
  BY RgAssumption DEF RgClock, RefCap

LEMMA RgPaidStart == RgInit => RgPaid
<1>. SUFFICES ASSUME RgInit PROVE RgPaid
  OBVIOUS
<1>1. policy \in [Indices -> Buckets] /\ rgRef \in [Indices -> 0 .. RefCap] /\ rgNow \in RgClock
  BY RgConstants DEF RgInit, Buckets, RgClock
<1>2. ASSUME NEW i \in Indices PROVE Below(policy[i], rgNow, rgRef[i])
  <2>1. policy[i].tokens = MaxTokens /\ rgRef[i] = RefCap
    BY DEF RgInit
  <2>2. MaxTokens * RgSec <= RefCap
    BY RgConstants
  <2>4. policy[i].last \in RgClock
    BY <1>1 DEF Buckets
  <2>5. \A x \in Nat : Least(RefCap, x) <= RefCap
    BY RgConstants DEF Least
  <2>6. policy[i].last <= rgNow => MaxTokens * RgSec + (rgNow - policy[i].last) \in Nat
    BY <1>1, <2>4, RgConstants DEF RgClock
  <2>. QED  BY <2>1, <2>2, <2>5, <2>6 DEF Below
<1>. QED  BY <1>1, <1>2 DEF RgPaid

\* Paying out keeps what a bucket is worth, and leaves less than a token unpaid.
LEMMA RefillBelow ==
  ASSUME NEW b \in Buckets, rgNow \in RgClock, NEW ref \in 0 .. RefCap, Below(b, rgNow, ref)
  PROVE  LET r == Refill(b) IN
         /\ r \in Buckets /\ Below(r, rgNow, ref)
         /\ r.last <= rgNow /\ rgNow - r.last < RgMod
         /\ r.tokens * RgSec + (rgNow - r.last) <= ref
<1>. USE DEF RgClock
<1>1. b.tokens \in Nat /\ b.tokens <= MaxTokens /\ b.last \in Nat /\ b.last < RgMod
      /\ rgNow \in Nat /\ rgNow < RgMod /\ ref \in Nat
  BY RgConstants DEF Buckets
<1>2. b.tokens * RgSec \in Nat
  BY <1>1, RgConstants, TimesNext
<1>3. CASE rgNow < b.last
  <2>. DEFINE r == [b EXCEPT !.last = rgNow]
  <2>1. r = Refill(b)
    BY <1>3 DEF Refill
  <2>2. r \in Buckets /\ r.tokens = b.tokens /\ r.last = rgNow
    BY DEF Buckets
  <2>. HIDE DEF r
  <2>3. b.tokens * RgSec + (rgNow - rgNow) = b.tokens * RgSec
    BY <1>1, <1>2
  <2>4. Least(RefCap, b.tokens * RgSec) <= ref
    BY <1>1, <1>2, RgConstants DEF Below, Least
  <2>. QED  BY <1>1, <1>2, <2>1, <2>2, <2>3, <2>4, RgConstants DEF Below
<1>4. CASE b.last <= rgNow
  <2>. DEFINE age == rgNow - b.last
              secs == age \div RgSec
              total == b.tokens + secs
              paid == Least(MaxTokens, total)
              r == [tokens |-> paid, last |-> b.last + secs * RgSec]
  <2>1. age \in Nat /\ RgAge(b.last) = age
    BY <1>1, <1>4, RgConstants DEF RgAge
  <2>. HIDE DEF age
  <2>2. secs \in Nat /\ secs * RgSec \in Nat /\ secs * RgSec <= age /\ age - secs * RgSec < RgSec
    BY <2>1, RgConstants
  <2>3. r = Refill(b)
    <3>1. ~(rgNow < b.last)
      BY <1>1, <1>4
    <3>. QED  BY <2>1, <3>1 DEF Refill
  <2>. HIDE DEF secs
  <2>4. total \in Nat /\ total * RgSec = b.tokens * RgSec + secs * RgSec
    BY <1>1, <2>2, RgConstants
  <2>5. paid \in 0 .. MaxTokens
    BY <1>1, <2>2, RgConstants DEF Least
  <2>6. r.last \in RgClock /\ r.last <= rgNow /\ rgNow - r.last = age - secs * RgSec
    <3>. DEFINE m == secs * RgSec
    <3>1. m \in Nat /\ m <= age /\ r.last = b.last + m
      BY <2>2
    <3>. HIDE DEF m, r
    <3>2. r.last \in RgClock /\ r.last <= rgNow /\ rgNow - r.last = age - m
      BY <1>1, <1>4, <2>1, <3>1, RgConstants DEF age
    <3>. QED  BY <3>2 DEF m
  <2>7. paid * RgSec + (rgNow - r.last) <= ref
    <3>1. Least(RefCap, b.tokens * RgSec + age) <= ref
      BY <1>4 DEF Below, age
    <3>2. CASE total <= MaxTokens
      <4>0. paid = total
        BY <2>4, <3>2, RgConstants DEF Least
      <4>1. paid * RgSec + (age - secs * RgSec) = b.tokens * RgSec + age
        BY <1>2, <2>1, <2>2, <2>4, <4>0
      <4>2. total * RgSec <= MaxTokens * RgSec
        BY <2>4, <3>2, RgConstants
      <4>3. b.tokens * RgSec + age <= RefCap
        BY <1>2, <2>1, <2>2, <2>4, <4>2, RgConstants
      <4>. QED  BY <1>2, <2>1, <2>6, <3>1, <4>1, <4>3, RgConstants DEF Least
    <3>3. CASE total > MaxTokens
      <4>1. paid = MaxTokens
        BY <2>4, <3>3, RgConstants DEF Least
      <4>2. MaxTokens * RgSec <= total * RgSec
        BY <2>4, <3>3, RgConstants
      <4>3. MaxTokens * RgSec + (age - secs * RgSec) <= b.tokens * RgSec + age
        BY <1>2, <2>1, <2>2, <2>4, <4>2, RgConstants
      <4>4. MaxTokens * RgSec + (age - secs * RgSec) <= RefCap
        BY <2>1, <2>2, RgConstants
      <4>. QED  BY <1>1, <1>2, <2>1, <2>2, <2>6, <3>1, <4>1, <4>3, <4>4, RgConstants DEF Least
    <3>. QED  BY <2>4, <3>2, <3>3, RgConstants
  <2>8. r \in Buckets /\ r.tokens = paid
    BY <2>5, <2>6 DEF Buckets
  <2>9. paid * RgSec \in Nat
    BY <2>5, RgConstants, TimesNext
  <2>. HIDE DEF r, paid
  <2>10. rgNow - r.last \in Nat /\ rgNow - r.last < RgMod
    BY <1>1, <2>6, RgConstants DEF RgClock
  <2>11. Below(r, rgNow, ref)
    BY <1>1, <2>7, <2>8, <2>9, <2>10, RgConstants DEF Below, Least
  <2>. QED  BY <2>3, <2>6, <2>7, <2>8, <2>10, <2>11
<1>. QED  BY <1>1, <1>3, <1>4

LEMMA PolicyCheckPaid ==
  ASSUME RgPaid, NEW src \in RgSources, PolicyCheck(src), rgNow' = rgNow
  PROVE  RgPaid'
<1>. DEFINE i == Index(src)
            b == Refill(policy[i])
            ref == rgRef[i]
<1>1. i \in Indices
  BY RgConstants DEF Index, Indices
<1>2. policy[i] \in Buckets /\ ref \in 0 .. RefCap /\ Below(policy[i], rgNow, ref) /\ rgNow \in RgClock
  BY <1>1 DEF RgPaid
<1>3. /\ b \in Buckets /\ Below(b, rgNow, ref)
      /\ b.last <= rgNow /\ b.tokens * RgSec + (rgNow - b.last) <= ref
  BY <1>2, RefillBelow
<1>. HIDE DEF i, b, ref
<1>4. CASE b.tokens > 0
  <2>. DEFINE p == [b EXCEPT !.tokens = @ - 1]
  <2>1. policy' = [policy EXCEPT ![i] = p] /\ rgRef' = [rgRef EXCEPT ![i] = ref - RgSec]
    BY <1>4 DEF PolicyCheck, i, b, ref
  <2>2. p \in Buckets /\ p.tokens = b.tokens - 1 /\ p.last = b.last
    BY <1>3, <1>4, RgConstants DEF Buckets
  <2>. HIDE DEF p
  <2>3. /\ b.tokens \in Nat \ {0} /\ ref \in Nat /\ b.last \in Nat /\ rgNow \in Nat
        /\ b.tokens - 1 \in Nat /\ b.tokens = (b.tokens - 1) + 1
    BY <1>2, <1>3, <1>4, RgConstants DEF Buckets, RgClock
  <2>4. (b.tokens - 1) * RgSec \in Nat /\ b.tokens * RgSec = (b.tokens - 1) * RgSec + RgSec
    BY <2>3, RgConstants, TimesNext
  <2>5. ref - RgSec \in 0 .. RefCap /\ (b.tokens - 1) * RgSec + (rgNow - b.last) <= ref - RgSec
    BY <1>2, <1>3, <2>3, <2>4, RgConstants
  <2>6. Below(p, rgNow, ref - RgSec)
    BY <1>3, <2>2, <2>3, <2>4, <2>5, RgConstants DEF Below, Least
  <2>. QED  BY <1>1, <2>1, <2>2, <2>5, <2>6 DEF RgPaid
<1>5. CASE ~(b.tokens > 0)
  <2>1. policy' = [policy EXCEPT ![i] = b] /\ rgRef' = rgRef
    <3>1. rgRef' = [rgRef EXCEPT ![i] = rgRef[i]]
      BY <1>5 DEF PolicyCheck, i, b
    <3>2. rgRef' = rgRef
      BY <3>1 DEF RgPaid
    <3>. QED  BY <1>5, <3>2 DEF PolicyCheck, i, b
  <2>. QED  BY <1>1, <1>3, <2>1 DEF RgPaid, ref
<1>. QED  BY <1>4, <1>5

LEMMA RgTickPaid == RgPaid /\ RgTick => RgPaid'
<1>. SUFFICES ASSUME RgPaid, RgTick PROVE RgPaid'
  OBVIOUS
<1>1. /\ rgNow \in Nat /\ rgNow < RgMod /\ rgNow' = (rgNow + 1) % RgMod /\ policy' = policy
      /\ rgRef' = [i \in Indices |-> Least(RefCap, rgRef[i] + 1)]
  BY RgConstants DEF RgPaid, RgTick, RgClock
<1>2. rgNow' \in RgClock /\ (rgNow' = rgNow + 1 \/ rgNow' = 0)
  BY <1>1, RgConstants DEF RgClock
<1>3. rgRef' \in [Indices -> 0 .. RefCap]
  BY <1>1, RgConstants DEF RgPaid, Least
<1>4. ASSUME NEW i \in Indices PROVE Below(policy[i], rgNow', rgRef'[i])
  <2>1. /\ policy[i].tokens \in Nat /\ policy[i].tokens <= MaxTokens
        /\ policy[i].last \in Nat /\ rgRef[i] \in Nat /\ rgRef[i] <= RefCap
        /\ Below(policy[i], rgNow, rgRef[i]) /\ rgRef'[i] = Least(RefCap, rgRef[i] + 1)
    BY <1>1, RgConstants DEF RgPaid, Buckets, RgClock
  <2>2. policy[i].tokens * RgSec \in Nat
    BY <2>1, RgConstants, TimesNext
  <2>3. rgRef[i] <= rgRef'[i]
    BY <2>1, RgConstants DEF Least
  <2>. DEFINE x == policy[i].tokens * RgSec
              last == policy[i].last
              ref == rgRef[i]
  <2>. HIDE DEF x, last, ref
  <2>4. x \in Nat /\ last \in Nat /\ ref \in Nat /\ ref <= RefCap /\ x <= ref
        /\ (last <= rgNow => Least(RefCap, x + (rgNow - last)) <= ref)
    BY <2>1, <2>2 DEF Below, x, last, ref
  <2>5. last <= rgNow' => Least(RefCap, x + (rgNow' - last)) <= Least(RefCap, ref + 1)
    BY <1>1, <1>2, <2>4, RgConstants DEF Least
  <2>6. x <= Least(RefCap, ref + 1)
    BY <2>4, RgConstants DEF Least
  <2>. QED  BY <2>1, <2>5, <2>6 DEF Below, x, last, ref
<1>. QED  BY <1>1, <1>2, <1>3, <1>4 DEF RgPaid

(***************************************************************************)
(* The forward budget.  Of the forwards in the last FwdWindow ticks, the   *)
(* newest k ticks are those of the window that runs, which counts them,    *)
(* and those before were in the window before it, as a window lasts as     *)
(* long as that at least.                                                  *)
(***************************************************************************)
Counted(log, f, age, k) ==
  /\ Prefix(log, k) <= f.count
  /\ SumFunction(log) <= Prefix(log, k) + FwdCap
  /\ age < k \/ k = FwdWindow

Budgets == [count : 0 .. FwdCap, cap : FwdFloor .. FwdCap, start : RgClock, hour : 0 .. HourAir,
            hourStart : RgClock]

RgBudget ==
  /\ fb \in Budgets /\ rgNow \in RgClock
  /\ rgLog \in Seq(Nat) /\ Len(rgLog) = FwdWindow
  /\ \E k \in 1 .. FwdWindow : Counted(rgLog, fb, RgAge(fb.start), k)
  /\ RgAge(fb.start) >= FwdWindow => rgLog[1] = 0

LEMMA LogType ==
  ASSUME RgBudget
  PROVE  /\ rgLog \in [1 .. FwdWindow -> Nat]
         /\ FwdWindow \in Nat \ {0} /\ rgLog[1] \in Nat /\ Prefix(rgLog, 1) = rgLog[1]
         /\ Prefix(rgLog, FwdWindow) = SumFunction(rgLog) /\ SumFunction(rgLog) \in Nat
         /\ \A k \in 0 .. FwdWindow : Prefix(rgLog, k) \in Nat
<1>1. rgLog \in [1 .. FwdWindow -> Nat] /\ FwdWindow \in Nat \ {0}
  BY RgConstants DEF RgBudget
<1>2. \A k \in 0 .. FwdWindow : Prefix(rgLog, k) \in Nat /\ Prefix(rgLog, 0) = 0
        /\ (k < FwdWindow => Prefix(rgLog, k + 1) = Prefix(rgLog, k) + rgLog[k + 1])
        /\ Prefix(rgLog, FwdWindow) = SumFunction(rgLog)
  BY <1>1, PrefixNext
<1>3. 0 \in 0 .. FwdWindow /\ 0 < FwdWindow /\ FwdWindow \in 0 .. FwdWindow /\ 1 \in 1 .. FwdWindow
  BY <1>1
<1>4. Prefix(rgLog, 0 + 1) = Prefix(rgLog, 0) + rgLog[0 + 1] /\ Prefix(rgLog, 0) = 0
  BY <1>2, <1>3
<1>5. rgLog[1] \in Nat
  BY <1>1, <1>3
<1>6. 0 + 1 = 1
  OBVIOUS
<1>7. Prefix(rgLog, 1) = rgLog[1]
  BY <1>4, <1>5, <1>6
<1>8. SumFunction(rgLog) \in Nat
  BY <1>2, <1>3
<1>. QED  BY <1>1, <1>2, <1>3, <1>5, <1>7, <1>8

LEMMA RgBudgetStart == RgInit => RgBudget
<1>. SUFFICES ASSUME RgInit PROVE RgBudget
  OBVIOUS
<1>1. rgLog \in Seq(Nat) /\ Len(rgLog) = FwdWindow /\ FwdWindow \in 1 .. FwdWindow
      /\ rgLog \in [1 .. FwdWindow -> Nat] /\ \A i \in 1 .. FwdWindow : rgLog[i] = 0
  BY RgConstants DEF RgInit
<1>2. fb \in Budgets /\ fb.count = 0 /\ rgNow \in RgClock
  BY RgConstants DEF RgInit, Budgets, RgClock
<1>3. Prefix(rgLog, FwdWindow) = 0 /\ SumFunction(rgLog) = 0
  BY <1>1, RgConstants, PrefixZero, PrefixNext
<1>4. Counted(rgLog, fb, RgAge(fb.start), FwdWindow)
  BY <1>2, <1>3, RgConstants DEF Counted
<1>5. rgLog[1] = 0
  BY <1>1, RgConstants
<1>. QED  BY <1>1, <1>2, <1>4, <1>5 DEF RgBudget

\* A window that rolls leaves a full window of the forwards it counted.
LEMMA RollKeeps ==
  ASSUME RgBudget
  PROVE  LET f == RollWindow(fb) IN
         /\ f \in Budgets /\ f.cap = fb.cap
         /\ RgAge(f.start) < FwdWindow
         /\ \E k \in 1 .. FwdWindow : Counted(rgLog, f, RgAge(f.start), k)
<1>. DEFINE m == IF RgAge(fb.start) >= FwdWindow
                 THEN [fb EXCEPT !.count = 0, !.start = rgNow] ELSE fb
            f == RollWindow(fb)
<1>1. f = IF RgAge(fb.hourStart) >= HourWindow
          THEN [m EXCEPT !.hour = 0, !.hourStart = rgNow] ELSE m
  BY DEF RollWindow
<1>a. fb \in Budgets /\ rgNow \in RgClock /\ 0 \in 0 .. FwdCap /\ 0 \in 0 .. HourAir
  BY RgConstants DEF RgBudget
<1>2. m \in Budgets /\ m.cap = fb.cap
  <2>. DEFINE z == [fb EXCEPT !.count = 0, !.start = rgNow]
  <2>1. z \in Budgets /\ z.cap = fb.cap
    BY <1>a DEF Budgets
  <2>. HIDE DEF z
  <2>2. m = z \/ m = fb
    BY DEF m, z
  <2>. QED  BY <1>a, <2>1, <2>2
<1>. HIDE DEF m
<1>3. f \in Budgets /\ f.cap = fb.cap /\ f.count = m.count /\ f.start = m.start
  <2>. DEFINE z == [m EXCEPT !.hour = 0, !.hourStart = rgNow]
  <2>1. z \in Budgets /\ z.cap = m.cap /\ z.count = m.count /\ z.start = m.start
    BY <1>a, <1>2 DEF Budgets
  <2>. HIDE DEF z, f
  <2>2. f = z \/ f = m
    BY <1>1 DEF z
  <2>. QED  BY <1>2, <2>1, <2>2
<1>. HIDE DEF f
<1>4. PICK k \in 1 .. FwdWindow : Counted(rgLog, fb, RgAge(fb.start), k)
  BY DEF RgBudget
<1>5. fb.count \in Nat /\ fb.count <= FwdCap /\ FwdCap \in Nat /\ fb.start \in RgClock /\ rgNow \in RgClock
  BY RgConstants DEF RgBudget, Budgets
<1>6. CASE RgAge(fb.start) >= FwdWindow
  <2>1. m.count = 0 /\ m.start = rgNow
    BY <1>6 DEF m, RgBudget, Budgets
  <2>2. RgAge(rgNow) = 0
    BY <1>5, RgConstants, AgeZero DEF RgAge, RgClock
  <2>3. k = FwdWindow
    <3>1. RgAge(fb.start) \in Nat
      BY <1>5, RgConstants DEF RgAge, RgClock
    <3>. QED  BY <1>4, <1>6, <3>1, RgConstants DEF Counted
  <2>4. SumFunction(rgLog) <= FwdCap
    BY <1>4, <1>5, <2>3, LogType DEF Counted
  <2>5. Prefix(rgLog, 1) = 0
    BY <1>6, LogType DEF RgBudget
  <2>6. Counted(rgLog, f, RgAge(f.start), 1)
    BY <1>3, <1>5, <2>1, <2>2, <2>4, <2>5 DEF Counted
  <2>7. 1 \in 1 .. FwdWindow
    BY RgConstants
  <2>. QED  BY <1>3, <2>1, <2>2, <2>6, <2>7, RgConstants DEF f
<1>7. CASE ~(RgAge(fb.start) >= FwdWindow)
  <2>1. m = fb
    BY <1>7 DEF m
  <2>2. RgAge(fb.start) < FwdWindow
    <3>1. RgAge(fb.start) \in Nat
      BY <1>5, RgConstants DEF RgAge, RgClock
    <3>. QED  BY <1>7, <3>1, RgConstants
  <2>3. Counted(rgLog, f, RgAge(f.start), k)
    BY <1>3, <1>4, <2>1 DEF Counted
  <2>. QED  BY <1>3, <2>1, <2>2, <2>3 DEF f
<1>. QED  BY <1>6, <1>7

LEMMA BudgetDropKeeps == RgBudget /\ BudgetDrop => RgBudget'
<1>. SUFFICES ASSUME RgBudget, BudgetDrop PROVE RgBudget'
  OBVIOUS
<1>1. fb' = RollWindow(fb) /\ UNCHANGED <<rgNow, rgLog>>
  BY DEF BudgetDrop
<1>. DEFINE f == RollWindow(fb)
<1>2. /\ f \in Budgets /\ RgAge(f.start) < FwdWindow
      /\ \E k \in 1 .. FwdWindow : Counted(rgLog, f, RgAge(f.start), k)
  BY RollKeeps
<1>. HIDE DEF f
<1>3. RgAge(fb.start)' = RgAge(f.start) /\ RgAge(f.start) \in Nat
  <2>1. fb'.start = f.start /\ rgNow' = rgNow
    BY <1>1 DEF f
  <2>2. f.start \in RgClock /\ rgNow \in RgClock
    BY <1>2 DEF Budgets, RgBudget
  <2>. QED  BY <2>1, <2>2, RgConstants DEF RgAge, RgClock
<1>. QED  BY <1>1, <1>2, <1>3, RgConstants DEF RgBudget, f

LEMMA ChargedKeeps == RgBudget /\ Charged => RgBudget'
<1>. SUFFICES ASSUME RgBudget, Charged PROVE RgBudget'
  OBVIOUS
<1>. DEFINE f == RollWindow(fb)
<1>1. /\ f \in Budgets /\ f.cap = fb.cap /\ RgAge(f.start) < FwdWindow
      /\ \E k \in 1 .. FwdWindow : Counted(rgLog, f, RgAge(f.start), k)
  BY RollKeeps
<1>2. /\ f.count < f.cap /\ f.hour + 1 <= HourAir /\ fb' = [f EXCEPT !.count = @ + 1, !.hour = @ + 1]
      /\ rgLog' = [rgLog EXCEPT ![1] = @ + 1] /\ rgNow' = rgNow
  BY DEF Charged, BudgetAllows, BudgetRecord
<1>. HIDE DEF f
<1>3. f.count \in Nat /\ f.cap \in Nat /\ f.cap <= FwdCap /\ FwdCap \in Nat
  BY <1>1, RgConstants DEF Budgets
<1>4. fb' \in Budgets /\ fb'.count = f.count + 1 /\ fb'.start = f.start
  <2>1. f \in Budgets /\ f.count + 1 \in 0 .. FwdCap
    BY <1>1, <1>2, <1>3
  <2>2. f.hour \in 0 .. HourAir
    BY <2>1 DEF Budgets
  <2>3. f.hour + 1 \in 0 .. HourAir
    BY <1>2, <2>2, RgConstants
  <2>4. fb' = [f EXCEPT !.count = f.count + 1, !.hour = f.hour + 1]
    BY <1>2, <2>1 DEF Budgets
  <2>. QED  BY <2>1, <2>3, <2>4 DEF Budgets
<1>5. RgAge(fb.start)' = RgAge(f.start) /\ RgAge(f.start) \in Nat
  <2>1. f.start \in RgClock /\ rgNow \in RgClock
    BY <1>1 DEF Budgets, RgBudget
  <2>. QED  BY <1>2, <1>4, <2>1, RgConstants DEF RgAge, RgClock
<1>6. PICK k \in 1 .. FwdWindow : Counted(rgLog, f, RgAge(f.start), k)
  BY <1>1
<1>7. rgLog' \in Seq(Nat) /\ Len(rgLog') = FwdWindow /\ rgLog' \in [1 .. FwdWindow -> Nat]
      /\ rgLog'[1] = rgLog[1] + 1 /\ \A y \in 2 .. FwdWindow : rgLog'[y] = rgLog[y]
  <2>1. rgLog \in Seq(Nat) /\ Len(rgLog) = FwdWindow /\ FwdWindow \in Nat \ {0}
    BY RgConstants DEF RgBudget
  <2>2. rgLog[1] \in Nat /\ 1 \in 1 .. FwdWindow /\ \A y \in 2 .. FwdWindow : y # 1 /\ y \in 1 .. FwdWindow
    BY <2>1
  <2>. DEFINE g == [rgLog EXCEPT ![1] = @ + 1]
  <2>3. g \in Seq(Nat) /\ Len(g) = FwdWindow /\ g[1] = rgLog[1] + 1
    BY <2>1, <2>2
  <2>4. \A y \in 2 .. FwdWindow : g[y] = rgLog[y]
    BY <2>1, <2>2
  <2>. HIDE DEF g
  <2>5. g \in [1 .. FwdWindow -> Nat]
    BY <2>3
  <2>6. rgLog' = g
    BY <1>2 DEF g
  <2>. QED  BY <2>3, <2>4, <2>5, <2>6
<1>a. FwdWindow \in Nat /\ rgLog \in [1 .. FwdWindow -> Nat] /\ 1 \in Nat
  BY LogType
<1>b. ASSUME NEW j \in 1 .. FwdWindow PROVE Prefix(rgLog', j) = Prefix(rgLog, j) + 1
  BY <1>7, <1>a, PrefixAdd, ZenonT(60)
<1>8. Prefix(rgLog', k) = Prefix(rgLog, k) + 1
  BY <1>b
<1>9. SumFunction(rgLog') = SumFunction(rgLog) + 1
  <2>1. FwdWindow \in 1 .. FwdWindow /\ FwdWindow \in 0 .. FwdWindow
    BY RgConstants
  <2>2. Prefix(rgLog', FwdWindow) = Prefix(rgLog, FwdWindow) + 1
    BY <1>b, <2>1
  <2>3. Prefix(rgLog', FwdWindow) = SumFunction(rgLog')
    BY <1>7, <1>a, <2>1, PrefixNext
  <2>4. Prefix(rgLog, FwdWindow) = SumFunction(rgLog)
    BY LogType
  <2>. QED  BY <2>2, <2>3, <2>4
<1>10. Prefix(rgLog, k) \in Nat /\ SumFunction(rgLog) \in Nat
  BY LogType
<1>11. Counted(rgLog', fb', RgAge(fb.start)', k)
  BY <1>3, <1>4, <1>5, <1>6, <1>8, <1>9, <1>10 DEF Counted
<1>12. ~(RgAge(fb.start)' >= FwdWindow)
  BY <1>1, <1>5, RgConstants
<1>. QED  BY <1>2, <1>4, <1>7, <1>11, <1>12 DEF RgBudget

LEMMA AdaptKeeps ==
  ASSUME RgBudget, NEW share \in {1, 2, 4}, Adapt(share)
  PROVE  RgBudget'
<1>. DEFINE cap == FwdCap \div share
            c == IF cap < FwdFloor THEN FwdFloor ELSE cap
<1>1. cap \in Nat /\ cap <= FwdCap
  BY RgConstants
<1>2. c \in FwdFloor .. FwdCap
  BY <1>1, RgConstants
<1>3. fb' = [fb EXCEPT !.cap = c] /\ UNCHANGED <<rgNow, rgLog>>
  BY DEF Adapt
<1>. HIDE DEF c
<1>4. fb' \in Budgets /\ fb'.count = fb.count /\ fb'.start = fb.start
  BY <1>2, <1>3 DEF RgBudget, Budgets
<1>5. RgAge(fb.start)' = RgAge(fb.start)
  BY <1>3, <1>4 DEF RgAge
<1>. QED  BY <1>3, <1>4, <1>5 DEF RgBudget, Counted

LEMMA RgTickBudget == RgBudget /\ RgTick => RgBudget'
<1>. SUFFICES ASSUME RgBudget, RgTick PROVE RgBudget'
  OBVIOUS
<1>1. rgNow' = (rgNow + 1) % RgMod /\ rgLog' = SubSeq(<<0>> \o rgLog, 1, FwdWindow) /\ fb' = fb
  BY DEF RgTick
<1>2. /\ rgLog' \in Seq(Nat) /\ Len(rgLog') = FwdWindow /\ rgLog' \in [1 .. FwdWindow -> Nat]
      /\ rgLog'[1] = 0 /\ \A i \in 2 .. FwdWindow : rgLog'[i] = rgLog[i - 1]
  <2>1. FwdWindow \in Nat \ {0} /\ 0 \in Nat
    BY RgConstants
  <2>2. rgLog \in Seq(Nat) /\ Len(rgLog) = FwdWindow
    BY DEF RgBudget
  <2>3. ASSUME NEW x \in Nat, rgLog' = InFront(x, rgLog, FwdWindow)
        PROVE  /\ rgLog' \in Seq(Nat) /\ Len(rgLog') = FwdWindow /\ rgLog' \in [1 .. FwdWindow -> Nat]
               /\ rgLog'[1] = x /\ \A i \in 2 .. FwdWindow : rgLog'[i] = rgLog[i - 1]
    <3>. DEFINE n == FwdWindow
                f == rgLog
                g == InFront(x, f, n)
    <3>1. n \in Nat \ {0} /\ f \in Seq(Nat) /\ Len(f) = n
      BY <2>1, <2>2
    <3>. HIDE DEF n, f
    <3>2. /\ g \in Seq(Nat) /\ Len(g) = n /\ g \in [1 .. n -> Nat]
          /\ g[1] = x /\ \A i \in 2 .. n : g[i] = f[i - 1]
      <4>1. g \in Seq(Nat)
        BY <3>1, PushedOne
      <4>2. Len(g) = n
        BY <3>1, PushedOne
      <4>3. g \in [1 .. n -> Nat]
        BY <3>1, PushedOne
      <4>4. g[1] = x
        BY <3>1, PushedOne
      <4>5. \A i \in 2 .. n : g[i] = f[i - 1]
        BY <3>1, PushedOne, ZenonT(60)
      <4>. QED  BY <4>1, <4>2, <4>3, <4>4, <4>5
    <3>. HIDE DEF g
    <3>3. rgLog' = g
      BY <2>3 DEF g, f, n
    <3>. QED  BY <3>2, <3>3 DEF f, n
  <2>4. rgLog' = InFront(0, rgLog, FwdWindow)
    BY <1>1 DEF InFront
  <2>. QED  BY <2>1, <2>3, <2>4
<1>3. /\ rgNow \in RgClock /\ fb \in Budgets /\ fb.start \in RgClock
      /\ fb.count \in Nat /\ fb.count <= FwdCap /\ FwdCap \in Nat
  BY RgConstants DEF RgBudget, Budgets
<1>4. rgNow' \in RgClock
  BY <1>1, <1>3, RgConstants DEF RgClock
<1>5. /\ RgAge(fb.start) \in Nat /\ RgAge(fb.start)' \in Nat
      /\ RgAge(fb.start)' <= RgAge(fb.start) + 1
  <2>1. RgAge(fb.start) \in Nat /\ RgAge(fb.start)' \in Nat
    <3>1. RgMod \in Nat \ {0} /\ fb.start \in 0 .. RgMod - 1
      BY <1>3, RgConstants DEF RgClock
    <3>2. rgNow \in 0 .. RgMod - 1 /\ rgNow' \in 0 .. RgMod - 1
      BY <1>3, <1>4 DEF RgClock
    <3>3. /\ (rgNow + RgMod - fb.start) % RgMod \in 0 .. RgMod - 1
          /\ (rgNow' + RgMod - fb.start) % RgMod \in 0 .. RgMod - 1
      BY <3>1, <3>2, ClockType
    <3>4. fb.start' = fb.start
      BY <1>1
    <3>. QED  BY <3>3, <3>4 DEF RgAge
  <2>2. CASE RgAge(fb.start) < RgMod - 1
    <3>1. RgMod \in Nat \ {0} /\ rgNow \in 0 .. RgMod - 1 /\ fb.start \in 0 .. RgMod - 1
      BY <1>3, RgConstants DEF RgClock
    <3>2. (rgNow + RgMod - fb.start) % RgMod < RgMod - 1
      BY <2>2 DEF RgAge
    <3>3. (((rgNow + 1) % RgMod) + RgMod - fb.start) % RgMod = ((rgNow + RgMod - fb.start) % RgMod) + 1
      BY <3>1, <3>2, ClockStep
    <3>4. RgAge(fb.start)' = RgAge(fb.start) + 1
      BY <1>1, <3>3 DEF RgAge
    <3>. QED  BY <2>1, <3>4
  <2>3. CASE ~(RgAge(fb.start) < RgMod - 1)
    BY <1>1, <1>3, <2>1, <2>3, RgConstants, ClockRound DEF RgAge, RgClock
  <2>. QED  BY <2>1, <2>2, <2>3
<1>6. PICK k \in 1 .. FwdWindow : Counted(rgLog, fb, RgAge(fb.start), k)
  BY DEF RgBudget
<1>7. \A j \in 0 .. FwdWindow - 1 : Prefix(rgLog', j + 1) = Prefix(rgLog, j)
  <2>1. 1 \in 0 .. FwdWindow /\ 0 \in 0 .. FwdWindow /\ 0 < FwdWindow /\ FwdWindow \in Nat
    BY RgConstants
  <2>2. \A i \in 1 + 1 .. FwdWindow : rgLog'[i] = rgLog[i - 1]
    BY <1>2
  <2>3. \A j \in 0 .. FwdWindow - 1 : Prefix(rgLog', j + 1) = Prefix(rgLog', 1) + Prefix(rgLog, j)
    BY <1>2, <2>1, <2>2, LogType, PrefixShift, ZenonT(60)
  <2>4. Prefix(rgLog', 0) = 0 /\ Prefix(rgLog', 0 + 1) = Prefix(rgLog', 0) + rgLog'[0 + 1]
    BY <1>2, <2>1, PrefixNext
  <2>5. Prefix(rgLog', 1) = 0
    BY <1>2, <2>4
  <2>6. \A j \in 0 .. FwdWindow - 1 : Prefix(rgLog, j) \in Nat
    BY LogType
  <2>. QED  BY <2>3, <2>5, <2>6
<1>. DEFINE n == FwdWindow
            w == n - 1
<1>8. /\ n \in Nat \ {0} /\ w \in 0 .. n /\ w + 1 = n /\ n \in 0 .. n /\ k \in 0 .. n
      /\ Prefix(rgLog', n) = SumFunction(rgLog') /\ Prefix(rgLog, n) = SumFunction(rgLog)
  <2>1. n \in Nat \ {0} /\ w \in 0 .. n /\ w + 1 = n /\ n \in 0 .. n /\ k \in 0 .. n
    BY RgConstants
  <2>. QED  BY <1>2, <2>1, LogType, PrefixNext
<1>9. SumFunction(rgLog') = Prefix(rgLog, w) /\ Prefix(rgLog, w) <= SumFunction(rgLog)
  <2>1. w \in 0 .. FwdWindow - 1 /\ w \in 0 .. FwdWindow /\ FwdWindow \in 0 .. FwdWindow /\ w \in 0 .. FwdWindow
    BY <1>8
  <2>2. Prefix(rgLog', w + 1) = Prefix(rgLog, w)
    BY <1>7, <2>1
  <2>3. Prefix(rgLog, w) <= Prefix(rgLog, FwdWindow)
    BY <2>1, RgConstants, LogType, PrefixMore
  <2>. QED  BY <1>8, <2>2, <2>3
<1>10. /\ Prefix(rgLog, w) \in Nat /\ Prefix(rgLog, k) \in Nat /\ SumFunction(rgLog) \in Nat
  BY <1>8, LogType
<1>11. CASE k < n
  <2>1. k \in 0 .. FwdWindow - 1 /\ k + 1 \in 1 .. FwdWindow
    BY <1>8, <1>11
  <2>2. Prefix(rgLog', k + 1) = Prefix(rgLog, k)
    BY <1>7, <2>1
  <2>3. RgAge(fb.start)' < k + 1
    BY <1>5, <1>6, <1>11, <2>1 DEF Counted
  <2>4. Counted(rgLog', fb', RgAge(fb.start)', k + 1)
    BY <1>1, <1>3, <1>6, <1>9, <1>10, <2>2, <2>3 DEF Counted
  <2>. QED  BY <1>1, <1>2, <1>3, <1>4, <2>1, <2>4 DEF RgBudget
<1>12. CASE k = n
  <2>1. Prefix(rgLog', n) = Prefix(rgLog, w) /\ Prefix(rgLog, w) <= Prefix(rgLog, k)
    BY <1>8, <1>9, <1>12
  <2>2. Counted(rgLog', fb', RgAge(fb.start)', n)
    BY <1>1, <1>3, <1>6, <1>8, <1>9, <1>10, <2>1 DEF Counted
  <2>3. n \in 1 .. FwdWindow
    BY <1>8
  <2>. QED  BY <1>1, <1>2, <1>3, <1>4, <2>2, <2>3 DEF RgBudget
<1>. QED  BY <1>8, <1>11, <1>12

RgInv == RgPaid /\ RgBudget

LEMMA RgInductive == RgInv /\ [RgNext]_rgVars => RgInv'
<1>. SUFFICES ASSUME RgInv, [RgNext]_rgVars PROVE RgInv'
  OBVIOUS
<1>1. CASE UNCHANGED rgVars
  <2>1. UNCHANGED <<policy, fb, rgNow, rgRef, rgLog>> /\ RgAge(fb.start)' = RgAge(fb.start)
    BY <1>1 DEF rgVars, RgAge
  <2>2. RgPaid'
    BY <2>1 DEF RgInv, RgPaid
  <2>3. RgBudget'
    BY <2>1 DEF RgInv, RgBudget
  <2>. QED  BY <2>2, <2>3 DEF RgInv
<1>2. ASSUME NEW s \in RgSources, RelayData(s) PROVE RgInv'
  <2>1. Charged /\ PolicyCheck(s) /\ rgNow' = rgNow
    BY <1>2 DEF RelayData, Charged
  <2>. QED  BY <2>1, ChargedKeeps, PolicyCheckPaid DEF RgInv
<1>3. CASE RelayControl
  <2>1. Charged /\ UNCHANGED <<policy, rgRef, rgNow>>
    BY <1>3 DEF RelayControl, Charged
  <2>2. RgPaid'
    BY <2>1 DEF RgInv, RgPaid
  <2>. QED  BY <2>1, <2>2, ChargedKeeps DEF RgInv
<1>4. CASE BudgetDrop
  <2>1. RgPaid'
    BY <1>4 DEF BudgetDrop, RgInv, RgPaid
  <2>. QED  BY <1>4, <2>1, BudgetDropKeeps DEF RgInv
<1>5. ASSUME NEW share \in {1, 2, 4}, Adapt(share) PROVE RgInv'
  <2>1. RgPaid'
    BY <1>5 DEF Adapt, RgInv, RgPaid
  <2>. QED  BY <1>5, <2>1, AdaptKeeps DEF RgInv
<1>6. CASE RgTick
  BY <1>6, RgTickPaid, RgTickBudget DEF RgInv
<1>. QED  BY <1>1, <1>2, <1>3, <1>4, <1>5, <1>6 DEF RgNext

LEMMA RgRateKept == RgInv => RelayRateKept
<1>. SUFFICES ASSUME RgInv PROVE RelayRateKept
  OBVIOUS
<1>1. ASSUME NEW i \in Indices PROVE Refill(policy[i]).tokens * RgSec <= rgRef[i]
  <2>. DEFINE r == Refill(policy[i])
  <2>1. /\ policy[i] \in Buckets /\ rgNow \in RgClock /\ rgRef[i] \in 0 .. RefCap
        /\ Below(policy[i], rgNow, rgRef[i])
    BY DEF RgInv, RgPaid
  <2>2. Below(r, rgNow, rgRef[i])
    BY <2>1, RefillBelow
  <2>. QED  BY <2>2 DEF Below
<1>2. SumFunction(rgLog) <= 2 * FwdCap
  <2>1. RgBudget
    BY DEF RgInv
  <2>2. PICK k \in 1 .. FwdWindow : Counted(rgLog, fb, RgAge(fb.start), k)
    BY <2>1 DEF RgBudget
  <2>3. fb.count \in Nat /\ fb.count <= FwdCap /\ FwdCap \in Nat /\ k \in 0 .. FwdWindow
    BY <2>1, RgConstants DEF RgBudget, Budgets
  <2>4. Prefix(rgLog, k) \in Nat /\ SumFunction(rgLog) \in Nat
    BY <2>1, <2>3, LogType
  <2>. QED  BY <2>2, <2>3, <2>4 DEF Counted
<1>. QED  BY <1>1, <1>2 DEF RelayRateKept, PolicyKept, BudgetKeptTwice

-----------------------------------------------------------------------------
(***************************************************************************)
(* The relay fabric: how old what the buckets of a second hold may be.     *)
(***************************************************************************)
FaClock == 0 .. FaMod - 1
Seconds == 0 .. FaSecMod - FaBuckets - 1
Fabs == [buckets : [Ring -> Nat], last : Seconds, score : Nat]

\* The buckets of the m newest seconds of the ring, and what they hold.
Newest(last, m) == {i \in Ring : Back(FaBuckets, last, i) < m}
Young(f, m) == SumFunctionOnSet(f.buckets, Newest(f.last, m))

\* The ticks from the start of those seconds up to now.
Reach(last, t, m) == t + 1 + m * Sec - Sec - last * Sec

Fresh(f, t, load) ==
  \A m \in 1 .. FaBuckets :
    Reach(f.last, t, m) <= Horizon => Young(f, m) <= Prefix(load, Reach(f.last, t, m))

LEMMA FaConstants ==
  /\ FaBuckets \in Nat \ {0} /\ Sec \in Nat \ {0} /\ FaMod \in Nat \ {0} /\ FaSecMod \in Nat \ {0}
  /\ FaDrain \in Nat /\ RxWeight \in Nat /\ BlockedWeight \in Nat /\ FailWeight \in Nat
  /\ FaMod + FaBuckets * Sec <= FaSecMod * Sec /\ FaDrain * Sec + 3 * Sec <= FaMod
  /\ FaBuckets * Sec \in Nat /\ FaSecMod * Sec \in Nat /\ FaDrain * Sec \in Nat
  /\ Horizon = FaBuckets * Sec /\ Sec <= Horizon /\ Horizon \in Nat \ {0}
  /\ IsFiniteSet(Ring) /\ Ring = 0 .. FaBuckets - 1 /\ (FaDrain + 1) * Sec = FaDrain * Sec + Sec
<1>1. /\ FaBuckets \in Nat \ {0} /\ Sec \in Nat \ {0} /\ FaMod \in Nat \ {0} /\ FaSecMod \in Nat \ {0}
      /\ FaDrain \in Nat /\ RxWeight \in Nat /\ BlockedWeight \in Nat /\ FailWeight \in Nat
      /\ FaMod + FaBuckets * Sec <= FaSecMod * Sec /\ (FaDrain + 3) * Sec <= FaMod
  BY FaAssumption
<1>2. FaBuckets * Sec \in Nat /\ FaSecMod * Sec \in Nat /\ FaDrain * Sec \in Nat
  BY <1>1
<1>3. (FaDrain + 3) * Sec = FaDrain * Sec + 3 * Sec /\ (FaDrain + 1) * Sec = FaDrain * Sec + Sec
  BY <1>1
<1>4. Sec <= FaBuckets * Sec
  BY <1>1, TimesMono
<1>5. IsFiniteSet(Ring) /\ Ring = 0 .. FaBuckets - 1
  BY <1>1, FS_Interval DEF Ring
<1>. QED  BY <1>1, <1>2, <1>3, <1>4, <1>5 DEF Horizon

\* The second of a reading.
LEMMA SecondOf ==
  ASSUME NEW t \in FaClock
  PROVE  /\ t \div Sec \in Seconds /\ (t \div Sec) * Sec \in Nat
         /\ (t \div Sec) * Sec <= t /\ t < (t \div Sec) * Sec + Sec
<1>. DEFINE s == t \div Sec
<1>1. t \in Nat /\ t < FaMod
  BY FaConstants DEF FaClock
<1>2. s \in Nat /\ s * Sec \in Nat /\ s * Sec <= t /\ t < s * Sec + Sec
  <2>. DEFINE y == t % Sec
  <2>1. s \in Nat /\ s * Sec \in Nat /\ y \in 0 .. Sec - 1 /\ t = s * Sec + y
    BY <1>1, FaConstants, DivMod
  <2>. HIDE DEF s, y
  <2>. QED  BY <2>1, FaConstants
<1>. HIDE DEF s
<1>3. ~(FaSecMod - FaBuckets <= s)
  <2>1. ASSUME FaSecMod - FaBuckets <= s PROVE FALSE
    <3>1. FaSecMod <= s + FaBuckets /\ s + FaBuckets \in Nat
      BY <1>2, <2>1, FaConstants
    <3>2. FaSecMod * Sec <= (s + FaBuckets) * Sec
      <4>1. CASE FaSecMod = s + FaBuckets
        BY <4>1, FaConstants
      <4>2. CASE FaSecMod < s + FaBuckets
        BY <3>1, <4>2, FaConstants, TimesMono
      <4>. QED  BY <3>1, <4>1, <4>2, FaConstants
    <3>3. (s + FaBuckets) * Sec = s * Sec + FaBuckets * Sec
      BY <1>2, FaConstants
    <3>. QED  BY <1>1, <1>2, <3>2, <3>3, FaConstants
  <2>. QED  BY <2>1
<1>. QED  BY <1>2, <1>3, FaConstants DEF Seconds, s

LEMMA SecondsApart ==
  ASSUME NEW a \in Seconds, NEW b \in Seconds, a < b
  PROVE  a * Sec + Sec <= b * Sec /\ a * Sec \in Nat /\ b * Sec \in Nat
<1>1. a \in Nat /\ b \in Nat /\ a \in Int /\ b \in Int
  BY FaConstants DEF Seconds
<1>. QED  BY <1>1, FaConstants, TimesMono

\* A ring that is advanced to a second before its own is cleared; to a later one, it
\* keeps what is still on the circle.
LEMMA AdvanceTo ==
  ASSUME NEW f \in Fabs, NEW t \in FaClock
  PROVE  LET g == FabricAdvance(f, t) IN
         /\ g \in Fabs /\ g.last = t \div Sec
         /\ t \div Sec < f.last => \A i \in Ring : g.buckets[i] = 0
         /\ f.last <= t \div Sec =>
              \A i \in Ring : \/ g.buckets[i] = 0
                              \/ /\ g.buckets[i] = f.buckets[i]
                                 /\ Back(FaBuckets, g.last, i) =
                                      Back(FaBuckets, f.last, i) + (g.last - f.last)
<1>. DEFINE sec == t \div Sec
            delta == (sec + FaSecMod - f.last) % FaSecMod
            gone == {(f.last + d) % FaBuckets :
                 d \in 1 .. (IF delta > FaBuckets THEN FaBuckets ELSE delta)}
            b == [i \in Ring |-> IF i \in gone THEN 0 ELSE f.buckets[i]]
            g == FabricAdvance(f, t)
<1>1. g = IF sec = f.last THEN f ELSE [f EXCEPT !.buckets = b, !.last = sec]
  BY DEF FabricAdvance
<1>2. sec \in Seconds /\ f.last \in Seconds /\ f.buckets \in [Ring -> Nat] /\ sec \in Nat /\ f.last \in Nat
  BY SecondOf, FaConstants DEF Fabs, Seconds
<1>. HIDE DEF sec
<1>3. CASE sec = f.last
  <2>1. g = f
    BY <1>1, <1>3
  <2>. HIDE DEF g
  <2>2. \A i \in Ring : Back(FaBuckets, f.last, i) = Back(FaBuckets, f.last, i) + (f.last - f.last)
    <3>1. ASSUME NEW i \in Ring PROVE Back(FaBuckets, f.last, i) \in Nat
      <4>1. i \in 0 .. FaBuckets - 1 /\ FaBuckets \in Nat \ {0} /\ f.last \in Nat
        BY <1>2, FaConstants
      <4>2. Back(FaBuckets, f.last, i) \in 0 .. FaBuckets - 1
        BY <4>1, BackType
      <4>. QED  BY <4>1, <4>2
    <3>. QED  BY <1>2, <3>1
  <2>. QED  BY <1>2, <1>3, <2>1, <2>2 DEF g, sec
<1>4. CASE sec # f.last
  <2>. HIDE DEF gone
  <2>1. b \in [Ring -> Nat]
    BY <1>2
  <2>. HIDE DEF b
  <2>2. g \in Fabs /\ g.last = sec /\ g.buckets = b
    BY <1>1, <1>2, <1>4, <2>1 DEF Fabs
  <2>. HIDE DEF g
  <2>3. ASSUME sec < f.last, NEW i \in Ring PROVE b[i] = 0
    <3>1. delta > FaBuckets
      <4>1. /\ sec \in Nat /\ f.last \in Nat /\ f.last < FaSecMod - FaBuckets /\ FaSecMod \in Nat \ {0}
            /\ FaBuckets \in Nat
        BY <1>2, FaConstants DEF Seconds
      <4>. DEFINE x == sec + FaSecMod - f.last
      <4>2. x \in Nat /\ x < FaSecMod /\ x > FaBuckets
        BY <2>3, <4>1
      <4>. HIDE DEF x
      <4>3. x % FaSecMod = x
        BY <4>1, <4>2
      <4>. QED  BY <4>2, <4>3 DEF x
    <3>. DEFINE y == Back(FaBuckets, f.last, i)
                e == FaBuckets - y
    <3>2. y \in 0 .. FaBuckets - 1 /\ (f.last + e) % FaBuckets = i
      <4>1. i \in 0 .. FaBuckets - 1 /\ FaBuckets \in Nat \ {0} /\ f.last \in Nat
        BY <1>2, FaConstants
      <4>. QED  BY <4>1, BackType
    <3>. HIDE DEF y
    <3>3. e \in 1 .. FaBuckets
      BY <3>2, FaConstants
    <3>4. i \in gone
      BY <3>1, <3>2, <3>3 DEF gone
    <3>. QED  BY <3>4 DEF b
  <2>4. ASSUME f.last <= sec, NEW i \in Ring, b[i] # 0
        PROVE  b[i] = f.buckets[i] /\ Back(FaBuckets, sec, i) = Back(FaBuckets, f.last, i) + (sec - f.last)
    <3>1. i \notin gone /\ b[i] = f.buckets[i]
      BY <2>4 DEF b
    <3>. DEFINE d == sec - f.last
    <3>2. delta = d /\ d \in Nat /\ f.last + d = sec
      <4>1. /\ sec \in Nat /\ f.last \in Nat /\ sec < FaSecMod /\ FaSecMod \in Nat \ {0}
        BY <1>2, FaConstants DEF Seconds
      <4>2. d \in Nat /\ f.last + d = sec /\ d < FaSecMod /\ sec + FaSecMod - f.last = d + FaSecMod
        BY <2>4, <4>1
      <4>. HIDE DEF d
      <4>3. d + FaSecMod \in Nat /\ d + FaSecMod < FaSecMod + FaSecMod /\ ~(d + FaSecMod < FaSecMod)
        BY <4>1, <4>2
      <4>4. (d + FaSecMod) % FaSecMod = (d + FaSecMod) - FaSecMod
        BY <4>1, <4>3, ModOnce
      <4>5. (d + FaSecMod) - FaSecMod = d
        BY <4>1, <4>2
      <4>. QED  BY <4>2, <4>4, <4>5
    <3>3. \A e \in 1 .. (IF d > FaBuckets THEN FaBuckets ELSE d) : (f.last + e) % FaBuckets # i
      BY <3>1, <3>2 DEF gone
    <3>. HIDE DEF d
    <3>4. Back(FaBuckets, f.last + d, i) = Back(FaBuckets, f.last, i) + d
      <4>1. i \in 0 .. FaBuckets - 1 /\ FaBuckets \in Nat \ {0} /\ f.last \in Nat
        BY <1>2, FaConstants
      <4>. QED  BY <3>2, <3>3, <4>1, BackKept, ZenonT(60)
    <3>. QED  BY <3>1, <3>2, <3>4 DEF d
  <2>. QED  BY <2>2, <2>3, <2>4 DEF g, sec
<1>. QED  BY <1>3, <1>4

Loads == {l \in Seq(Nat) : Len(l) = Horizon}

LEMMA LoadsType ==
  ASSUME NEW l \in Loads
  PROVE  /\ l \in [1 .. Horizon -> Nat] /\ l \in Seq(Nat) /\ Len(l) = Horizon
         /\ \A k \in 0 .. Horizon : Prefix(l, k) \in Nat
         /\ Prefix(l, Horizon) = SumFunction(l)
<1>1. l \in [1 .. Horizon -> Nat] /\ l \in Seq(Nat) /\ Len(l) = Horizon /\ Horizon \in Nat
      /\ Horizon \in 0 .. Horizon
  BY FaConstants DEF Loads
<1>2. \A k \in 0 .. Horizon : Prefix(l, k) \in Nat /\ Prefix(l, Horizon) = SumFunction(l)
  BY <1>1, PrefixNext
<1>. QED  BY <1>1, <1>2

LEMMA ReachType ==
  ASSUME NEW last \in Nat, NEW t \in FaClock, last * Sec <= t, NEW m \in 1 .. FaBuckets,
         Reach(last, t, m) <= Horizon
  PROVE  Reach(last, t, m) \in 1 .. Horizon
<1>1. last * Sec \in Nat /\ t \in Nat /\ m \in Nat \ {0} /\ m * Sec \in Nat
  BY FaConstants DEF FaClock
<1>2. Sec <= m * Sec
  BY <1>1, FaConstants, TimesMono
<1>3. Reach(last, t, m) \in Int /\ Reach(last, t, m) >= 1
  BY <1>1, <1>2, FaConstants DEF Reach
<1>. QED  BY <1>3, FaConstants

LEMMA NewestType ==
  ASSUME NEW f \in Fabs, NEW m
  PROVE  /\ f.buckets \in [Ring -> Nat] /\ f.last \in Seconds /\ f.last \in Nat
         /\ Newest(f.last, m) \in SUBSET Ring /\ Young(f, m) \in Nat
<1>1. f.buckets \in [Ring -> Nat] /\ f.last \in Seconds /\ f.last \in Nat
  BY FaConstants DEF Fabs, Seconds
<1>2. Newest(f.last, m) \in SUBSET Ring
  BY DEF Newest
<1>. QED  BY <1>1, <1>2, FaConstants, SumRecursion DEF Young

LEMMA FreshZero ==
  ASSUME NEW f \in Fabs, NEW t \in FaClock, NEW l \in Loads, f.last * Sec <= t,
         \A i \in Ring : f.buckets[i] = 0
  PROVE  Fresh(f, t, l)
<1>1. ASSUME NEW m \in 1 .. FaBuckets, Reach(f.last, t, m) <= Horizon
      PROVE  Young(f, m) <= Prefix(l, Reach(f.last, t, m))
  <2>1. Young(f, m) = 0
    <3>1. Newest(f.last, m) \in SUBSET Ring /\ f.buckets \in [Ring -> Nat]
      BY NewestType
    <3>2. \A i \in Newest(f.last, m) : f.buckets[i] = 0
      BY <3>1
    <3>. QED  BY <3>1, <3>2, FaConstants, SumZero DEF Young
  <2>2. Reach(f.last, t, m) \in 1 .. Horizon
    <3>1. f.last \in Nat
      BY NewestType
    <3>. QED  BY <1>1, <3>1, ReachType
  <2>3. Prefix(l, Reach(f.last, t, m)) \in Nat
    BY <2>2, LoadsType, FaConstants
  <2>. QED  BY <2>1, <2>3
<1>. QED  BY <1>1 DEF Fresh

\* Advancing to a second that is not in the future keeps the newest fresh.
LEMMA FreshAdvance ==
  ASSUME NEW f \in Fabs, NEW g \in Fabs, NEW t \in FaClock, NEW l \in Loads, Fresh(f, t, l),
         f.last <= g.last, g.last * Sec <= t,
         \A i \in Ring : \/ g.buckets[i] = 0
                         \/ /\ g.buckets[i] = f.buckets[i]
                            /\ Back(FaBuckets, g.last, i) =
                                 Back(FaBuckets, f.last, i) + (g.last - f.last)
  PROVE  Fresh(g, t, l)
<1>. SUFFICES ASSUME NEW m \in 1 .. FaBuckets, Reach(g.last, t, m) <= Horizon
              PROVE  Young(g, m) <= Prefix(l, Reach(g.last, t, m))
  BY DEF Fresh
<1>. DEFINE d == g.last - f.last
<1>1. /\ f.buckets \in [Ring -> Nat] /\ g.buckets \in [Ring -> Nat]
      /\ f.last \in Nat /\ g.last \in Nat /\ d \in Nat /\ g.last = f.last + d
      /\ Newest(g.last, m) \in SUBSET Ring /\ Newest(f.last, m - d) \in SUBSET Ring
      /\ Young(g, m) \in Nat /\ Young(f, m - d) \in Nat
  <2>. HIDE DEF d
  <2>1. \A k : /\ f.buckets \in [Ring -> Nat] /\ f.last \in Nat
               /\ Newest(f.last, k) \in SUBSET Ring /\ Young(f, k) \in Nat
    BY NewestType
  <2>2. \A k : /\ g.buckets \in [Ring -> Nat] /\ g.last \in Nat
               /\ Newest(g.last, k) \in SUBSET Ring /\ Young(g, k) \in Nat
    BY NewestType
  <2>3. d \in Nat /\ g.last = f.last + d
    BY <2>1, <2>2 DEF d
  <2>. QED  BY <2>1, <2>2, <2>3
<1>. HIDE DEF d
<1>2. Reach(g.last, t, m) \in 1 .. Horizon
  BY <1>1, ReachType
<1>3. ASSUME NEW i \in Newest(g.last, m), g.buckets[i] # 0
      PROVE  g.buckets[i] = f.buckets[i] /\ i \in Newest(f.last, m - d)
  <2>1. i \in Ring /\ Back(FaBuckets, g.last, i) < m
    BY DEF Newest
  <2>2. g.buckets[i] = f.buckets[i] /\ Back(FaBuckets, g.last, i) = Back(FaBuckets, f.last, i) + d
    BY <1>3, <2>1 DEF d
  <2>3. Back(FaBuckets, f.last, i) \in Int
    <3>1. i \in 0 .. FaBuckets - 1 /\ FaBuckets \in Nat \ {0} /\ f.last \in Nat
      BY <1>1, <2>1, FaConstants
    <3>2. Back(FaBuckets, f.last, i) \in 0 .. FaBuckets - 1
      BY <3>1, BackType
    <3>. QED  BY <3>1, <3>2
  <2>4. Back(FaBuckets, f.last, i) < m - d
    BY <1>1, <2>1, <2>2, <2>3
  <2>. QED  BY <2>1, <2>2, <2>4 DEF Newest
<1>4. Young(g, m) <= Young(f, m - d)
  <2>1. \A i \in Newest(g.last, m) :
          g.buckets[i] = 0 \/ (g.buckets[i] = f.buckets[i] /\ i \in Newest(f.last, m - d))
    BY <1>3
  <2>. QED  BY <1>1, <2>1, FaConstants, SumLess DEF Young
<1>5. CASE m - d \in 1 .. FaBuckets
  <2>1. Reach(f.last, t, m - d) = Reach(g.last, t, m)
    <3>1. (f.last + d) * Sec = f.last * Sec + d * Sec /\ (m - d) * Sec = m * Sec - d * Sec
      <4>. DEFINE u == f.last
      <4>1. u \in Int /\ d \in Int /\ m \in Int /\ Sec \in Int
        BY <1>1, FaConstants, SMTT(60)
      <4>. HIDE DEF u
      <4>2. (u + d) * Sec = u * Sec + d * Sec /\ (m - d) * Sec = m * Sec - d * Sec
        BY <4>1
      <4>. QED  BY <4>2 DEF u
    <3>2. f.last * Sec \in Int /\ d * Sec \in Int /\ m * Sec \in Int /\ t \in Int
      <4>1. f.last \in Int /\ d \in Int /\ m \in Int /\ Sec \in Int /\ FaMod \in Int
        BY <1>1, FaConstants
      <4>. QED  BY <4>1 DEF FaClock
    <3>. QED  BY <1>1, <3>1, <3>2, FaConstants, SMTT(60) DEF Reach
  <2>2. Young(f, m - d) <= Prefix(l, Reach(g.last, t, m))
    BY <1>5, <2>1 DEF Fresh
  <2>3. Prefix(l, Reach(g.last, t, m)) \in Nat
    BY <1>2, LoadsType, FaConstants
  <2>. QED  BY <1>1, <1>4, <2>2, <2>3
<1>6. CASE ~(m - d \in 1 .. FaBuckets)
  <2>1. m - d <= 0
    <3>. DEFINE x == m - d
    <3>1. m \in Int /\ d \in Nat /\ m <= FaBuckets /\ FaBuckets \in Nat
      BY <1>1, FaConstants
    <3>2. x \in Int /\ x <= FaBuckets
      BY ONLY <3>1
    <3>3. ~(x \in 1 .. FaBuckets)
      BY <1>6
    <3>. HIDE DEF x
    <3>4. x <= 0
      BY ONLY <3>1, <3>2, <3>3
    <3>. QED  BY <3>4 DEF x
  <2>2. Newest(f.last, m - d) = {}
    <3>1. ASSUME NEW i \in Newest(f.last, m - d) PROVE FALSE
      <4>1. i \in 0 .. FaBuckets - 1 /\ FaBuckets \in Nat \ {0} /\ f.last \in Nat
        BY <1>1, FaConstants
      <4>2. Back(FaBuckets, f.last, i) \in 0 .. FaBuckets - 1
        BY <4>1, BackType
      <4>3. Back(FaBuckets, f.last, i) < m - d
        BY DEF Newest
      <4>. QED  BY <1>1, <2>1, <4>1, <4>2, <4>3
    <3>. QED  BY <3>1
  <2>3. Young(f, m - d) = 0
    BY <1>1, <2>2, FaConstants, SumRecursion DEF Young
  <2>4. Prefix(l, Reach(g.last, t, m)) \in Nat
    BY <1>2, LoadsType, FaConstants
  <2>. QED  BY <1>1, <1>4, <2>3, <2>4
<1>. QED  BY <1>5, <1>6

\* A report raises the newest bucket and the newest load alike.
LEMMA FreshCount ==
  ASSUME NEW f \in Fabs, NEW g \in Fabs, NEW t \in FaClock, NEW l \in Loads, NEW n \in Loads,
         NEW w \in Nat, Fresh(f, t, l), f.last * Sec <= t, g.last = f.last,
         g.buckets = [f.buckets EXCEPT ![f.last % FaBuckets] = @ + w],
         n[1] = l[1] + w, \A y \in 2 .. Horizon : n[y] = l[y]
  PROVE  Fresh(g, t, n)
<1>. SUFFICES ASSUME NEW m \in 1 .. FaBuckets, Reach(g.last, t, m) <= Horizon
              PROVE  Young(g, m) <= Prefix(n, Reach(g.last, t, m))
  BY DEF Fresh
<1>. DEFINE k == Reach(f.last, t, m)
            x == f.last % FaBuckets
<1>1. /\ f.buckets \in [Ring -> Nat] /\ g.buckets \in [Ring -> Nat] /\ f.last \in Nat
      /\ Newest(f.last, m) \in SUBSET Ring /\ Young(f, m) \in Nat /\ Young(g, m) \in Nat
  BY NewestType
<1>2. x \in Ring
  BY <1>1, FaConstants, BackHere
<1>3. k \in 1 .. Horizon
  BY <1>1, ReachType
<1>. HIDE DEF k
<1>4. Young(f, m) <= Prefix(l, k)
  BY <1>3 DEF Fresh, k
<1>5. Prefix(n, k) = Prefix(l, k) + w
  <2>1. l \in [1 .. Horizon -> Nat] /\ n \in [1 .. Horizon -> Nat] /\ Horizon \in Nat
    BY LoadsType, FaConstants
  <2>. DEFINE h == Horizon
  <2>2. /\ h \in Nat /\ l \in [1 .. h -> Nat] /\ n \in [1 .. h -> Nat] /\ k \in 1 .. h
        /\ n[1] = l[1] + w /\ (\A y \in 2 .. h : n[y] = l[y]) /\ w \in Nat
    BY <1>3, <2>1
  <2>. HIDE DEF h
  <2>. QED  BY ONLY <2>2, PrefixAdd
<1>6. Young(g, m) <= Young(f, m) + w
  <2>1. g.buckets[x] = f.buckets[x] + w /\ \A y \in Ring \ {x} : g.buckets[y] = f.buckets[y]
    BY <1>1, <1>2
  <2>. HIDE DEF x
  <2>. QED  BY <1>1, <1>2, <2>1, FaConstants, SumAdd, ZenonT(60) DEF Young
<1>7. Prefix(l, k) \in Nat
  <2>1. k \in 0 .. Horizon
    BY <1>3, FaConstants
  <2>. QED  BY <2>1, LoadsType, Zenon
<1>. QED  BY <1>1, <1>4, <1>5, <1>6, <1>7 DEF k

\* Time passes: what comes to the front does no harm.
LEMMA FreshShift ==
  ASSUME NEW f \in Fabs, NEW t \in FaClock, NEW d \in 0 .. Horizon, t + d \in FaClock,
         NEW l \in Loads, NEW new \in Seq(Nat), Len(new) = d, Fresh(f, t, l), f.last * Sec <= t
  PROVE  Recent(new, l, Horizon) \in Loads /\ Fresh(f, t + d, Recent(new, l, Horizon))
<1>. DEFINE n == Recent(new, l, Horizon)
<1>1. l \in [1 .. Horizon -> Nat] /\ l \in Seq(Nat) /\ Len(l) = Horizon /\ Horizon \in Nat
  BY LoadsType, FaConstants
<1>2. /\ n \in Seq(Nat) /\ Len(n) = Horizon /\ n \in [1 .. Horizon -> Nat]
      /\ \A i \in d + 1 .. Horizon : n[i] = l[i - d]
  BY <1>1, PushedFront, SMTT(30)
<1>. HIDE DEF n
<1>3. \A k \in 0 .. Horizon - d : Prefix(n, k + d) = Prefix(n, d) + Prefix(l, k)
  BY <1>1, <1>2, PrefixShift
<1>4. ASSUME NEW m \in 1 .. FaBuckets, Reach(f.last, t + d, m) <= Horizon
      PROVE  Young(f, m) <= Prefix(n, Reach(f.last, t + d, m))
  <2>. DEFINE k == Reach(f.last, t, m)
  <2>1. f.last \in Nat /\ Young(f, m) \in Nat
    BY NewestType
  <2>2. Reach(f.last, t + d, m) = k + d /\ k \in Int
    <3>1. f.last * Sec \in Int /\ m * Sec \in Int /\ t \in Int
      BY <2>1, FaConstants DEF FaClock
    <3>. QED  BY <3>1, FaConstants DEF Reach
  <2>3. k <= Horizon
    BY <1>1, <1>4, <2>2
  <2>4. k \in 1 .. Horizon
    BY <2>1, <2>3, ReachType
  <2>5. Young(f, m) <= Prefix(l, k)
    BY <2>4 DEF Fresh
  <2>. HIDE DEF k
  <2>6. k \in 0 .. Horizon - d /\ k \in 0 .. Horizon /\ d \in 0 .. Horizon
    BY <1>1, <1>4, <2>2, <2>4
  <2>7. Prefix(n, k + d) = Prefix(n, d) + Prefix(l, k)
    BY <1>3, <2>6
  <2>8. Prefix(l, k) \in Nat
    BY <2>6, LoadsType
  <2>9. Prefix(n, d) \in Nat
    <3>1. n \in Loads
      BY <1>2 DEF Loads
    <3>. QED  BY <2>6, <3>1, LoadsType
  <2>. QED  BY <2>1, <2>2, <2>5, <2>7, <2>8, <2>9
<1>5. n \in Loads
  BY <1>2 DEF Loads
<1>. QED  BY <1>4, <1>5 DEF Fresh, n

(***************************************************************************)
(* The ring is current: its second is not in the future, not further back  *)
(* than a pass lasts, and its newest buckets are fresh.  Or its second is  *)
(* ahead, when the pass read its time before the clock came round; then    *)
(* the next report clears it.                                              *)
(***************************************************************************)
Current(f, t, load) ==
  /\ f.last * Sec <= t
  /\ t < f.last * Sec + FaDrain * Sec + Sec
  /\ Fresh(f, t, load)

RingOK(f, t, load) == Current(f, t, load) \/ f.last * Sec > t + Sec

Lag == (faNow + FaMod - faPass.at) % FaMod

\* A ring advanced to the present is current.
LEMMA AdvanceNow ==
  ASSUME NEW f \in Fabs, NEW t \in FaClock, NEW l \in Loads, RingOK(f, t, l)
  PROVE  /\ FabricAdvance(f, t) \in Fabs /\ FabricAdvance(f, t).last = t \div Sec
         /\ Current(FabricAdvance(f, t), t, l)
<1>. DEFINE g == FabricAdvance(f, t)
            s == t \div Sec
<1>1. /\ g \in Fabs /\ g.last = s
      /\ s < f.last => \A i \in Ring : g.buckets[i] = 0
      /\ f.last <= s => \A i \in Ring : \/ g.buckets[i] = 0
                              \/ /\ g.buckets[i] = f.buckets[i]
                                 /\ Back(FaBuckets, g.last, i) =
                                      Back(FaBuckets, f.last, i) + (g.last - f.last)
  BY AdvanceTo
<1>2. s \in Seconds /\ s * Sec \in Nat /\ s * Sec <= t /\ t < s * Sec + Sec
  BY SecondOf
<1>. HIDE DEF g, s
<1>3. f.last \in Seconds /\ f.last \in Nat /\ s \in Nat /\ t \in Nat
  BY <1>2, NewestType, FaConstants DEF Seconds, FaClock
<1>4. Fresh(g, t, l)
  <2>1. CASE s < f.last
    BY <1>1, <1>2, <2>1, FreshZero
  <2>2. CASE f.last <= s
    <3>1. ~(f.last * Sec > t + Sec)
      <4>1. CASE f.last = s
        BY <1>2, <1>3, <4>1, FaConstants
      <4>2. CASE f.last < s
        BY <1>2, <1>3, <4>2, SecondsApart, FaConstants
      <4>. QED  BY <1>3, <2>2, <4>1, <4>2
    <3>2. Fresh(f, t, l)
      BY <3>1 DEF RingOK, Current
    <3>. QED  BY <1>1, <1>2, <2>2, <3>2, FreshAdvance
  <2>. QED  BY <1>3, <2>1, <2>2
<1>5. g.last * Sec <= t /\ t < g.last * Sec + FaDrain * Sec + Sec
  BY <1>1, <1>2, <1>3, FaConstants
<1>. QED  BY <1>1, <1>4, <1>5 DEF Current, g, s

\* Advanced to the time a pass has read, it is current, or ahead.
LEMMA AdvanceAt ==
  ASSUME NEW f \in Fabs, NEW t \in FaClock, NEW read \in FaClock, NEW l \in Loads, RingOK(f, t, l),
         (t + FaMod - read) % FaMod <= FaDrain * Sec
  PROVE  FabricAdvance(f, read) \in Fabs /\ RingOK(FabricAdvance(f, read), t, l)
<1>. DEFINE g == FabricAdvance(f, read)
            s == read \div Sec
<1>1. /\ g \in Fabs /\ g.last = s
      /\ s < f.last => \A i \in Ring : g.buckets[i] = 0
      /\ f.last <= s => \A i \in Ring : \/ g.buckets[i] = 0
                              \/ /\ g.buckets[i] = f.buckets[i]
                                 /\ Back(FaBuckets, g.last, i) =
                                      Back(FaBuckets, f.last, i) + (g.last - f.last)
  BY AdvanceTo
<1>2. s \in Seconds /\ s * Sec \in Nat /\ s * Sec <= read /\ read < s * Sec + Sec
  BY SecondOf
<1>. HIDE DEF g, s
<1>3. f.last \in Seconds /\ f.last \in Nat /\ s \in Nat /\ t \in Nat /\ read \in Nat /\ f.last * Sec \in Nat
      /\ t < FaMod /\ read < FaMod
  <2>1. f.last \in Seconds
    BY NewestType
  <2>2. f.last \in Nat /\ s \in Nat
    BY <1>2, <2>1, FaConstants DEF Seconds
  <2>3. t \in Nat /\ read \in Nat /\ t < FaMod /\ read < FaMod
    BY FaConstants DEF FaClock
  <2>4. f.last * Sec \in Nat
    BY <2>2, FaConstants
  <2>. QED  BY <2>1, <2>2, <2>3, <2>4
<1>4. CASE read <= t
  <2>1. t - read <= FaDrain * Sec
    <3>1. t + FaMod - read = (t - read) + FaMod /\ t - read \in Nat /\ t - read < FaMod
      BY <1>3, <1>4, FaConstants
    <3>. DEFINE x == (t - read) + FaMod
    <3>2. x \in Nat /\ x < FaMod + FaMod /\ ~(x < FaMod) /\ x - FaMod = t - read
      BY <3>1, FaConstants
    <3>. HIDE DEF x
    <3>3. x % FaMod = x - FaMod
      BY <3>2, FaConstants, ModOnce
    <3>. QED  BY <3>1, <3>2, <3>3 DEF x
  <2>2. s * Sec <= t /\ t < s * Sec + FaDrain * Sec + Sec
    BY <1>2, <1>3, <1>4, <2>1, FaConstants
  <2>3. Fresh(g, t, l)
    <3>1. CASE s < f.last
      BY <1>1, <2>2, <3>1, FreshZero
    <3>2. CASE f.last <= s
      <4>1. ~(f.last * Sec > t + Sec)
        <5>1. CASE f.last = s
          BY <1>2, <1>3, <2>2, <5>1, FaConstants
        <5>2. CASE f.last < s
          BY <1>2, <1>3, <2>2, <5>2, SecondsApart, FaConstants, SMTT(30)
        <5>. QED  BY <1>3, <3>2, <5>1, <5>2
      <4>2. Fresh(f, t, l)
        BY <4>1 DEF RingOK, Current
      <4>. QED  BY <1>1, <2>2, <3>2, <4>2, FreshAdvance
    <3>. QED  BY <1>3, <3>1, <3>2
  <2>. QED  BY <1>1, <2>2, <2>3 DEF RingOK, Current, g
<1>5. CASE t < read
  <2>1. t + FaMod - read <= FaDrain * Sec
    <3>. DEFINE x == t + FaMod - read
    <3>1. x \in Nat /\ x < FaMod
      <4>1. t \in Nat /\ read \in Nat /\ FaMod \in Nat /\ t < read /\ read < FaMod
        BY <1>3, <1>5, FaConstants
      <4>. QED  BY <4>1
    <3>2. x % FaMod = x
      <4>. HIDE DEF x
      <4>. QED  BY <3>1, FaConstants
    <3>. QED  BY <3>2
  <2>2. s * Sec > t + Sec
    BY <1>2, <1>3, <2>1, FaConstants
  <2>. QED  BY <1>1, <2>2 DEF RingOK, g
<1>. QED  BY <1>3, <1>4, <1>5

\* Time passes and the ring is advanced: it is current, wherever the clock wraps.
LEMMA AdvanceLater ==
  ASSUME NEW f \in Fabs, NEW t \in FaClock, NEW d \in 1 .. Sec, NEW l \in Loads, RingOK(f, t, l),
         NEW new \in Seq(Nat), Len(new) = d
  PROVE  LET u == (t + d) % FaMod
             n == Recent(new, l, Horizon)
         IN  /\ u \in FaClock /\ n \in Loads /\ FabricAdvance(f, u) \in Fabs
             /\ FabricAdvance(f, u).last = u \div Sec /\ Current(FabricAdvance(f, u), u, n)
<1>. DEFINE u == (t + d) % FaMod
            n == Recent(new, l, Horizon)
            g == FabricAdvance(f, u)
            s == u \div Sec
<1>0. t \in Nat /\ t < FaMod /\ d \in Nat /\ d <= Sec /\ 0 < d /\ d \in 0 .. Horizon /\ Sec < FaMod
  BY FaConstants DEF FaClock
<1>1. u = (IF t + d < FaMod THEN t + d ELSE t + d - FaMod) /\ u \in FaClock
  <2>1. t + d \in Nat /\ t + d < FaMod + FaMod
    BY <1>0, FaConstants
  <2>2. u = (IF t + d < FaMod THEN t + d ELSE t + d - FaMod)
    <3>. DEFINE x == t + d
    <3>1. x \in Nat /\ x < FaMod + FaMod /\ FaMod \in Nat \ {0}
      BY <2>1, FaConstants
    <3>. HIDE DEF x
    <3>2. x % FaMod = IF x < FaMod THEN x ELSE x - FaMod
      BY <3>1, ModOnce
    <3>. QED  BY <1>0, <3>1, <3>2 DEF x
  <2>. HIDE DEF u
  <2>3. FaMod \in Nat \ {0} /\ t + d \in Nat /\ t + d < FaMod + FaMod
    BY <2>1, FaConstants
  <2>4. u \in Nat /\ u < FaMod
    BY <1>0, <2>2, <2>3
  <2>5. u \in FaClock
    BY <2>3, <2>4 DEF FaClock
  <2>. QED  BY <2>2, <2>5
<1>2. n \in Loads
  <2>1. /\ l \in Seq(Nat) /\ Len(l) = Horizon /\ Horizon \in Nat
    BY LoadsType, FaConstants
  <2>2. n \in Seq(Nat) /\ Len(n) = Horizon
    BY <1>0, <2>1, PushedFront
  <2>. QED  BY <2>2 DEF Loads
<1>. HIDE DEF u, n
<1>3. /\ g \in Fabs /\ g.last = s
      /\ s < f.last => \A i \in Ring : g.buckets[i] = 0
  BY <1>1, AdvanceTo
<1>4. s \in Seconds /\ s * Sec \in Nat /\ s * Sec <= u /\ u < s * Sec + Sec /\ s \in Nat /\ u \in Nat
  BY <1>1, SecondOf, FaConstants, SMTT(30) DEF Seconds, FaClock
<1>5. f.last \in Seconds /\ f.last \in Nat /\ f.last * Sec \in Nat
  <2>1. f.last \in Seconds /\ f.last \in Nat /\ Sec \in Nat
    BY NewestType, FaConstants
  <2>. QED  BY <2>1
<1>6. CASE s < f.last
  <2>1. Fresh(g, u, n)
    <3>. HIDE DEF g, s
    <3>. QED  BY <1>1, <1>2, <1>3, <1>4, <1>6, FreshZero
  <2>2. g.last * Sec <= u /\ u < g.last * Sec + FaDrain * Sec + Sec
    <3>. HIDE DEF g, s
    <3>. QED  BY <1>3, <1>4, FaConstants
  <2>. QED  BY <1>1, <1>2, <1>3, <2>1, <2>2 DEF Current, u, n
<1>7. CASE f.last <= s
  <2>. HIDE DEF s
  <2>1. f.last * Sec <= s * Sec
    <3>1. CASE f.last = s
      BY <1>4, <1>5, <3>1
    <3>2. CASE f.last < s
      BY <1>4, <1>5, <3>2, SecondsApart, FaConstants
    <3>. QED  BY <1>4, <1>5, <1>7, <3>1, <3>2
  <2>2. u <= t + Sec
    BY <1>0, <1>1, FaConstants
  <2>3. Current(f, t, l)
    BY <1>0, <1>4, <1>5, <2>1, <2>2, FaConstants DEF RingOK
  <2>4. t + d < FaMod
    <3>1. ASSUME ~(t + d < FaMod) PROVE FALSE
      <4>1. u < Sec
        BY <1>0, <1>1, <3>1, FaConstants
      <4>2. f.last * Sec + FaDrain * Sec + Sec > FaMod - Sec
        <5>1. t < f.last * Sec + FaDrain * Sec + Sec
          BY <2>3 DEF Current
        <5>. HIDE DEF u
        <5>. QED  BY <1>0, <1>5, <3>1, <5>1, FaConstants, SMTT(30)
      <4>3. f.last * Sec > Sec
        BY <1>5, <4>2, FaConstants, SMTT(30)
      <4>. QED  BY <1>4, <1>5, <2>1, <4>1, <4>3, FaConstants
    <3>. QED  BY <3>1
  <2>5. u = t + d
    BY <1>1, <2>4
  <2>6. Fresh(f, u, n)
    <3>1. t + d \in FaClock /\ f.last * Sec <= t /\ Fresh(f, t, l)
      BY <1>1, <2>3, <2>5 DEF Current
    <3>2. Fresh(f, t + d, Recent(new, l, Horizon))
      BY <1>0, <3>1, FreshShift
    <3>. QED  BY <2>5, <3>2 DEF n
  <2>7. Current(f, u, n) \/ f.last * Sec > u + Sec \/ Fresh(f, u, n)
    BY <2>6
  <2>8. /\ g \in Fabs /\ g.last = s
        /\ \A i \in Ring : \/ g.buckets[i] = 0
                           \/ /\ g.buckets[i] = f.buckets[i]
                              /\ Back(FaBuckets, g.last, i) =
                                   Back(FaBuckets, f.last, i) + (g.last - f.last)
    BY <1>1, <1>7, AdvanceTo DEF s
  <2>. HIDE DEF g
  <2>9. Fresh(g, u, n)
    BY <1>1, <1>2, <1>4, <1>7, <2>6, <2>8, FreshAdvance
  <2>10. g.last * Sec <= u /\ u < g.last * Sec + FaDrain * Sec + Sec
    BY <1>4, <2>8, FaConstants
  <2>. QED  BY <1>1, <1>2, <2>8, <2>9, <2>10 DEF Current, g, s, u, n
<1>. QED  BY <1>4, <1>5, <1>6, <1>7

LEMMA CountOK ==
  ASSUME NEW f \in Fabs, NEW t \in FaClock, NEW l \in Loads, NEW n \in Loads, NEW w \in Nat,
         n[1] = l[1] + w, \A y \in 2 .. Horizon : n[y] = l[y]
  PROVE  LET g == [f EXCEPT !.buckets[f.last % FaBuckets] = @ + w]
         IN  /\ g \in Fabs /\ g.last = f.last
             /\ Current(f, t, l) => Current(g, t, n)
             /\ RingOK(f, t, l) => RingOK(g, t, n)
<1>. DEFINE x == f.last % FaBuckets
            g == [f EXCEPT !.buckets[x] = @ + w]
<1>1. f.buckets \in [Ring -> Nat] /\ f.last \in Nat
  BY NewestType
<1>2. x \in Ring
  BY <1>1, FaConstants, BackHere
<1>. HIDE DEF x
<1>3. g \in Fabs /\ g.last = f.last /\ g.buckets = [f.buckets EXCEPT ![x] = @ + w]
  <2>. DEFINE b == [f.buckets EXCEPT ![x] = @ + w]
  <2>1. b \in [Ring -> Nat]
    BY <1>1, <1>2
  <2>2. g = [f EXCEPT !.buckets = b]
    BY DEF Fabs
  <2>. HIDE DEF b, g
  <2>3. g \in Fabs /\ g.last = f.last /\ g.buckets = b
    BY <2>1, <2>2 DEF Fabs
  <2>. QED  BY <2>3 DEF b
<1>. HIDE DEF g
<1>4. ASSUME Current(f, t, l) PROVE Current(g, t, n)
  <2>1. Fresh(f, t, l) /\ f.last * Sec <= t
    BY <1>4 DEF Current
  <2>2. Fresh(g, t, n)
    BY <1>3, <2>1, FreshCount DEF x
  <2>. QED  BY <1>3, <1>4, <2>2 DEF Current
<1>5. RingOK(f, t, l) => RingOK(g, t, n)
  BY <1>3, <1>4 DEF RingOK
<1>. QED  BY <1>3, <1>4, <1>5 DEF g, x

FaInv ==
  /\ fab \in Fabs /\ faNow \in FaClock /\ faLoad \in Loads
  /\ faPass \in [at : FaClock, left : 0 .. FaDrain]
  /\ InPass => Lag + faPass.left * Sec <= FaDrain * Sec
  /\ RingOK(fab, faNow, faLoad)

LEMMA FaStart == FaInit => FaInv
<1>. SUFFICES ASSUME FaInit PROVE FaInv
  OBVIOUS
<1>1. faNow \in FaClock /\ faNow \div Sec \in Seconds /\ (faNow \div Sec) * Sec <= faNow
      /\ faNow < (faNow \div Sec) * Sec + Sec /\ (faNow \div Sec) * Sec \in Nat
  <2>1. faNow \in FaClock
    BY DEF FaInit, FaClock
  <2>. QED  BY <2>1, SecondOf
<1>2. fab \in Fabs /\ fab.last = faNow \div Sec /\ \A i \in Ring : fab.buckets[i] = 0
  BY <1>1 DEF FaInit, Fabs
<1>3. faLoad \in Loads
  <2>1. faLoad \in [1 .. Horizon -> Nat]
    BY DEF FaInit
  <2>. QED  BY <2>1, FaConstants DEF Loads
<1>4. Fresh(fab, faNow, faLoad)
  BY <1>1, <1>2, <1>3, FreshZero
<1>5. faNow < (faNow \div Sec) * Sec + FaDrain * Sec + Sec
  <2>. DEFINE s == (faNow \div Sec) * Sec
  <2>1. s \in Nat /\ faNow < s + Sec /\ faNow \in Nat
    BY <1>1, FaConstants DEF FaClock
  <2>. HIDE DEF s
  <2>2. faNow < s + FaDrain * Sec + Sec
    BY <2>1, FaConstants
  <2>. QED  BY <2>2 DEF s
<1>6. faPass \in [at : FaClock, left : 0 .. FaDrain] /\ ~InPass
  BY <1>1, FaConstants DEF FaInit, InPass
<1>. QED  BY <1>1, <1>2, <1>3, <1>4, <1>5, <1>6 DEF FaInv, RingOK, Current

\* Only the verdict changes.
LEMMA FreshSame ==
  ASSUME NEW f, NEW g, g.buckets = f.buckets, g.last = f.last, NEW t, NEW l
  PROVE  (Fresh(f, t, l) => Fresh(g, t, l)) /\ (Current(f, t, l) => Current(g, t, l))
<1>1. Fresh(f, t, l) => Fresh(g, t, l)
  BY DEF Fresh, Young
<1>. QED  BY <1>1 DEF Current

LEMMA TotalType ==
  ASSUME NEW f \in Fabs
  PROVE  RingTotal(f) \in Nat /\ RingTotal(f) = Young(f, FaBuckets)
<1>1. f.buckets \in [Ring -> Nat] /\ f.last \in Nat /\ Young(f, FaBuckets) \in Nat
  BY NewestType
<1>2. Newest(f.last, FaBuckets) = Ring
  <2>1. ASSUME NEW i \in Ring PROVE Back(FaBuckets, f.last, i) < FaBuckets
    <3>1. i \in 0 .. FaBuckets - 1 /\ FaBuckets \in Nat \ {0} /\ f.last \in Nat
      BY <1>1, FaConstants
    <3>2. Back(FaBuckets, f.last, i) \in 0 .. FaBuckets - 1
      BY <3>1, BackType
    <3>. QED  BY <3>1, <3>2
  <2>. QED  BY <2>1 DEF Newest
<1>3. DOMAIN f.buckets = Ring
  BY <1>1
<1>. QED  BY <1>1, <1>2, <1>3 DEF RingTotal, Young, SumFunction

LEMMA ReportedKeeps ==
  ASSUME faLoad \in Loads, NEW w \in Nat, Reported(w)
  PROVE  faLoad' \in Loads /\ faLoad'[1] = faLoad[1] + w /\ \A y \in 2 .. Horizon : faLoad'[y] = faLoad[y]
<1>. DEFINE g == [faLoad EXCEPT ![1] = @ + w]
<1>1. faLoad \in Seq(Nat) /\ Len(faLoad) = Horizon /\ Horizon \in Nat \ {0}
  BY FaConstants DEF Loads
<1>2. faLoad[1] \in Nat /\ 1 \in 1 .. Horizon /\ \A y \in 2 .. Horizon : y # 1 /\ y \in 1 .. Horizon
  BY <1>1
<1>3. g \in Seq(Nat) /\ Len(g) = Horizon /\ g[1] = faLoad[1] + w
  BY <1>1, <1>2
<1>4. \A y \in 2 .. Horizon : g[y] = faLoad[y]
  BY <1>1, <1>2
<1>5. faLoad' = g
  BY DEF Reported
<1>. HIDE DEF g
<1>. QED  BY <1>3, <1>4, <1>5 DEF Loads

LEMMA LagNow ==
  ASSUME NEW t \in FaClock
  PROVE  (t + FaMod - t) % FaMod = 0
<1>1. FaMod \in Nat \ {0} /\ t \in 0 .. FaMod - 1
  BY FaConstants DEF FaClock
<1>. QED  BY <1>1, AgeZero

LEMMA LagLater ==
  ASSUME NEW t \in FaClock, NEW read \in FaClock, NEW d \in 1 .. Sec,
         ((t + FaMod - read) % FaMod) + d < FaMod
  PROVE  (((t + d) % FaMod) + FaMod - read) % FaMod = ((t + FaMod - read) % FaMod) + d
<1>. DEFINE c == FaMod
<1>1. c \in Nat \ {0} /\ t \in 0 .. c - 1 /\ read \in 0 .. c - 1 /\ d \in Nat /\ 0 < d /\ d <= c
      /\ ((t + c - read) % c) + d < c
  <2>1. Sec < FaMod
    BY FaConstants
  <2>. QED  BY <2>1, FaConstants DEF FaClock
<1>. HIDE DEF c
<1>. DEFINE u == IF t + d < c THEN t + d ELSE t + d - c
<1>2. (t + d) % c = u /\ u \in 0 .. c - 1
  <2>. DEFINE x == t + d
  <2>1. x \in Nat /\ x < c + c
    BY <1>1
  <2>. HIDE DEF x
  <2>2. x % c = IF x < c THEN x ELSE x - c
    BY <1>1, <2>1, ModOnce
  <2>. QED  BY <1>1, <2>1, <2>2 DEF x
<1>3. (t + c - read) % c = IF read <= t THEN t - read ELSE t + c - read
  <2>. DEFINE x == t + c - read
  <2>1. x \in Nat /\ x < c + c /\ (x < c <=> ~(read <= t))
    BY <1>1
  <2>. HIDE DEF x
  <2>2. x % c = IF x < c THEN x ELSE x - c
    BY <1>1, <2>1, ModOnce
  <2>. QED  BY <1>1, <2>1, <2>2 DEF x
<1>4. (u + c - read) % c = IF read <= u THEN u - read ELSE u + c - read
  <2>. HIDE DEF u
  <2>. DEFINE x == u + c - read
  <2>1. x \in Nat /\ x < c + c /\ (x < c <=> ~(read <= u))
    BY <1>1, <1>2
  <2>. HIDE DEF x
  <2>2. x % c = IF x < c THEN x ELSE x - c
    BY <1>1, <2>1, ModOnce
  <2>. QED  BY <1>1, <1>2, <2>1, <2>2 DEF x
<1>5. (IF read <= u THEN u - read ELSE u + c - read) = (IF read <= t THEN t - read ELSE t + c - read) + d
  BY <1>1, <1>3
<1>. QED  BY <1>2, <1>3, <1>4, <1>5 DEF c

LEMMA FaAdvanced ==
  ASSUME FaInv, NEW w \in Nat, Reported(w)
  PROVE  /\ faLoad' \in Loads /\ Count(fab, faNow, w) \in Fabs
         /\ RingOK(Count(fab, faNow, w), faNow, faLoad')
<1>. DEFINE f == FabricAdvance(fab, faNow)
<1>1. fab \in Fabs /\ faNow \in FaClock /\ faLoad \in Loads /\ RingOK(fab, faNow, faLoad)
  BY DEF FaInv
<1>2. f \in Fabs /\ Current(f, faNow, faLoad)
  BY <1>1, AdvanceNow
<1>3. faLoad' \in Loads /\ faLoad'[1] = faLoad[1] + w /\ \A y \in 2 .. Horizon : faLoad'[y] = faLoad[y]
  BY <1>1, ReportedKeeps
<1>. DEFINE g == [f EXCEPT !.buckets[f.last % FaBuckets] = @ + w]
<1>4. Count(fab, faNow, w) = g
  BY DEF Count
<1>. HIDE DEF f
<1>5. g \in Fabs /\ Current(g, faNow, faLoad')
  BY <1>1, <1>2, <1>3, CountOK
<1>. QED  BY <1>3, <1>4, <1>5 DEF RingOK

\* A TX pass counts with the time it has read.
LEMMA FaPassed ==
  ASSUME FaInv, InPass, NEW w \in Nat, NEW n \in Loads,
         n[1] = faLoad[1] + w, \A y \in 2 .. Horizon : n[y] = faLoad[y]
  PROVE  /\ Count(fab, faPass.at, w) \in Fabs
         /\ RingOK(Count(fab, faPass.at, w), faNow, n)
<1>. DEFINE f == FabricAdvance(fab, faPass.at)
<1>1. /\ fab \in Fabs /\ faNow \in FaClock /\ faLoad \in Loads /\ RingOK(fab, faNow, faLoad)
      /\ faPass.at \in FaClock /\ faPass.left \in Nat
  BY FaConstants DEF FaInv
<1>2. (faNow + FaMod - faPass.at) % FaMod <= FaDrain * Sec
  <2>. DEFINE lag == (faNow + FaMod - faPass.at) % FaMod
  <2>1. lag + faPass.left * Sec <= FaDrain * Sec
    BY DEF FaInv, Lag
  <2>2. lag \in Nat
    <3>1. faNow + FaMod - faPass.at \in Nat
      BY <1>1, FaConstants DEF FaClock
    <3>. QED  BY <3>1, FaConstants
  <2>3. faPass.left * Sec \in Nat
    BY <1>1, FaConstants
  <2>. HIDE DEF lag
  <2>4. lag <= FaDrain * Sec
    BY <2>1, <2>2, <2>3, FaConstants
  <2>. QED  BY <2>4 DEF lag
<1>3. f \in Fabs /\ RingOK(f, faNow, faLoad)
  BY <1>1, <1>2, AdvanceAt
<1>. DEFINE g == [f EXCEPT !.buckets[f.last % FaBuckets] = @ + w]
<1>4. Count(fab, faPass.at, w) = g
  BY DEF Count
<1>. HIDE DEF f
<1>5. g \in Fabs /\ RingOK(g, faNow, n)
  BY <1>1, <1>3, CountOK
<1>. QED  BY <1>4, <1>5

LEMMA OnTxKeeps ==
  ASSUME FaInv, NEW toa \in 1 .. Sec, NEW w \in Nat, OnTx(toa, w)
  PROVE  FaInv'
<1>. DEFINE new == [i \in 1 .. toa |-> IF i = 1 THEN w ELSE 0]
            zero == [i \in 1 .. toa |-> 0]
            end == (faNow + toa) % FaMod
            f == Count(fab, faPass.at, 0)
            g == FabricAdvance(f, end)
            l == Recent(zero, faLoad, Horizon)
            n == Recent(new, faLoad, Horizon)
<1>1. /\ InPass /\ faPass' = [faPass EXCEPT !.left = @ - 1]
      /\ fab' = [g EXCEPT !.buckets[g.last % FaBuckets] = @ + w]
      /\ faNow' = end /\ faLoad' = n
  BY Zenon DEF OnTx, FaTaken, Count, Recent
<1>2. /\ fab \in Fabs /\ faNow \in FaClock /\ faLoad \in Loads /\ RingOK(fab, faNow, faLoad)
      /\ faPass \in [at : FaClock, left : 0 .. FaDrain]
      /\ Lag + faPass.left * Sec <= FaDrain * Sec
  BY <1>1 DEF FaInv
<1>3. /\ faLoad \in Seq(Nat) /\ Len(faLoad) = Horizon /\ Horizon \in Nat \ {0} /\ faLoad[1] = faLoad[1] + 0
      /\ toa \in Nat \ {0} /\ toa \in 0 .. Horizon
  <2>1. faLoad \in Seq(Nat) /\ Len(faLoad) = Horizon /\ Horizon \in Nat \ {0}
    BY <1>2, LoadsType, FaConstants
  <2>2. faLoad[1] \in Nat
    BY <2>1
  <2>. QED  BY <2>1, <2>2, FaConstants
<1>4. /\ new \in Seq(Nat) /\ Len(new) = toa /\ new[1] = w /\ (\A i \in 2 .. toa : new[i] = 0)
      /\ zero \in Seq(Nat) /\ Len(zero) = toa /\ zero[1] = 0 /\ (\A i \in 2 .. toa : zero[i] = 0)
  BY <1>3
<1>. HIDE DEF new, zero
<1>5. f \in Fabs /\ RingOK(f, faNow, faLoad)
  BY <1>1, <1>2, <1>3, FaPassed
<1>. HIDE DEF f
<1>6. /\ end \in FaClock /\ l \in Loads /\ g \in Fabs /\ Current(g, end, l)
  BY <1>2, <1>4, <1>5, AdvanceLater
<1>a. ASSUME NEW x \in Seq(Nat), Len(x) = toa
      PROVE  LET r == Recent(x, faLoad, Horizon) IN
             /\ r \in Seq(Nat) /\ Len(r) = Horizon /\ (\A i \in 1 .. toa : r[i] = x[i])
             /\ (\A i \in toa + 1 .. Horizon : r[i] = faLoad[i - toa])
  <2>. DEFINE old == faLoad
              size == Horizon
              r == Recent(x, old, size)
  <2>1. size \in Nat /\ toa \in 0 .. size /\ old \in Seq(Nat) /\ Len(old) = size
        /\ x \in Seq(Nat) /\ Len(x) = toa
    BY <1>3, <1>a
  <2>. HIDE DEF old, size
  <2>2. /\ r \in Seq(Nat) /\ Len(r) = size /\ (\A i \in 1 .. toa : r[i] = x[i])
        /\ (\A i \in toa + 1 .. size : r[i] = old[i - toa])
    BY ONLY <2>1, PushedFront, SMTT(30)
  <2>. QED  BY <2>2 DEF old, size
<1>7. /\ n \in Seq(Nat) /\ Len(n) = Horizon /\ (\A i \in 1 .. toa : n[i] = new[i])
      /\ (\A i \in toa + 1 .. Horizon : n[i] = faLoad[i - toa])
  BY <1>4, <1>a, Zenon
<1>8. /\ l \in Seq(Nat) /\ Len(l) = Horizon /\ (\A i \in 1 .. toa : l[i] = zero[i])
      /\ (\A i \in toa + 1 .. Horizon : l[i] = faLoad[i - toa])
  BY <1>4, <1>a, Zenon
<1>. HIDE DEF g, end, l, n
<1>9. n \in Loads
  BY <1>7 DEF Loads
<1>10. n[1] = l[1] + w
  BY <1>3, <1>4, <1>7, <1>8
<1>11. ASSUME NEW y \in 2 .. Horizon PROVE n[y] = l[y]
  <2>1. CASE y <= toa
    <3>1. y \in 1 .. toa /\ y \in 2 .. toa
      BY <1>3, <2>1
    <3>. QED  BY <1>4, <1>7, <1>8, <3>1
  <2>2. CASE ~(y <= toa)
    <3>1. y \in toa + 1 .. Horizon
      BY <1>3, <2>2
    <3>. QED  BY <1>7, <1>8, <3>1
  <2>. QED  BY <2>1, <2>2
<1>. DEFINE h == [g EXCEPT !.buckets[g.last % FaBuckets] = @ + w]
<1>12. h \in Fabs /\ Current(h, end, n)
  BY <1>6, <1>9, <1>10, <1>11, CountOK
<1>13. faPass' \in [at : FaClock, left : 0 .. FaDrain] /\ faPass'.at = faPass.at /\ faPass'.left = faPass.left - 1
  <2>1. /\ faPass.at \in FaClock /\ faPass.left \in 0 .. FaDrain /\ faPass.left > 0 /\ FaDrain \in Nat
        /\ faPass = [at |-> faPass.at, left |-> faPass.left]
    BY <1>1, <1>2, FaConstants DEF InPass
  <2>2. faPass' = [at |-> faPass.at, left |-> faPass.left - 1]
    BY <1>1, <2>1
  <2>. QED  BY <2>1, <2>2
<1>14. Lag' + faPass'.left * Sec <= FaDrain * Sec
  <2>. DEFINE lag == (faNow + FaMod - faPass.at) % FaMod
              left == faPass.left
  <2>1. faNow \in FaClock /\ faPass.at \in FaClock /\ left \in Nat \ {0}
    BY <1>1, <1>2, FaConstants DEF InPass
  <2>2. lag \in Nat
    <3>1. faNow + FaMod - faPass.at \in Nat
      BY <2>1, FaConstants DEF FaClock
    <3>. QED  BY <3>1, FaConstants
  <2>3. left * Sec = (left - 1) * Sec + Sec /\ (left - 1) * Sec \in Nat
    BY <2>1, FaConstants
  <2>4. lag + left * Sec <= FaDrain * Sec
    BY <1>2 DEF Lag
  <2>5. lag + toa < FaMod
    <3>. HIDE DEF lag, left
    <3>. QED  BY <1>3, <2>2, <2>3, <2>4, FaConstants
  <2>6. (end + FaMod - faPass.at) % FaMod = lag + toa
    BY <2>1, <2>5, LagLater DEF end
  <2>7. Lag' = lag + toa
    <3>. HIDE DEF lag
    <3>. QED  BY <1>1, <1>13, <2>6 DEF Lag
  <2>8. faPass'.left * Sec = (left - 1) * Sec
    BY <1>13
  <2>. HIDE DEF lag, left
  <2>. QED  BY <1>3, <2>2, <2>3, <2>4, <2>7, <2>8, FaConstants
<1>. HIDE DEF h
<1>15. fab' = h
  BY <1>1 DEF h
<1>. QED  BY <1>1, <1>6, <1>9, <1>12, <1>13, <1>14, <1>15, SMTT(60) DEF FaInv, RingOK

LEMMA FaInductive == FaInv /\ [FaNext]_faVars => FaInv'
<1>. SUFFICES ASSUME FaInv, [FaNext]_faVars PROVE FaInv'
  OBVIOUS
<1>. USE DEF InPass
<1>0. /\ fab \in Fabs /\ faNow \in FaClock /\ faLoad \in Loads /\ RingOK(fab, faNow, faLoad)
      /\ faPass \in [at : FaClock, left : 0 .. FaDrain]
  BY DEF FaInv
<1>1. CASE UNCHANGED faVars
  BY <1>1 DEF faVars, FaInv, Lag
<1>2. CASE DecideRelay
  <2>. DEFINE f == FabricAdvance(fab, faNow)
  <2>1. f \in Fabs /\ Current(f, faNow, faLoad)
    BY <1>0, AdvanceNow
  <2>2. FabricScore(fab, faNow) \in Nat
    BY <2>1, TotalType DEF FabricScore
  <2>3. fab' = [f EXCEPT !.score = FabricScore(fab, faNow)] /\ UNCHANGED <<faNow, faPass, faLoad>>
    BY <1>2 DEF DecideRelay
  <2>. HIDE DEF f
  <2>4. fab' \in Fabs /\ fab'.buckets = f.buckets /\ fab'.last = f.last
    BY <2>1, <2>2, <2>3 DEF Fabs
  <2>5. Current(fab', faNow, faLoad)
    BY <2>1, <2>4, FreshSame
  <2>. QED  BY <1>0, <2>3, <2>4, <2>5 DEF FaInv, RingOK, Lag
<1>3. CASE OnRx
  <2>1. fab' = Count(fab, faNow, RxWeight) /\ Reported(RxWeight) /\ UNCHANGED <<faNow, faPass>>
    BY <1>3 DEF OnRx
  <2>2. faLoad' \in Loads /\ fab' \in Fabs /\ RingOK(fab', faNow, faLoad')
    BY <2>1, FaConstants, FaAdvanced
  <2>. QED  BY <1>0, <2>1, <2>2 DEF FaInv, Lag
<1>4. CASE PassBegin
  <2>1. faPass' = [at |-> faNow, left |-> FaDrain] /\ UNCHANGED <<fab, faNow, faLoad>>
    BY <1>4 DEF PassBegin
  <2>2. faPass' \in [at : FaClock, left : 0 .. FaDrain] /\ faPass'.left = FaDrain /\ faPass'.at = faNow
    BY <1>0, <2>1, FaConstants
  <2>3. Lag' = 0
    BY <1>0, <2>1, <2>2, LagNow DEF Lag
  <2>4. Lag' + faPass'.left * Sec <= FaDrain * Sec
    BY <2>2, <2>3, FaConstants
  <2>. QED  BY <1>0, <2>1, <2>2, <2>4 DEF FaInv
<1>5. CASE PassEnd
  <2>1. faPass' = [faPass EXCEPT !.left = 0] /\ UNCHANGED <<fab, faNow, faLoad>>
    BY <1>5 DEF PassEnd
  <2>2. faPass' \in [at : FaClock, left : 0 .. FaDrain] /\ faPass'.left = 0
    <3>1. faPass.at \in FaClock /\ faPass = [at |-> faPass.at, left |-> faPass.left] /\ 0 \in 0 .. FaDrain
      BY <1>0, FaConstants
    <3>2. faPass' = [at |-> faPass.at, left |-> 0]
      BY <2>1, <3>1
    <3>. QED  BY <3>1, <3>2
  <2>. QED  BY <1>0, <2>1, <2>2 DEF FaInv
<1>6. CASE OnTxBlocked
  <2>1. /\ InPass /\ faPass' = [faPass EXCEPT !.left = @ - 1] /\ faNow' = faNow
        /\ fab' = Count(fab, faPass.at, BlockedWeight) /\ Reported(BlockedWeight)
    BY <1>6 DEF OnTxBlocked, FaTaken
  <2>2. faLoad' \in Loads /\ faLoad'[1] = faLoad[1] + BlockedWeight
        /\ \A y \in 2 .. Horizon : faLoad'[y] = faLoad[y]
    BY <1>0, <2>1, FaConstants, ReportedKeeps
  <2>3. fab' \in Fabs /\ RingOK(fab', faNow, faLoad')
    <3>1. BlockedWeight \in Nat
      BY FaConstants
    <3>2. /\ Count(fab, faPass.at, BlockedWeight) \in Fabs
          /\ RingOK(Count(fab, faPass.at, BlockedWeight), faNow, faLoad')
      BY <2>1, <2>2, <3>1, FaPassed
    <3>. QED  BY <2>1, <3>2
  <2>4. faPass' \in [at : FaClock, left : 0 .. FaDrain] /\ faPass'.at = faPass.at
        /\ faPass'.left = faPass.left - 1 /\ faPass.left \in Nat \ {0}
    <3>1. /\ faPass.at \in FaClock /\ faPass.left \in 0 .. FaDrain /\ faPass.left > 0 /\ FaDrain \in Nat
          /\ faPass = [at |-> faPass.at, left |-> faPass.left]
      BY <1>0, <2>1, FaConstants
    <3>2. faPass' = [at |-> faPass.at, left |-> faPass.left - 1]
      BY <2>1, <3>1
    <3>. QED  BY <3>1, <3>2
  <2>5. Lag' = Lag /\ Lag \in Int /\ Lag + faPass.left * Sec <= FaDrain * Sec
    <3>1. Lag' = Lag /\ Lag + faPass.left * Sec <= FaDrain * Sec
      BY <2>1, <2>4 DEF Lag, FaInv
    <3>2. faNow + FaMod - faPass.at \in Nat
      BY <1>0, FaConstants DEF FaClock
    <3>3. Lag \in Int
      BY <3>2, FaConstants DEF Lag
    <3>. QED  BY <3>1, <3>3
  <2>6. faPass.left * Sec = faPass'.left * Sec + Sec /\ faPass'.left * Sec \in Nat
    BY <2>4, FaConstants
  <2>7. Lag' + faPass'.left * Sec <= FaDrain * Sec
    BY <2>5, <2>6, FaConstants
  <2>. QED  BY <1>0, <2>1, <2>2, <2>3, <2>4, <2>7 DEF FaInv
<1>7. ASSUME NEW toa \in 1 .. Sec, OnTx(toa, 0) \/ OnTx(toa, FailWeight) PROVE FaInv'
  BY <1>7, FaConstants, OnTxKeeps
<1>8. CASE FabricTick
  <2>1. /\ ~InPass /\ faNow' = (faNow + 1) % FaMod /\ fab' = FabricAdvance(fab, faNow')
        /\ faLoad' = Recent(<<0>>, faLoad, Horizon) /\ faPass' = faPass
    BY <1>8 DEF FabricTick, Recent
  <2>2. <<0>> \in Seq(Nat) /\ Len(<<0>>) = 1 /\ 1 \in 1 .. Sec
    BY FaConstants
  <2>3. ASSUME NEW new \in Seq(Nat), Len(new) = 1, faLoad' = Recent(new, faLoad, Horizon)
        PROVE  faNow' \in FaClock /\ faLoad' \in Loads /\ fab' \in Fabs /\ Current(fab', faNow', faLoad')
    <3>. DEFINE u == (faNow + 1) % FaMod
                n == Recent(new, faLoad, Horizon)
    <3>1. /\ u \in FaClock /\ n \in Loads /\ FabricAdvance(fab, u) \in Fabs
          /\ Current(FabricAdvance(fab, u), u, n)
      BY <1>0, <2>2, <2>3, AdvanceLater
    <3>2. faNow' = u /\ faLoad' = n
      BY <2>1, <2>3
    <3>. HIDE DEF u, n
    <3>. QED  BY <2>1, <3>1, <3>2
  <2>4. faNow' \in FaClock /\ faLoad' \in Loads /\ fab' \in Fabs /\ Current(fab', faNow', faLoad')
    BY <2>1, <2>2, <2>3, Zenon
  <2>. QED  BY <1>0, <2>1, <2>4 DEF FaInv, RingOK
<1>. QED  BY <1>1, <1>2, <1>3, <1>4, <1>5, <1>6, <1>7, <1>8 DEF FaNext

LEMMA FaForgotten == FaInv => CongestionForgotten
<1>. SUFFICES ASSUME FaInv PROVE CongestionForgotten
  OBVIOUS
<1>. DEFINE g == FabricAdvance(fab, faNow)
            s == faNow \div Sec
            k == Reach(s, faNow, FaBuckets)
<1>1. fab \in Fabs /\ faNow \in FaClock /\ faLoad \in Loads /\ RingOK(fab, faNow, faLoad)
  BY DEF FaInv
<1>2. g \in Fabs /\ g.last = s /\ Current(g, faNow, faLoad)
  BY <1>1, AdvanceNow
<1>3. s \in Seconds /\ s \in Nat /\ s * Sec \in Nat /\ s * Sec <= faNow /\ faNow < s * Sec + Sec /\ faNow \in Nat
  BY <1>1, SecondOf, FaConstants DEF Seconds, FaClock
<1>. HIDE DEF g, s
<1>4. k <= Horizon /\ FaBuckets \in 1 .. FaBuckets
  BY <1>3, FaConstants DEF Reach
<1>5. k \in 1 .. Horizon
  BY <1>1, <1>3, <1>4, ReachType
<1>6. Young(g, FaBuckets) <= Prefix(faLoad, k)
  BY <1>2, <1>4 DEF Current, Fresh
<1>. HIDE DEF k
<1>7. Prefix(faLoad, k) <= SumFunction(faLoad)
  <2>1. faLoad \in [1 .. Horizon -> Nat] /\ Horizon \in Nat /\ Horizon \in 0 .. Horizon /\ k \in 0 .. Horizon
    BY <1>1, <1>5, LoadsType, FaConstants
  <2>. DEFINE h == Horizon
  <2>2. faLoad \in [1 .. h -> Nat] /\ h \in Nat /\ h \in 0 .. h /\ k \in 0 .. h
    BY <2>1
  <2>. HIDE DEF h
  <2>3. Prefix(faLoad, k) <= Prefix(faLoad, h)
    BY ONLY <2>2, PrefixMore
  <2>. QED  BY <1>1, <2>3, LoadsType DEF h
<1>8. Prefix(faLoad, k) \in Nat /\ SumFunction(faLoad) \in Nat
  <2>1. k \in 0 .. Horizon /\ Horizon \in 0 .. Horizon
    BY <1>5, FaConstants
  <2>2. \A j \in 0 .. Horizon : Prefix(faLoad, j) \in Nat /\ Prefix(faLoad, Horizon) = SumFunction(faLoad)
    BY <1>1, LoadsType
  <2>3. Prefix(faLoad, k) \in Nat
    BY <2>1, <2>2
  <2>4. SumFunction(faLoad) \in Nat
    BY <2>1, <2>2
  <2>. QED  BY <2>3, <2>4
<1>9. RingTotal(g) = Young(g, FaBuckets) /\ RingTotal(g) \in Nat
  BY <1>2, TotalType
<1>. QED  BY <1>6, <1>7, <1>8, <1>9 DEF CongestionForgotten, g

(***************************************************************************)
(* What holds relays back does so in time and no longer: no source gets    *)
(* more tokens than a second gives one, beyond its full bucket and the     *)
(* rest of a second (policy.c:66-80); no span of a window has more than    *)
(* two windows' worth of forwards (routing.c:336-386); and the congestion  *)
(* score holds nothing that was not reported within the seconds of the     *)
(* ring (rivr_fabric.c:110-175), wherever the clock wraps, however late    *)
(* the lazy refills and clearings come, and although a TX pass reports     *)
(* with the time it began.                                                 *)
(***************************************************************************)
THEOREM RelaysAlwaysKept == NodeSpec => []RelaysKept
<1>1. NodeInit => RgInv /\ FaInv
  BY RgPaidStart, RgBudgetStart, FaStart DEF NodeInit, RgInv
<1>2. RgInv /\ FaInv /\ [NodeNext]_nodeVars => RgInv' /\ FaInv'
  BY PartSteps, RgInductive, FaInductive
<1>3. RgInv /\ FaInv => RelaysKept
  BY RgRateKept, FaForgotten DEF RelaysKept
<1>. QED  BY <1>1, <1>2, <1>3, PTL DEF NodeSpec, nodeVars

-----------------------------------------------------------------------------
(***************************************************************************)
(* The links.  Each miss draws the loss up, so the row that missed less    *)
(* has lost less; the forward set is a sort by insertion.                  *)
(***************************************************************************)

\* The rate after m misses is what m - 1 misses left of it, drawn up once more.
LEMMA RatesIs ==
  ASSUME NEW loss \in 0 .. 99
  PROVE  /\ LossRates(loss)[0] = loss
         /\ \A m \in 0 .. LnCap : LossRates(loss)[m] \in 0 .. 99
         /\ \A m \in 1 .. LnCap : LossRates(loss)[m] = DrawnUp(LossRates(loss)[m - 1])
<1>. DEFINE Is(g, n) == g = [m \in 0 .. n |-> IF m = 0 THEN loss ELSE DrawnUp(g[m - 1])]
            Bad == {n \in 0 .. LnCap : ~ \E g : Is(g, n)}
<1>0. LnCap \in Nat
  BY LnAssumption
<1>1. \E g : Is(g, LnCap)
  <2>. SUFFICES ASSUME Bad # {} PROVE FALSE
    BY <1>0
  <2>1. PICK n \in Bad : \A k \in Bad : n <= k
    <3>1. Bad \subseteq Nat
      OBVIOUS
    <3>. HIDE DEF Bad
    <3>. QED  BY <3>1, LeastOf
  <2>2. n \in 0 .. LnCap /\ ~ \E g : Is(g, n)
    BY <2>1
  <2>3. n # 0
    <3>1. Is([m \in 0 .. 0 |-> loss], 0)
      OBVIOUS
    <3>. HIDE DEF Is
    <3>. QED  BY <2>2, <3>1
  <2>4. PICK g : Is(g, n - 1)
    <3>1. n - 1 \in 0 .. LnCap /\ n - 1 \notin Bad
      BY <1>0, <2>1, <2>2, <2>3
    <3>. HIDE DEF Is
    <3>. QED  BY <3>1
  <2>. DEFINE h == [m \in 0 .. n |-> IF m <= n - 1 THEN g[m] ELSE DrawnUp(g[n - 1])]
  <2>5. \A m \in 0 .. n : h[m] = IF m = 0 THEN loss ELSE DrawnUp(h[m - 1])
    <3>. SUFFICES ASSUME NEW m \in 0 .. n PROVE h[m] = IF m = 0 THEN loss ELSE DrawnUp(h[m - 1])
      OBVIOUS
    <3>1. CASE m = n
      BY <2>2, <2>3, <3>1
    <3>2. CASE m < n
      <4>1. m \in 0 .. n - 1 /\ h[m] = g[m]
        BY <2>2, <3>2
      <4>2. m # 0 => m - 1 \in 0 .. n - 1 /\ h[m - 1] = g[m - 1]
        BY <2>2, <3>2
      <4>3. g[m] = IF m = 0 THEN loss ELSE DrawnUp(g[m - 1])
        BY <2>4, <4>1
      <4>. QED  BY <4>1, <4>2, <4>3
    <3>. QED  BY <2>2, <3>1, <3>2
  <2>6. Is(h, n)
    <3>1. [m \in 0 .. n |-> h[m]] = [m \in 0 .. n |-> IF m = 0 THEN loss ELSE DrawnUp(h[m - 1])]
      BY <2>5
    <3>2. h = [m \in 0 .. n |-> h[m]]
      OBVIOUS
    <3>. HIDE DEF h
    <3>. QED  BY <3>1, <3>2
  <2>. HIDE DEF Is
  <2>. QED  BY <2>2, <2>6
<1>2. Is(LossRates(loss), LnCap)
  <2>1. LossRates(loss) = CHOOSE g : Is(g, LnCap)
    BY DEF LossRates
  <2>. HIDE DEF Is
  <2>. QED  BY <1>1, <2>1
<1>3. \A m \in 0 .. LnCap : LossRates(loss)[m] = IF m = 0 THEN loss ELSE DrawnUp(LossRates(loss)[m - 1])
  BY <1>2
<1>4. \A m \in 0 .. LnCap : LossRates(loss)[m] \in 0 .. 99
  <2>. DEFINE High == {m \in 0 .. LnCap : LossRates(loss)[m] \notin 0 .. 99}
  <2>. SUFFICES ASSUME High # {} PROVE FALSE
    OBVIOUS
  <2>1. PICK n \in High : \A k \in High : n <= k
    <3>1. High \subseteq Nat
      OBVIOUS
    <3>. HIDE DEF High
    <3>. QED  BY <3>1, LeastOf
  <2>2. n \in 0 .. LnCap /\ LossRates(loss)[n] \notin 0 .. 99
    BY <2>1
  <2>3. n # 0 /\ n - 1 \in 0 .. LnCap
    BY <1>0, <1>3, <2>2
  <2>4. LossRates(loss)[n - 1] \in 0 .. 99
    BY <2>1, <2>3
  <2>5. LossRates(loss)[n] = DrawnUp(LossRates(loss)[n - 1])
    BY <1>3, <2>2, <2>3
  <2>. QED  BY <2>2, <2>4, <2>5 DEF DrawnUp
<1>. HIDE DEF Is
<1>. QED  BY <1>0, <1>3, <1>4

\* Who starts lower stays lower.
LEMMA RatesLess ==
  ASSUME NEW a \in 0 .. 99, NEW b \in a .. 99
  PROVE  \A m \in 0 .. LnCap : LossRates(a)[m] <= LossRates(b)[m]
<1>. DEFINE Bad == {m \in 0 .. LnCap : ~ (LossRates(a)[m] <= LossRates(b)[m])}
<1>. SUFFICES ASSUME Bad # {} PROVE FALSE
  OBVIOUS
<1>0. LnCap \in Nat /\ b \in 0 .. 99 /\ a <= b
  BY LnAssumption
<1>1. PICK n \in Bad : \A k \in Bad : n <= k
  <2>1. Bad \subseteq Nat
    OBVIOUS
  <2>. HIDE DEF Bad
  <2>. QED  BY <2>1, LeastOf
<1>2. n \in 0 .. LnCap /\ ~ (LossRates(a)[n] <= LossRates(b)[n])
  BY <1>1
<1>3. n # 0 /\ n \in 1 .. LnCap /\ n - 1 \in 0 .. LnCap
  <2>1. LossRates(a)[0] = a /\ LossRates(b)[0] = b
    BY <1>0, RatesIs
  <2>. QED  BY <1>0, <1>2, <2>1, SMTT(30)
<1>4. LossRates(a)[n - 1] <= LossRates(b)[n - 1]
  BY <1>1, <1>3
<1>5. /\ LossRates(a)[n] = DrawnUp(LossRates(a)[n - 1]) /\ LossRates(b)[n] = DrawnUp(LossRates(b)[n - 1])
      /\ LossRates(a)[n - 1] \in 0 .. 99 /\ LossRates(b)[n - 1] \in 0 .. 99
  BY <1>0, <1>3, RatesIs
<1>. DEFINE u == LossRates(a)[n - 1]
            v == LossRates(b)[n - 1]
<1>6. DrawnUp(u) <= DrawnUp(v)
  <2>1. u \in 0 .. 99 /\ v \in 0 .. 99 /\ u <= v
    BY <1>4, <1>5
  <2>. HIDE DEF u, v
  <2>. QED  BY <2>1 DEF DrawnUp
<1>. QED  BY <1>2, <1>5, <1>6

\* Misses add up.
LEMMA RatesAdd ==
  ASSUME NEW a \in 0 .. 99, NEW m \in 0 .. LnCap
  PROVE  \A n \in 0 .. LnCap - m : LossRates(LossRates(a)[m])[n] = LossRates(a)[m + n]
<1>. DEFINE b == LossRates(a)[m]
            Bad == {n \in 0 .. LnCap - m : LossRates(b)[n] # LossRates(a)[m + n]}
<1>. SUFFICES ASSUME Bad # {} PROVE FALSE
  BY SMTT(30)
<1>0. LnCap \in Nat /\ b \in 0 .. 99
  BY LnAssumption, RatesIs
<1>. HIDE DEF b
<1>1. PICK n \in Bad : \A k \in Bad : n <= k
  <2>1. Bad \subseteq Nat
    BY <1>0
  <2>. HIDE DEF Bad
  <2>. QED  BY <2>1, LeastOf
<1>2. n \in 0 .. LnCap - m /\ LossRates(b)[n] # LossRates(a)[m + n]
  BY <1>1
<1>3. n # 0
  <2>1. LossRates(b)[0] = b
    BY <1>0, RatesIs
  <2>2. m + 0 = m
    BY <1>0
  <2>. QED  BY <1>2, <2>1, <2>2, SMTT(30) DEF b
<1>4. n - 1 \in 0 .. LnCap - m /\ n \in 1 .. LnCap /\ m + n \in 1 .. LnCap /\ (m + n) - 1 = m + (n - 1)
  BY <1>0, <1>2, <1>3
<1>5. LossRates(b)[n - 1] = LossRates(a)[m + (n - 1)]
  BY <1>1, <1>4, SMTT(30)
<1>6. LossRates(b)[n] = DrawnUp(LossRates(b)[n - 1])
  BY <1>0, <1>4, RatesIs
<1>7. LossRates(a)[m + n] = DrawnUp(LossRates(a)[(m + n) - 1])
  BY <1>4, RatesIs
<1>. QED  BY <1>2, <1>4, <1>5, <1>6, <1>7

LEMMA LossIs ==
  ASSUME NEW a \in 0 .. 99, NEW m \in 0 .. LnCap
  PROVE  /\ LossAfter(a, m) \in 0 .. 99
         /\ LossAfter(a, m) = (LossRates(a)[m] * 7) \div 8
         /\ \A b \in 0 .. 99 : LossRates(a)[m] <= LossRates(b)[m] => LossAfter(a, m) <= LossAfter(b, m)
         /\ LossAfter(a, m) <= DrawnUp(LossRates(a)[m])
<1>1. LossRates(a)[m] \in 0 .. 99 /\ \A b \in 0 .. 99 : LossRates(b)[m] \in 0 .. 99
  BY RatesIs, Zenon
<1>2. \A x \in 0 .. 99 : (x * 7) \div 8 \in 0 .. 99 /\ (x * 7) \div 8 <= (x * 7 + 100) \div 8
  OBVIOUS
<1>3. \A x, y \in 0 .. 99 : x <= y => (x * 7) \div 8 <= (y * 7) \div 8
  OBVIOUS
<1>. QED  BY <1>1, <1>2, <1>3 DEF LossAfter, DrawnUp

\* More loss, a longer expected transmission.
LEMMA EtxIs ==
  ASSUME NEW a \in 0 .. 99
  PROVE  EtxOf(a) \in 8 .. 255 /\ \A b \in a .. 99 : EtxOf(a) <= EtxOf(b)
<1>. DEFINE Ratio(x) == 800 \div (100 - x)
<1>1. \A b \in 0 .. 99 : 800 \in Nat /\ 100 - b \in Nat \ {0}
  OBVIOUS
<1>2. ASSUME NEW b \in a .. 99
      PROVE  Ratio(a) \in Nat /\ Ratio(b) \in Nat /\ Ratio(a) <= Ratio(b)
  <2>1. b \in 0 .. 99 /\ 100 - b <= 100 - a
    OBVIOUS
  <2>2. 100 - a \in Nat \ {0} /\ 100 - b \in Nat \ {0} /\ 800 \in Nat
    BY <1>1, <2>1
  <2>. DEFINE u == 100 - a
              v == 100 - b
              w == 800
  <2>3. w \in Nat /\ u \in Nat \ {0} /\ v \in Nat \ {0} /\ v <= u
    BY <2>1, <2>2
  <2>. HIDE DEF u, v, w
  <2>4. w \div u \in Nat /\ w \div v \in Nat /\ w \div u <= w \div v
    BY <2>3, DivLess
  <2>. QED  BY <2>4 DEF u, v, w
<1>3. \A b \in a .. 99 : b < 100
  OBVIOUS
<1>4. a \in a .. 99
  OBVIOUS
<1>5. \A b \in 0 .. 99 : EtxOf(b) = CASE b >= 100 \/ Ratio(b) > 255 -> 255 [] Ratio(b) < 8 -> 8 [] OTHER -> Ratio(b)
  BY DEF EtxOf
<1>. HIDE DEF Ratio
<1>6. Ratio(a) \in Nat
  BY <1>2, <1>4
<1>7. EtxOf(a) \in 8 .. 255
  BY <1>5, <1>6, SMTT(30)
<1>8. ASSUME NEW b \in a .. 99 PROVE EtxOf(a) <= EtxOf(b)
  <2>1. b \in 0 .. 99 /\ Ratio(b) \in Nat /\ Ratio(a) <= Ratio(b)
    BY <1>2
  <2>. QED  BY <1>5, <1>6, <2>1
<1>. QED  BY <1>7, <1>8

\* Of two links the one with fewer misses loses less, also when both hear a frame, which
\* is a and b rounds after their last ones,
LEMMA BothHear ==
  ASSUME NEW x \in 0 .. 99, NEW y \in 0 .. 99, NEW a \in Nat \ {0}, NEW b \in a .. LnCap,
         x <= LossRates(y)[b - a]
  PROVE  LossAfter(x, a - 1) <= LossAfter(y, b - 1)
<1>1. /\ LnCap \in Nat /\ b \in Nat /\ b <= LnCap /\ a <= b
      /\ b - a \in 0 .. LnCap /\ a - 1 \in 0 .. LnCap /\ b - 1 \in 0 .. LnCap
      /\ a - 1 \in 0 .. LnCap - (b - a) /\ (b - a) + (a - 1) = b - 1
  BY LnAssumption
<1>2. LossRates(y)[b - a] \in 0 .. 99 /\ LossRates(y)[b - a] \in x .. 99
  <2>1. LossRates(y)[b - a] \in 0 .. 99
    BY <1>1, RatesIs, Zenon
  <2>. QED  BY <2>1
<1>3. LossRates(x)[a - 1] <= LossRates(LossRates(y)[b - a])[a - 1]
  BY <1>1, <1>2, RatesLess, Zenon
<1>4. LossRates(LossRates(y)[b - a])[a - 1] = LossRates(y)[b - 1]
  BY <1>1, RatesAdd
<1>5. LossRates(x)[a - 1] \in 0 .. 99 /\ LossRates(y)[b - 1] \in 0 .. 99
  BY <1>1, RatesIs
<1>6. \A u, v \in 0 .. 99 : u <= v => (u * 7) \div 8 <= (v * 7) \div 8
  OBVIOUS
<1>7. LossAfter(x, a - 1) = (LossRates(x)[a - 1] * 7) \div 8 /\ LossAfter(y, b - 1) = (LossRates(y)[b - 1] * 7) \div 8
  BY DEF LossAfter
<1>8. LossRates(x)[a - 1] <= LossRates(y)[b - 1]
  BY <1>3, <1>4
<1>. QED  BY <1>5, <1>6, <1>7, <1>8

\* and when only the first one hears it.
LEMMA OneHears ==
  ASSUME NEW x \in 0 .. 99, NEW y \in 0 .. 99, NEW a \in Nat \ {0}, NEW b \in a .. LnCap,
         x <= LossRates(y)[b - a]
  PROVE  LossAfter(x, a - 1) <= LossRates(y)[b]
<1>1. /\ LnCap \in Nat /\ b \in Nat /\ b <= LnCap /\ a <= b /\ b \in 1 .. LnCap
      /\ b - a \in 0 .. LnCap /\ a - 1 \in 0 .. LnCap /\ b - 1 \in 0 .. LnCap
      /\ a - 1 \in 0 .. LnCap - (b - a) /\ (b - a) + (a - 1) = b - 1
  BY LnAssumption
<1>2. LossRates(y)[b - a] \in 0 .. 99 /\ LossRates(y)[b - a] \in x .. 99
  <2>1. LossRates(y)[b - a] \in 0 .. 99
    BY <1>1, RatesIs, Zenon
  <2>. QED  BY <2>1
<1>3. LossRates(x)[a - 1] <= LossRates(LossRates(y)[b - a])[a - 1]
  BY <1>1, <1>2, RatesLess, Zenon
<1>4. LossRates(LossRates(y)[b - a])[a - 1] = LossRates(y)[b - 1]
  BY <1>1, RatesAdd, ZenonT(60)
<1>5. LossRates(x)[a - 1] \in 0 .. 99 /\ LossRates(y)[b - 1] \in 0 .. 99
  BY <1>1, RatesIs
<1>6. \A u, v \in 0 .. 99 : u <= v => (u * 7) \div 8 <= DrawnUp(v)
  BY SMTT(30) DEF DrawnUp
<1>7. LossAfter(x, a - 1) = (LossRates(x)[a - 1] * 7) \div 8 /\ LossRates(y)[b] = DrawnUp(LossRates(y)[b - 1])
  BY <1>1, RatesIs DEF LossAfter
<1>8. LossRates(x)[a - 1] <= LossRates(y)[b - 1]
  BY <1>3, <1>4
<1>. DEFINE u == LossRates(x)[a - 1]
            v == LossRates(y)[b - 1]
<1>9. (u * 7) \div 8 <= DrawnUp(v)
  <2>1. u \in 0 .. 99 /\ v \in 0 .. 99 /\ u <= v
    BY <1>5, <1>8
  <2>. HIDE DEF u, v
  <2>. QED  BY <1>6, <2>1
<1>. QED  BY <1>7, <1>9

-----------------------------------------------------------------------------
(***************************************************************************)
(* Of two rows that heard the same first frame, the one that hears more    *)
(* has lost less: its loss is at most that of the other, drawn up by the   *)
(* frames the other has missed since.                                      *)
(***************************************************************************)
\* Rounds since frame s, when the round's number is here.
Ago(here, s) == IF here > s THEN here - s ELSE here + LnSeqMod - s

Even(r) == lnTable[r].used /\ r \notin lnGapped

LnKnown ==
  /\ \A r \in Sources : lnTable[r].etx = EtxOf(lnTable[r].loss)
  /\ lnFirst \in [Sources -> 0 .. LnSeqMod - 1]
  /\ lnBase \in LnBases /\ lnAirtime \in BOOLEAN
  /\ \A r \in Sources : lnTable[r].used => Ago(lnSeq, lnFirst[r]) \in 1 .. lnRound
  /\ \A r \in Sources : Even(r) => Ago(lnSeq, lnTable[r].seq) \in 1 .. lnRound

Ordered(r, q) ==
  LET ahead == Ago(lnSeq, lnTable[q].seq) - Ago(lnSeq, lnTable[r].seq)
  IN  /\ ahead >= 0
      /\ ahead <= LnCap => lnTable[r].loss <= LossRates(lnTable[q].loss)[ahead]

LnOrdered ==
  \A r, q \in Sources : r < q /\ Even(r) /\ Even(q) /\ lnFirst[r] = lnFirst[q] => Ordered(r, q)

LnInv == LnTypeOK /\ LnKnown /\ LnOrdered

LnShape ==
  /\ LnTypeOK /\ \A r \in Sources : lnTable[r].etx = EtxOf(lnTable[r].loss)
  /\ lnFirst \in [Sources -> 0 .. LnSeqMod - 1]

LEMMA LnShaped == LnInv => LnShape
  BY DEF LnInv, LnKnown, LnShape

\* The numbers do not come round between two restarts.
FewRounds == MaxRounds < LnSeqMod

LEMMA LnConstants ==
  /\ LnRows \in Nat \ {0} /\ LnCap \in Nat \ {0} /\ LnSeqMod \in Nat /\ LnMod \in Nat
  /\ LnExpiry \in Nat \ {0} /\ LnStale \in Nat /\ LnStale < LnExpiry /\ LnExpiry < LnMod
  /\ LnSetMax \in Nat \ {0} /\ MaxRounds \in Nat \ {0} /\ LnBases \subseteq 0 .. 100
  /\ LnCap + 2 <= LnSeqMod /\ LnSeqMod > 2 /\ LnMod > 2
BY LnAssumption

LEMMA UnusedIs == Unused \in Entry /\ ~Unused.used /\ Unused.etx = EtxOf(Unused.loss)
<1>1. 800 \div 100 = 8
  OBVIOUS
<1>. QED  BY <1>1, LnConstants DEF Unused, Entry, EtxOf

LEMMA LnStart == LnInit => LnInv
<1>. SUFFICES ASSUME LnInit PROVE LnInv
  OBVIOUS
<1>1. \A r \in Sources : lnTable[r] = Unused
  BY DEF LnInit
<1>2. LnTypeOK
  BY LnConstants, UnusedIs DEF LnInit, LnTypeOK
<1>3. LnKnown
  BY <1>1, LnConstants, UnusedIs DEF LnInit, LnKnown, Even
<1>4. LnOrdered
  BY <1>1, UnusedIs DEF LnOrdered, Even
<1>. QED  BY <1>2, <1>3, <1>4 DEF LnInv

LEMMA MissedType ==
  ASSUME NEW e \in Entry, NEW s \in 0 .. LnSeqMod - 1
  PROVE  Missed(e, s) \in 0 .. LnCap
<1>1. e.seq \in 0 .. LnSeqMod - 1
  BY DEF Entry
<1>2. s + 2 * LnSeqMod - e.seq - 1 \in Int
  BY <1>1, LnConstants
<1>. DEFINE b == (s + 2 * LnSeqMod - e.seq - 1) % LnSeqMod
<1>3. b \in 0 .. LnSeqMod - 1
  BY <1>2, LnConstants
<1>. HIDE DEF b
<1>4. (IF b > LnCap THEN LnCap ELSE b) \in 0 .. LnCap
  BY <1>3, LnConstants
<1>. QED  BY <1>4 DEF Missed, b

\* What a row misses of this round's frame, and what of one that comes late.
LEMMA MissedIs ==
  ASSUME NEW e \in Entry, lnSeq \in 0 .. LnSeqMod - 1
  PROVE  /\ Missed(e, lnSeq) = IF Ago(lnSeq, e.seq) - 1 > LnCap THEN LnCap ELSE Ago(lnSeq, e.seq) - 1
         /\ e.seq = (lnSeq + LnSeqMod - 1) % LnSeqMod =>
              LET s == (lnSeq + 2 * LnSeqMod - 2) % LnSeqMod
              IN  s \in 0 .. LnSeqMod - 1 /\ Missed(e, s) = LnCap
<1>1. e.seq \in 0 .. LnSeqMod - 1
  BY DEF Entry
<1>2. (lnSeq + 2 * LnSeqMod - e.seq - 1) % LnSeqMod = Ago(lnSeq, e.seq) - 1
  <2>1. Ago(lnSeq, e.seq) - 1 \in 0 .. LnSeqMod - 1
    BY <1>1, LnConstants DEF Ago
  <2>2. CASE lnSeq > e.seq
    <3>1. lnSeq + 2 * LnSeqMod - e.seq - 1 = 2 * LnSeqMod + (Ago(lnSeq, e.seq) - 1)
      BY <1>1, <2>2, LnConstants DEF Ago
    <3>2. lnSeq + 2 * LnSeqMod - e.seq - 1 \in Nat
      BY <3>1, <2>1, LnConstants
    <3>. QED  BY <2>1, <3>1, <3>2, ModOf, LnConstants
  <2>3. CASE ~ (lnSeq > e.seq)
    <3>1. lnSeq + 2 * LnSeqMod - e.seq - 1 = 1 * LnSeqMod + (Ago(lnSeq, e.seq) - 1)
      BY <1>1, <2>3, LnConstants DEF Ago
    <3>2. lnSeq + 2 * LnSeqMod - e.seq - 1 \in Nat
      BY <3>1, <2>1, LnConstants
    <3>. QED  BY <2>1, <3>1, <3>2, ModOf, LnConstants
  <2>. QED  BY <2>2, <2>3
<1>3. ASSUME e.seq = (lnSeq + LnSeqMod - 1) % LnSeqMod
      PROVE  LET s == (lnSeq + 2 * LnSeqMod - 2) % LnSeqMod
             IN  s \in 0 .. LnSeqMod - 1 /\ Missed(e, s) = LnCap
  <2>. DEFINE s == (lnSeq + 2 * LnSeqMod - 2) % LnSeqMod
  <2>1. e.seq = IF lnSeq = 0 THEN LnSeqMod - 1 ELSE lnSeq - 1
    <3>. DEFINE x == lnSeq + LnSeqMod - 1
    <3>1. x \in Nat /\ x < LnSeqMod + LnSeqMod /\ LnSeqMod \in Nat \ {0}
      BY LnConstants
    <3>. HIDE DEF x
    <3>2. x % LnSeqMod = IF x < LnSeqMod THEN x ELSE x - LnSeqMod
      BY <3>1, ModOnce
    <3>. QED  BY <1>3, <3>2, LnConstants DEF x
  <2>2. s = IF lnSeq < 2 THEN lnSeq + LnSeqMod - 2 ELSE lnSeq - 2
    <3>. DEFINE r == IF lnSeq < 2 THEN lnSeq + LnSeqMod - 2 ELSE lnSeq - 2
    <3>1. r \in 0 .. LnSeqMod - 1 /\ lnSeq + 2 * LnSeqMod - 2 \in Nat
          /\ (\/ lnSeq + 2 * LnSeqMod - 2 = 1 * LnSeqMod + r \/ lnSeq + 2 * LnSeqMod - 2 = 2 * LnSeqMod + r)
      BY LnConstants
    <3>. HIDE DEF r
    <3>2. s = r
      BY <3>1, ModOf, LnConstants
    <3>. QED  BY <3>2 DEF r
  <2>3. s \in 0 .. LnSeqMod - 1
    BY <2>2, LnConstants
  <2>. HIDE DEF s
  <2>4. \/ s + 2 * LnSeqMod - e.seq - 1 = 1 * LnSeqMod + (LnSeqMod - 2)
        \/ s + 2 * LnSeqMod - e.seq - 1 = 2 * LnSeqMod + (LnSeqMod - 2)
    BY <2>1, <2>2, LnConstants
  <2>5. s + 2 * LnSeqMod - e.seq - 1 \in Nat /\ LnSeqMod - 2 \in 0 .. LnSeqMod - 1
    BY <2>4, LnConstants
  <2>6. (s + 2 * LnSeqMod - e.seq - 1) % LnSeqMod = LnSeqMod - 2
    BY <2>4, <2>5, ModOf, LnConstants
  <2>7. Missed(e, s) = LnCap
    BY <2>6, LnConstants DEF Missed
  <2>. QED  BY <2>3, <2>7 DEF s
<1>. QED  BY <1>2, <1>3 DEF Missed

\* What frame s does to the row of its source.
HeardRow(r, s) ==
  /\ lnTable'[r].used /\ lnTable'[r].seq = s
  /\ lnFirst'[r] = IF lnTable[r].used THEN lnFirst[r] ELSE s
  /\ lnTable'[r].loss = IF lnTable[r].used
                        THEN LossAfter(lnTable[r].loss, Missed(lnTable[r], s)) ELSE 0

\* The effect of frames on the types, and on the rows that lose no count.
LEMMA HearsIs ==
  ASSUME LnShape, NEW rows \in SUBSET Sources, NEW s \in 0 .. LnSeqMod - 1, Hears(rows, s)
  PROVE  /\ lnTable' \in [Sources -> Entry]
         /\ \A r \in Sources : lnTable'[r].etx = EtxOf(lnTable'[r].loss)
         /\ lnFirst' \in [Sources -> 0 .. LnSeqMod - 1]
         /\ \A r \in Sources \ rows : lnTable'[r] = lnTable[r] /\ lnFirst'[r] = lnFirst[r]
         /\ \A r \in rows : HeardRow(r, s)
         /\ \A r \in Sources \ lnGapped' :
              r \notin lnGapped /\ (r \in rows /\ lnTable[r].used => Missed(lnTable[r], s) # LnCap)
<1>1. lnTable \in [Sources -> Entry] /\ lnNow \in 0 .. LnMod - 1 /\ lnFirst \in [Sources -> 0 .. LnSeqMod - 1]
  BY DEF LnShape, LnTypeOK
<1>. DEFINE new(r) == Observe(lnTable[r], s, r \in lnDirect)
            loss(r) == IF lnTable[r].used
                       THEN LossAfter(lnTable[r].loss, Missed(lnTable[r], s)) ELSE 0
<1>2. ASSUME NEW r \in Sources
      PROVE  /\ new(r) \in Entry /\ new(r).etx = EtxOf(new(r).loss)
             /\ new(r).used /\ new(r).seq = s /\ new(r).loss = loss(r)
  <2>1. lnTable[r] \in Entry /\ lnTable[r].loss \in 0 .. 99 /\ lnTable[r].direct \in BOOLEAN
    BY <1>1 DEF Entry
  <2>2. loss(r) \in 0 .. 99
    <3>1. Missed(lnTable[r], s) \in 0 .. LnCap
      BY <2>1, MissedType, Zenon
    <3>2. LossAfter(lnTable[r].loss, Missed(lnTable[r], s)) \in 0 .. 99
      BY <2>1, <3>1, LossIs, Zenon
    <3>. QED  BY <3>2
  <2>. HIDE DEF loss
  <2>3. EtxOf(loss(r)) \in 8 .. 255
    BY <2>2, EtxIs
  <2>4. new(r) = [used |-> TRUE, last |-> lnNow, seq |-> s, loss |-> loss(r), etx |-> EtxOf(loss(r)),
                  direct |-> lnTable[r].direct \/ r \in lnDirect]
    BY DEF Observe, loss
  <2>. HIDE DEF new
  <2>5. (lnTable[r].direct \/ r \in lnDirect) \in BOOLEAN
    BY <2>1
  <2>. QED  BY <1>1, <2>2, <2>3, <2>4, <2>5 DEF Entry
<1>3. \A r \in Sources : lnTable'[r] = IF r \in rows THEN new(r) ELSE lnTable[r]
  BY DEF Hears
<1>. HIDE DEF new
<1>4. lnTable' \in [Sources -> Entry]
  <2>1. lnTable' = [r \in Sources |-> IF r \in rows THEN new(r) ELSE lnTable[r]]
    BY DEF Hears, new
  <2>. QED  BY <1>1, <1>2, <2>1
<1>5. \A r \in Sources : lnTable'[r].etx = EtxOf(lnTable'[r].loss)
  BY <1>2, <1>3 DEF LnShape
<1>6. lnFirst' = [r \in Sources |-> IF r \in rows /\ ~lnTable[r].used THEN s ELSE lnFirst[r]]
  BY DEF Hears
<1>7. lnFirst' \in [Sources -> 0 .. LnSeqMod - 1]
  BY <1>1, <1>6
<1>8. \A r \in rows : lnTable'[r].used /\ lnTable'[r].seq = s /\ lnTable'[r].loss = loss(r)
  BY <1>2, <1>3
<1>9. lnGapped' = lnGapped \cup {r \in rows : lnTable[r].used /\ Missed(lnTable[r], s) = LnCap}
  BY DEF Hears
<1>10. \A r \in rows : HeardRow(r, s)
  BY <1>6, <1>8 DEF HeardRow
<1>. QED  BY <1>3, <1>4, <1>5, <1>6, <1>7, <1>9, <1>10

\* What a round does to how long ago a frame was.
LEMMA AgoNext ==
  ASSUME NEW here \in 0 .. LnSeqMod - 1, NEW next, next = (here + 1) % LnSeqMod
  PROVE  /\ Ago(next, here) = 1 /\ Ago(here, here) = LnSeqMod
         /\ \A s \in 0 .. LnSeqMod - 1 : Ago(here, s) < LnSeqMod => Ago(next, s) = Ago(here, s) + 1
<1>1. next = IF here + 1 = LnSeqMod THEN 0 ELSE here + 1
  <2>1. LnSeqMod \in Nat \ {0}
    BY LnConstants
  <2>. QED  BY <2>1, ClockNext
<1>. QED  BY <1>1, LnConstants DEF Ago

\* A round keeps two rows in order: both hear its frame, the first one or none.
LEMMA RoundOrdered ==
  ASSUME LnInv, FewRounds, NEW k \in 0 .. LnRows, Round(k),
         NEW r \in Sources, NEW q \in Sources, r < q, Even(r)', Even(q)', lnFirst'[r] = lnFirst'[q]
  PROVE  Ordered(r, q)'
<1>. DEFINE rows == 1 .. k
            e == lnTable[r]
            f == lnTable[q]
            a == Ago(lnSeq, e.seq)
            b == Ago(lnSeq, f.seq)
            ahead == Ago(lnSeq', lnTable'[q].seq) - Ago(lnSeq', lnTable'[r].seq)
<1>1. rows \in SUBSET Sources /\ lnSeq \in 0 .. LnSeqMod - 1 /\ lnSeq' = (lnSeq + 1) % LnSeqMod
      /\ Hears(rows, lnSeq) /\ lnRound \in Nat /\ lnRound < LnSeqMod
  BY LnConstants DEF Round, LnInv, LnTypeOK, Sources, FewRounds
<1>2. /\ \A x \in Sources \ rows : lnTable'[x] = lnTable[x] /\ lnFirst'[x] = lnFirst[x]
      /\ \A x \in rows :
           /\ lnTable'[x].used /\ lnTable'[x].seq = lnSeq
           /\ lnFirst'[x] = IF lnTable[x].used THEN lnFirst[x] ELSE lnSeq
           /\ lnTable'[x].loss = IF lnTable[x].used
                                 THEN LossAfter(lnTable[x].loss, Missed(lnTable[x], lnSeq)) ELSE 0
      /\ \A x \in Sources \ lnGapped' :
           x \notin lnGapped /\ (x \in rows /\ lnTable[x].used => Missed(lnTable[x], lnSeq) # LnCap)
  <2>. HIDE DEF rows
  <2>1. \A x \in Sources \ rows : lnTable'[x] = lnTable[x] /\ lnFirst'[x] = lnFirst[x]
    BY <1>1, LnShaped, HearsIs
  <2>2. \A x \in rows : HeardRow(x, lnSeq)
    BY <1>1, LnShaped, HearsIs
  <2>3. \A x \in Sources \ lnGapped' :
           x \notin lnGapped /\ (x \in rows /\ lnTable[x].used => Missed(lnTable[x], lnSeq) # LnCap)
    BY <1>1, LnShaped, HearsIs
  <2>. QED  BY <2>1, <2>2, <2>3 DEF HeardRow
<1>3. e \in Entry /\ f \in Entry /\ e.loss \in 0 .. 99 /\ f.loss \in 0 .. 99
      /\ e.seq \in 0 .. LnSeqMod - 1 /\ f.seq \in 0 .. LnSeqMod - 1
  BY DEF LnInv, LnTypeOK, Entry
<1>4. r \notin lnGapped' /\ q \notin lnGapped' /\ lnTable'[r].used /\ lnTable'[q].used
  BY DEF Even
<1>5. /\ Ago(lnSeq', lnSeq) = 1 /\ Ago(lnSeq, lnSeq) = LnSeqMod
      /\ a < LnSeqMod => Ago(lnSeq', e.seq) = a + 1
      /\ b < LnSeqMod => Ago(lnSeq', f.seq) = b + 1
  BY <1>1, <1>3, AgoNext
<1>6. /\ e.used => Even(r) /\ a \in 1 .. lnRound /\ lnFirst[r] # lnSeq
      /\ f.used => Even(q) /\ b \in 1 .. lnRound /\ lnFirst[q] # lnSeq
  <2>1. \A x \in {r, q} : lnTable[x].used => Even(x)
    BY <1>2, <1>4 DEF Even
  <2>2. \A x \in {r, q} : lnTable[x].used => Ago(lnSeq, lnFirst[x]) \in 1 .. lnRound
    BY DEF LnInv, LnKnown
  <2>3. \A x \in {r, q} : lnTable[x].used => lnFirst[x] # lnSeq
    <3>1. LnSeqMod \notin 1 .. lnRound
      BY <1>1, LnConstants
    <3>. QED  BY <1>5, <2>2, <3>1
  <2>. QED  BY <2>1, <2>3 DEF LnInv, LnKnown
<1>7. ASSUME e.used, f.used, lnFirst[r] = lnFirst[q]
      PROVE  /\ a \in Nat \ {0} /\ b \in Nat \ {0} /\ a <= b /\ b < LnSeqMod
             /\ b - a <= LnCap => e.loss <= LossRates(f.loss)[b - a]
  <2>1. Ordered(r, q) /\ a \in 1 .. lnRound /\ b \in 1 .. lnRound
    BY <1>6, <1>7 DEF LnInv, LnOrdered
  <2>2. b - a >= 0 /\ (b - a <= LnCap => e.loss <= LossRates(f.loss)[b - a])
    BY <2>1 DEF Ordered
  <2>. HIDE DEF a, b, e, f
  <2>. QED  BY <1>1, <2>1, <2>2, LnConstants
<1>8. /\ Missed(e, lnSeq) = IF a - 1 > LnCap THEN LnCap ELSE a - 1
      /\ Missed(f, lnSeq) = IF b - 1 > LnCap THEN LnCap ELSE b - 1
  BY <1>1, <1>3, MissedIs
<1>9. SUFFICES ahead >= 0 /\ (ahead <= LnCap => lnTable'[r].loss <= LossRates(lnTable'[q].loss)[ahead])
  BY DEF Ordered
<1>10. CASE q \in rows
  <2>1. r \in rows
    BY <1>10, LnConstants DEF Sources
  <2>2. ahead = 0
    BY <1>2, <1>5, <1>10, <2>1
  <2>3. lnTable'[r].loss <= lnTable'[q].loss /\ lnTable'[q].loss \in 0 .. 99
    <3>1. CASE ~f.used
      <4>1. lnFirst'[q] = lnSeq /\ lnTable'[q].loss = 0
        BY <1>2, <1>10, <3>1
      <4>2. ~e.used
        BY <1>2, <1>6, <2>1, <4>1
      <4>3. lnTable'[r].loss = 0
        BY <1>2, <2>1, <4>2
      <4>. QED  BY <4>1, <4>3
    <3>2. CASE f.used
      <4>1. e.used /\ lnFirst[r] = lnFirst[q]
        BY <1>2, <1>6, <1>10, <2>1, <3>2
      <4>2. lnTable'[r].loss = LossAfter(e.loss, Missed(e, lnSeq))
            /\ lnTable'[q].loss = LossAfter(f.loss, Missed(f, lnSeq))
            /\ Missed(e, lnSeq) # LnCap /\ Missed(f, lnSeq) # LnCap
        BY <1>2, <1>4, <1>10, <2>1, <3>2, <4>1
      <4>3. /\ a \in Nat \ {0} /\ b \in Nat \ {0} /\ a <= b
            /\ b - a <= LnCap => e.loss <= LossRates(f.loss)[b - a]
        BY <1>7, <3>2, <4>1
      <4>. HIDE DEF a, b, e, f, ahead, rows
      <4>4. /\ Missed(e, lnSeq) = a - 1 /\ Missed(f, lnSeq) = b - 1
            /\ b \in a .. LnCap /\ b - a <= LnCap /\ b - 1 \in 0 .. LnCap
        <5>1. LnCap \in Nat
          BY LnConstants
        <5>2. Missed(e, lnSeq) = a - 1 /\ a - 1 < LnCap
          BY <1>8, <4>2, <4>3, <5>1
        <5>3. Missed(f, lnSeq) = b - 1 /\ b - 1 < LnCap
          BY <1>8, <4>2, <4>3, <5>1
        <5>. QED  BY <4>3, <5>1, <5>2, <5>3
      <4>5. LossAfter(e.loss, a - 1) <= LossAfter(f.loss, b - 1)
        BY <1>3, <4>3, <4>4, BothHear, Zenon
      <4>6. LossAfter(f.loss, b - 1) \in 0 .. 99
        BY <1>3, <4>4, LossIs, Zenon
      <4>. QED  BY <4>2, <4>4, <4>5, <4>6
    <3>. QED  BY <3>1, <3>2
  <2>4. LossRates(lnTable'[q].loss)[0] = lnTable'[q].loss
    BY <2>3, RatesIs
  <2>. HIDE DEF ahead
  <2>. QED  BY <2>2, <2>3, <2>4
<1>11. CASE q \notin rows /\ r \in rows
  <2>1. lnTable'[q] = f /\ lnFirst'[q] = lnFirst[q] /\ f.used
    BY <1>2, <1>4, <1>11
  <2>2. e.used /\ lnFirst[r] = lnFirst[q]
    BY <1>2, <1>6, <1>11, <2>1
  <2>3. /\ a \in Nat \ {0} /\ b \in Nat \ {0} /\ a <= b /\ b < LnSeqMod
        /\ b - a <= LnCap => e.loss <= LossRates(f.loss)[b - a]
    BY <1>7, <2>1, <2>2
  <2>4. lnTable'[r].loss = LossAfter(e.loss, Missed(e, lnSeq)) /\ Missed(e, lnSeq) # LnCap
    BY <1>2, <1>4, <1>11, <2>2
  <2>5. ahead = (b + 1) - 1
    BY <1>2, <1>5, <1>11, <2>1, <2>3
  <2>. HIDE DEF a, b, e, f, ahead, rows
  <2>6. ahead = b /\ ahead >= 0 /\ Missed(e, lnSeq) = a - 1
    <3>1. ahead = b /\ ahead >= 0
      BY <2>3, <2>5
    <3>2. LnCap \in Nat
      BY LnConstants
    <3>3. Missed(e, lnSeq) = a - 1
      BY <1>8, <2>3, <2>4, <3>2
    <3>. QED  BY <3>1, <3>3
  <2>7. ASSUME b <= LnCap PROVE LossAfter(e.loss, a - 1) <= LossRates(f.loss)[b]
    <3>1. b \in a .. LnCap /\ b - a <= LnCap
      BY <2>3, <2>7, LnConstants
    <3>. QED  BY <1>3, <2>3, <3>1, OneHears, Zenon
  <2>. QED  BY <2>1, <2>4, <2>6, <2>7
<1>12. CASE q \notin rows /\ r \notin rows
  <2>1. lnTable'[q] = f /\ lnFirst'[q] = lnFirst[q] /\ f.used /\ lnTable'[r] = e /\ lnFirst'[r] = lnFirst[r] /\ e.used
    BY <1>2, <1>4, <1>12
  <2>2. /\ a \in Nat \ {0} /\ b \in Nat \ {0} /\ a <= b /\ b < LnSeqMod
        /\ b - a <= LnCap => e.loss <= LossRates(f.loss)[b - a]
    BY <1>7, <2>1
  <2>3. ahead = (b + 1) - (a + 1)
    <3>1. a < LnSeqMod
      <4>. HIDE DEF a, b
      <4>. QED  BY <2>2, LnConstants
    <3>2. Ago(lnSeq', e.seq) = a + 1 /\ Ago(lnSeq', f.seq) = b + 1
      BY <1>5, <2>2, <3>1
    <3>3. ahead = Ago(lnSeq', f.seq) - Ago(lnSeq', e.seq)
      BY <2>1
    <3>. QED  BY <3>2, <3>3
  <2>. HIDE DEF a, b, e, f, ahead, rows
  <2>4. ahead = b - a /\ ahead >= 0
    BY <2>2, <2>3
  <2>. QED  BY <2>1, <2>2, <2>4
<1>. HIDE DEF rows
<1>. QED  BY <1>10, <1>11, <1>12

LEMMA RoundKeeps ==
  ASSUME LnInv, FewRounds, NEW k \in 0 .. LnRows, Round(k)
  PROVE  LnInv'
<1>. DEFINE rows == 1 .. k
<1>1. rows \in SUBSET Sources /\ lnSeq \in 0 .. LnSeqMod - 1 /\ lnSeq' = (lnSeq + 1) % LnSeqMod
      /\ Hears(rows, lnSeq) /\ lnRound \in Nat /\ lnRound < MaxRounds /\ lnRound' = lnRound + 1
      /\ lnNow \in 0 .. LnMod - 1 /\ lnNow' = (lnNow + 1) % LnMod
      /\ UNCHANGED <<lnDirect, lnBase, lnAirtime>>
  BY LnConstants DEF Round, LnInv, LnTypeOK, Sources
<1>. HIDE DEF rows
<1>2. /\ lnTable' \in [Sources -> Entry]
      /\ \A r \in Sources : lnTable'[r].etx = EtxOf(lnTable'[r].loss)
      /\ lnFirst' \in [Sources -> 0 .. LnSeqMod - 1]
  BY <1>1, LnShaped, HearsIs
<1>3. \A r \in Sources \ rows : lnTable'[r] = lnTable[r] /\ lnFirst'[r] = lnFirst[r]
  BY <1>1, LnShaped, HearsIs
<1>4. \A r \in rows : HeardRow(r, lnSeq)
  BY <1>1, LnShaped, HearsIs
<1>5. \A r \in Sources \ lnGapped' : r \notin lnGapped
  BY <1>1, LnShaped, HearsIs
<1>6. LnTypeOK'
  <2>1. lnSeq' \in 0 .. LnSeqMod - 1 /\ lnNow' \in 0 .. LnMod - 1
    BY <1>1, LnConstants
  <2>2. lnRound' \in 0 .. MaxRounds
    BY <1>1, LnConstants
  <2>. QED  BY <1>1, <1>2, <2>1, <2>2 DEF LnInv, LnTypeOK
<1>7. \A s \in 0 .. LnSeqMod - 1 :
         Ago(lnSeq, s) \in 1 .. lnRound \/ s = lnSeq => Ago(lnSeq', s) \in 1 .. lnRound'
  <2>. TAKE s \in 0 .. LnSeqMod - 1
  <2>1. CASE s = lnSeq
    <3>1. Ago(lnSeq', s) = 1
      BY <1>1, <2>1, AgoNext
    <3>. QED  BY <1>1, <3>1
  <2>2. CASE Ago(lnSeq, s) \in 1 .. lnRound
    <3>1. Ago(lnSeq, s) < LnSeqMod
      BY <1>1, <2>2, LnConstants DEF FewRounds
    <3>2. Ago(lnSeq', s) = Ago(lnSeq, s) + 1
      BY <1>1, <3>1, AgoNext
    <3>. QED  BY <1>1, <2>2, <3>2
  <2>. QED  BY <2>1, <2>2
<1>8. \A r \in Sources : lnTable'[r].used => Ago(lnSeq', lnFirst'[r]) \in 1 .. lnRound'
  <2>. TAKE r \in Sources
  <2>. HAVE lnTable'[r].used
  <2>1. lnFirst'[r] \in 0 .. LnSeqMod - 1
    BY <1>2
  <2>2. Ago(lnSeq, lnFirst'[r]) \in 1 .. lnRound \/ lnFirst'[r] = lnSeq
    BY <1>3, <1>4 DEF HeardRow, LnInv, LnKnown
  <2>. QED  BY <1>7, <2>1, <2>2
<1>9. \A r \in Sources : Even(r)' => Ago(lnSeq', lnTable'[r].seq) \in 1 .. lnRound'
  <2>. SUFFICES ASSUME NEW r \in Sources, Even(r)' PROVE Ago(lnSeq', lnTable'[r].seq) \in 1 .. lnRound'
    OBVIOUS
  <2>1. lnTable'[r].seq \in 0 .. LnSeqMod - 1
    BY <1>2 DEF Entry
  <2>2. Ago(lnSeq, lnTable'[r].seq) \in 1 .. lnRound \/ lnTable'[r].seq = lnSeq
    BY <1>3, <1>4, <1>5 DEF HeardRow, Even, LnInv, LnKnown
  <2>. QED  BY <1>7, <2>1, <2>2
<1>10. LnKnown'
  <2>1. lnBase' \in LnBases /\ lnAirtime' \in BOOLEAN
    BY <1>1 DEF LnInv, LnKnown
  <2>. QED  BY <1>2, <1>8, <1>9, <2>1 DEF LnKnown
<1>11. LnOrdered'
  <2>. SUFFICES ASSUME NEW r \in Sources, NEW q \in Sources, r < q, Even(r)', Even(q)',
                       lnFirst'[r] = lnFirst'[q]
                PROVE  Ordered(r, q)'
    BY DEF LnOrdered
  <2>. QED  BY RoundOrdered
<1>. QED  BY <1>6, <1>10, <1>11 DEF LnInv

\* A late frame is charged with the whole gap, and the row no longer compared.
LEMMA LateKeeps ==
  ASSUME LnInv, NEW r \in Sources, HearLate(r)
  PROVE  LnInv'
<1>. DEFINE s == (lnSeq + 2 * LnSeqMod - 2) % LnSeqMod
            e == lnTable[r]
<1>1. /\ e \in Entry /\ e.used /\ e.seq = (lnSeq + LnSeqMod - 1) % LnSeqMod
      /\ Hears({r}, s) /\ lnSeq \in 0 .. LnSeqMod - 1
      /\ lnRound \in Nat /\ lnRound < MaxRounds /\ lnRound' = lnRound + 1
      /\ UNCHANGED <<lnNow, lnSeq, lnDirect, lnBase, lnAirtime>>
  BY LnConstants DEF HearLate, LnInv, LnTypeOK
<1>2. s \in 0 .. LnSeqMod - 1 /\ Missed(e, s) = LnCap
  BY <1>1, MissedIs
<1>. HIDE DEF s, e
<1>3. {r} \in SUBSET Sources /\ r \in {r}
  OBVIOUS
<1>4. /\ lnTable' \in [Sources -> Entry]
      /\ \A x \in Sources : lnTable'[x].etx = EtxOf(lnTable'[x].loss)
      /\ lnFirst' \in [Sources -> 0 .. LnSeqMod - 1]
  BY <1>1, <1>2, <1>3, LnShaped, HearsIs
<1>5. \A x \in Sources \ {r} : lnTable'[x] = lnTable[x] /\ lnFirst'[x] = lnFirst[x]
  BY <1>1, <1>2, <1>3, LnShaped, HearsIs
<1>6. \A x \in {r} : HeardRow(x, s)
  BY <1>1, <1>2, <1>3, LnShaped, HearsIs
<1>7. \A x \in Sources \ lnGapped' :
         x \notin lnGapped /\ (x \in {r} /\ lnTable[x].used => Missed(lnTable[x], s) # LnCap)
  BY <1>1, <1>2, <1>3, LnShaped, HearsIs
<1>8. r \in lnGapped'
  BY <1>1, <1>2, <1>7 DEF e
<1>9. \A x \in Sources : Even(x)' => x # r /\ Even(x) /\ lnTable'[x] = lnTable[x] /\ lnFirst'[x] = lnFirst[x]
  BY <1>5, <1>7, <1>8 DEF Even
<1>10. LnTypeOK'
  <2>1. lnRound' \in 0 .. MaxRounds
    BY <1>1, LnConstants
  <2>. QED  BY <1>1, <1>4, <2>1 DEF LnInv, LnTypeOK
<1>11. LnKnown'
  <2>1. lnBase' \in LnBases /\ lnAirtime' \in BOOLEAN
    BY <1>1 DEF LnInv, LnKnown
  <2>2. \A n : n \in 1 .. lnRound => n \in 1 .. lnRound'
    BY <1>1
  <2>3. lnFirst'[r] = lnFirst[r]
    BY <1>1, <1>6 DEF HeardRow, e
  <2>4. \A x \in Sources : lnTable'[x].used => lnTable[x].used /\ lnFirst'[x] = lnFirst[x]
    BY <1>1, <1>5, <2>3 DEF e
  <2>5. \A x \in Sources : lnTable'[x].used => Ago(lnSeq', lnFirst'[x]) \in 1 .. lnRound'
    BY <1>1, <2>2, <2>4 DEF LnInv, LnKnown
  <2>6. \A x \in Sources : Even(x)' => Ago(lnSeq', lnTable'[x].seq) \in 1 .. lnRound'
    BY <1>1, <1>9, <2>2 DEF LnInv, LnKnown
  <2>. QED  BY <1>4, <2>1, <2>5, <2>6 DEF LnKnown
<1>12. LnOrdered'
  <2>. SUFFICES ASSUME NEW x \in Sources, NEW q \in Sources, x < q, Even(x)', Even(q)',
                       lnFirst'[x] = lnFirst'[q]
                PROVE  Ordered(x, q)'
    BY DEF LnOrdered
  <2>1. Ordered(x, q) /\ lnTable'[x] = lnTable[x] /\ lnTable'[q] = lnTable[q]
    BY <1>9 DEF LnInv, LnOrdered
  <2>. QED  BY <1>1, <2>1 DEF Ordered
<1>. QED  BY <1>10, <1>11, <1>12 DEF LnInv

LEMMA LnInductive == FewRounds => (LnInv /\ [LnNext]_lnVars => LnInv')
<1>. SUFFICES ASSUME FewRounds, LnInv, [LnNext]_lnVars PROVE LnInv'
  OBVIOUS
<1>1. CASE LnRestart
  <2>1. \A r \in Sources : lnTable'[r] = Unused
    BY <1>1 DEF LnRestart
  <2>2. LnTypeOK'
    BY <1>1, LnConstants, UnusedIs DEF LnRestart, LnInv, LnTypeOK
  <2>3. LnKnown'
    BY <1>1, <2>1, LnConstants, UnusedIs DEF LnRestart, LnInv, LnKnown, Even
  <2>4. LnOrdered'
    BY <2>1, UnusedIs DEF LnOrdered, Even
  <2>. QED  BY <2>2, <2>3, <2>4 DEF LnInv
<1>2. ASSUME NEW k \in 0 .. LnRows, Round(k) PROVE LnInv'
  BY <1>2, RoundKeeps
<1>3. ASSUME NEW r \in Sources, HearLate(r) PROVE LnInv'
  BY <1>3, LateKeeps
<1>4. CASE UNCHANGED lnVars
  BY <1>4 DEF lnVars, LnInv, LnTypeOK, LnKnown, LnOrdered, Even, Ordered
<1>. QED  BY <1>1, <1>2, <1>3, <1>4 DEF LnNext

-----------------------------------------------------------------------------
(***************************************************************************)
(* The score of a link, and the first part of LinksKept.                   *)
(***************************************************************************)
Quality(r) ==
  IF lnAirtime THEN (lnBase * 8) \div lnTable[r].etx ELSE (lnBase * (100 - lnTable[r].loss)) \div 100

LEMMA QualityIs ==
  ASSUME LnInv, NEW r \in Sources
  PROVE  /\ Quality(r) \in 0 .. 100
         /\ \A q \in Sources : lnTable[r].loss <= lnTable[q].loss => Quality(q) <= Quality(r)
<1>1. /\ lnBase \in Nat /\ lnBase <= 100
      /\ \A x \in Sources : lnTable[x].loss \in 0 .. 99 /\ lnTable[x].etx = EtxOf(lnTable[x].loss)
  <2>1. lnBase \in LnBases /\ LnBases \subseteq 0 .. 100
    BY LnConstants DEF LnInv, LnKnown
  <2>. QED  BY <2>1 DEF LnInv, LnTypeOK, LnKnown, Entry
<1>. DEFINE a == lnBase * 8
<1>2. a \in Nat /\ a \div 8 = lnBase
  BY <1>1
<1>3. ASSUME NEW q \in Sources, lnTable[r].loss <= lnTable[q].loss
      PROVE  /\ a \div EtxOf(lnTable[q].loss) <= a \div EtxOf(lnTable[r].loss)
             /\ a \div EtxOf(lnTable[q].loss) \in Nat /\ a \div EtxOf(lnTable[r].loss) \in Nat
             /\ a \div EtxOf(lnTable[r].loss) <= lnBase
  <2>. DEFINE u == EtxOf(lnTable[r].loss)
              v == EtxOf(lnTable[q].loss)
  <2>1. u \in 8 .. 255 /\ v \in 8 .. 255 /\ u <= v
    <3>1. lnTable[r].loss \in 0 .. 99 /\ lnTable[q].loss \in 0 .. 99
          /\ lnTable[q].loss \in lnTable[r].loss .. 99
      BY <1>1, <1>3
    <3>. QED  BY <3>1, EtxIs, Zenon
  <2>. HIDE DEF a, u, v
  <2>2. u \in Nat \ {0} /\ v \in Nat \ {0} /\ 8 \in Nat \ {0} /\ 8 <= u
    BY <2>1
  <2>3. a \div v <= a \div u /\ a \div v \in Nat /\ a \div u \in Nat
    BY <1>2, <2>1, <2>2, DivLess
  <2>4. a \div u <= a \div 8
    BY <1>2, <2>2, DivLess
  <2>. QED  BY <1>2, <2>3, <2>4, Zenon DEF u, v
<1>4. ASSUME NEW q \in Sources, lnTable[r].loss <= lnTable[q].loss
      PROVE  /\ (lnBase * (100 - lnTable[q].loss)) \div 100 <= (lnBase * (100 - lnTable[r].loss)) \div 100
             /\ (lnBase * (100 - lnTable[r].loss)) \div 100 \in 0 .. lnBase
  <2>. DEFINE u == 100 - lnTable[r].loss
              v == 100 - lnTable[q].loss
              h == 100
  <2>1. u \in 0 .. h /\ v \in 0 .. h /\ v <= u /\ h \in Nat \ {0}
    <3>. DEFINE x == lnTable[r].loss
                y == lnTable[q].loss
    <3>1. x \in 0 .. 99 /\ y \in 0 .. 99 /\ x <= y
      BY <1>1, <1>4
    <3>2. u = 100 - x /\ v = 100 - y
      OBVIOUS
    <3>. HIDE DEF x, y, u, v
    <3>. QED  BY <3>1, <3>2
  <2>. HIDE DEF u, v, h
  <2>2. (lnBase * u) \div h \in 0 .. lnBase
    BY <1>1, <2>1, Scaled
  <2>3. lnBase * u = u * lnBase /\ lnBase * v = v * lnBase
    BY <1>1, <2>1
  <2>4. u * lnBase \in Nat /\ v * lnBase \in Nat /\ v * lnBase <= u * lnBase
    BY <1>1, <2>1, TimesGrows
  <2>5. (v * lnBase) \div h <= (u * lnBase) \div h
    BY <2>1, <2>4, DivGrows
  <2>. QED  BY <2>2, <2>3, <2>5 DEF u, v, h
<1>5. lnTable[r].loss <= lnTable[r].loss
  BY <1>1
<1>6. Quality(r) \in 0 .. 100
  <2>1. a \div EtxOf(lnTable[r].loss) \in Nat /\ a \div EtxOf(lnTable[r].loss) <= lnBase
    BY <1>3, <1>5
  <2>2. (lnBase * (100 - lnTable[r].loss)) \div 100 \in 0 .. lnBase
    BY <1>4, <1>5
  <2>3. lnTable[r].etx = EtxOf(lnTable[r].loss)
    BY <1>1
  <2>4. Quality(r) = IF lnAirtime THEN a \div EtxOf(lnTable[r].loss)
                     ELSE (lnBase * (100 - lnTable[r].loss)) \div 100
    BY <2>3 DEF Quality
  <2>. DEFINE x == a \div EtxOf(lnTable[r].loss)
              y == (lnBase * (100 - lnTable[r].loss)) \div 100
  <2>5. x \in 0 .. lnBase /\ y \in 0 .. lnBase /\ Quality(r) = IF lnAirtime THEN x ELSE y
    BY <1>1, <2>1, <2>2, <2>4
  <2>. HIDE DEF x, y
  <2>6. \A n \in 0 .. lnBase : n \in 0 .. 100
    BY <1>1
  <2>. QED  BY <2>5, <2>6
<1>7. ASSUME NEW q \in Sources, lnTable[r].loss <= lnTable[q].loss
      PROVE  Quality(q) <= Quality(r)
  <2>1. lnTable[r].etx = EtxOf(lnTable[r].loss) /\ lnTable[q].etx = EtxOf(lnTable[q].loss)
    BY <1>1
  <2>2. CASE lnAirtime
    BY <1>3, <1>7, <2>1, <2>2 DEF Quality
  <2>3. CASE ~lnAirtime
    BY <1>4, <1>7, <2>3 DEF Quality
  <2>. QED  BY <2>2, <2>3
<1>. QED  BY <1>6, <1>7

LEMMA ScoreIs ==
  ASSUME LnInv, NEW r \in Sources
  PROVE  /\ LnAge(r) \in Nat
         /\ Score(r) \in 0 .. 100
         /\ \A q \in Sources : lnTable[q].last = lnTable[r].last /\ lnTable[r].loss <= lnTable[q].loss
                               /\ lnTable[r].used /\ lnTable[q].used => Score(q) <= Score(r)
<1>1. \A x \in Sources : LnAge(x) \in Nat
  <2>. TAKE x \in Sources
  <2>1. lnNow \in 0 .. LnMod - 1 /\ lnTable[x].last \in 0 .. LnMod - 1 /\ LnMod \in Nat \ {0}
    BY LnConstants DEF LnInv, LnTypeOK, Entry
  <2>2. (lnNow + LnMod - lnTable[x].last) % LnMod \in 0 .. LnMod - 1
    BY <2>1, ClockType
  <2>. QED  BY <2>2 DEF LnAge
<1>2. \A x \in Sources : Score(x) = IF ~lnTable[x].used \/ LnAge(x) >= LnExpiry THEN 0
                                    ELSE (Quality(x) * (LnExpiry - LnAge(x))) \div LnExpiry
  BY DEF Score, Quality
<1>3. Quality(r) \in 0 .. 100
  BY QualityIs
<1>4. Score(r) \in 0 .. 100
  <2>1. CASE ~ (~lnTable[r].used \/ LnAge(r) >= LnExpiry)
    <3>. DEFINE w == LnExpiry - LnAge(r)
                b == Quality(r)
    <3>1. w \in 0 .. LnExpiry /\ b \in Nat /\ b <= 100 /\ LnExpiry \in Nat \ {0}
      BY <1>1, <1>3, <2>1, LnConstants
    <3>2. Score(r) = (b * w) \div LnExpiry
      BY <1>2, <2>1
    <3>. HIDE DEF w, b
    <3>3. (b * w) \div LnExpiry \in 0 .. b
      BY <3>1, Scaled
    <3>. QED  BY <3>1, <3>2, <3>3
  <2>2. CASE ~lnTable[r].used \/ LnAge(r) >= LnExpiry
    BY <1>2, <2>2
  <2>. QED  BY <2>1, <2>2
<1>5. ASSUME NEW q \in Sources, lnTable[q].last = lnTable[r].last, lnTable[r].loss <= lnTable[q].loss,
             lnTable[r].used, lnTable[q].used
      PROVE  Score(q) <= Score(r)
  <2>1. LnAge(q) = LnAge(r)
    BY <1>5 DEF LnAge
  <2>2. CASE LnAge(r) >= LnExpiry
    BY <1>2, <2>1, <2>2
  <2>3. CASE ~ (LnAge(r) >= LnExpiry)
    <3>. DEFINE w == LnExpiry - LnAge(r)
                a == Quality(q)
                b == Quality(r)
    <3>1. w \in Nat /\ a \in Nat /\ b \in Nat /\ a <= b
      <4>1. Quality(q) <= Quality(r) /\ Quality(q) \in 0 .. 100
        BY <1>5, QualityIs
      <4>2. w \in Nat
        BY <1>1, <2>3, LnConstants
      <4>. QED  BY <1>3, <4>1, <4>2
    <3>2. Score(q) = (a * w) \div LnExpiry /\ Score(r) = (b * w) \div LnExpiry
      BY <1>2, <1>5, <2>1, <2>3
    <3>. HIDE DEF w, a, b
    <3>3. a * w \in Nat /\ b * w \in Nat /\ a * w <= b * w
      BY <3>1, TimesGrows
    <3>4. (a * w) \div LnExpiry <= (b * w) \div LnExpiry
      BY <3>3, DivGrows, LnConstants
    <3>. QED  BY <3>2, <3>4
  <2>. QED  BY <2>2, <2>3
<1>. QED  BY <1>1, <1>4, <1>5

LEMMA MissingPaysNot == LnInv => MissingNeverPays
<1>. SUFFICES ASSUME LnInv, NEW r \in Sources \ lnGapped, NEW q \in Sources \ lnGapped,
                     r < q, lnTable[r].used, lnTable[q].used, lnFirst[r] = lnFirst[q],
                     lnTable[r].last = lnTable[q].last, lnTable[r].seq = lnTable[q].seq
              PROVE  NextHopScore(r) >= NextHopScore(q)
  BY DEF MissingNeverPays
<1>1. Ordered(r, q)
  BY DEF LnInv, LnOrdered, Even
<1>2. lnSeq \in 0 .. LnSeqMod - 1 /\ lnTable[q].seq \in 0 .. LnSeqMod - 1 /\ lnTable[q].loss \in 0 .. 99
  BY DEF LnInv, LnTypeOK, Entry
<1>3. Ago(lnSeq, lnTable[q].seq) - Ago(lnSeq, lnTable[r].seq) = 0
  <2>1. Ago(lnSeq, lnTable[q].seq) \in Int
    BY <1>2, LnConstants DEF Ago
  <2>. QED  BY <2>1
<1>4. lnTable[r].loss <= lnTable[q].loss
  <2>1. LossRates(lnTable[q].loss)[0] = lnTable[q].loss
    BY <1>2, RatesIs
  <2>. QED  BY <1>1, <1>3, <2>1, LnConstants, SMTT(30) DEF Ordered
<1>5. Score(q) <= Score(r) /\ Score(r) \in 0 .. 100 /\ Score(q) \in 0 .. 100
  BY <1>4, ScoreIs
<1>6. LnAge(q) = LnAge(r)
  BY DEF LnAge
<1>. QED  BY <1>5, <1>6 DEF NextHopScore, Found

-----------------------------------------------------------------------------
(***************************************************************************)
(* The forward set is a sort by insertion: Best says what it holds when    *)
(* the rows of a set t have been seen.                                     *)
(***************************************************************************)
Row == [id : Sources, score : 0 .. 100]

\* Row r goes before the ones it beats; the weakest beyond LnSetMax falls out.
Ahead(v, r) == Cardinality({i \in DOMAIN v : v[i].score >= Score(r)})
Inserted(v, r) == InsertAt(v, Ahead(v, r) + 1, [id |-> r, score |-> Score(r)])
Trimmed(v) == IF Len(v) > LnSetMax THEN Front(v) ELSE v
AddedRow(v, r) == IF lnTable[r].used /\ LnAge(r) <= LnStale THEN Trimmed(Inserted(v, r)) ELSE v

\* v holds the best live rows of t.
Best(t, v) ==
  LET live == LiveLinks \cap t
  IN  /\ v \in Seq(Row)
      /\ Len(v) = IF Cardinality(live) < LnSetMax THEN Cardinality(live) ELSE LnSetMax
      /\ \A i \in 1 .. Len(v) : v[i].id \in live /\ v[i].score = Score(v[i].id)
      /\ \A i, j \in 1 .. Len(v) : i < j => v[i].id # v[j].id /\ v[i].score >= v[j].score
      /\ \A x \in live : (\E i \in 1 .. Len(v) : v[i].id = x) \/ (\A i \in 1 .. Len(v) : Score(x) <= v[i].score)
      /\ Len(v) < LnSetMax => \A x \in live : \E i \in 1 .. Len(v) : v[i].id = x

LEMMA SourcesFinite == IsFiniteSet(Sources)
BY FS_Interval, LnConstants DEF Sources

LEMMA AheadType ==
  ASSUME NEW v \in Seq(Row), NEW r \in Sources
  PROVE  Ahead(v, r) \in 0 .. Len(v)
<1>1. DOMAIN v = 1 .. Len(v) /\ Len(v) \in Nat
  BY LenProperties
<1>2. IsFiniteSet(1 .. Len(v)) /\ Cardinality(1 .. Len(v)) = Len(v)
  BY <1>1, FS_Interval, SMTT(30)
<1>. DEFINE A == {i \in DOMAIN v : v[i].score >= Score(r)}
<1>3. A \in SUBSET (1 .. Len(v))
  BY <1>1
<1>. HIDE DEF A
<1>4. Cardinality(A) <= Len(v) /\ Cardinality(A) \in Nat
  BY <1>2, <1>3, FS_Subset, FS_CardinalityType
<1>. QED  BY <1>1, <1>4 DEF Ahead, A

LEMMA AddedRowType ==
  ASSUME LnInv, NEW v \in Seq(Row), NEW r \in Sources
  PROVE  AddedRow(v, r) \in Seq(Row)
<1>1. [id |-> r, score |-> Score(r)] \in Row
  BY ScoreIs DEF Row
<1>2. Inserted(v, r) \in Seq(Row) /\ Len(Inserted(v, r)) = Len(v) + 1
  BY <1>1, AheadType, InsertIs DEF Inserted, Insertion
<1>3. Len(Inserted(v, r)) > 0
  BY <1>2, LenProperties
<1>4. Trimmed(Inserted(v, r)) \in Seq(Row)
  BY <1>2, <1>3, FrontIs DEF Trimmed
<1>. QED  BY <1>4 DEF AddedRow

LEMMA RowsIn ==
  ASSUME NEW v \in Seq(Row)
  PROVE  /\ Len(v) \in Nat /\ DOMAIN v = 1 .. Len(v)
         /\ \A i \in 1 .. Len(v) : v[i] \in Row /\ v[i].id \in Sources /\ v[i].score \in 0 .. 100 /\ v[i].score \in Nat
<1>1. Len(v) \in Nat /\ DOMAIN v = 1 .. Len(v) /\ v \in [1 .. Len(v) -> Row]
  BY LenProperties
<1>2. \A i \in 1 .. Len(v) : v[i] \in Row
  BY <1>1
<1>3. \A x \in Row : x.id \in Sources /\ x.score \in 0 .. 100
  BY DEF Row
<1>4. \A s \in 0 .. 100 : s \in Nat
  BY PercentNat
<1>. QED  BY <1>1, <1>2, <1>3, <1>4

\* The rows ahead of r are the first ones.
LEMMA AheadIs ==
  ASSUME LnInv, NEW v \in Seq(Row), NEW r \in Sources,
         \A i, j \in 1 .. Len(v) : i < j => v[i].score >= v[j].score
  PROVE  \A i \in 1 .. Len(v) : v[i].score >= Score(r) <=> i <= Ahead(v, r)
<1>. DEFINE n == Len(v)
            A == {i \in DOMAIN v : v[i].score >= Score(r)}
<1>1. n \in Nat /\ DOMAIN v = 1 .. n /\ \A i \in 1 .. n : v[i].score \in Nat
  BY RowsIn
<1>2. Score(r) \in Nat
  <2>1. Score(r) \in 0 .. 100
    BY ScoreIs
  <2>2. \A s \in 0 .. 100 : s \in Nat
    BY PercentNat
  <2>. QED  BY <2>1, <2>2
<1>3. A \subseteq 1 .. n /\ \A i, j \in 1 .. n : j \in A /\ i <= j => i \in A
  <2>1. ASSUME NEW i \in 1 .. n, NEW j \in 1 .. n, j \in A, i <= j PROVE i \in A
    <3>1. v[i].score >= v[j].score /\ v[j].score >= Score(r)
      <4>1. CASE i = j
        BY <1>1, <2>1, <4>1
      <4>2. CASE i < j
        BY <2>1, <4>2
      <4>. QED  BY <1>1, <2>1, <4>1, <4>2
    <3>. QED  BY <1>1, <1>2, <3>1
  <2>. QED  BY <1>1, <2>1
<1>4. \A i \in 1 .. n : i \in A <=> v[i].score >= Score(r)
  BY <1>1
<1>. HIDE DEF A
<1>5. PICK k \in 0 .. n : A = 1 .. k
  <2>1. CASE A = {}
    <3>1. 1 .. 0 = {} /\ 0 \in 0 .. n
      BY <1>1
    <3>. QED  BY <2>1, <3>1
  <2>2. CASE A # {}
    <3>1. A \subseteq 0 .. n
      BY <1>3
    <3>2. PICK k \in A : \A i \in A : k >= i
      BY <1>1, <2>2, <3>1, GreatestMember
    <3>3. k \in 1 .. n /\ k \in 0 .. n
      BY <1>3, <3>2
    <3>4. ASSUME NEW i \in A PROVE i \in 1 .. k
      BY <1>1, <1>3, <3>2, <3>3
    <3>5. ASSUME NEW i \in 1 .. k PROVE i \in A
      <4>1. i \in 1 .. n /\ k \in 1 .. n /\ i <= k
        BY <1>1, <3>3
      <4>. QED  BY <1>3, <4>1
    <3>6. A = 1 .. k
      BY <3>4, <3>5
    <3>. QED  BY <3>3, <3>6
  <2>. QED  BY <2>1, <2>2
<1>6. Cardinality(A) = k
  <2>1. k \in Nat
    BY <1>1, <1>5
  <2>2. Cardinality(1 .. k) = IF 1 > k THEN 0 ELSE k - 1 + 1
    BY <2>1, FS_Interval
  <2>3. Cardinality(1 .. k) = k
    BY <2>1, <2>2
  <2>. QED  BY <1>5, <2>3
<1>7. Ahead(v, r) = k
  BY <1>6 DEF Ahead, A
<1>. QED  BY <1>1, <1>4, <1>5, <1>7

\* A trimmed insertion: where each row goes.
Placed(v, r, w) ==
  LET n == Len(v)
      k == Ahead(v, r)
      m == IF n < LnSetMax THEN n + 1 ELSE n
  IN  /\ v \in Seq(Row) /\ n \in 0 .. LnSetMax /\ k \in 0 .. n
      /\ w \in Seq(Row) /\ Len(w) = m
      /\ \A i \in 1 .. m : w[i] = IF i <= k THEN v[i]
                                  ELSE IF i = k + 1 THEN [id |-> r, score |-> Score(r)] ELSE v[i - 1]

LEMMA AddedRowIs ==
  ASSUME LnInv, NEW t \in SUBSET Sources, NEW v, NEW r \in LiveLinks, Best(t \ {r}, v)
  PROVE  Placed(v, r, AddedRow(v, r))
<1>. DEFINE n == Len(v)
            k == Ahead(v, r)
            w == AddedRow(v, r)
            m == IF n < LnSetMax THEN n + 1 ELSE n
            e == [id |-> r, score |-> Score(r)]
            u == InsertAt(v, k + 1, e)
<1>1. r \in Sources /\ lnTable[r].used /\ LnAge(r) <= LnStale
  BY DEF LiveLinks
<1>2. v \in Seq(Row) /\ n \in 0 .. LnSetMax
  <2>. DEFINE live == LiveLinks \cap (t \ {r})
  <2>1. v \in Seq(Row) /\ n = IF Cardinality(live) < LnSetMax THEN Cardinality(live) ELSE LnSetMax
    BY DEF Best
  <2>2. live \in SUBSET Sources
    OBVIOUS
  <2>. HIDE DEF live
  <2>3. Cardinality(live) \in Nat
    BY <2>2, SourcesFinite, FS_Subset, FS_CardinalityType
  <2>. QED  BY <2>1, <2>3, LnConstants
<1>3. k \in 0 .. n /\ e \in Row
  BY <1>1, <1>2, AheadType, ScoreIs DEF Row
<1>4. AddedRow(v, r) = Trimmed(u)
  BY <1>1 DEF AddedRow, Inserted
<1>. HIDE DEF e, k, u
<1>5. /\ u \in Seq(Row) /\ Len(u) = n + 1
      /\ \A i \in 1 .. k : u[i] = v[i]
      /\ u[k + 1] = e
      /\ \A i \in k + 2 .. n + 1 : u[i] = v[i - 1]
  <2>1. k \in 0 .. Len(v) /\ v \in Seq(Row) /\ e \in Row
    BY <1>2, <1>3
  <2>2. u \in Seq(Row) /\ Insertion(u, v, k, e)
    BY <2>1, InsertIs DEF u
  <2>. QED  BY <2>2 DEF Insertion
<1>. HIDE DEF n
<1>6. \A i \in 1 .. n + 1 : u[i] = IF i <= k THEN v[i] ELSE IF i = k + 1 THEN e ELSE v[i - 1]
  <2>. TAKE i \in 1 .. n + 1
  <2>1. CASE i <= k
    <3>1. i \in 1 .. k
      BY <1>2, <1>3, <2>1
    <3>. QED  BY <1>5, <2>1, <3>1
  <2>2. CASE i = k + 1
    BY <1>3, <1>5, <2>2
  <2>3. CASE ~ (i <= k) /\ i # k + 1
    <3>1. i \in k + 2 .. n + 1
      BY <1>2, <1>3, <2>3
    <3>. QED  BY <1>5, <2>3, <3>1
  <2>. QED  BY <2>1, <2>2, <2>3
<1>7. Trimmed(u) \in Seq(Row) /\ Len(Trimmed(u)) = m /\ \A i \in 1 .. m : Trimmed(u)[i] = u[i]
  <2>1. CASE n < LnSetMax
    BY <1>2, <1>5, <2>1, LnConstants DEF Trimmed
  <2>2. CASE ~ (n < LnSetMax)
    <3>1. n = LnSetMax /\ Len(u) > LnSetMax /\ Len(u) > 0 /\ Len(u) - 1 = n
      BY <1>2, <1>5, <2>2, LnConstants
    <3>2. Front(u) \in Seq(Row) /\ Len(Front(u)) = n /\ \A i \in 1 .. n : Front(u)[i] = u[i]
      BY <1>5, <3>1, FrontIs
    <3>. QED  BY <2>2, <3>1, <3>2 DEF Trimmed
  <2>. QED  BY <2>1, <2>2
<1>8. \A i \in 1 .. m : i \in 1 .. n + 1
  BY <1>2
<1>. QED  BY <1>2, <1>3, <1>4, <1>6, <1>7, <1>8 DEF n, k, e, Placed

\* A row that is not live is passed over.
LEMMA StaleRow ==
  ASSUME LnInv, NEW t \in SUBSET Sources, NEW v, NEW r \in t, r \notin LiveLinks, Best(t \ {r}, v)
  PROVE  Best(t, AddedRow(v, r))
<1>1. ~ (lnTable[r].used /\ LnAge(r) <= LnStale)
  BY DEF LiveLinks
<1>2. AddedRow(v, r) = v
  BY <1>1 DEF AddedRow
<1>3. LiveLinks \cap t = LiveLinks \cap (t \ {r})
  OBVIOUS
<1>. QED  BY <1>2, <1>3 DEF Best

\* A live row takes the place it has earned.
LEMMA LiveRow ==
  ASSUME LnInv, NEW t \in SUBSET Sources, NEW v, NEW r \in t, r \in LiveLinks, Best(t \ {r}, v)
  PROVE  Best(t, AddedRow(v, r))
<1>. DEFINE old == LiveLinks \cap (t \ {r})
            live == LiveLinks \cap t
            n == Len(v)
            k == Ahead(v, r)
            w == AddedRow(v, r)
            m == IF n < LnSetMax THEN n + 1 ELSE n
            e == [id |-> r, score |-> Score(r)]
            c == Cardinality(old)
<1>1. /\ v \in Seq(Row) /\ n \in 0 .. LnSetMax /\ k \in 0 .. n
      /\ w \in Seq(Row) /\ Len(w) = m
      /\ \A i \in 1 .. m : w[i] = IF i <= k THEN v[i] ELSE IF i = k + 1 THEN e ELSE v[i - 1]
  <2>1. Placed(v, r, AddedRow(v, r))
    BY AddedRowIs
  <2>. QED  BY <2>1 DEF Placed
<1>2. /\ n = IF c < LnSetMax THEN c ELSE LnSetMax
      /\ \A i \in 1 .. n : v[i].id \in old /\ v[i].score = Score(v[i].id)
      /\ \A i, j \in 1 .. n : i < j => v[i].id # v[j].id /\ v[i].score >= v[j].score
      /\ \A x \in old : (\E i \in 1 .. n : v[i].id = x) \/ (\A i \in 1 .. n : Score(x) <= v[i].score)
      /\ n < LnSetMax => \A x \in old : \E i \in 1 .. n : v[i].id = x
  BY DEF Best
<1>3. live = old \cup {r} /\ r \notin old /\ old \in SUBSET Sources
  OBVIOUS
<1>4. e.id = r /\ e.score = Score(r)
  OBVIOUS
<1>5. \A x \in Sources : Score(x) \in Nat
  <2>1. \A x \in Sources : Score(x) \in 0 .. 100
    BY ScoreIs
  <2>2. \A s \in 0 .. 100 : s \in Nat
    BY PercentNat
  <2>. QED  BY <2>1, <2>2
<1>6. \A i \in 1 .. n : v[i].score >= Score(r) <=> i <= k
  BY <1>1, <1>2, AheadIs
<1>. HIDE DEF old
<1>7. Cardinality(live) = c + 1 /\ c \in Nat
  <2>1. IsFiniteSet(old)
    BY <1>3, SourcesFinite, FS_Subset
  <2>. QED  BY <1>3, <2>1, FS_AddElement, FS_CardinalityType
<1>8. LnSetMax \in Nat /\ LnSetMax > 0
  BY LnConstants
<1>9. n \in Nat /\ k \in Nat /\ k <= n /\ n <= LnSetMax /\ m \in Nat /\ n <= m /\ m <= n + 1
  BY <1>1, <1>8
<1>10. \A i \in 1 .. n : v[i].score \in Nat /\ v[i].id \in old /\ v[i].score = Score(v[i].id)
  BY <1>2, <1>3, <1>5
<1>11. Score(r) \in Nat
  BY <1>3, <1>5
<1>. HIDE DEF live, k, w, e, c
<1>12. m = IF Cardinality(live) < LnSetMax THEN Cardinality(live) ELSE LnSetMax
  BY <1>2, <1>7, <1>8
<1>. HIDE DEF n
<1>13. n = LnSetMax => m = n
  BY <1>8
<1>14. n # LnSetMax => m = n + 1
  BY <1>8, <1>9
<1>. HIDE DEF m
<1>15. \A i \in 1 .. m :
         \/ i <= k /\ i \in 1 .. n /\ w[i] = v[i]
         \/ i = k + 1 /\ w[i] = e
         \/ i > k + 1 /\ i - 1 \in 1 .. n /\ w[i] = v[i - 1] /\ i - 1 > k
  <2>. TAKE i \in 1 .. m
  <2>1. w[i] = IF i <= k THEN v[i] ELSE IF i = k + 1 THEN e ELSE v[i - 1]
    BY <1>1
  <2>2. CASE i <= k
    <3>1. i \in 1 .. n
      BY <1>9, <2>2
    <3>. QED  BY <2>1, <2>2, <3>1
  <2>3. CASE i = k + 1
    <3>1. ~ (i <= k)
      BY <1>9, <2>3
    <3>. QED  BY <2>1, <2>3, <3>1
  <2>4. CASE i > k + 1
    <3>1. ~ (i <= k) /\ i # k + 1 /\ i - 1 \in 1 .. n /\ i - 1 > k
      BY <1>9, <2>4
    <3>. QED  BY <2>1, <2>4, <3>1
  <2>. QED  BY <1>9, <2>2, <2>3, <2>4
<1>16. \A i \in 1 .. m : w[i].id \in live /\ w[i].score = Score(w[i].id)
  BY <1>3, <1>4, <1>10, <1>15
<1>17. ASSUME NEW i \in 1 .. m, NEW j \in 1 .. m, i < j
       PROVE  w[i].id # w[j].id /\ w[i].score >= w[j].score
  <2>1. CASE j <= k
    <3>1. i \in 1 .. n /\ j \in 1 .. n /\ w[i] = v[i] /\ w[j] = v[j]
      BY <1>9, <1>15, <1>17, <2>1
    <3>. QED  BY <1>2, <1>17, <3>1
  <2>2. CASE j = k + 1
    <3>1. i \in 1 .. n /\ i <= k /\ w[i] = v[i] /\ w[j] = e
      BY <1>9, <1>15, <1>17, <2>2
    <3>. QED  BY <1>3, <1>4, <1>6, <1>10, <3>1
  <2>3. CASE j > k + 1
    <3>1. j - 1 \in 1 .. n /\ w[j] = v[j - 1] /\ j - 1 > k
      BY <1>9, <1>15, <2>3
    <3>2. CASE i <= k
      <4>1. i \in 1 .. n /\ w[i] = v[i] /\ i < j - 1
        BY <1>9, <1>15, <2>3, <3>2
      <4>. QED  BY <1>2, <3>1, <4>1
    <3>3. CASE i = k + 1
      <4>1. w[i] = e
        BY <1>9, <1>15, <3>3
      <4>2. ~ (v[j - 1].score >= Score(r))
        BY <1>6, <1>9, <3>1
      <4>3. v[j - 1].score \in Nat /\ v[j - 1].id \in old
        BY <1>10, <3>1
      <4>. QED  BY <1>3, <1>4, <1>11, <3>1, <4>1, <4>2, <4>3
    <3>4. CASE i > k + 1
      <4>1. i - 1 \in 1 .. n /\ w[i] = v[i - 1] /\ i - 1 < j - 1
        BY <1>9, <1>15, <1>17, <3>4
      <4>. QED  BY <1>2, <3>1, <4>1
    <3>. QED  BY <1>9, <3>2, <3>3, <3>4
  <2>. QED  BY <1>9, <2>1, <2>2, <2>3
<1>18. k + 1 \in 1 .. m => w[k + 1].id = r
  BY <1>4, <1>9, <1>15
<1>19. ASSUME NEW i \in 1 .. n
       PROVE  (\E j \in 1 .. m : w[j].id = v[i].id) \/ (i = n /\ n = LnSetMax /\ i > k)
  <2>1. CASE i <= k
    <3>1. i \in 1 .. m /\ w[i] = v[i]
      BY <1>9, <1>15, <2>1
    <3>. QED  BY <3>1
  <2>2. CASE i > k /\ i + 1 <= m
    <3>1. i + 1 \in 1 .. m /\ w[i + 1] = v[i]
      <4>1. i + 1 \in 1 .. m /\ i + 1 > k + 1 /\ (i + 1) - 1 = i
        BY <1>9, <2>2
      <4>. QED  BY <1>9, <1>15, <4>1
    <3>. QED  BY <3>1
  <2>3. CASE i > k /\ ~ (i + 1 <= m)
    BY <1>9, <1>14, <2>3
  <2>. QED  BY <1>9, <2>1, <2>2, <2>3
<1>20. ASSUME m < LnSetMax, NEW x \in live
       PROVE  \E j \in 1 .. m : w[j].id = x
  <2>1. n < LnSetMax /\ m = n + 1 /\ k + 1 \in 1 .. m
    BY <1>8, <1>9, <1>13, <1>14, <1>20
  <2>2. CASE x = r
    BY <1>18, <2>1, <2>2
  <2>3. CASE x \in old
    <3>1. PICK i \in 1 .. n : v[i].id = x
      BY <1>2, <2>1, <2>3
    <3>. QED  BY <1>8, <1>19, <2>1, <3>1
  <2>. QED  BY <1>3, <2>2, <2>3
<1>21. ASSUME NEW x \in live, ~ \E j \in 1 .. m : w[j].id = x, NEW j \in 1 .. m
       PROVE  Score(x) <= w[j].score
  <2>1. CASE x = r
    <3>1. ~ (k + 1 \in 1 .. m)
      BY <1>18, <1>21, <2>1
    <3>2. j <= k /\ j \in 1 .. n /\ w[j] = v[j]
      BY <1>9, <1>15, <3>1
    <3>. QED  BY <1>6, <1>10, <1>11, <2>1, <3>2
  <2>2. CASE x \in old
    <3>0. Score(x) \in Nat
      BY <1>3, <1>5, <2>2
    <3>1. n \in 1 .. n /\ n = LnSetMax /\ m = n
      <4>1. n = LnSetMax
        <5>1. CASE n < LnSetMax
          <6>1. PICK i \in 1 .. n : v[i].id = x
            BY <1>2, <2>2, <5>1
          <6>. QED  BY <1>19, <1>21, <6>1
        <5>. QED  BY <1>8, <1>9, <5>1
      <4>. QED  BY <1>8, <1>13, <4>1
    <3>2. \A i \in 1 .. n : Score(x) <= v[i].score
      <4>1. CASE \E i \in 1 .. n : v[i].id = x
        <5>1. PICK i \in 1 .. n : v[i].id = x
          BY <4>1
        <5>2. i = n
          BY <1>19, <1>21, <5>1
        <5>3. Score(x) = v[n].score
          BY <1>10, <3>1, <5>1, <5>2
        <5>4. \A h \in 1 .. n : h = n \/ h < n
          BY <1>9
        <5>5. \A h \in 1 .. n : v[h].score \in Nat
          BY <1>10
        <5>. QED  BY <1>2, <3>0, <3>1, <5>3, <5>4, <5>5
      <4>. QED  BY <1>2, <2>2, <4>1
    <3>3. k + 1 \in 1 .. m => Score(x) <= Score(r)
      <4>. SUFFICES ASSUME k + 1 \in 1 .. m PROVE Score(x) <= Score(r)
        OBVIOUS
      <4>1. ~ (n <= k)
        BY <1>9, <3>1
      <4>2. ~ (v[n].score >= Score(r))
        BY <1>6, <3>1, <4>1
      <4>3. Score(x) <= v[n].score /\ v[n].score \in Nat
        BY <1>10, <3>1, <3>2
      <4>. QED  BY <1>11, <3>0, <4>2, <4>3
    <3>4. CASE j = k + 1
      BY <1>4, <1>9, <1>15, <3>3, <3>4
    <3>5. CASE j # k + 1
      BY <1>9, <1>15, <3>2, <3>5
    <3>. QED  BY <3>4, <3>5
  <2>. QED  BY <1>3, <2>1, <2>2
<1>22. w \in Seq(Row) /\ Len(w) = m
  BY <1>1
<1>. QED  BY <1>12, <1>16, <1>17, <1>20, <1>21, <1>22 DEF Best, live, w

\* The fold of fwdset_build sees the rows one by one.
LEMMA CandidatesIs ==
  ASSUME LnInv
  PROVE  Best(Sources, Candidates)
<1>. DEFINE V == Seq(Row)
            Step(i, v) == AddedRow(v, i)
            pick == [s \in SUBSET Sources |-> Max(s)]
            step == [i \in Sources |-> [v \in V |-> Step(i, v)]]
            order == [r \in Sources |-> r]
            Fold(F) == F = [s \in SUBSET DOMAIN order |->
                              IF s = {} THEN <<>> ELSE Step(order[Max(s)], F[s \ {Max(s)}])]
<1>0. <<>> \in V /\ IsFiniteSet(Sources)
  BY SourcesFinite
<1>1. \A i \in Sources, v \in V : Step(i, v) \in V
  BY AddedRowType
<1>2. \A s \in (SUBSET Sources) \ {{}} : Max(s) \in s
  <2>. SUFFICES ASSUME NEW s \in SUBSET Sources, s # {} PROVE Max(s) \in s
    OBVIOUS
  <2>1. LnRows \in Nat /\ s \subseteq 0 .. LnRows
    BY LnConstants DEF Sources
  <2>2. \E x \in s : \A y \in s : x >= y
    BY <2>1, GreatestMember
  <2>. QED  BY <2>2 DEF Max
<1>3. Candidates = (CHOOSE F : Fold(F))[Sources]
  <2>1. Candidates = (CHOOSE F : Fold(F))[DOMAIN order]
    BY DEF Candidates, FoldLeft, MapThenFoldSet, AddedRow, Trimmed, Inserted, Ahead
  <2>2. DOMAIN order = Sources
    OBVIOUS
  <2>. QED  BY <2>1, <2>2
<1>. HIDE DEF V, Step
<1>4. Picks(pick, Sources)
  BY <1>2 DEF Picks
<1>5. \A x \in Sources, v \in V : step[x][v] \in V
  BY <1>1
<1>6. DOMAIN order = Sources /\ \A i \in Sources : order[i] = i
  OBVIOUS
<1>7. \E F : Fold(F)
  <2>1. PICK F : F = [s \in SUBSET Sources |-> F[s]] /\ IsFold(F, Sources, <<>>, pick, step)
    <3>. HIDE DEF pick, step
    <3>. QED  BY <1>0, <1>4, FoldExists
  <2>2. \A s \in SUBSET Sources : F[s] \in V
    <3>. HIDE DEF pick, step
    <3>. QED  BY <1>0, <1>4, <1>5, <2>1, FoldType
  <2>3. ASSUME NEW s \in SUBSET Sources
        PROVE  F[s] = IF s = {} THEN <<>> ELSE Step(order[Max(s)], F[s \ {Max(s)}])
    BY <1>2, <1>6, <2>1, <2>2 DEF IsFold
  <2>. DEFINE W(s) == IF s = {} THEN <<>> ELSE Step(order[Max(s)], F[s \ {Max(s)}])
  <2>4. [s \in SUBSET Sources |-> F[s]] = [s \in SUBSET Sources |-> W(s)]
    BY <2>3
  <2>5. SUBSET Sources = SUBSET DOMAIN order
    BY <1>6
  <2>6. Fold(F)
    <3>. HIDE DEF order, W
    <3>1. F = [s \in SUBSET DOMAIN order |-> W(s)]
      BY <2>1, <2>4, <2>5
    <3>. QED  BY <3>1 DEF W
  <2>. HIDE DEF Fold
  <2>. QED  BY <2>6
<1>8. ASSUME NEW F, Fold(F)
      PROVE  Best(Sources, F[Sources])
  <2>. DEFINE Bad == {s \in SUBSET Sources : ~ Best(s, F[s])}
  <2>. SUFFICES ASSUME Bad # {} PROVE FALSE
    OBVIOUS
  <2>1. PICK t \in Bad : \A u \in Bad : u \subseteq t => u = t
    <3>1. Bad \subseteq SUBSET Sources
      OBVIOUS
    <3>. HIDE DEF Bad
    <3>. QED  BY <3>1, SourcesFinite, MinimalSubset
  <2>2. t \in SUBSET Sources /\ ~ Best(t, F[t])
    BY <2>1
  <2>3. F[t] = IF t = {} THEN <<>> ELSE Step(order[Max(t)], F[t \ {Max(t)}])
    BY <1>6, <1>8, <2>2
  <2>4. t # {}
    <3>1. Best({}, <<>>)
      <4>1. LiveLinks \cap {} = {} /\ Cardinality({}) = 0 /\ LnSetMax > 0 /\ LnSetMax \in Nat
        BY FS_EmptySet, LnConstants
      <4>2. Len(<<>>) = 0 /\ <<>> \in Seq(Row) /\ 1 .. 0 = {}
        OBVIOUS
      <4>. QED  BY <4>1, <4>2 DEF Best
    <3>. QED  BY <2>2, <2>3, <3>1
  <2>. DEFINE r == Max(t)
  <2>5. r \in t /\ order[r] = r
    BY <1>2, <1>6, <2>2, <2>4
  <2>. HIDE DEF r
  <2>6. Best(t \ {r}, F[t \ {r}])
    BY <2>1, <2>2, <2>5
  <2>7. Best(t, AddedRow(F[t \ {r}], r))
    BY <2>2, <2>5, <2>6, StaleRow, LiveRow
  <2>8. F[t] = AddedRow(F[t \ {r}], r)
    BY <2>3, <2>4, <2>5 DEF r, Step
  <2>. QED  BY <2>2, <2>7, <2>8
<1>. HIDE DEF Fold
<1>. QED  BY <1>3, <1>7, <1>8

\* So the candidates are the best of all.
LEMMA BestOnes ==
  ASSUME LnInv
  PROVE  CandidatesBest
<1>. DEFINE set == Candidates
            n == Len(set)
            in == {set[i].id : i \in DOMAIN set}
<1>1. /\ set \in Seq(Row)
      /\ n = IF Cardinality(LiveLinks) < LnSetMax THEN Cardinality(LiveLinks) ELSE LnSetMax
      /\ \A i \in 1 .. n : set[i].id \in LiveLinks /\ set[i].score = Score(set[i].id)
      /\ \A i, j \in 1 .. n : i < j => set[i].id # set[j].id /\ set[i].score >= set[j].score
      /\ \A x \in LiveLinks : (\E i \in 1 .. n : set[i].id = x) \/ (\A i \in 1 .. n : Score(x) <= set[i].score)
      /\ n < LnSetMax => \A x \in LiveLinks : \E i \in 1 .. n : set[i].id = x
  <2>1. LiveLinks \cap Sources = LiveLinks
    BY DEF LiveLinks
  <2>. QED  BY <2>1, CandidatesIs DEF Best
<1>. HIDE DEF set
<1>2. /\ n \in Nat /\ DOMAIN set = 1 .. n
      /\ \A i \in 1 .. n : set[i].id \in Sources /\ set[i].score \in Nat
  BY <1>1, RowsIn
<1>. HIDE DEF n
<1>3. in = {set[i].id : i \in 1 .. n}
  BY <1>2
<1>. HIDE DEF in
<1>4. \A r \in LiveLinks \ in : \A i \in DOMAIN set : Score(r) <= set[i].score
  BY <1>1, <1>2, <1>3
<1>5. in \subseteq LiveLinks
  BY <1>1, <1>3
<1>6. Cardinality(in) = n
  <2>. DEFINE f == [i \in 1 .. n |-> set[i].id]
  <2>1. f \in [1 .. n -> in] /\ \A i \in 1 .. n : f[i] = set[i].id
    BY <1>3
  <2>2. \A y \in in : \E i \in 1 .. n : f[i] = y
    BY <1>3
  <2>3. \A i, j \in 1 .. n : f[i] = f[j] => i = j
    <3>1. \A i, j \in 1 .. n : i = j \/ i < j \/ j < i
      BY <1>2
    <3>. QED  BY <1>1, <2>1, <3>1
  <2>. HIDE DEF f
  <2>4. f \in Bijection(1 .. n, in)
    BY <2>1, <2>2, <2>3 DEF Bijection, Injection, Surjection, IsInjective
  <2>. QED  BY <1>2, <2>4, FS_CountingElements DEF ExistsBijection
<1>7. ASSUME NEW r \in BestRow, r \in LiveLinks
      PROVE  Score(r) = set[1].score
  <2>1. \A q \in Sources : Score(q) <= Score(r)
    BY DEF BestRow
  <2>2. 1 \in 1 .. n
    <3>1. IsFiniteSet(LiveLinks)
      BY SourcesFinite, FS_Subset DEF LiveLinks
    <3>2. Cardinality(LiveLinks) # 0 /\ Cardinality(LiveLinks) \in Nat
      BY <1>7, <3>1, FS_EmptySet, FS_CardinalityType
    <3>3. LnSetMax \in Nat /\ LnSetMax > 0
      BY LnConstants
    <3>. QED  BY <1>1, <3>2, <3>3
  <2>3. set[1].score <= Score(r)
    BY <1>1, <1>2, <2>1, <2>2
  <2>4. r \in Sources /\ Score(r) \in Nat
    <3>1. r \in Sources
      BY <1>7 DEF LiveLinks
    <3>2. Score(r) \in 0 .. 100
      BY <3>1, ScoreIs
    <3>. QED  BY <3>1, <3>2
  <2>5. Score(r) <= set[1].score
    <3>1. CASE \E i \in 1 .. n : set[i].id = r
      <4>1. PICK i \in 1 .. n : set[i].id = r
        BY <3>1
      <4>2. i = 1 \/ 1 < i
        BY <1>2
      <4>3. set[i].score = Score(r)
        BY <1>1, <4>1
      <4>. QED  BY <1>1, <2>2, <2>4, <4>2, <4>3
    <3>2. CASE ~ \E i \in 1 .. n : set[i].id = r
      BY <1>1, <1>7, <2>2, <3>2
    <3>. QED  BY <3>1, <3>2
  <2>. QED  BY <1>2, <2>2, <2>3, <2>4, <2>5
<1>8. \A i, j \in DOMAIN set : i < j => set[i].score >= set[j].score
  BY <1>1, <1>2
<1>9. Cardinality(in) = IF Cardinality(LiveLinks) < LnSetMax THEN Cardinality(LiveLinks) ELSE LnSetMax
  BY <1>1, <1>6
<1>. QED  BY <1>4, <1>5, <1>7, <1>8, <1>9 DEF CandidatesBest, set, in

\* The figures of fwdset_build are those of the live rows.
LEMMA SetFigures ==
  ASSUME LnInv
  PROVE  /\ BestDirect \in 0 .. 100
         /\ BestDirect = 0 \/ \E r \in LiveLinks : lnTable[r].direct /\ Score(r) = BestDirect
         /\ \A r \in LiveLinks : lnTable[r].direct => Score(r) <= BestDirect
         /\ ViableCount \in Nat
         /\ ViableCount > 0 => \E r \in LiveLinks : Score(r) >= 20
<1>. DEFINE D == {r \in LiveLinks : lnTable[r].direct}
            P(s) == /\ s = 0 \/ \E r \in LiveLinks : lnTable[r].direct /\ Score(r) = s
                    /\ \A r \in LiveLinks : lnTable[r].direct => Score(r) <= s
<1>1. \A r \in LiveLinks : Score(r) \in 0 .. 100
  BY ScoreIs DEF LiveLinks
<1>2. \E s \in 0 .. 100 : P(s)
  <2>. DEFINE S == {Score(r) : r \in D} \cup {0}
  <2>1. S \subseteq 0 .. 100 /\ S # {} /\ 100 \in Nat
    BY <1>1
  <2>2. PICK s \in S : \A y \in S : s >= y
    <3>. HIDE DEF S
    <3>. QED  BY <2>1, GreatestMember
  <2>3. s \in 0 .. 100 /\ (s = 0 \/ \E r \in LiveLinks : lnTable[r].direct /\ Score(r) = s)
    BY <2>1, <2>2
  <2>4. \A r \in LiveLinks : lnTable[r].direct => Score(r) \in S
    OBVIOUS
  <2>. HIDE DEF S
  <2>5. \A r \in LiveLinks : lnTable[r].direct => Score(r) <= s
    BY <1>1, <2>2, <2>3, <2>4
  <2>. QED  BY <2>3, <2>5
<1>3. BestDirect = CHOOSE s \in 0 .. 100 : P(s)
  BY DEF BestDirect
<1>. HIDE DEF P
<1>4. BestDirect \in 0 .. 100 /\ P(BestDirect)
  BY <1>2, <1>3
<1>. DEFINE T == {r \in LiveLinks : Score(r) >= 20}
<1>5. IsFiniteSet(T)
  <2>1. T \in SUBSET Sources
    BY DEF LiveLinks
  <2>. HIDE DEF T
  <2>. QED  BY <2>1, SourcesFinite, FS_Subset
<1>6. Cardinality(T) \in Nat /\ (Cardinality(T) > 0 => T # {})
  <2>. HIDE DEF T
  <2>. QED  BY <1>5, FS_CardinalityType, FS_EmptySet
<1>7. ViableCount = Cardinality(T)
  BY DEF ViableCount
<1>8. T # {} => \E r \in LiveLinks : Score(r) >= 20
  OBVIOUS
<1>. HIDE DEF T
<1>. QED  BY <1>4, <1>6, <1>7, <1>8 DEF P

\* A relay is silenced or held back only as the figures say.
LEMMA SilencedCovered ==
  ASSUME LnInv
  PROVE  SilencedOnlyIfCovered
<1>0. \A r \in LiveLinks : Score(r) \in Nat
  <2>1. \A r \in LiveLinks : Score(r) \in 0 .. 100
    BY ScoreIs DEF LiveLinks
  <2>2. \A s \in 0 .. 100 : s \in Nat
    BY PercentNat
  <2>. QED  BY <2>1, <2>2
<1>1. ASSUME AddedDelay = {}
      PROVE  \E r \in LiveLinks : ~lnTable[r].direct /\ Score(r) >= 20
  <2>1. ViableCount > 0 /\ BestDirect < 20
    BY <1>1 DEF AddedDelay, SuppressRelay
  <2>2. PICK r \in LiveLinks : Score(r) >= 20
    BY <2>1, SetFigures
  <2>3. lnTable[r].direct => Score(r) <= BestDirect
    BY SetFigures
  <2>4. BestDirect \in Nat
    BY SetFigures
  <2>. QED  BY <1>0, <2>1, <2>2, <2>3, <2>4
<1>2. ASSUME NEW ms \in AddedDelay, ms > 0, ViableCount < 2
      PROVE  \E r \in LiveLinks : lnTable[r].direct /\ Score(r) \in 20 .. 69
  <2>1. ms = ExtraHoldoff
    BY DEF AddedDelay
  <2>2. ViableCount \in Nat /\ BestDirect \in 0 .. 100
    BY SetFigures
  <2>. DEFINE A == CASE BestDirect >= 70 -> 0 [] BestDirect \in 40..69 -> 50
                     [] BestDirect \in 20..39 -> 120 [] OTHER -> 0
              B == CASE ViableCount >= 4 -> 80 [] ViableCount \in 2..3 -> 40 [] OTHER -> 0
  <2>3. ExtraHoldoff = A + B
    BY DEF ExtraHoldoff
  <2>4. B = 0
    BY <1>2, <2>2
  <2>5. BestDirect \notin 20 .. 69 => A = 0
    BY <2>2
  <2>. HIDE DEF A, B
  <2>6. BestDirect \in 20 .. 69
    BY <1>2, <2>1, <2>3, <2>4, <2>5
  <2>. QED  BY <2>6, SetFigures
<1>. QED  BY <1>1, <1>2 DEF SilencedOnlyIfCovered

LEMMA LinksSafe == LnInv => LinksKept
BY MissingPaysNot, BestOnes, SilencedCovered DEF LinksKept

\* While the sequence numbers of a run do not come round, a link that missed more never
\* scores better than one that missed less (neighbor_table.c:70-115); and always the
\* forward set is the best of the live rows and silences a relay only for a viable one
\* (fwd_set.h:159-271).
THEOREM ScoreAlwaysKept == FewRounds => (NodeSpec => []ScoreKept)
<1>. SUFFICES ASSUME FewRounds PROVE NodeSpec => []ScoreKept
  OBVIOUS
<1>1. NodeInit => LnInv
  BY LnStart DEF NodeInit
<1>2. LnInv /\ [NodeNext]_nodeVars => LnInv'
  BY PartSteps, LnInductive
<1>3. LnInv => ScoreKept
  BY LinksSafe DEF ScoreKept
<1>. QED  BY <1>1, <1>2, <1>3, PTL DEF NodeSpec, nodeVars

-----------------------------------------------------------------------------
(***************************************************************************)
(* The engine.  The queued events of a source with one tick are in the     *)
(* order of their injection along the chain, so the first to be taken is   *)
(* the furthest; and the wait of a clock is paid for by the nodes an event *)
(* of the other clock has still to pass.                                   *)
(***************************************************************************)
Queued == [chain : EnChains, pos : Nat, tick : 0 .. EnMaxTick, seq : Nat, id : Nat]

\* The items of a clock have a first one.
LEMMA FirstThere ==
  ASSUME NEW q, q \subseteq Queued, \A i, j \in q : i.seq = j.seq => i = j,
         NEW k \in Active(q)
  PROVE  /\ FirstItem(q, k) \in q /\ FirstItem(q, k).chain[1] = k
         /\ \A j \in q \ {FirstItem(q, k)} :
              j.chain[1] = k => Before(FirstItem(q, k), j)
<1>. DEFINE S == {i \in q : i.chain[1] = k}
            ticks == [i \in S |-> i.tick]
<1>1. \A i \in q : i.tick \in Nat /\ i.seq \in Nat
  BY EnAssumption DEF Queued
<1>2. S # {} /\ \A i \in S : ticks[i] \in Nat
  <2>1. \E i \in q : i.chain[1] = k
    BY Zenon DEF Active
  <2>. QED  BY <1>1, <2>1
<1>3. PICK t \in S : \A i \in S : ticks[t] <= ticks[i]
  <2>. HIDE DEF S, ticks
  <2>. QED  BY <1>2, LeastMember
<1>4. \A i \in S : t.tick <= i.tick
  BY <1>3
<1>. DEFINE T == {i \in S : i.tick = t.tick}
            seqs == [i \in T |-> i.seq]
<1>5. T # {} /\ \A i \in T : seqs[i] \in Nat
  BY <1>1
<1>6. PICK e \in T : \A i \in T : seqs[e] <= seqs[i]
  <2>. HIDE DEF T, seqs
  <2>. QED  BY <1>5, LeastMember
<1>7. e \in q /\ e.chain[1] = k /\ e.tick = t.tick /\ \A i \in T : e.seq <= i.seq
  BY <1>6
<1>8. ASSUME NEW j \in q \ {e}, j.chain[1] = k PROVE Before(e, j)
  <2>1. j \in S /\ j \in q /\ e.tick <= j.tick
    BY <1>4, <1>7, <1>8
  <2>2. e.seq # j.seq
    BY <1>7, <1>8
  <2>3. j.tick = e.tick => e.seq <= j.seq
    BY <1>7, <2>1
  <2>. HIDE DEF S, T
  <2>. QED  BY <1>1, <1>7, <2>1, <2>2, <2>3 DEF Before
<1>. HIDE DEF S, T
<1>. QED  BY <1>7, <1>8 DEF FirstItem

\* What a delay node holds is an event of its chain, older than the injected ones.
Holds(st, c) ==
  \/ st.pending = <<>>
  \/ \E h \in Queued : st.pending = <<h>> /\ h.chain = c /\ h.id = 0

Held(c, p) ==
  NodeAt(c, p) = "delay" => Holds(enNodes[c][p], c)

NodesInv ==
  /\ DOMAIN enNodes = EnChains /\ enNodes = [c \in EnChains |-> enNodes[c]]
  /\ \A c \in EnChains : enNodes[c] = [p \in 1 .. ChainLen(c) |-> enNodes[c][p]]
  /\ \A c \in EnChains : \A p \in 1 .. ChainLen(c) : Held(c, p)

ItemsInv ==
  /\ enQueue \subseteq Queued /\ IsFiniteSet(enQueue) /\ enSeq \in Nat
  /\ \A i \in enQueue : i.pos \in 1 .. ChainLen(i.chain) /\ i.seq < enSeq /\ i.id <= enSeq
  /\ \A i, j \in enQueue : i.seq = j.seq => i = j

\* Of two events of a source with the same tick the older is ahead.
Further(i, j) == i.pos > j.pos \/ (i.pos = j.pos /\ i.seq < j.seq)

OrderInv ==
  \A i, j \in enQueue :
    i.chain = j.chain /\ i.tick = j.tick /\ i # j =>
      (i.id < j.id /\ Further(i, j)) \/ (j.id < i.id /\ Further(j, i))

\* The first half of EventsFair.
SinkFirst ==
  \A k \in DOMAIN enOut.sink, i \in enQueue :
    LET e == enOut.sink[k] IN
    i.chain[1] = e.chain[1] =>
      /\ i.tick >= e.tick
      /\ i.tick = e.tick /\ i.chain = e.chain => i.id > e.id

TurnInv == enGas \in 0 .. EnGas /\ enRr \in 0 .. Cardinality(EnClocks) - 1

EngineInv == NodesInv /\ ItemsInv /\ OrderInv /\ SinkFirst /\ TurnInv

LEMMA ChainSizes ==
  ASSUME NEW c \in EnChains
  PROVE  /\ Len(c) \in Nat /\ ChainLen(c) \in Nat \ {0} /\ ChainLen(c) < EnGas
         /\ c[1] \in EnClocks /\ c[1] \in 0 .. 255
         /\ \A p \in 1 .. ChainLen(c) : NodeAt(c, p) = "emit" => p = ChainLen(c)
<1>1. Len(c) \in 2 .. EnGas /\ EnGas \in Nat /\ c[1] \in 0 .. 255
  BY EnAssumption
<1>2. ASSUME NEW p \in 1 .. ChainLen(c), NodeAt(c, p) = "emit" PROVE p = ChainLen(c)
  <2>1. p + 1 \in 2 .. Len(c)
    BY <1>1 DEF ChainLen
  <2>3. c[p + 1] = "emit"
    BY <1>2, Zenon DEF NodeAt
  <2>2. p + 1 \notin 2 .. Len(c) - 1
    BY <2>3, EnAssumption
  <2>. QED  BY <1>1, <2>1, <2>2 DEF ChainLen
<1>3. c[1] \in EnClocks
  BY DEF EnClocks
<1>4. Len(c) \in Nat /\ ChainLen(c) \in Nat \ {0} /\ ChainLen(c) < EnGas
  <2>1. \A n \in 2 .. EnGas : n \in Nat /\ n - 1 \in Nat \ {0} /\ n - 1 < EnGas
    BY <1>1
  <2>. QED  BY <1>1, <2>1, Zenon DEF ChainLen
<1>. QED  BY <1>1, <1>2, <1>3, <1>4, Zenon

LEMMA ClocksType ==
   EnClocks \subseteq 0 .. 255 /\ IsFiniteSet(EnClocks) /\ Cardinality(EnClocks) \in Nat \ {0}
<1>1. EnClocks \subseteq 0 .. 255
  <2>1. \A c \in EnChains : c[1] \in 0 .. 255
    BY ChainSizes, Zenon
  <2>. QED  BY <2>1 DEF EnClocks
<1>2. EnClocks \in SUBSET Nat /\ 255 \in Nat /\ \A k \in EnClocks : k <= 255
  BY <1>1
<1>3. IsFiniteSet(EnClocks)
  BY <1>2, FS_BoundedSetOfNaturals
<1>4. EnClocks # {}
  BY EnAssumption, ZenonT(60) DEF EnClocks
<1>5. Cardinality(EnClocks) \in Nat /\ Cardinality(EnClocks) # 0
  BY <1>3, <1>4, FS_CardinalityType, FS_EmptySet
<1>. QED  BY <1>1, <1>3, <1>5

\* The clocks with work.
LEMMA ActiveType ==
  ASSUME NEW q, q \subseteq Queued
  PROVE  /\ Active(q) \subseteq EnClocks /\ IsFiniteSet(Active(q))
         /\ Cardinality(Active(q)) \in Nat /\ Cardinality(Active(q)) <= Cardinality(EnClocks)
         /\ q # {} => Active(q) # {} /\ Cardinality(Active(q)) # 0
<1>1. Active(q) \subseteq EnClocks
  <2>1. \A i \in q : i.chain \in EnChains
    BY DEF Queued
  <2>2. \A i \in q : i.chain[1] \in EnClocks
    BY <2>1, Zenon DEF EnClocks
  <2>. QED  BY <2>2 DEF Active
<1>2. IsFiniteSet(Active(q)) /\ Cardinality(Active(q)) <= Cardinality(EnClocks)
  BY <1>1, ClocksType, FS_Subset
<1>3. Cardinality(Active(q)) \in Nat /\ (Cardinality(Active(q)) = 0 <=> Active(q) = {})
  BY <1>2, FS_CardinalityType, FS_EmptySet
<1>4. q # {} => Active(q) # {}
  BY DEF Active
<1>. QED  BY <1>1, <1>2, <1>3, <1>4

\* The clock whose turn it is has work.
LEMMA ClockWorks ==
  ASSUME NEW q, q \subseteq Queued, q # {}, NEW rr \in Nat
  PROVE  /\ ClockDue(q, rr) \in Active(q)
         /\ Cardinality({j \in Active(q) : j < ClockDue(q, rr)}) = rr % Cardinality(Active(q))
<1>1. Active(q) \subseteq 0 .. 255 /\ Cardinality(Active(q)) \in Nat \ {0}
  <2>1. EnClocks \subseteq 0 .. 255
    BY ClocksType
  <2>2. Active(q) \subseteq EnClocks /\ Cardinality(Active(q)) \in Nat /\ Cardinality(Active(q)) # 0
    BY ActiveType, Zenon
  <2>. QED  BY <2>1, <2>2
<1>2. rr % Cardinality(Active(q)) \in Nat /\ rr % Cardinality(Active(q)) < Cardinality(Active(q))
  <2>. DEFINE n == Cardinality(Active(q))
  <2>1. n \in Nat \ {0}
    BY <1>1
  <2>. HIDE DEF n
  <2>2. rr % n \in 0 .. n - 1
    BY <2>1, DivMod
  <2>3. rr % n \in Nat /\ rr % n < n
    BY <2>1, <2>2
  <2>. QED  BY <2>3 DEF n
<1>3. \E k \in Active(q) : Cardinality({j \in Active(q) : j < k}) = rr % Cardinality(Active(q))
  BY <1>1, <1>2, RankHeld, Zenon
<1>. QED  BY <1>3, Zenon DEF ClockDue

\* What a node puts out: nothing, the event, or, a delay, an older one of an earlier tick.
Stored(e) == [e EXCEPT !.seq = 0, !.id = 0]

PutsOut(e, ran) ==
  \/ ran.out = <<>>
  \/ ran.out = <<e>>
  \/ \E h \in Queued :
       ran.out = <<h>> /\ h.chain = e.chain /\ h.id = 0 /\ h.tick < e.tick

LEMMA ProcessOut ==
  ASSUME NEW e \in Queued, NEW kind, NEW st, kind = "delay" => Holds(st, e.chain),
         NEW ran, ran = Process(kind, st, e)
  PROVE  /\ PutsOut(e, ran)
         /\ kind = "delay" => ran.st.pending = <<Stored(e)>>
<1>. USE DEF PutsOut, Holds
<1>1. CASE kind = "throttle"
  <2>1. ran.out = <<e>> \/ ran.out = <<>>
    BY <1>1 DEF Process
  <2>. QED  BY <1>1, <2>1
<1>2. CASE kind = "toa"
  <2>1. ran.out = <<e>> \/ ran.out = <<>>
    BY <1>2 DEF Process
  <2>. QED  BY <1>2, <2>1
<1>3. CASE kind \in {"window", "eager"}
  <2>1. ran.out = <<e>> \/ ran.out = <<>>
    BY <1>3 DEF Process
  <2>. QED  BY <1>3, <2>1
<1>4. CASE kind = "delay"
  <2>1. ran.st.pending = <<Stored(e)>>
    BY <1>4 DEF Process, Stored
  <2>2. ran.out = <<>> \/ (ran.out = st.pending /\ st.pending # <<>>
                           /\ e.tick >= st.pending[1].tick + EnPeriod)
    BY <1>4 DEF Process
  <2>3. ASSUME ran.out # <<>>
        PROVE  \E h \in Queued : ran.out = <<h>> /\ h.chain = e.chain /\ h.id = 0 /\ h.tick < e.tick
    <3>1. PICK h \in Queued : st.pending = <<h>> /\ h.chain = e.chain /\ h.id = 0
      BY <1>4, <2>2, <2>3
    <3>2. ran.out = <<h>> /\ e.tick >= h.tick + EnPeriod
      BY <2>2, <2>3, <3>1
    <3>3. h.tick < e.tick
      <4>1. h.tick \in Nat /\ e.tick \in Nat /\ EnPeriod \in Nat \ {0}
        BY EnAssumption DEF Queued
      <4>. QED  BY <3>2, <4>1
    <3>. QED  BY <3>1, <3>2, <3>3
  <2>. QED  BY <2>1, <2>3
<1>5. CASE kind \notin {"throttle", "toa", "window", "eager", "delay"}
  BY <1>5 DEF Process
<1>. QED  BY <1>1, <1>2, <1>3, <1>4, <1>5

\* A step takes e out and puts pushed in, which is e one node on, or what a delay held.
Moves(e, pushed) ==
  /\ e \in enQueue /\ e.chain[1] = ClockDue(enQueue, enRr)
  /\ \A j \in enQueue \ {e} : j.chain[1] = e.chain[1] => Before(e, j)
  /\ enQueue' = (enQueue \ {e}) \cup pushed
  /\ \/ pushed = {}
     \/ \E h \in Queued :
          /\ pushed = {h} /\ h.chain = e.chain /\ h.pos = e.pos + 1 /\ h.seq = enSeq
          /\ e.pos < ChainLen(e.chain)
          /\ (h.id = e.id /\ h.tick = e.tick) \/ (h.id = 0 /\ h.tick < e.tick)
  /\ enSeq' \in Nat /\ (enQueue' # {} => enSeq' >= enSeq)
  /\ pushed # {} => enSeq' >= enSeq + 1
  /\ enOut'.sink = <<>> \/ (enOut'.sink = <<e>> /\ e.pos = ChainLen(e.chain))

\* The item of a node further on.
Onward(g, n, m) == [g EXCEPT !.pos = n, !.seq = m]

\* The turn, the gas and the waits after a step.
Turns(e) ==
  LET rest == enQueue \ {e}
      turn == Turn(enRr, Cardinality(Active(enQueue)))
  IN  /\ enGas > 0 /\ enGas' = IF enQueue' = {} THEN 0 ELSE enGas - 1
      /\ enRr' = IF e.chain[1] \in Active(rest) THEN turn
                 ELSE IF rest = {} THEN 0 ELSE turn % Cardinality(Active(rest))
      /\ enOut'.waits = [k \in EnClocks |->
                           IF k = e.chain[1] \/ k \notin Active(enQueue) THEN 0
                           ELSE enOut.waits[k] + 1]

LEMMA ItemMoved ==
  ASSUME NEW g \in Queued, NEW n \in Nat, NEW m \in Nat
  PROVE  /\ Onward(g, n, m) \in Queued /\ Onward(g, n, m).chain = g.chain
         /\ Onward(g, n, m).pos = n /\ Onward(g, n, m).seq = m
         /\ Onward(g, n, m).id = g.id /\ Onward(g, n, m).tick = g.tick
BY DEF Queued, Onward

LEMMA ItemStored ==
  ASSUME NEW g \in Queued
  PROVE  Stored(g) \in Queued /\ Stored(g).chain = g.chain /\ Stored(g).id = 0
BY DEF Queued, Stored

\* f keeps something for every node of every chain.
Table(f, N) ==
  /\ DOMAIN f = DOMAIN N /\ f = [c \in DOMAIN N |-> f[c]]
  /\ \A c \in DOMAIN N : f[c] = [p \in 1 .. N[c] |-> f[c][p]]

NodePut(f, c, p, v) == [f EXCEPT ![c][p] = v]

LEMMA PutTwice ==
  ASSUME NEW N, NEW f, Table(f, N), NEW c \in DOMAIN N, NEW p \in 1 .. N[c], NEW v,
         NEW g, g = NodePut(f, c, p, v)
  PROVE  /\ Table(g, N) /\ g[c][p] = v
         /\ \A d \in DOMAIN N : \A q \in 1 .. N[d] : d # c \/ q # p => g[d][q] = f[d][q]
<1>1. g = [d \in DOMAIN N |-> IF d = c THEN [f[c] EXCEPT ![p] = v] ELSE f[d]]
  BY Zenon DEF Table, NodePut
<1>2. g[c] = [f[c] EXCEPT ![p] = v] /\ \A d \in DOMAIN N : d # c => g[d] = f[d]
  BY <1>1, Zenon
<1>3. g[c] = [q \in 1 .. N[c] |-> IF q = p THEN v ELSE f[c][q]]
  <2>1. DOMAIN f[c] = 1 .. N[c]
    BY Zenon DEF Table
  <2>. QED  BY <1>2, <2>1, Zenon
<1>4. DOMAIN g = DOMAIN N /\ g = [d \in DOMAIN N |-> g[d]]
  BY <1>1, Zenon
<1>5. g[c] = [q \in 1 .. N[c] |-> g[c][q]] /\ g[c][p] = v /\ \A q \in 1 .. N[c] : q # p => g[c][q] = f[c][q]
  BY <1>3, Zenon
<1>6. ASSUME NEW d \in DOMAIN N
      PROVE  /\ g[d] = [q \in 1 .. N[d] |-> g[d][q]]
             /\ \A q \in 1 .. N[d] : d # c \/ q # p => g[d][q] = f[d][q]
  <2>1. CASE d = c
    BY <1>5, <2>1, Zenon
  <2>2. CASE d # c
    <3>1. f[d] = [q \in 1 .. N[d] |-> f[d][q]]
      BY Zenon DEF Table
    <3>. QED  BY <1>2, <2>2, <3>1, Zenon
  <2>. QED  BY <2>1, <2>2, Zenon
<1>. QED  BY <1>4, <1>5, <1>6, Zenon DEF Table

LEMMA StepMoves ==
  ASSUME EngineInv, EnStep
  PROVE  /\ \E e \in Queued, pushed \in SUBSET Queued : Moves(e, pushed) /\ Turns(e)
         /\ NodesInv'
<1>. DEFINE active == Active(enQueue)
            clock == ClockDue(enQueue, enRr)
            e == FirstItem(enQueue, clock)
            rest == enQueue \ {e}
            kind == NodeAt(e.chain, e.pos)
            st == enNodes[e.chain][e.pos]
            ran == Process(kind, st, e)
            pushed == IF e.pos = ChainLen(e.chain) THEN {}
                      ELSE {[ran.out[k] EXCEPT !.pos = e.pos + 1, !.seq = enSeq + k - 1] :
                              k \in DOMAIN ran.out}
<1>1. enQueue # {} /\ enQueue' = rest \cup pushed
  BY Zenon DEF EnStep
<1>17. enNodes' = NodePut(enNodes, e.chain, e.pos, ran.st)
  BY Zenon DEF EnStep, NodePut
<1>18. enSeq' = IF rest \cup pushed = {} THEN 0 ELSE enSeq + Len(ran.out)
  BY ZenonT(60) DEF EnStep
<1>19. enOut'.sink = IF kind = "emit" THEN <<e>> ELSE <<>>
  BY Zenon DEF EnStep
<1>20. /\ enGas > 0 /\ enGas' = IF rest \cup pushed = {} THEN 0 ELSE enGas - 1
       /\ enRr' = IF clock \in Active(rest) THEN Turn(enRr, Cardinality(active))
                  ELSE IF rest = {} THEN 0
                       ELSE Turn(enRr, Cardinality(active)) % Cardinality(Active(rest))
  BY ZenonT(60) DEF EnStep
<1>21. enOut'.waits = [k \in EnClocks |->
                        IF k = clock \/ k \notin active THEN 0 ELSE enOut.waits[k] + 1]
  BY ZenonT(60) DEF EnStep
<1>2. clock \in active
  <2>1. enRr \in Nat
    BY ClocksType DEF EngineInv, TurnInv
  <2>. QED  BY <1>1, <2>1, ClockWorks, Zenon DEF EngineInv, ItemsInv
<1>. HIDE DEF clock
<1>3. /\ e \in enQueue /\ e.chain[1] = clock
      /\ \A j \in enQueue \ {e} : j.chain[1] = clock => Before(e, j)
  BY <1>2, FirstThere DEF EngineInv, ItemsInv
<1>. HIDE DEF e
<1>4. /\ e \in Queued /\ e.chain \in EnChains /\ e.pos \in 1 .. ChainLen(e.chain)
      /\ ChainLen(e.chain) \in Nat
  <2>1. e \in Queued /\ e.pos \in 1 .. ChainLen(e.chain)
    BY <1>3 DEF EngineInv, ItemsInv
  <2>2. e.chain \in EnChains
    BY <2>1 DEF Queued
  <2>. QED  BY <2>1, <2>2, ChainSizes
<1>5. kind = "delay" => Holds(st, e.chain)
  BY <1>4, Zenon DEF EngineInv, NodesInv, Held
<1>6. /\ PutsOut(e, ran)
      /\ kind = "delay" => ran.st.pending = <<Stored(e)>>
  <2>1. ran = Process(kind, st, e)
    OBVIOUS
  <2>. HIDE DEF kind, st, ran
  <2>. QED  BY <1>4, <1>5, <2>1, ProcessOut, Zenon
<1>. HIDE DEF ran
<1>. DEFINE Next1 == \E h \in Queued :
              /\ pushed = {h} /\ h.chain = e.chain /\ h.pos = e.pos + 1 /\ h.seq = enSeq
              /\ e.pos < ChainLen(e.chain)
              /\ (h.id = e.id /\ h.tick = e.tick) \/ (h.id = 0 /\ h.tick < e.tick)
<1>. HIDE DEF Next1, kind, st
<1>13. enSeq \in Nat
  BY DEF EngineInv, ItemsInv
<1>14. ran.out = <<>> => pushed = {} /\ Len(ran.out) = 0
  <2>1. DOMAIN <<>> = {} /\ Len(<<>>) = 0
    OBVIOUS
  <2>. QED  BY <2>1, Zenon
<1>15. ASSUME NEW g \in Queued, ran.out = <<g>>, g.chain = e.chain, g = e \/ (g.id = 0 /\ g.tick < e.tick)
       PROVE  Len(ran.out) = 1 /\ (pushed = {} \/ Next1)
  <2>1. DOMAIN <<g>> = {1} /\ <<g>>[1] = g /\ Len(<<g>>) = 1
    OBVIOUS
  <2>2. enSeq + 1 - 1 = enSeq
    BY <1>13
  <2>. DEFINE next(k) == Onward(ran.out[k], e.pos + 1, enSeq + k - 1)
              h == Onward(g, e.pos + 1, enSeq)
  <2>3. e.pos # ChainLen(e.chain) => pushed = {h}
    <3>1. next(1) = h
      BY <1>15, <2>1, <2>2, Zenon
    <3>2. e.pos # ChainLen(e.chain) => pushed = {next(k) : k \in {1}}
      BY <1>15, <2>1, Zenon DEF Onward
    <3>. HIDE DEF next, pushed
    <3>. QED  BY <3>1, <3>2, Zenon
  <2>4. /\ h \in Queued /\ h.chain = g.chain /\ h.pos = e.pos + 1 /\ h.seq = enSeq
        /\ h.id = g.id /\ h.tick = g.tick
    <3>1. e.pos + 1 \in Nat
      BY <1>4
    <3>2. PICK n \in Nat : n = e.pos + 1
      BY <3>1
    <3>3. /\ Onward(g, n, enSeq) \in Queued /\ Onward(g, n, enSeq).chain = g.chain
          /\ Onward(g, n, enSeq).pos = n /\ Onward(g, n, enSeq).seq = enSeq
          /\ Onward(g, n, enSeq).id = g.id /\ Onward(g, n, enSeq).tick = g.tick
      BY <1>13, ItemMoved
    <3>. QED  BY <3>2, <3>3
  <2>5. e.pos # ChainLen(e.chain) => e.pos < ChainLen(e.chain)
    BY <1>4
  <2>6. e.pos = ChainLen(e.chain) => pushed = {}
    BY Zenon
  <2>7. ASSUME e.pos # ChainLen(e.chain) PROVE Next1
    <3>. HIDE DEF h, pushed
    <3>. QED  BY <1>15, <2>3, <2>4, <2>5, <2>7, Zenon DEF Next1
  <2>. HIDE DEF pushed
  <2>. QED  BY <1>15, <2>1, <2>6, <2>7, Zenon
<1>16. \/ ran.out = <<>>
       \/ \E g \in Queued : ran.out = <<g>> /\ g.chain = e.chain /\ (g = e \/ (g.id = 0 /\ g.tick < e.tick))
  BY <1>4, <1>6, Zenon DEF PutsOut
<1>7. (pushed = {} \/ Next1) /\ Len(ran.out) \in {0, 1} /\ (pushed # {} => Len(ran.out) = 1)
  <2>. HIDE DEF pushed
  <2>. QED  BY <1>14, <1>15, <1>16, Zenon
<1>8. enSeq' \in Nat /\ (enQueue' # {} => enSeq' >= enSeq) /\ (pushed # {} => enSeq' >= enSeq + 1)
  <2>. HIDE DEF pushed
  <2>. QED  BY <1>1, <1>7, <1>13, <1>18
<1>9. enOut'.sink = <<>> \/ (enOut'.sink = <<e>> /\ e.pos = ChainLen(e.chain))
  <2>1. kind = "emit" => e.pos = ChainLen(e.chain)
    BY <1>4, ChainSizes DEF kind
  <2>. QED  BY <1>19, <2>1, Zenon
<1>10. NodesInv'
  <2>. DEFINE N == [c \in EnChains |-> ChainLen(c)]
  <2>0. DOMAIN N = EnChains /\ \A c \in EnChains : N[c] = ChainLen(c)
    BY Zenon
  <2>. HIDE DEF N
  <2>1. /\ Table(enNodes', N) /\ enNodes'[e.chain][e.pos] = ran.st
        /\ \A c \in EnChains : \A p \in 1 .. N[c] :
             c # e.chain \/ p # e.pos => enNodes'[c][p] = enNodes[c][p]
    <3>1. Table(enNodes, N) /\ e.chain \in DOMAIN N /\ e.pos \in 1 .. N[e.chain]
      BY <1>4, <2>0, Zenon DEF EngineInv, NodesInv, Table
    <3>. QED  BY <1>17, <2>0, <3>1, PutTwice
  <2>2. ASSUME NEW c \in EnChains, NEW p \in 1 .. ChainLen(c) PROVE Held(c, p)'
    <3>1. CASE c = e.chain /\ p = e.pos
      <4>1. enNodes'[c][p] = ran.st
        BY <2>1, <3>1, Zenon
      <4>2. Stored(e) \in Queued /\ Stored(e).chain = c /\ Stored(e).id = 0
        BY <1>4, <3>1, ItemStored, Zenon
      <4>3. NodeAt(c, p) = "delay" => ran.st.pending = <<Stored(e)>>
        BY <1>6, <3>1, Zenon DEF kind
      <4>. QED  BY <4>1, <4>2, <4>3, Zenon DEF Held, Holds
    <3>2. CASE c # e.chain \/ p # e.pos
      <4>1. enNodes'[c][p] = enNodes[c][p]
        BY <2>0, <2>1, <3>2, Zenon
      <4>2. Held(c, p)
        BY Zenon DEF EngineInv, NodesInv
      <4>. QED  BY <4>1, <4>2, Zenon DEF Held
    <3>. QED  BY <3>1, <3>2, Zenon
  <2>3. \A c \in EnChains : enNodes'[c] = [p \in 1 .. ChainLen(c) |-> enNodes'[c][p]]
    BY <2>0, <2>1, Zenon DEF Table
  <2>. QED  BY <2>0, <2>1, <2>2, <2>3, Zenon DEF NodesInv, Table
<1>11. pushed \in SUBSET Queued
  <2>. HIDE DEF pushed
  <2>. QED  BY <1>7, Zenon DEF Next1
<1>12. Moves(e, pushed)
  <2>. HIDE DEF pushed, kind
  <2>. QED  BY <1>1, <1>3, <1>7, <1>8, <1>9, Zenon DEF Moves, clock, Next1
<1>22. Turns(e)
  <2>. HIDE DEF pushed
  <2>. QED  BY <1>1, <1>3, <1>20, <1>21, Zenon DEF Turns, clock
<1>. QED  BY <1>4, <1>10, <1>11, <1>12, <1>22, Zenon

LEMMA MovesItems ==
  ASSUME ItemsInv, NEW e \in Queued, NEW pushed \in SUBSET Queued, Moves(e, pushed)
  PROVE  ItemsInv'
<1>1. enQueue' \subseteq Queued
  BY DEF Moves, ItemsInv
<1>2. IsFiniteSet(enQueue')
  <2>1. IsFiniteSet(enQueue \ {e}) /\ IsFiniteSet(pushed)
    BY FS_Subset, FS_EmptySet, FS_Singleton, Zenon DEF Moves, ItemsInv
  <2>. QED  BY <2>1, FS_Union, Zenon DEF Moves
<1>3. enSeq' \in Nat /\ enSeq \in Nat
  BY DEF Moves, ItemsInv
<1>4. ASSUME NEW i \in enQueue' PROVE i.pos \in 1 .. ChainLen(i.chain) /\ i.seq < enSeq' /\ i.id <= enSeq'
  <2>1. enSeq' >= enSeq /\ i \in Queued
    BY <1>1, <1>4 DEF Moves
  <2>2. CASE i \in enQueue
    <3>1. i.pos \in 1 .. ChainLen(i.chain) /\ i.seq < enSeq /\ i.id <= enSeq /\ i.seq \in Nat /\ i.id \in Nat
      BY <2>1, <2>2 DEF ItemsInv, Queued
    <3>. QED  BY <1>3, <2>1, <3>1
  <2>3. CASE i \notin enQueue
    <3>1. /\ i.chain = e.chain /\ i.pos = e.pos + 1 /\ i.seq = enSeq /\ e.pos < ChainLen(e.chain)
          /\ i.id = e.id \/ i.id = 0
          /\ enSeq' >= enSeq + 1
      BY <1>4, <2>3 DEF Moves
    <3>2. e.pos \in 1 .. ChainLen(e.chain) /\ e.id <= enSeq /\ e.id \in Nat /\ e.chain \in EnChains
      BY DEF Moves, ItemsInv, Queued
    <3>3. ChainLen(e.chain) \in Nat
      BY <3>2, ChainSizes
    <3>. QED  BY <1>3, <3>1, <3>2, <3>3
  <2>. QED  BY <2>2, <2>3
<1>5. ASSUME NEW i \in enQueue', NEW j \in enQueue', i.seq = j.seq PROVE i = j
  <2>1. \A k \in enQueue' : k \in enQueue \/ (k.seq = enSeq /\ pushed = {k})
    BY DEF Moves
  <2>2. \A k \in enQueue : k.seq < enSeq /\ k.seq \in Nat
    BY DEF ItemsInv, Queued
  <2>3. CASE i \in enQueue /\ j \in enQueue
    BY <1>5, <2>3 DEF ItemsInv
  <2>4. CASE i \notin enQueue \/ j \notin enQueue
    BY <1>3, <1>5, <2>1, <2>2, <2>4
  <2>. QED  BY <2>3, <2>4
<1>. QED  BY <1>1, <1>2, <1>3, <1>4, <1>5 DEF ItemsInv

LEMMA MovesOrder ==
  ASSUME ItemsInv, OrderInv, NEW e \in Queued, NEW pushed \in SUBSET Queued, Moves(e, pushed)
  PROVE  OrderInv'
<1>. DEFINE Apart(i, j) == (i.id < j.id /\ Further(i, j)) \/ (j.id < i.id /\ Further(j, i))
<1>1. \A i, j \in enQueue : i.chain = j.chain /\ i.tick = j.tick /\ i # j => Apart(i, j)
  BY DEF OrderInv
<1>2. ASSUME NEW h \in enQueue', h \notin enQueue, NEW j \in enQueue, j # e,
             j.chain = h.chain, j.tick = h.tick
      PROVE  Apart(h, j) /\ Apart(j, h)
  <2>1. /\ h.chain = e.chain /\ h.pos = e.pos + 1 /\ h.seq = enSeq
        /\ (h.id = e.id /\ h.tick = e.tick) \/ h.tick < e.tick
    BY <1>2 DEF Moves
  <2>2. /\ h.tick \in Nat /\ j.tick \in Nat /\ e.tick \in Nat /\ j.seq \in Nat /\ e.seq \in Nat
        /\ h.id \in Nat /\ j.id \in Nat /\ e.id \in Nat /\ j.pos \in Nat /\ e.pos \in Nat /\ enSeq \in Nat
        /\ j.seq < enSeq
    BY <1>2, EnAssumption DEF Moves, ItemsInv, Queued
  <2>3. e.tick < j.tick \/ (e.tick = j.tick /\ e.seq < j.seq)
    BY <1>2, <2>1, Zenon DEF Moves, Before
  <2>4. h.id = e.id /\ h.tick = e.tick /\ e.seq < j.seq
    BY <1>2, <2>1, <2>2, <2>3
  <2>5. (e.id < j.id /\ Further(e, j)) \/ (j.id < e.id /\ Further(j, e))
    BY <1>1, <1>2, <2>1, <2>4 DEF Moves
  <2>6. CASE e.id < j.id
    <3>1. e.pos >= j.pos
      BY <2>2, <2>5, <2>6 DEF Further
    <3>. QED  BY <2>1, <2>2, <2>4, <2>6, <3>1 DEF Further
  <2>7. CASE j.id < e.id
    <3>1. j.pos > e.pos
      BY <2>2, <2>4, <2>5, <2>7 DEF Further
    <3>. QED  BY <2>1, <2>2, <2>4, <2>7, <3>1 DEF Further
  <2>. QED  BY <2>5, <2>6, <2>7
<1>3. ASSUME NEW i \in enQueue', NEW j \in enQueue', i.chain = j.chain, i.tick = j.tick, i # j
      PROVE  Apart(i, j)
  <2>1. \A k \in enQueue' : k \in pushed \/ (k \in enQueue /\ k # e)
    BY DEF Moves
  <2>2. \A h, k \in pushed : h = k
    BY DEF Moves
  <2>3. CASE i \in enQueue /\ j \in enQueue
    BY <1>1, <1>3, <2>3
  <2>4. \A k \in pushed : k \notin enQueue
    <3>1. \A k \in enQueue : k.seq < enSeq /\ k.seq \in Nat
      BY DEF ItemsInv, Queued
    <3>2. enSeq \in Nat /\ \A k \in pushed : k.seq = enSeq
      BY DEF Moves, ItemsInv
    <3>. QED  BY <3>1, <3>2
  <2>5. CASE i \notin enQueue
    BY <1>2, <1>3, <2>1, <2>2, <2>5
  <2>6. CASE j \notin enQueue
    BY <1>2, <1>3, <2>1, <2>2, <2>6
  <2>. QED  BY <2>3, <2>5, <2>6
<1>. QED  BY <1>3, Zenon DEF OrderInv

LEMMA MovesSink ==
  ASSUME ItemsInv, OrderInv, NEW e \in Queued, NEW pushed \in SUBSET Queued, Moves(e, pushed)
  PROVE  SinkFirst'
<1>. SUFFICES ASSUME enOut'.sink = <<e>>, e.pos = ChainLen(e.chain),
                     NEW i \in enQueue', i.chain[1] = e.chain[1]
              PROVE  /\ i.tick >= e.tick
                     /\ i.tick = e.tick /\ i.chain = e.chain => i.id > e.id
  <2>1. enOut'.sink = <<>> => SinkFirst'
    BY DEF SinkFirst
  <2>2. enOut'.sink = <<e>> => DOMAIN enOut'.sink = {1} /\ enOut'.sink[1] = e
    OBVIOUS
  <2>. QED  BY <2>1, <2>2, Zenon DEF SinkFirst, Moves
<1>1. e.pos \in Nat /\ e.tick \in Nat /\ e.seq \in Nat /\ e.id \in Nat
  BY EnAssumption DEF Queued
<1>2. pushed = {} /\ i \in enQueue \ {e}
  <2>1. ~(e.pos < ChainLen(e.chain))
    BY <1>1
  <2>. QED  BY <2>1 DEF Moves
<1>3. i.pos \in Nat /\ i.tick \in Nat /\ i.seq \in Nat /\ i.id \in Nat /\ i.pos \in 1 .. ChainLen(i.chain)
  BY <1>2, EnAssumption, SMTT(60) DEF ItemsInv, Queued
<1>4. e.tick < i.tick \/ (e.tick = i.tick /\ e.seq < i.seq)
  BY <1>2, Zenon DEF Moves, Before
<1>5. ASSUME i.tick = e.tick, i.chain = e.chain PROVE i.id > e.id
  <2>1. (e.id < i.id /\ Further(e, i)) \/ (i.id < e.id /\ Further(i, e))
    BY <1>2, <1>5 DEF OrderInv, Moves
  <2>2. e.seq < i.seq /\ ~(i.pos > e.pos)
    BY <1>1, <1>3, <1>4, <1>5
  <2>3. ~Further(i, e)
    BY <1>1, <1>3, <2>2 DEF Further
  <2>. QED  BY <1>1, <1>3, <2>1, <2>3
<1>. QED  BY <1>1, <1>3, <1>4, <1>5

LEMMA MovesTurn ==
  ASSUME EngineInv, NEW e \in Queued, NEW pushed \in SUBSET Queued, Moves(e, pushed), Turns(e)
  PROVE  TurnInv'
<1>. DEFINE rest == enQueue \ {e}
            n == Cardinality(Active(enQueue))
            m == Cardinality(Active(rest))
            c == Cardinality(EnClocks)
            r == Turn(enRr, n)
<1>1. enGas' \in 0 .. EnGas
  <2>1. EnGas \in Nat /\ enGas \in 0 .. EnGas /\ enGas > 0
    BY EnAssumption DEF EngineInv, TurnInv, Turns
  <2>. QED  BY <2>1 DEF Turns
<1>2. enQueue \subseteq Queued /\ enQueue # {} /\ rest \subseteq Queued
  BY DEF EngineInv, ItemsInv, Moves
<1>3. c \in Nat \ {0} /\ n \in Nat \ {0} /\ n <= c /\ m \in Nat /\ m <= c /\ (rest # {} => m # 0)
  <2>. HIDE DEF rest
  <2>. QED  BY <1>2, ClocksType, ActiveType
<1>4. enRr \in Nat
  BY <1>3 DEF EngineInv, TurnInv
<1>5. enRr' = IF e.chain[1] \in Active(rest) THEN r ELSE IF rest = {} THEN 0 ELSE r % m
  BY DEF Turns
<1>. HIDE DEF rest, n, m, c
<1>6. r \in 0 .. n - 1
  BY <1>3, <1>4, DivMod DEF Turn
<1>. HIDE DEF r
<1>7. rest # {} => r % m \in 0 .. m - 1
  BY <1>3, <1>6, DivMod
<1>8. enRr' \in 0 .. c - 1
  BY <1>3, <1>5, <1>6, <1>7
<1>. QED  BY <1>1, <1>8 DEF TurnInv, c

LEMMA EngineStart ==
  ASSUME EnInit
  PROVE  EngineInv
<1>1. ItemsInv /\ OrderInv /\ SinkFirst
  <2>1. IsFiniteSet({}) /\ DOMAIN <<>> = {}
    BY FS_EmptySet
  <2>. QED  BY <2>1 DEF EnInit, ItemsInv, OrderInv, SinkFirst
<1>2. TurnInv
  <2>1. Cardinality(EnClocks) \in Nat \ {0} /\ EnGas \in Nat
    BY ClocksType, EnAssumption
  <2>. QED  BY <2>1 DEF EnInit, TurnInv
<1>3. NodesInv
  <2>1. \A c \in EnChains : \A p \in 1 .. ChainLen(c) : enNodes[c][p] = NodeBoot(NodeAt(c, p))
    BY DEF EnInit
  <2>2. \A c \in EnChains : \A p \in 1 .. ChainLen(c) : Held(c, p)
    BY <2>1 DEF Held, Holds, NodeBoot
  <2>. QED  BY <2>2, Zenon DEF EnInit, NodesInv
<1>. QED  BY <1>1, <1>2, <1>3 DEF EngineInv

LEMMA InjectEngine ==
  ASSUME EngineInv, NEW c \in EnChains, NEW tick \in 0 .. EnMaxTick, EnInject(c, tick)
  PROVE  EngineInv'
<1>. DEFINE h == [chain |-> c, pos |-> 1, tick |-> tick, seq |-> enSeq, id |-> enSeq + 1]
<1>1. /\ enQueue' = enQueue \cup {h} /\ enSeq' = enSeq + 1 /\ enSeq \in Nat
      /\ enOut'.sink = <<>> /\ UNCHANGED <<enRr, enNodes, enGas>>
  <2>1. enSeq \in Nat
    BY DEF EngineInv, ItemsInv
  <2>2. enOut'.sink = <<>>
    BY DEF EnInject
  <2>. QED  BY <2>1, <2>2, Zenon DEF EnInject
<1>2. /\ h \in Queued /\ h.chain = c /\ h.pos = 1 /\ h.tick = tick /\ h.seq = enSeq
      /\ h.id = enSeq + 1
  BY <1>1 DEF Queued
<1>. HIDE DEF h
<1>3. h.pos \in 1 .. ChainLen(h.chain)
  BY <1>2, ChainSizes
<1>4. \A i \in enQueue : /\ i \in Queued /\ i.pos \in 1 .. ChainLen(i.chain) /\ i.seq < enSeq /\ i.id <= enSeq
                         /\ i.seq \in Nat /\ i.id \in Nat
  BY DEF EngineInv, ItemsInv, Queued
<1>5. ItemsInv'
  <2>1. enQueue' \subseteq Queued /\ IsFiniteSet(enQueue') /\ enSeq' \in Nat
    BY <1>1, <1>2, <1>4, FS_AddElement DEF EngineInv, ItemsInv
  <2>2. \A i \in enQueue' : i.pos \in 1 .. ChainLen(i.chain) /\ i.seq < enSeq' /\ i.id <= enSeq'
    BY <1>1, <1>2, <1>3, <1>4
  <2>3. \A i, j \in enQueue' : i.seq = j.seq => i = j
    <3>1. \A i, j \in enQueue : i.seq = j.seq => i = j
      BY DEF EngineInv, ItemsInv
    <3>. QED  BY <1>1, <1>2, <1>4, <3>1
  <2>. QED  BY <2>1, <2>2, <2>3 DEF ItemsInv
<1>6. OrderInv'
  <2>1. \A i \in enQueue : i.id < h.id /\ (i.pos > h.pos \/ (i.pos = h.pos /\ i.seq < h.seq))
    <3>1. ASSUME NEW i \in enQueue PROVE i.pos >= 1
      <4>1. i.chain \in EnChains
        BY <1>4 DEF Queued
      <4>. QED  BY <1>4, <4>1, ChainSizes
    <3>. QED  BY <1>1, <1>2, <1>4, <3>1
  <2>2. \A i \in enQueue : i.id < h.id /\ Further(i, h)
    BY <2>1, Zenon DEF Further
  <2>. QED  BY <1>1, <2>2, Zenon DEF EngineInv, OrderInv
<1>7. SinkFirst'
  <2>1. DOMAIN <<>> = {}
    OBVIOUS
  <2>. QED  BY <1>1, <2>1 DEF SinkFirst
<1>8. NodesInv' /\ TurnInv'
  BY <1>1, Zenon DEF EngineInv, NodesInv, Held, TurnInv
<1>. QED  BY <1>5, <1>6, <1>7, <1>8 DEF EngineInv

LEMMA EngineInductive ==
  ASSUME EngineInv, [EnNext]_enVars
  PROVE  EngineInv'
<1>1. CASE EnStep
  <2>1. PICK e \in Queued, pushed \in SUBSET Queued : Moves(e, pushed) /\ Turns(e)
    BY <1>1, StepMoves
  <2>2. NodesInv'
    BY <1>1, StepMoves
  <2>. QED  BY <2>1, <2>2, MovesItems, MovesOrder, MovesSink, MovesTurn DEF EngineInv
<1>2. ASSUME NEW c \in EnChains, NEW tick \in 0 .. EnMaxTick, EnInject(c, tick) PROVE EngineInv'
  BY <1>2, InjectEngine
<1>3. CASE EnRun
  <2>1. TurnInv'
    BY <1>3, EnAssumption DEF EngineInv, TurnInv, EnRun
  <2>. QED  BY <1>3, <2>1, Zenon
         DEF EnRun, EngineInv, NodesInv, Held, ItemsInv, OrderInv, SinkFirst
<1>4. CASE UNCHANGED enVars
  BY <1>4, Zenon DEF enVars, EngineInv, NodesInv, Held, ItemsInv, OrderInv, SinkFirst, TurnInv
<1>. QED  BY <1>1, <1>2, <1>3, <1>4, Zenon DEF EnNext

-----------------------------------------------------------------------------
\* The firmware feeds two clocks, the monotonic and the Lamport one.
TwoClocks == Cardinality(EnClocks) <= 2

LEMMA LongestType ==
  /\ LongestChain \in Nat \ {0} /\ LongestChain < EnGas
  /\ \A c \in EnChains : ChainLen(c) <= LongestChain
<1>. DEFINE S == {ChainLen(c) : c \in EnChains}
<1>1. \A c \in EnChains : ChainLen(c) \in Nat \ {0} /\ ChainLen(c) < EnGas
  BY ChainSizes, Zenon
<1>2. EnGas \in Nat /\ S \subseteq 0 .. EnGas /\ S # {}
  BY <1>1, EnAssumption
<1>3. \E x \in S : \A y \in S : x >= y
  <2>. HIDE DEF S
  <2>. QED  BY <1>2, GreatestMember
<1>4. LongestChain \in S /\ \A y \in S : LongestChain >= y
  BY <1>3, Zenon DEF LongestChain, Max
<1>5. \A y \in S : y \in Nat \ {0} /\ y < EnGas
  BY <1>1, Zenon
<1>6. \A c \in EnChains : ChainLen(c) \in S
  OBVIOUS
<1>. HIDE DEF S
<1>7. \A c \in EnChains : LongestChain >= ChainLen(c)
  BY <1>4, <1>6
<1>. QED  BY <1>1, <1>4, <1>5, <1>7

\* When two clocks have work there is no other.
LEMMA TwoActive ==
  ASSUME TwoClocks, NEW A, A \subseteq EnClocks, NEW a \in A, NEW b \in A, a # b
  PROVE  A = {a, b} /\ Cardinality(A) = 2
<1>1. IsFiniteSet({a}) /\ Cardinality({a}) = 1
  BY FS_Singleton
<1>2. IsFiniteSet({a, b}) /\ Cardinality({a, b}) = 2
  <2>1. {a, b} = {a} \cup {b} /\ b \notin {a}
    OBVIOUS
  <2>. QED  BY <1>1, <2>1, FS_AddElement
<1>3. {a, b} \in SUBSET EnClocks
  OBVIOUS
<1>4. Cardinality({a, b}) <= Cardinality(EnClocks) /\ (Cardinality({a, b}) = Cardinality(EnClocks) => {a, b} = EnClocks)
  BY <1>3, ClocksType, FS_Subset
<1>5. {a, b} = EnClocks
  BY <1>2, <1>4, ClocksType DEF TwoClocks
<1>. QED  BY <1>2, <1>5

\* One item of clock o is left, beyond position n.
Alone(o, n) ==
  \E i \in enQueue : /\ i.chain[1] = o /\ i.pos > n
                     /\ \A j \in enQueue : j.chain[1] = o => j = i

Used == EnGas - enGas
Waited == enOut.waits

\* A clock that is not due waits for the one event of the other one, or has waited out the
\* last run and waits for the one event injected after it.
WaitBound(k) ==
  LET due == ClockDue(enQueue, enRr) IN
  \/ Waited[k] <= LongestChain /\ k = due
  \/ Waited[k] <= LongestChain + Used /\ Used <= LongestChain /\ k = due
  \/ Waited[k] = 0
  \/ Alone(due, Waited[k])
  \/ Waited[k] <= LongestChain + Used /\ (Used = 0 \/ Alone(due, Used))

WaitInv ==
  /\ Waited = [k \in EnClocks |-> Waited[k]] /\ \A k \in EnClocks : Waited[k] \in Nat
  /\ \A k \in EnClocks : k \notin Active(enQueue) => Waited[k] = 0
  /\ enGas = 0 => \A k \in EnClocks : Waited[k] <= LongestChain
  /\ enGas > 0 => \A k \in Active(enQueue) : WaitBound(k)

LEMMA AloneShort ==
  ASSUME ItemsInv, NEW o, NEW n \in Nat, Alone(o, n)
  PROVE  n < LongestChain
<1>1. PICK i \in enQueue : i.pos > n
  BY DEF Alone
<1>2. i.pos \in 1 .. ChainLen(i.chain) /\ i.chain \in EnChains
  BY DEF ItemsInv, Queued
<1>3. ChainLen(i.chain) <= LongestChain /\ ChainLen(i.chain) \in Nat /\ LongestChain \in Nat
  BY <1>2, LongestType, ChainSizes
<1>. QED  BY <1>1, <1>2, <1>3

LEMMA WaitsBounded ==
  ASSUME EngineInv, WaitInv
  PROVE  \A k \in EnClocks : enOut.waits[k] <= 2 * LongestChain
<1>. SUFFICES ASSUME NEW k \in EnClocks PROVE Waited[k] <= 2 * LongestChain
  BY DEF Waited
<1>1. LongestChain \in Nat /\ Waited[k] \in Nat /\ EnGas \in Nat /\ enGas \in 0 .. EnGas
  BY LongestType, EnAssumption DEF WaitInv, EngineInv, TurnInv
<1>2. CASE enGas = 0 \/ k \notin Active(enQueue)
  <2>1. Waited[k] <= LongestChain
    BY <1>1, <1>2 DEF WaitInv
  <2>. QED  BY <1>1, <2>1
<1>3. CASE enGas > 0 /\ k \in Active(enQueue)
  <2>1. WaitBound(k)
    BY <1>3 DEF WaitInv
  <2>2. Used \in Nat
    BY <1>1 DEF Used
  <2>3. ASSUME NEW o, Alone(o, Waited[k]) PROVE Waited[k] < LongestChain
    BY <1>1, <2>3, AloneShort DEF EngineInv
  <2>4. ASSUME NEW o, Alone(o, Used) PROVE Used < LongestChain
    BY <2>2, <2>4, AloneShort DEF EngineInv
  <2>5. \/ Waited[k] <= LongestChain
        \/ Waited[k] <= LongestChain + Used /\ Used <= LongestChain
    BY <1>1, <2>1, <2>2, <2>3, <2>4 DEF WaitBound
  <2>. QED  BY <1>1, <2>2, <2>5
<1>. QED  BY <1>1, <1>2, <1>3

\* After a step a clock with work that did not move is due, or the one event of the other
\* clock has moved on.
LEMMA TurnPasses ==
  ASSUME TwoClocks, EngineInv, EngineInv', NEW e \in Queued, NEW pushed \in SUBSET Queued,
         Moves(e, pushed), Turns(e),
         NEW k \in Active(enQueue), k # e.chain[1]
  PROVE  /\ k \in Active(enQueue')
         /\ \/ ClockDue(enQueue', enRr') = k
            \/ /\ \A j \in enQueue : j.chain[1] = e.chain[1] => j = e
               /\ \A n \in Nat : e.pos > n =>
                    Alone(e.chain[1], n + 1)' /\ ClockDue(enQueue', enRr') = e.chain[1]
<1>. DEFINE c == e.chain[1]
            rest == enQueue \ {e}
            due == ClockDue(enQueue', enRr')
<1>1. /\ enQueue \subseteq Queued /\ enQueue' \subseteq Queued /\ enQueue' = rest \cup pushed
      /\ e \in enQueue /\ c = ClockDue(enQueue, enRr)
  BY DEF EngineInv, ItemsInv, Moves
<1>2. enRr \in Nat /\ enRr' \in Nat
  BY ClocksType DEF EngineInv, TurnInv
<1>3. c \in Active(enQueue) /\ Active(enQueue) \subseteq EnClocks /\ Active(enQueue') \subseteq EnClocks
  <2>1. c \in Active(enQueue)
    BY <1>1, Zenon DEF Active
  <2>. HIDE DEF c
  <2>. QED  BY <1>1, <2>1, ActiveType
<1>4. Active(enQueue) = {c, k} /\ Cardinality(Active(enQueue)) = 2
  <2>. HIDE DEF c
  <2>1. k # c
    BY DEF c
  <2>. QED  BY <1>3, <2>1, TwoActive
<1>5. k \in Active(rest)
  BY DEF Active
<1>6. k \in Active(enQueue') /\ enQueue' # {}
  BY <1>1, <1>5 DEF Active
<1>7. due \in Active(enQueue')
  <2>. HIDE DEF due
  <2>. QED  BY <1>1, <1>2, <1>6, ClockWorks DEF due
<1>8. due \in {c, k}
  <2>1. \A j \in pushed : j.chain = e.chain
    BY DEF Moves
  <2>2. Active(enQueue') \subseteq Active(enQueue)
    BY <1>1, <2>1, Zenon DEF Active
  <2>. HIDE DEF due, c
  <2>. QED  BY <1>4, <1>7, <2>2
<1>9. CASE c \in Active(rest)
  <2>1. Active(enQueue') = {c, k} /\ Cardinality(Active(enQueue')) = 2
    <3>1. c \in Active(enQueue')
      BY <1>1, <1>9, Zenon DEF Active
    <3>2. k # c
      OBVIOUS
    <3>. HIDE DEF c
    <3>. QED  BY <1>3, <1>6, <3>1, <3>2, TwoActive
  <2>2. enRr' = (enRr + 1) % 2
    BY <1>4, <1>9, Zenon DEF Turns, Turn
  <2>3. enRr % 2 # enRr' % 2
    BY <1>2, <2>2
  <2>. DEFINE rank(x) == Cardinality({j \in {c, k} : j < x})
  <2>4. rank(c) = enRr % 2
    BY <1>1, <1>2, <1>4, ClockWorks, Zenon
  <2>5. rank(due) = enRr' % 2
    BY <1>1, <1>2, <1>6, <2>1, ClockWorks, Zenon
  <2>. HIDE DEF rank, due, c
  <2>6. due # c
    BY <2>3, <2>4, <2>5
  <2>7. due = k
    BY <1>8, <2>6
  <2>. QED  BY <1>6, <2>7 DEF due
<1>10. CASE c \notin Active(rest)
  <2>1. \A j \in enQueue : j.chain[1] = c => j = e
    BY <1>10, Zenon DEF Active
  <2>2. CASE due = k
    BY <1>6, <2>2, Zenon
  <2>3. CASE due = c
    <3>1. PICK i \in enQueue' : i.chain[1] = c
      BY <1>7, <2>3, Zenon DEF Active
    <3>2. i \in pushed
      BY <1>1, <2>1, <3>1
    <3>3. pushed = {i} /\ i.pos = e.pos + 1
      BY <3>2 DEF Moves
    <3>4. \A j \in enQueue' : j.chain[1] = c => j = i
      BY <1>1, <2>1, <3>3
    <3>5. ASSUME NEW n \in Nat, e.pos > n PROVE Alone(c, n + 1)'
      <4>1. e.pos \in Nat
        BY DEF Queued
      <4>2. i.pos > n + 1
        BY <3>3, <3>5, <4>1
      <4>. QED  BY <3>1, <3>4, <4>2, Zenon DEF Alone
    <3>. QED  BY <1>6, <2>1, <2>3, <3>5, Zenon
  <2>. QED  BY <1>8, <2>2, <2>3, Zenon
<1>. QED  BY <1>9, <1>10, Zenon

LEMMA StepWaits ==
  ASSUME TwoClocks, EngineInv, EngineInv', WaitInv, NEW e \in Queued, NEW pushed \in SUBSET Queued,
         Moves(e, pushed), Turns(e)
  PROVE  WaitInv'
<1>. DEFINE c == e.chain[1]
            L == LongestChain
<1>1. /\ L \in Nat \ {0} /\ L < EnGas /\ EnGas \in Nat /\ enGas \in 1 .. EnGas
      /\ enGas' \in 0 .. EnGas /\ (enQueue' # {} => enGas' = enGas - 1)
  BY LongestType, EnAssumption DEF EngineInv, TurnInv, Turns
<1>12. Used = EnGas - enGas /\ Used' = EnGas - enGas'
  BY Zenon DEF Used
<1>13. \A n \in Nat : \A g \in 0 .. n :
         n - g \in Nat /\ (g > 0 => n - g < n /\ n - (g - 1) = n - g + 1)
  OBVIOUS
<1>14. EnGas \in Nat /\ enGas \in 0 .. EnGas /\ enGas > 0 /\ enGas' \in 0 .. EnGas
  BY <1>1
<1>2. Used \in Nat /\ Used < EnGas /\ Used' \in Nat
  BY <1>12, <1>13, <1>14, Zenon
<1>3. enQueue' # {} => Used' = Used + 1
  BY <1>1, <1>12, <1>13, <1>14, Zenon
<1>4. Waited' = [k \in EnClocks |-> IF k = c \/ k \notin Active(enQueue) THEN 0 ELSE Waited[k] + 1]
  BY Zenon DEF Turns, Waited
<1>5. \A k \in EnClocks : Waited[k] \in Nat
  BY DEF WaitInv
<1>6. /\ Waited' = [k \in EnClocks |-> Waited'[k]] /\ \A k \in EnClocks : Waited'[k] \in Nat
  BY <1>4, <1>5
<1>7. ASSUME NEW k \in Active(enQueue), k # c, k \in EnClocks
      PROVE  \* what WaitBound says of a clock that is not due
             /\ Waited'[k] = Waited[k] + 1
             /\ \/ Waited[k] = 0
                \/ Alone(c, Waited[k])
                \/ Waited[k] <= L + Used /\ (Used = 0 \/ Alone(c, Used))
  <2>1. WaitBound(k) /\ c = ClockDue(enQueue, enRr)
    BY <1>1 DEF WaitInv, Moves
  <2>2. Waited'[k] = Waited[k] + 1
    BY <1>4, <1>7
  <2>. HIDE DEF c
  <2>. QED  BY <1>7, <2>1, <2>2, Zenon DEF WaitBound
<1>8. ASSUME NEW k \in Active(enQueue), k # c, k \in EnClocks
      PROVE  /\ Waited'[k] <= L \/ (Waited'[k] <= L + Used + 1 /\ Used + 1 <= L)
             /\ Used + 1 = EnGas => Waited'[k] <= L
  <2>1. ASSUME NEW n \in Nat, Alone(c, n) PROVE n < L
    BY <2>1, AloneShort DEF EngineInv
  <2>2. Waited[k] \in Nat
    BY <1>5, <1>8
  <2>3. Alone(c, Waited[k]) => Waited[k] < L
    BY <2>1, <2>2
  <2>4. Alone(c, Used) => Used < L
    BY <1>2, <2>1
  <2>. HIDE DEF L
  <2>. QED  BY <1>1, <1>2, <1>7, <1>8, <2>2, <2>3, <2>4
<1>9. ASSUME NEW k \in EnClocks, k \notin Active(enQueue') PROVE Waited'[k] = 0
  <2>1. CASE k = c \/ k \notin Active(enQueue)
    BY <1>4, <2>1
  <2>2. CASE k # c /\ k \in Active(enQueue)
    BY <1>9, <2>2, TurnPasses
  <2>. QED  BY <2>1, <2>2
<1>10. ASSUME enGas' = 0, NEW k \in EnClocks PROVE Waited'[k] <= L
  <2>1. CASE k = c \/ k \notin Active(enQueue)
    BY <1>1, <1>4, <2>1
  <2>2. CASE k # c /\ k \in Active(enQueue)
    <3>1. k \in Active(enQueue') /\ enQueue' # {}
      BY <2>2, TurnPasses DEF Active
    <3>2. Used + 1 = EnGas
      BY <1>1, <1>10, <3>1 DEF Used
    <3>. QED  BY <1>8, <2>2, <3>2
  <2>. QED  BY <2>1, <2>2
<1>11. ASSUME enGas' > 0, NEW k \in Active(enQueue') PROVE WaitBound(k)'
  <2>1. enQueue' # {} /\ k \in EnClocks /\ Used' = Used + 1
    <3>1. enQueue' # {}
      BY DEF Active
    <3>2. enQueue' \subseteq Queued
      BY DEF EngineInv, ItemsInv
    <3>. QED  BY <1>3, <3>1, <3>2, ActiveType
  <2>2. CASE k = c \/ k \notin Active(enQueue)
    <3>1. Waited'[k] = 0
      BY <1>4, <2>1, <2>2
    <3>. QED  BY <3>1, Zenon DEF WaitBound
  <2>3. CASE k # c /\ k \in Active(enQueue)
    <3>1. CASE ClockDue(enQueue', enRr') = k
      <4>1. Waited'[k] <= L \/ (Waited'[k] <= L + Used' /\ Used' <= L)
        BY <1>1, <1>2, <1>8, <2>1, <2>3
      <4>. QED  BY <3>1, <4>1, Zenon DEF WaitBound
    <3>2. CASE ClockDue(enQueue', enRr') # k
      <4>1. /\ \A j \in enQueue : j.chain[1] = c => j = e
            /\ \A n \in Nat : e.pos > n => Alone(c, n + 1)' /\ ClockDue(enQueue', enRr') = c
        BY <2>3, <3>2, TurnPasses
      <4>2. ASSUME NEW n \in Nat, Alone(c, n) PROVE Alone(c, n + 1)' /\ ClockDue(enQueue', enRr') = c
        <5>1. e.pos > n
          BY <4>1, <4>2, Zenon DEF Alone
        <5>. QED  BY <4>1, <5>1
      <4>3. e.pos > 0
        BY DEF Moves, EngineInv, ItemsInv
      <4>4. Alone(c, 1)' /\ ClockDue(enQueue', enRr') = c
        <5>1. Alone(c, 0 + 1)' /\ ClockDue(enQueue', enRr') = c
          BY <4>1, <4>3
        <5>. QED  BY <5>1
      <4>5. Waited[k] \in Nat /\ Waited'[k] = Waited[k] + 1
        BY <1>5, <1>7, <2>1, <2>3
      <4>6. CASE Waited[k] = 0
        <5>1. Waited'[k] = 1
          BY <4>5, <4>6
        <5>. QED  BY <4>4, <5>1, Zenon DEF WaitBound
      <4>7. CASE Alone(c, Waited[k])
        BY <4>2, <4>5, <4>7, Zenon DEF WaitBound
      <4>8. CASE Waited[k] <= L + Used /\ (Used = 0 \/ Alone(c, Used))
        <5>1. Waited'[k] <= L + Used'
          BY <1>1, <1>2, <2>1, <4>5, <4>8
        <5>2. PICK n \in Nat : n = Used' /\ n = Used + 1
          BY <1>2, <2>1
        <5>3. Alone(c, n)'
          <6>1. CASE Used = 0
            <7>1. n = 1
              BY <5>2, <6>1
            <7>. QED  BY <4>4, <7>1
          <6>2. CASE Alone(c, Used)
            BY <1>2, <4>2, <5>2, <6>2
          <6>. QED  BY <4>8, <6>1, <6>2
        <5>. QED  BY <4>4, <5>1, <5>2, <5>3, Zenon DEF WaitBound
      <4>. QED  BY <1>7, <2>1, <2>3, <4>6, <4>7, <4>8
    <3>. QED  BY <3>1, <3>2
  <2>. QED  BY <2>2, <2>3
<1>. QED  BY <1>6, <1>9, <1>10, <1>11 DEF WaitInv

LEMMA InjectWaits ==
  ASSUME EngineInv, WaitInv, NEW c \in EnChains, NEW tick \in 0 .. EnMaxTick, EnInject(c, tick)
  PROVE  WaitInv'
<1>1. Waited' = Waited /\ enGas = 0 /\ enGas' = 0
  BY DEF EnInject, Waited
<1>2. Active(enQueue) \subseteq Active(enQueue')
  BY DEF EnInject, Active
<1>. QED  BY <1>1, <1>2 DEF WaitInv

LEMMA RunWaits ==
  ASSUME EngineInv, WaitInv, EnRun
  PROVE  WaitInv'
<1>1. /\ Waited' = Waited /\ enQueue' = enQueue /\ enRr' = enRr /\ enGas = 0
      /\ enGas' = EnGas /\ EnGas \in Nat \ {0}
  BY EnAssumption DEF EnRun, Waited
<1>2. Used' = 0 /\ LongestChain \in Nat
  <2>1. Used' = EnGas - enGas'
    BY Zenon DEF Used
  <2>. QED  BY <1>1, <2>1, LongestType
<1>3. ASSUME NEW k \in Active(enQueue) PROVE WaitBound(k)'
  <2>1. k \in EnClocks
    BY ActiveType DEF EngineInv, ItemsInv
  <2>2. Waited'[k] <= LongestChain /\ Waited'[k] \in Nat
    BY <1>1, <2>1 DEF WaitInv
  <2>3. Waited'[k] <= LongestChain + Used' /\ Used' = 0
    BY <1>2, <2>2
  <2>. QED  BY <2>3, Zenon DEF WaitBound
<1>. QED  BY <1>1, <1>3 DEF WaitInv

LEMMA WaitInductive ==
  ASSUME TwoClocks, EngineInv, EngineInv', WaitInv, [EnNext]_enVars
  PROVE  WaitInv'
<1>1. CASE EnStep
  <2>1. PICK e \in Queued, pushed \in SUBSET Queued : Moves(e, pushed) /\ Turns(e)
    BY <1>1, StepMoves
  <2>. QED  BY <2>1, StepWaits
<1>2. ASSUME NEW c \in EnChains, NEW tick \in 0 .. EnMaxTick, EnInject(c, tick) PROVE WaitInv'
  BY <1>2, InjectWaits
<1>3. CASE EnRun
  BY <1>3, RunWaits
<1>4. CASE UNCHANGED enVars
  BY <1>4, Zenon DEF enVars, WaitInv, WaitBound, Alone, Used, Waited
<1>. QED  BY <1>1, <1>2, <1>3, <1>4, Zenon DEF EnNext

LEMMA WaitStart ==
  ASSUME EnInit
  PROVE  WaitInv
<1>1. Waited = [k \in EnClocks |-> 0] /\ enGas = 0
  BY DEF EnInit, Waited
<1>. QED  BY <1>1, LongestType DEF WaitInv

\* An event reaches its sink before the ones of its clock with a later tick and before
\* the later ones of its source, and of two clocks with work neither waits longer than two
\* events of the other take (scheduler.rs:3-5, :140-161), whatever the program, its chains
\* and the gas of a run, and whatever ticks the events carry.
THEOREM EventsAlwaysFair == TwoClocks => (NodeSpec => []EventsFair)
<1>. SUFFICES ASSUME TwoClocks PROVE NodeSpec => []EventsFair
  OBVIOUS
<1>1. NodeInit => EngineInv /\ WaitInv
  BY EngineStart, WaitStart DEF NodeInit
<1>2. EngineInv /\ [NodeNext]_nodeVars => EngineInv'
  BY PartSteps, EngineInductive
<1>3. EngineInv /\ EngineInv' /\ WaitInv /\ [NodeNext]_nodeVars => WaitInv'
  BY PartSteps, WaitInductive
<1>4. EngineInv /\ WaitInv => EventsFair
  BY WaitsBounded DEF EventsFair, SinkFirst, EngineInv
<1>. QED  BY <1>1, <1>2, <1>3, <1>4, PTL DEF NodeSpec, nodeVars

-----------------------------------------------------------------------------
(***************************************************************************)
(* The types.  Most parts keep theirs in the invariants above; what those  *)
(* leave open is stated here, part by part.                                *)
(***************************************************************************)
\* The limiter: the records of the history and the frames the air remembers.
DutyRecords == [end : Clock, toa : Toas \cup {0}]
DutyAirs == [age : 0 .. Window, toa : Toas, zero : BOOLEAN]

DutyTyped ==
  /\ dc.hist \in [Slots -> DutyRecords]
  /\ pass \in [at : Clock, left : 0 .. DrainLimit]
  /\ air \subseteq DutyAirs

LEMMA DutyConstants ==
  /\ ClockMod \in Nat /\ Window \in Nat \ {0} /\ DrainLimit \in Nat
  /\ 0 \in Clock /\ 1 \in Clock /\ Free \in DutyRecords
<1>1. ClockMod \in Nat /\ Window \in Nat \ {0} /\ DrainLimit \in Nat /\ ClockMod > 2 * Window
  BY ClockAssumption, LimitAssumption
<1>2. 0 \in Clock /\ 1 \in Clock
  BY <1>1 DEF Clock
<1>. QED  BY <1>1, <1>2 DEF Free, DutyRecords

LEMMA ExpireRecords ==
  ASSUME NEW d \in Limiters, d.hist \in [Slots -> DutyRecords], NEW clock
  PROVE  Expire(d, clock).hist \in [Slots -> DutyRecords]
<1>. DEFINE S == Stale(d.hist, clock)
            h == [i \in Slots |-> IF i \in S THEN Free ELSE d.hist[i]]
<1>1. h \in [Slots -> DutyRecords]
  <2>. HIDE DEF S
  <2>. QED  BY DutyConstants
<1>2. Expire(d, clock).hist = h
  <2>1. Expire(d, clock) = [d EXCEPT !.hist = h, !.used = d.used - Airtime(d.hist, S)]
    BY DEF Expire, Limiters
  <2>. HIDE DEF h, S
  <2>. QED  BY <2>1 DEF Limiters
<1>. QED  BY <1>1, <1>2

LEMMA RecordRecords ==
  ASSUME NEW d, Exact(d), d.hist \in [Slots -> DutyRecords], NEW end \in Clock, NEW toa \in Toas
  PROVE  Record(d, end, toa).hist \in [Slots -> DutyRecords]
<1>. DEFINE e == Expire(d, end)
            i == Victim(e, end)
            r == [end |-> IF end = 0 THEN 1 ELSE end, toa |-> toa]
<1>1. Record(d, end, toa).hist = [e.hist EXCEPT ![i] = r]
  BY DEF Record
<1>2. e.hist \in [Slots -> DutyRecords]
  BY ExpireRecords DEF Exact
<1>3. r \in DutyRecords
  BY DutyConstants DEF DutyRecords
<1>. HIDE DEF e, i, r
<1>. QED  BY <1>1, <1>2, <1>3

LEMMA LaterAirs ==
  ASSUME air \subseteq DutyAirs, NEW t \in Nat
  PROVE  Later(t) \subseteq DutyAirs
<1>. SUFFICES ASSUME NEW s \in air, s.age + t <= Window PROVE [s EXCEPT !.age = @ + t] \in DutyAirs
  BY DEF Later
<1>1. s \in DutyAirs
  OBVIOUS
<1>2. s.age + t \in 0 .. Window
  BY <1>1, DutyConstants DEF DutyAirs
<1>. QED  BY <1>1, <1>2 DEF DutyAirs

LEMMA DutyTypesStart == Init => DutyTyped
<1>. SUFFICES ASSUME Init PROVE DutyTyped
  OBVIOUS
<1>1. dc.hist = [i \in Slots |-> Free] /\ pass = [at |-> now, left |-> 0] /\ now \in Clock /\ air = {}
  BY DEF Init
<1>2. 0 \in 0 .. DrainLimit
  BY DutyConstants
<1>. QED  BY <1>1, <1>2, DutyConstants DEF DutyTyped

LEMMA DutyTypesNext ==
  ASSUME DutyInv, DutyTyped, [Next]_vars
  PROVE  DutyTyped'
<1>1. dc \in Limiters /\ now \in Clock /\ dc.hist \in [Slots -> DutyRecords]
      /\ pass.at \in Clock /\ pass.left \in 0 .. DrainLimit
  BY DEF DutyInv, Exact, DutyTyped
<1>2. \A toa \in Toas : toa \in Nat /\ (now + toa) % ClockMod \in Clock
  BY <1>1, DutyConstants, ToasAssumption DEF Clock
<1>3. Taken => pass' \in [at : Clock, left : 0 .. DrainLimit]
  <2>1. pass.left > 0 => pass.left - 1 \in 0 .. DrainLimit
    BY <1>1, DutyConstants
  <2>. QED  BY <2>1 DEF Taken, DutyTyped
<1>4. CASE BeginPass
  <2>1. DrainLimit \in 0 .. DrainLimit
    BY DutyConstants
  <2>. QED  BY <1>1, <1>4, <2>1 DEF BeginPass, DutyTyped
<1>5. ASSUME NEW toa \in Toas, Block(toa) PROVE DutyTyped'
  BY <1>1, <1>3, <1>5, ExpireRecords DEF Block, DutyTyped
<1>6. ASSUME NEW toa \in Toas, Send(toa) PROVE DutyTyped'
  <2>. DEFINE end == (now + toa) % ClockMod
  <2>1. Taken /\ dc' = Record(Expire(dc, pass.at), end, toa)
        /\ air' = Later(toa) \cup {[age |-> 0, toa |-> toa, zero |-> end = 0]}
    BY <1>6 DEF Send
  <2>2. end \in Clock /\ toa \in Nat /\ (end = 0) \in BOOLEAN
    BY <1>2
  <2>. HIDE DEF end
  <2>3. Exact(Expire(dc, pass.at)) /\ Expire(dc, pass.at).hist \in [Slots -> DutyRecords]
    BY <1>1, ExpireExact, ExpireRecords DEF DutyInv
  <2>4. dc'.hist \in [Slots -> DutyRecords]
    BY <2>1, <2>2, <2>3, RecordRecords
  <2>5. Later(toa) \subseteq DutyAirs
    BY <2>2, LaterAirs DEF DutyTyped
  <2>6. 0 \in 0 .. Window
    BY DutyConstants
  <2>7. [age |-> 0, toa |-> toa, zero |-> end = 0] \in DutyAirs
    BY <2>2, <2>6 DEF DutyAirs
  <2>. QED  BY <1>3, <2>1, <2>4, <2>5, <2>7 DEF DutyTyped
<1>7. ASSUME NEW toa \in Toas, SendFails(toa) PROVE DutyTyped'
  <2>1. Later(toa) \subseteq DutyAirs
    BY <1>2, LaterAirs DEF DutyTyped
  <2>. QED  BY <1>1, <1>3, <1>7, <2>1, ExpireRecords DEF SendFails, DutyTyped
<1>8. CASE Advance
  <2>1. Later(1) \subseteq DutyAirs
    BY LaterAirs DEF DutyTyped
  <2>. QED  BY <1>8, <2>1 DEF Advance, DutyTyped
<1>9. CASE Skip
  BY <1>3, <1>9 DEF Skip, DutyTyped
<1>10. CASE UNCHANGED vars
  BY <1>10 DEF vars, DutyTyped
<1>. QED  BY <1>4, <1>5, <1>6, <1>7, <1>8, <1>9, <1>10 DEF Next

LEMMA DutyTypes == DutyInv /\ DutyTyped => TypeOK
<1>. SUFFICES ASSUME DutyInv, DutyTyped PROVE TypeOK
  OBVIOUS
<1>1. dc \in Limiters /\ dc.hist \in [Slots -> DutyRecords]
  BY DEF DutyInv, Exact, DutyTyped
<1>2. dc \in [hist : [Slots -> DutyRecords], head : Slots, used : Nat]
  BY <1>1 DEF Limiters
<1>. QED  BY <1>2 DEF DutyInv, DutyTyped, TypeOK, DutyRecords, DutyAirs

-----------------------------------------------------------------------------
\* The TX queue: the time of a pass, which may be over.
TdPassAt == tdPass.at \in 0 .. TdClockMod - 1

LEMMA TdTypesStart == TdInit => TdPassAt
  BY DEF TdInit, TdPassAt

LEMMA TdTypesNext ==
  ASSUME TdInv, TdPassAt, [TdNext]_tdVars
  PROVE  TdPassAt'
<1>1. tdPass = [at |-> tdPass.at, take |-> tdPass.take] /\ tdNow \in 0 .. TdClockMod - 1
  BY DEF TdInv, TdShape
<1>2. tdPass'.at \in {tdPass.at, tdNow}
  <2>1. TdHold \/ TdLeave \/ TdEmpty => tdPass'.at = tdPass.at
    BY <1>1, Zenon DEF TdHold, TdLeave, TdEmpty, Taken1
  <2>2. TdBegin => tdPass'.at = tdNow
    BY DEF TdBegin
  <2>3. TdTick \/ TdQueueNow \/ (\E d \in TdDelays : TdQueue(d)) \/ UNCHANGED tdVars => tdPass' = tdPass
    BY Zenon DEF TdTick, TdQueueNow, TdQueue, tdVars
  <2>. QED  BY <2>1, <2>2, <2>3 DEF TdNext
<1>. QED  BY <1>1, <1>2 DEF TdPassAt

LEMMA AtTypes == AtInv => AtTypeOK
  BY DEF AtInv, AtType, AtTypeOK

LEMMA EnTypes == EngineInv => EnTypeOK
  BY DEF EngineInv, TurnInv, ItemsInv, Queued, EnTypeOK

LEMMA ChTypes == ChInv => ChTypeOK
  BY DEF ChInv, ChTables, ChTypeOK

LEMMA TdTypes == TdInv /\ TdPassAt => TdTypeOK
<1>. SUFFICES ASSUME TdInv, TdPassAt PROVE TdTypeOK
  OBVIOUS
<1>1. txq \in Seq(TdFrames)
  BY DEF TdInv, TdShape
<1>2. \A f \in ToSet(txq) : \E i \in 1 .. Len(txq) : f = txq[i]
  BY <1>1 DEF ToSet
<1>3. ToSet(txq) \subseteq TdFrames
  BY <1>1, <1>2
<1>4. {f.due : f \in ToSet(txq)} \subseteq 0 .. TdClockMod - 1
  BY <1>3 DEF TdFrames
<1>. QED  BY <1>4 DEF TdInv, TdShape, TdPassAt, TdTypeOK

LEMMA RdTypes == RdInv => RdTypeOK
<1>. SUFFICES ASSUME RdInv PROVE RdTypeOK
  OBVIOUS
<1>1. driver \in Drivers /\ rd \in RdState /\ rdNow \in RdClock
      /\ call \in [op : {"idle", "claim", "read", "act", "tx"}, irq : SUBSET Flags, t0 : RdClock]
  BY DEF RdInv, RdType
<1>2. rd.mode \in {"standby", "rx", "tx"} /\ rd.irq \in SUBSET Flags /\ rd.dio \in SUBSET LineFlags
      /\ rd.lastRx \in RdClock /\ rd.resetAt \in RdClock
      /\ rd.fail \in Streak /\ rd.spurious \in Streak /\ rd.stuck \in Streak
  BY <1>1 DEF RdState
<1>3. rd.edge \in BOOLEAN /\ rd.pending \in BOOLEAN /\ rd.inRx \in BOOLEAN /\ rd.reset \in BOOLEAN
  BY <1>1, Zenon DEF RdState
<1>4. call.op \in {"idle", "claim", "read", "act", "tx"} /\ call.irq \in SUBSET Flags
      /\ call.t0 \in RdClock
  BY <1>1
<1>5. LineFlags \subseteq Flags
  BY DEF LineFlags, Flags
<1>6. {rd.edge, rd.pending, rd.inRx, rd.reset} \subseteq BOOLEAN
  BY <1>3, Zenon
<1>7. {rd.lastRx, rd.resetAt, rdNow, call.t0} \subseteq 0 .. RdClockMod - 1
  BY <1>1, <1>2, <1>4 DEF RdClock
<1>8. {rd.fail, rd.spurious, rd.stuck} \subseteq 0 .. StreakMod - 1
  BY <1>2 DEF Streak
<1>. QED  BY <1>1, <1>2, <1>4, <1>5, <1>6, <1>7, <1>8 DEF RdTypeOK

LEMMA FaTypes == FaInv => FaTypeOK
<1>. SUFFICES ASSUME FaInv PROVE FaTypeOK
  OBVIOUS
<1>1. fab \in Fabs /\ faNow \in FaClock /\ faPass \in [at : FaClock, left : 0 .. FaDrain]
  BY DEF FaInv
<1>2. Seconds \subseteq 0 .. FaSecMod - 1
  BY FaConstants DEF Seconds
<1>3. fab.buckets \in [Ring -> Nat] /\ fab.last \in Seconds /\ fab.score \in Nat
  BY <1>1 DEF Fabs
<1>4. faPass.at \in FaClock /\ faPass.left \in 0 .. FaDrain
  BY <1>1
<1>5. DOMAIN fab.buckets = Ring /\ \A i \in Ring : fab.buckets[i] \in Nat
  BY <1>3
<1>. QED  BY <1>1, <1>2, <1>3, <1>4, <1>5 DEF FaClock, FaTypeOK

LEMMA BcTypes == BcInv => BcTypeOK
<1>. SUFFICES ASSUME BcInv PROVE BcTypeOK
  OBVIOUS
<1>1. beacon \in BcState /\ bcNow \in 0 .. BcMod - 1
  BY DEF BcInv
<1>2. beacon.done \in BOOLEAN
  BY <1>1, Zenon DEF BcState
<1>3. beacon.count \in 0 .. BcStartup /\ beacon.last \in 0 .. BcMod - 1 /\ beacon.min \in 0 .. BcMod - 1
  BY <1>1 DEF BcState
<1>. QED  BY <1>1, <1>2, <1>3 DEF BcTypeOK

LEMMA RgTypes == RgInv => RgTypeOK
<1>. SUFFICES ASSUME RgInv PROVE RgTypeOK
  OBVIOUS
<1>1. policy \in [Indices -> Buckets] /\ rgNow \in RgClock /\ fb \in Budgets
  BY DEF RgInv, RgPaid, RgBudget
<1>. QED  BY <1>1 DEF Buckets, Budgets, RgClock, RgTypeOK

LEMMA SnTypes == SnInv => SnTypeOK
<1>. SUFFICES ASSUME SnInv PROVE SnTypeOK
  OBVIOUS
<1>1. sens \in SnStates /\ snNow \in SnTimes /\ "ds18b20" \notin sens.readings
  BY DEF SnInv, SnWaits
<1>2. sens.readings \subseteq SnNames
  BY <1>1 DEF SnStates
<1>3. sens.readings \subseteq {"rh", "temp", "vbat"}
  BY <1>1, <1>2 DEF SnNames
<1>4. sens.ds \in {"idle", "converting", "ready", "error"}
      /\ sens.trigger \in SnTimes /\ sens.amAt \in SnTimes /\ sens.dsAt \in SnTimes
  BY <1>1 DEF SnStates
<1>. QED  BY <1>1, <1>3, <1>4 DEF SnTimes, SnTypeOK

\* Every slot is some places behind the head.
LEMMA SqReached ==
  ASSUME NEW q, SqQueue(q), NEW s \in SqSlots
  PROVE  \E i \in 0 .. SqSize - 1 : s = SqAt(q, i)
<1>1. SqSize \in Nat \ {0} /\ s \in 0 .. SqSize - 1 /\ q.head \in 0 .. SqSize - 1
  BY SqAssumption DEF SqQueue, SqSlots
<1>2. CASE s >= q.head
  <2>1. s - q.head \in 0 .. SqSize - 1 /\ q.head + (s - q.head) = s
    BY <1>1, <1>2
  <2>2. s % SqSize = s
    BY <1>1
  <2>. QED  BY <2>1, <2>2 DEF SqAt
<1>3. CASE s < q.head
  <2>1. s + SqSize - q.head \in 0 .. SqSize - 1 /\ q.head + (s + SqSize - q.head) = s + SqSize
    BY <1>1, <1>3
  <2>2. (s + SqSize) % SqSize = s
    BY <1>1
  <2>. QED  BY <2>1, <2>2 DEF SqAt
<1>. QED  BY <1>1, <1>2, <1>3

LEMMA SqTypes == SqInv => SqTypeOK
<1>. SUFFICES ASSUME SqInv PROVE SqTypeOK
  OBVIOUS
<1>1. SqQueue(sq) /\ sqNow \in 0 .. SqMod - 1 /\ sqRef \in Seq(SqHeld)
  BY DEF SqInv, SqMatches
<1>2. ASSUME NEW s \in SqSlots, sq.entries[s].valid
      PROVE  sq.entries[s].frame \in SqFrames
  <2>1. PICK i \in 0 .. SqSize - 1 : s = SqAt(sq, i)
    BY <1>1, SqReached
  <2>2. SqSize \in Nat /\ Len(sqRef) \in Nat
    BY <1>1, SqAssumption
  <2>3. CASE i >= Len(sqRef)
    <3>1. i \in Len(sqRef) .. SqSize - 1
      BY <2>2, <2>3
    <3>2. sq.entries[s] = SqFree
      BY <2>1, <3>1 DEF SqInv, SqMatches
    <3>. QED  BY <1>2, <3>2 DEF SqFree
  <2>4. CASE i < Len(sqRef)
    <3>1. i + 1 \in 1 .. Len(sqRef) /\ (i + 1) - 1 = i
      BY <2>2, <2>4
    <3>2. SqHolds(sq.entries[SqAt(sq, (i + 1) - 1)], sqRef[i + 1], sqNow)
      BY <3>1 DEF SqInv, SqMatches
    <3>3. SqHolds(sq.entries[s], sqRef[i + 1], sqNow)
      BY <2>1, <3>1, <3>2
    <3>4. sqRef[i + 1] \in SqHeld
      BY <1>1, <3>1
    <3>. QED  BY <3>3, <3>4 DEF SqHolds, SqHeld
  <2>. QED  BY <2>2, <2>3, <2>4
<1>. QED  BY <1>1, <1>2 DEF SqQueue, SqTypeOK

-----------------------------------------------------------------------------
\* The links, whatever number of rounds passes between two restarts.
LEMMA LnTypesStart == LnInit => LnShape
  BY LnStart, LnShaped

LEMMA LnTypesNext ==
  ASSUME LnShape, [LnNext]_lnVars
  PROVE  LnShape'
<1>1. lnSeq \in 0 .. LnSeqMod - 1 /\ lnNow \in 0 .. LnMod - 1 /\ lnRound \in 0 .. MaxRounds
      /\ lnDirect \subseteq Sources
  BY DEF LnShape, LnTypeOK
<1>2. ASSUME NEW rows \in SUBSET Sources, NEW s \in 0 .. LnSeqMod - 1, Hears(rows, s),
             lnSeq' \in 0 .. LnSeqMod - 1, lnNow' \in 0 .. LnMod - 1, lnRound < MaxRounds,
             lnRound' = lnRound + 1, lnDirect' = lnDirect
      PROVE  LnShape'
  <2>1. /\ lnTable' \in [Sources -> Entry]
        /\ \A r \in Sources : lnTable'[r].etx = EtxOf(lnTable'[r].loss)
        /\ lnFirst' \in [Sources -> 0 .. LnSeqMod - 1]
    BY <1>2, HearsIs
  <2>2. lnRound' \in 0 .. MaxRounds
    BY <1>1, <1>2, LnConstants
  <2>. QED  BY <1>1, <1>2, <2>1, <2>2 DEF LnShape, LnTypeOK
<1>3. ASSUME NEW k \in 0 .. LnRows, Round(k) PROVE LnShape'
  <2>1. 1 .. k \in SUBSET Sources
    BY LnConstants DEF Sources
  <2>2. (lnSeq + 1) % LnSeqMod \in 0 .. LnSeqMod - 1 /\ (lnNow + 1) % LnMod \in 0 .. LnMod - 1
    BY <1>1, LnConstants
  <2>. QED  BY <1>1, <1>2, <1>3, <2>1, <2>2 DEF Round
<1>4. ASSUME NEW r \in Sources, HearLate(r) PROVE LnShape'
  <2>. DEFINE s == (lnSeq + 2 * LnSeqMod - 2) % LnSeqMod
  <2>1. s \in 0 .. LnSeqMod - 1
    <3>1. lnSeq + 2 * LnSeqMod - 2 \in Int /\ LnSeqMod \in Nat \ {0}
      BY <1>1, LnConstants
    <3>. QED  BY <3>1
  <2>2. /\ Hears({r}, s) /\ lnRound < MaxRounds /\ lnRound' = lnRound + 1
        /\ UNCHANGED <<lnNow, lnSeq, lnDirect>>
    BY <1>4 DEF HearLate
  <2>. HIDE DEF s
  <2>. QED  BY <1>1, <1>2, <2>1, <2>2
<1>5. CASE LnRestart
  <2>1. lnTable' = [r \in Sources |-> Unused] /\ lnFirst' = [r \in Sources |-> 0]
        /\ lnNow' = LnMod - 3 /\ lnSeq' = LnSeqMod - 3 /\ lnRound' = 0 /\ lnDirect' = lnDirect
    BY <1>5 DEF LnRestart
  <2>2. lnNow' \in 0 .. LnMod - 1 /\ lnSeq' \in 0 .. LnSeqMod - 1 /\ lnRound' \in 0 .. MaxRounds
        /\ 0 \in 0 .. LnSeqMod - 1
    BY <2>1, LnConstants
  <2>3. lnTable' \in [Sources -> Entry] /\ \A r \in Sources : lnTable'[r].etx = EtxOf(lnTable'[r].loss)
    BY <2>1, UnusedIs
  <2>. QED  BY <1>1, <2>1, <2>2, <2>3 DEF LnShape, LnTypeOK
<1>6. CASE UNCHANGED lnVars
  BY <1>6 DEF lnVars, LnShape, LnTypeOK
<1>. QED  BY <1>3, <1>4, <1>5, <1>6 DEF LnNext

-----------------------------------------------------------------------------
\* The origins: the throttle and the intervals are ones that may be set.
OrTyped ==
  /\ orThrottle \in OrThrottles /\ Len(orTimers) <= OrTimerMax
  /\ \A i \in 1 .. Len(orTimers) : orTimers[i].interval \in OrIntervals \ {0}

LEMMA OrTypesStart == OrInit => OrTyped
<1>. SUFFICES ASSUME OrInit PROVE OrTyped
  OBVIOUS
<1>1. Len(orTimers) = 0 /\ orThrottle \in OrThrottles
  BY DEF OrInit
<1>2. 0 <= OrTimerMax
  BY OrAssumption
<1>. QED  BY <1>1, <1>2 DEF OrTyped

LEMMA OrTypesNext ==
  ASSUME OrInv, OrTyped, [OrNext]_orVars
  PROVE  OrTyped'
<1>1. orTimers \in Seq(OrTimer)
  BY DEF OrInv, OrTimersInv
<1>2. CASE DrainTimers
  <2>. DEFINE due == {i \in DOMAIN orTimers : OrSince(orTimers[i].last) >= orTimers[i].interval}
  <2>1. orTimers' = [i \in DOMAIN orTimers |-> IF i \in due THEN Fired(orTimers[i]) ELSE orTimers[i]]
        /\ orThrottle' = orThrottle
    BY <1>2 DEF DrainTimers
  <2>. HIDE DEF due
  <2>2. DOMAIN orTimers = 1 .. Len(orTimers) /\ Len(orTimers) \in Nat
    BY <1>1
  <2>3. Len(orTimers') = Len(orTimers)
    BY <2>1, <2>2
  <2>4. \A i \in 1 .. Len(orTimers) : orTimers[i] \in OrTimer
    BY <1>1
  <2>5. \A i \in 1 .. Len(orTimers) : orTimers'[i].interval = orTimers[i].interval
    BY <2>1, <2>2, <2>4 DEF Fired, OrTimer
  <2>. QED  BY <2>1, <2>3, <2>5 DEF OrTyped
<1>3. ASSUME NEW n \in OrIntervals, RegisterTimer(n) PROVE OrTyped'
  <2>1. CASE n > 0 /\ Len(orTimers) < OrTimerMax
    <3>. DEFINE e == [interval |-> n, last |-> orNow]
    <3>1. orTimers' = Append(orTimers, e) /\ orThrottle' = orThrottle
      BY <1>3, <2>1 DEF RegisterTimer
    <3>2. e.interval \in OrIntervals \ {0}
      BY <2>1
    <3>. HIDE DEF e
    <3>3. Len(orTimers) \in Nat /\ OrTimerMax \in Nat /\ Len(orTimers') = Len(orTimers) + 1
      BY <1>1, <3>1, OrAssumption
    <3>4. \A i \in 1 .. Len(orTimers) : orTimers'[i] = orTimers[i]
      BY <1>1, <3>1
    <3>5. orTimers'[Len(orTimers) + 1] = e
      BY <1>1, <3>1
    <3>6. \A i \in 1 .. Len(orTimers') : i \in 1 .. Len(orTimers) \/ i = Len(orTimers) + 1
      BY <3>3
    <3>7. \A i \in 1 .. Len(orTimers') : orTimers'[i].interval \in OrIntervals \ {0}
      BY <3>2, <3>4, <3>5, <3>6 DEF OrTyped
    <3>. QED  BY <2>1, <3>1, <3>3, <3>7 DEF OrTyped
  <2>2. CASE ~(n > 0 /\ Len(orTimers) < OrTimerMax)
    BY <1>3, <2>2 DEF RegisterTimer, OrTyped
  <2>. QED  BY <2>1, <2>2
<1>4. CASE ResetTimers
  <2>1. Len(orTimers') = 0 /\ orThrottle' = orThrottle
    BY <1>4 DEF ResetTimers
  <2>2. 0 <= OrTimerMax
    BY OrAssumption
  <2>. QED  BY <2>1, <2>2 DEF OrTyped
<1>5. CASE PhoneFrame \/ OrTick
  <2>1. orTimers' = orTimers /\ orThrottle' = orThrottle
    BY <1>5 DEF PhoneFrame, OrTick
  <2>. QED  BY <2>1 DEF OrTyped
<1>6. ASSUME NEW ms \in OrThrottles, SetThrottle(ms) PROVE OrTyped'
  BY <1>6 DEF SetThrottle, OrTyped
<1>7. CASE UNCHANGED orVars
  BY <1>7 DEF orVars, OrTyped
<1>. QED  BY <1>2, <1>3, <1>4, <1>5, <1>6, <1>7 DEF OrNext

LEMMA OrTypes == OrInv /\ OrTyped => OrTypeOK
<1>. SUFFICES ASSUME OrInv, OrTyped PROVE OrTypeOK
  OBVIOUS
<1>1. orTimers \in Seq(OrTimer) /\ orNow \in 0 .. OrMod - 1 /\ orLast \in 0 .. OrMod - 1
  BY DEF OrInv, OrTimersInv, OrPassInv
<1>2. DOMAIN orTimers = 1 .. Len(orTimers) /\ \A i \in 1 .. Len(orTimers) : orTimers[i] \in OrTimer
  BY <1>1
<1>3. ASSUME NEW i \in 1 .. Len(orTimers)
      PROVE  orTimers[i] \in [interval : OrIntervals \ {0}, last : 0 .. OrMod - 1]
  <2>1. orTimers[i] \in OrTimer /\ orTimers[i].interval \in OrIntervals \ {0}
    BY <1>2 DEF OrTyped
  <2>. QED  BY <2>1 DEF OrTimer
<1>. QED  BY <1>1, <1>2, <1>3 DEF OrTyped, OrTypeOK

\* The program: what is stored, loaded and run is a program that was pushed or made.
LcTyped ==
  /\ nvs.seq \in 0 .. MaxPushSeq /\ params \in LcParams \cup {0}
  /\ engine \in LcProg /\ timers \in LcProg

LEMMA LoadedProgram ==
  ASSUME NEW prog \in LcProg, NEW p \in LcParams \cup {0}
  PROVE  Loaded(prog, p) \in LcProg
<1>1. PolicyProgram(p) \in Programs
  BY DEF Programs
<1>. HIDE DEF LcProg
<1>. QED  BY <1>1 DEF Loaded, LcProg

LEMMA LcTypesStart == LcInit => LcTyped
<1>. SUFFICES ASSUME LcInit PROVE LcTyped
  OBVIOUS
<1>1. PolicyProgram(0) \in LcProg
  BY DEF Programs, LcProg
<1>2. 0 \in 0 .. MaxPushSeq
  BY LcConstants
<1>. QED  BY <1>1, <1>2 DEF LcInit, LcTyped, Nvs0

LEMMA LcTypesNext ==
  ASSUME LcInv, LcTyped, [LcNext]_lcVars
  PROVE  LcTyped'
<1>1. nvs \in [prog : LcProg, seq : Nat, pnd : {0, 1}] /\ NoProg \in LcProg
  BY DEF LcInv, LcType, LcProg
<1>2. CASE Verify
  <2>1. PICK s \in 1 .. MaxPushSeq : nvs' = [nvs EXCEPT !.seq = s]
    BY <1>2 DEF Verify
  <2>2. nvs'.seq \in 0 .. MaxPushSeq
    BY <1>1, <2>1, LcConstants
  <2>. QED  BY <1>2, <2>2 DEF Verify, LcTyped
<1>3. CASE Activate \/ ActivateFails \/ MarkPending \/ PushPlain
  <2>1. nvs'.seq = nvs.seq
    BY <1>1, <1>3 DEF Activate, ActivateFails, MarkPending, PushPlain
  <2>2. UNCHANGED <<params, engine, timers>>
    BY <1>3 DEF Activate, ActivateFails, MarkPending, PushPlain
  <2>. QED  BY <2>1, <2>2 DEF LcTyped
<1>4. CASE PushParams
  <2>1. nvs'.seq = nvs.seq /\ params' \in LcParams
    BY <1>1, <1>4 DEF PushParams
  <2>. QED  BY <1>4, <2>1 DEF PushParams, LcTyped
<1>5. CASE Reload
  <2>. DEFINE prog == Loaded(nvs.prog, params)
  <2>1. prog \in LcProg
    BY <1>1, LoadedProgram DEF LcTyped
  <2>2. timers' \in {prog, NoProg} /\ engine' \in {prog, engine} /\ UNCHANGED <<nvs, params>>
    BY <1>5 DEF Reload, TimersAfter
  <2>. QED  BY <1>1, <2>1, <2>2 DEF LcTyped
<1>6. CASE Reset
  <2>1. Kept(nvs).prog \in LcProg /\ Kept(nvs).seq \in 0 .. MaxPushSeq
    BY <1>1, LcConstants DEF Kept, Nvs0, LcTyped
  <2>. DEFINE prog == Loaded(Kept(nvs).prog, 0)
  <2>2. prog \in LcProg
    BY <2>1, LoadedProgram
  <2>3. engine' \in {prog, NoProg} /\ timers' \in {prog, NoProg} /\ nvs' = Kept(nvs) /\ params' = 0
    BY <1>6 DEF Reset
  <2>. HIDE DEF prog
  <2>. QED  BY <1>1, <2>1, <2>2, <2>3 DEF LcTyped
<1>7. CASE UNCHANGED lcVars
  BY <1>7 DEF lcVars, LcTyped
<1>. QED  BY <1>2, <1>3, <1>4, <1>5, <1>6, <1>7 DEF LcNext

LEMMA LcTypes == LcInv /\ LcTyped => LcTypeOK
<1>. SUFFICES ASSUME LcInv, LcTyped PROVE LcTypeOK
  OBVIOUS
<1>1. /\ nvs \in [prog : LcProg, seq : Nat, pnd : {0, 1}]
      /\ push \in [at : {"none", "verified", "stored"}, seq : Nat, prog : LcProg]
      /\ mode \in {"up", "hung"}
  BY DEF LcInv, LcType
<1>. QED  BY <1>1 DEF LcTyped, LcTypeOK, LcProg

-----------------------------------------------------------------------------
\* The settings and the display.
StSaid == stSaid \in [StKeys -> StKept \cup {Unknown}]

LEMMA StTypesStart == StInit => StSaid
  BY DEF StInit, NothingSaid, StSaid

LEMMA StTypesNext ==
  ASSUME StInv, StSaid, [StNext]_stVars
  PROVE  StSaid'
<1>1. NothingSaid \in [StKeys -> StKept \cup {Unknown}]
  BY DEF NothingSaid
<1>2. ASSUME NEW ok, NEW want \in [StKeys -> StKept], Answer(ok, want) PROVE StSaid'
  BY <1>1, <1>2 DEF Answer, StSaid
<1>3. ASSUME NEW companion \in BOOLEAN, NEW opens \in BOOLEAN, NEW commits \in BOOLEAN,
             NEW oks \in [StKeys -> BOOLEAN], Command(companion, opens, oks, commits)
      PROVE  StSaid'
  <2>1. ASSUME NEW k \in StKeys, NEW value \in StValues, SetIdentity(k, value, opens, oks, commits)
        PROVE  StSaid'
    <3>1. [stRam EXCEPT ![k] = value] \in [StKeys -> StKept]
      BY DEF StInv, StKept
    <3>. QED  BY <1>2, <2>1, <3>1 DEF SetIdentity
  <2>2. ASSUME NEW want \in [StKeys -> StValues], SetPosition(want, companion, opens, oks, commits)
        PROVE  StSaid'
    <3>1. want \in [StKeys -> StKept]
      BY DEF StKept
    <3>. QED  BY <1>2, <2>2, <3>1 DEF SetPosition
  <2>3. ASSUME NEW want \in [StKeys -> StValues], SetSensor(want, companion, opens, oks, commits)
        PROVE  StSaid'
    BY <1>2, <2>3, ClampedType DEF SetSensor
  <2>4. CASE ClearPosition(companion, opens, oks, commits)
    <3>1. Unset \in [StKeys -> StKept]
      BY StConstants DEF Unset
    <3>. QED  BY <1>2, <2>4, <3>1 DEF ClearPosition
  <2>. QED  BY <1>3, <2>1, <2>2, <2>3, <2>4 DEF Command
<1>4. CASE Restart \/ RestartErased \/ \E value \in StValues \cup {0} : CutStore(value)
  <2>1. stSaid' \in {NothingSaid, stSaid}
    BY <1>4 DEF Restart, RestartErased, CutStore
  <2>. QED  BY <1>1, <2>1 DEF StSaid
<1>5. CASE UNCHANGED stVars
  BY <1>5 DEF stVars, StSaid
<1>. QED  BY <1>3, <1>4, <1>5 DEF StNext, CliLine, CompanionPacket

LEMMA StTypes == StInv /\ StSaid => StTypeOK
<1>1. StKept \cup {Unknown} = StValues \cup {0, Unknown}
  BY DEF StKept
<1>. QED  BY <1>1 DEF StInv, StSaid, StTypeOK, StKept

-----------------------------------------------------------------------------
DpTyped ==
  /\ dpUpdate \in 0 .. DpMod - 1 /\ dpPage \in 0 .. DpPages - 1
  /\ dpTask \in {"init", "copy", "copying", "update"}

LEMMA DpTypesStart == DpInit => DpTyped
<1>. SUFFICES ASSUME DpInit PROVE DpTyped
  OBVIOUS
<1>1. DpMod \in Nat /\ dpNow \in 0 .. DpMod - 1 /\ DpPages \in Nat \ {0}
  BY DpAssumption DEF DpInit
<1>2. 0 \in 0 .. DpMod - 1 /\ 0 \in 0 .. DpPages - 1
  BY <1>1
<1>. QED  BY <1>2 DEF DpInit, DpTyped

LEMMA DpTypesNext ==
  ASSUME DpInv, DpTyped, [DpNext]_dpVars
  PROVE  DpTyped'
<1>1. DpPages \in Nat \ {0} /\ dpNow \in 0 .. DpMod - 1
  BY DpAssumption DEF DpInv
<1>2. 0 \in 0 .. DpPages - 1 /\ (dpPage + 1) % DpPages \in 0 .. DpPages - 1
  BY <1>1 DEF DpTyped
<1>3. ASSUME NEW sent \in BOOLEAN, Updated(sent) \/ UpdateEarly, dpTask' = "copy" PROVE DpTyped'
  BY <1>1, <1>2, <1>3 DEF Updated, UpdateEarly, PageFor, DpTyped
<1>4. CASE DpTick
  BY <1>4 DEF DpTick, DpTyped
<1>5. ASSUME NEW record \in Figures, MainPost(record) \/ NrfPost(record) PROVE DpTyped'
  BY <1>5 DEF MainPost, NrfPost, PostHalf, DpTyped
<1>6. CASE PostRest \/ TaskCopyHalf \/ TaskCopyRest
  BY <1>6 DEF PostRest, TaskCopyHalf, TaskCopyRest, DpTyped
<1>7. ASSUME NEW found \in BOOLEAN, NEW sent \in BOOLEAN, NEW restarts \in BOOLEAN,
             TaskInit(found, sent, restarts) \/ NrfInit(found, sent)
      PROVE  DpTyped'
  <2>1. dpUpdate' \in {dpNow, dpUpdate} /\ dpPage' = 0 /\ dpTask' = "copy"
    BY <1>7 DEF TaskInit, NrfInit
  <2>. QED  BY <1>1, <1>2, <2>1 DEF DpTyped
<1>8. ASSUME NEW sent \in BOOLEAN, NEW restarts \in BOOLEAN,
             TaskUpdate(sent, restarts) \/ NrfUpdate(sent)
      PROVE  DpTyped'
  BY <1>3, <1>8 DEF TaskUpdate, NrfUpdate
<1>9. CASE UNCHANGED dpVars
  BY <1>9 DEF dpVars, DpTyped
<1>. QED  BY <1>4, <1>5, <1>6, <1>7, <1>8, <1>9 DEF DpNext, DpStep

LEMMA DpTypes == DpInv /\ DpTyped => DpTypeOK
  BY DEF DpInv, DpTyped, DpTypeOK

-----------------------------------------------------------------------------
\* The compiler: a graph only grows while a program is read.
Listed(nodes) == Len(nodes) \in Nat /\ DOMAIN nodes = 1 .. Len(nodes)

\* The outputs of a node are nodes added after it.
Wired(nodes) ==
  /\ Listed(nodes)
  /\ \A u \in 1 .. Len(nodes) :
       /\ nodes[u] = [label |-> nodes[u].label, outputs |-> nodes[u].outputs]
       /\ nodes[u].outputs \in Seq(u + 1 .. Len(nodes))

GrBuilt == GrTypeOK /\ Wired(grNodes)

LEMMA AddedIs ==
  ASSUME NEW nodes, Wired(nodes), NEW label, NEW upstreams, IsFiniteSet(DOMAIN upstreams)
  PROVE  Wired(Added(nodes, label, upstreams)) /\ Len(Added(nodes, label, upstreams)) = Len(nodes) + 1
<1>. DEFINE id == Len(nodes) + 1
            times(u) == Cardinality({i \in DOMAIN upstreams : upstreams[i] = u})
            more(u) == [i \in 1 .. times(u) |-> id]
            e(u) == [nodes[u] EXCEPT !.outputs = @ \o more(u)]
            f == [u \in 1 .. Len(nodes) |-> e(u)]
            x == [label |-> label, outputs |-> <<>>]
            S == {e(u) : u \in 1 .. Len(nodes)}
            g == Append(f, x)
<1>1. Added(nodes, label, upstreams) = g
  BY DEF Added, Wired, Listed
<1>2. Len(nodes) \in Nat
  BY DEF Wired, Listed
<1>3. ASSUME NEW u \in 1 .. Len(nodes)
      PROVE  /\ e(u) = [label |-> e(u).label, outputs |-> e(u).outputs]
             /\ e(u).outputs \in Seq(u + 1 .. id)
  <2>1. nodes[u] = [label |-> nodes[u].label, outputs |-> nodes[u].outputs]
        /\ nodes[u].outputs \in Seq(u + 1 .. Len(nodes))
    BY DEF Wired
  <2>. DEFINE old == nodes[u].outputs
              R == u + 1 .. Len(nodes)
              T == u + 1 .. id
              k == times(u)
              w == more(u)
  <2>2. k \in Nat
    BY FS_Subset, FS_CardinalityType
  <2>3. R \subseteq T /\ id \in T
    BY <1>2
  <2>4. w = [i \in 1 .. k |-> id]
    OBVIOUS
  <2>5. e(u) = [nodes[u] EXCEPT !.outputs = @ \o w]
    OBVIOUS
  <2>. HIDE DEF k, w, e, id
  <2>6. e(u) = [label |-> nodes[u].label, outputs |-> nodes[u].outputs \o w]
    BY <2>1, <2>5
  <2>7. /\ e(u).label = nodes[u].label /\ e(u).outputs = old \o w
        /\ e(u) = [label |-> e(u).label, outputs |-> e(u).outputs]
    BY <2>6
  <2>8. old \in Seq(R)
    BY <2>1
  <2>. HIDE DEF old, R, T
  <2>9. id \in T
    BY <2>3
  <2>10. old \in Seq(T)
    BY <2>3, <2>8, SeqWider
  <2>11. w \in Seq(T)
    BY <2>2, <2>4, <2>9, Repeats
  <2>12. old \o w \in Seq(T)
    BY <2>10, <2>11
  <2>13. e(u).outputs \in Seq(T)
    BY <2>7, <2>12
  <2>. QED  BY <2>7, <2>13 DEF T
<1>. HIDE DEF e, x
<1>4. f \in Seq(S) /\ Len(f) = Len(nodes) /\ \A u \in 1 .. Len(nodes) : f[u] = e(u)
  <2>1. f \in [1 .. Len(nodes) -> S] /\ \A u \in 1 .. Len(nodes) : f[u] = e(u)
    OBVIOUS
  <2>. HIDE DEF f, S
  <2>. QED  BY <1>2, <2>1
<1>. HIDE DEF f, S
<1>5. g \in Seq(S \cup {x}) /\ Len(g) = id /\ g[id] = x /\ \A u \in 1 .. Len(nodes) : g[u] = e(u)
  BY <1>2, <1>4
<1>. HIDE DEF g
<1>6. Listed(g)
  BY <1>5 DEF Listed
<1>7. ASSUME NEW u \in 1 .. id
      PROVE  g[u] = [label |-> g[u].label, outputs |-> g[u].outputs] /\ g[u].outputs \in Seq(u + 1 .. id)
  <2>1. CASE u = id
    <3>1. <<>> \in Seq(u + 1 .. id)
      OBVIOUS
    <3>2. g[u] = [label |-> label, outputs |-> <<>>]
      BY <1>5, <2>1 DEF x
    <3>. QED  BY <3>1, <3>2
  <2>2. CASE u # id
    <3>1. u \in 1 .. Len(nodes)
      BY <1>2, <2>2
    <3>2. g[u] = e(u)
      BY <1>5, <3>1
    <3>. QED  BY <1>3, <3>1, <3>2
  <2>. QED  BY <2>1, <2>2
<1>. QED  BY <1>1, <1>5, <1>6, <1>7 DEF Wired

LEMMA CompileExprIs ==
  ASSUME GrBuilt, NEW primary \in Primaries, NEW ops \in Pipes, Resolves(primary),
         NEW compiled, compiled = CompileExpr(primary, ops)
  PROVE  /\ Wired(compiled.nodes) /\ Len(compiled.nodes) >= Len(grNodes)
         /\ compiled.id \in 1 .. Len(compiled.nodes)
<1>. DEFINE first == Primary(grNodes, primary)
<1>1. Wired(grNodes) /\ Len(grNodes) \in Nat /\ \A n \in DOMAIN grBound : grBound[n] \in 1 .. Len(grNodes)
  BY DEF GrBuilt, GrTypeOK, Wired, Listed
<1>2. /\ Wired(first.nodes) /\ Len(first.nodes) >= Len(grNodes) /\ Len(first.nodes) \in Nat
      /\ first.id \in 1 .. Len(first.nodes)
  <2>1. CASE Len(primary) = 1
    <3>1. 1 \in DOMAIN primary
      BY <2>1 DEF Primaries
    <3>2. first.nodes = grNodes /\ first.id = grBound[primary[1]]
      BY <2>1 DEF Primary
    <3>. HIDE DEF first
    <3>. QED  BY <1>1, <3>1, <3>2 DEF Resolves
  <2>2. CASE Len(primary) # 1
    <3>. DEFINE up == <<grBound[primary[1]], grBound[primary[2]]>>
    <3>1. first.nodes = Added(grNodes, Label("merge", 0), up) /\ first.id = Len(grNodes) + 1
      BY <2>2 DEF Primary
    <3>2. IsFiniteSet(DOMAIN up)
      BY TupleDomains
    <3>. HIDE DEF first, up
    <3>3. Wired(first.nodes) /\ Len(first.nodes) = Len(grNodes) + 1
      BY <1>1, <3>1, <3>2, AddedIs
    <3>. QED  BY <1>1, <3>1, <3>3
  <2>. QED  BY <2>1, <2>2
<1>3. CASE ops = <<>>
  <2>1. compiled = first
    BY <1>3 DEF CompileExpr
  <2>. QED  BY <1>2, <2>1
<1>4. CASE ops # <<>>
  <2>1. compiled.nodes = Added(first.nodes, Label("op", ops[1]), <<first.id>>)
        /\ compiled.id = Len(first.nodes) + 1
    BY <1>4 DEF CompileExpr, Piped
  <2>. HIDE DEF first
  <2>2. Wired(compiled.nodes) /\ Len(compiled.nodes) = Len(first.nodes) + 1
    BY <1>2, <2>1, AddedIs, TupleDomains
  <2>. QED  BY <1>1, <1>2, <2>1, <2>2
<1>. QED  BY <1>3, <1>4

\* A statement that adds nodes, and binds a name to one of them or none.
LEMMA GrGrows ==
  ASSUME GrBuilt, grStmts' \in 0 .. GrMaxStmts, Wired(grNodes'), Len(grNodes') >= Len(grNodes),
         NEW name, NEW id \in 1 .. Len(grNodes'), NEW meaning,
         (grBound' = With(grBound, name, id) /\ grMeans' = With(grMeans, name, meaning))
           \/ (grBound' = grBound /\ grMeans' = grMeans),
         DOMAIN grSinks' \subseteq DOMAIN grSinks \cup {id}
  PROVE  GrBuilt'
<1>1. Len(grNodes) \in Nat /\ DOMAIN grNodes = 1 .. Len(grNodes)
      /\ Len(grNodes') \in Nat /\ DOMAIN grNodes' = 1 .. Len(grNodes')
  BY DEF GrBuilt, Wired, Listed
<1>2. DOMAIN grNodes \subseteq DOMAIN grNodes'
  BY <1>1
<1>3. /\ \A n \in DOMAIN grBound : grBound[n] \in DOMAIN grNodes
      /\ DOMAIN grBound = DOMAIN grMeans /\ DOMAIN grSinks \subseteq DOMAIN grNodes
  BY DEF GrBuilt, GrTypeOK
<1>4. DOMAIN grBound' = DOMAIN grMeans'
  BY <1>3 DEF With
<1>5. \A n \in DOMAIN grBound' : grBound'[n] \in DOMAIN grNodes'
  BY <1>1, <1>2, <1>3 DEF With
<1>. QED  BY <1>1, <1>2, <1>3, <1>4, <1>5 DEF GrBuilt, GrTypeOK

LEMMA GrStart == GrInit => GrBuilt
  BY GrAssumption DEF GrInit, NoNames, GrBuilt, GrTypeOK, Wired, Listed

LEMMA GrInductive == GrBuilt /\ [GrNext]_grVars => GrBuilt'
<1>. SUFFICES ASSUME GrBuilt, [GrNext]_grVars PROVE GrBuilt'
  OBVIOUS
<1>0. Wired(grNodes) /\ Len(grNodes) \in Nat
  BY DEF GrBuilt, Wired, Listed
<1>1. CASE NextProgram
  BY <1>1, GrAssumption DEF NextProgram, NoNames, GrBuilt, GrTypeOK, Wired, Listed
<1>2. CASE UNCHANGED grVars
  BY <1>2 DEF grVars, GrBuilt, GrTypeOK, Wired, Listed
<1>3. CASE Statement
  <2>1. grStmts' \in 0 .. GrMaxStmts
    BY <1>3, GrAssumption DEF Statement, GrBuilt, GrTypeOK
  <2>2. ASSUME UNCHANGED <<grNodes, grBound, grMeans, grSinks>> PROVE GrBuilt'
    BY <2>1, <2>2 DEF GrBuilt, GrTypeOK, Wired, Listed
  <2>3. ASSUME NEW name \in GrNames, Source(name) PROVE GrBuilt'
    <3>1. /\ grNodes' = Added(grNodes, Label("source", Len(grNodes) + 1), <<>>)
          /\ grBound' = With(grBound, name, Len(grNodes) + 1)
          /\ grMeans' = With(grMeans, name, SetToBag({<<Label("source", Len(grNodes) + 1)>>}))
          /\ grSinks' = grSinks
      BY <2>3 DEF Source, Bind
    <3>2. Wired(grNodes') /\ Len(grNodes') = Len(grNodes) + 1
      BY <1>0, <3>1, AddedIs, TupleDomains
    <3>3. Len(grNodes) + 1 \in 1 .. Len(grNodes') /\ Len(grNodes') >= Len(grNodes)
      BY <1>0, <3>2
    <3>. QED  BY <2>1, <3>1, <3>2, <3>3, GrGrows
  <2>4. ASSUME NEW name \in GrNames, Emit(name) PROVE GrBuilt'
    <3>1. CASE name \in DOMAIN grBound
      <4>1. /\ grNodes' = Added(grNodes, Label("emit", 0), <<grBound[name]>>)
            /\ grSinks' = With(grSinks, Len(grNodes) + 1, grMeans[name])
            /\ grBound' = grBound /\ grMeans' = grMeans
        BY <2>4, <3>1 DEF Emit
      <4>2. Wired(grNodes') /\ Len(grNodes') = Len(grNodes) + 1
        BY <1>0, <4>1, AddedIs, TupleDomains
      <4>3. Len(grNodes) + 1 \in 1 .. Len(grNodes') /\ Len(grNodes') >= Len(grNodes)
        BY <1>0, <4>2
      <4>4. DOMAIN grSinks' = DOMAIN grSinks \cup {Len(grNodes) + 1}
        BY <4>1 DEF With
      <4>. QED  BY <2>1, <4>1, <4>2, <4>3, <4>4, GrGrows
    <3>2. CASE name \notin DOMAIN grBound
      BY <2>2, <2>4, <3>2 DEF Emit
    <3>. QED  BY <3>1, <3>2
  <2>5. ASSUME NEW name \in GrNames, NEW primary \in Primaries, NEW ops \in Pipes, Let(name, primary, ops)
        PROVE  GrBuilt'
    <3>1. CASE Resolves(primary)
      <4>. DEFINE compiled == CompileExpr(primary, ops)
      <4>1. /\ grNodes' = compiled.nodes /\ grBound' = With(grBound, name, compiled.id)
            /\ grMeans' = With(grMeans, name, Denotes(primary, ops)) /\ grSinks' = grSinks
        BY <2>5, <3>1 DEF Let, Bind
      <4>2. Wired(grNodes') /\ Len(grNodes') >= Len(grNodes) /\ compiled.id \in 1 .. Len(grNodes')
        BY <3>1, <4>1, CompileExprIs
      <4>. HIDE DEF compiled
      <4>. QED  BY <2>1, <4>1, <4>2, GrGrows
    <3>2. CASE ~Resolves(primary)
      BY <2>2, <2>5, <3>2 DEF Let
    <3>. QED  BY <3>1, <3>2
  <2>6. CASE LetLiteral
    BY <2>2, <2>6 DEF LetLiteral
  <2>. QED  BY <1>3, <2>3, <2>4, <2>5, <2>6 DEF Statement
<1>. QED  BY <1>1, <1>2, <1>3 DEF GrNext

-----------------------------------------------------------------------------
OwnTypes ==
  /\ DutyTyped /\ TdPassAt /\ LnShape /\ OrTyped /\ LcTyped /\ StSaid /\ DpTyped /\ GrBuilt

PartsInv ==
  /\ DutyInv /\ TdInv /\ SqInv /\ AtInv /\ RdInv /\ RdSpaced /\ RgInv /\ FaInv
  /\ BcInv /\ OrInv
  /\ LcInv /\ EngineInv /\ SnInv /\ ChInv /\ StInv /\ DpInv

\* The state of every part of a node keeps its type - no index leaves its table, no
\* counter its width, no queue its size, and no name is bound to a node that is not
\* there - for every size of the tables, every width of the clocks and however many
\* rounds, pushes and statements there are.
THEOREM TypesAlwaysOK == NodeSpec => []TypesOK
<1>1. NodeInit => PartsInv
  <2>. SUFFICES ASSUME NodeInit PROVE PartsInv
    OBVIOUS
  <2>1. DutyInv /\ TdInv /\ SqInv /\ AtInv /\ RdInv /\ RdSpaced /\ RgInv
    BY DutyInitially, TdStart, SqStart, AtInitially, RdStart, SpacedStart, RgPaidStart, RgBudgetStart
       DEF NodeInit, RgInv
  <2>2. FaInv /\ BcInv /\ OrInv /\ LcInv /\ EngineInv
    BY FaStart, BcStart, OrStart, LcStart, EngineStart DEF NodeInit
  <2>3. SnInv /\ ChInv /\ StInv /\ DpInv
    BY SnStart, ChStart, StStart, DpStart DEF NodeInit
  <2>. QED  BY <2>1, <2>2, <2>3 DEF PartsInv
<1>2. NodeInit => OwnTypes
  BY DutyTypesStart, TdTypesStart, LnTypesStart, OrTypesStart, LcTypesStart, StTypesStart,
     DpTypesStart, GrStart DEF NodeInit, OwnTypes
<1>3. PartsInv /\ [NodeNext]_nodeVars => PartsInv'
  <2>. SUFFICES ASSUME PartsInv, [NodeNext]_nodeVars PROVE PartsInv'
    OBVIOUS
  <2>1. DutyInv' /\ TdInv' /\ SqInv' /\ AtInv' /\ RdInv' /\ RdSpaced' /\ RgInv'
    BY PartSteps, DutyInductive, TdInductive, SqInductive, AtInductive, RdInductive, RgInductive
       DEF PartsInv
  <2>2. FaInv' /\ BcInv' /\ OrInv' /\ LcInv' /\ EngineInv'
    BY PartSteps, FaInductive, BcInductive, OrInductive, LcInductive, EngineInductive DEF PartsInv
  <2>3. SnInv' /\ ChInv' /\ StInv' /\ DpInv'
    BY PartSteps, SnInductive, ChInductive, StInductive, DpInductive DEF PartsInv
  <2>. QED  BY <2>1, <2>2, <2>3 DEF PartsInv
<1>4. PartsInv /\ OwnTypes /\ [NodeNext]_nodeVars => OwnTypes'
  <2>. SUFFICES ASSUME PartsInv, OwnTypes, [NodeNext]_nodeVars PROVE OwnTypes'
    OBVIOUS
  <2>1. DutyTyped' /\ TdPassAt' /\ LnShape' /\ OrTyped'
    BY PartSteps, DutyTypesNext, TdTypesNext, LnTypesNext, OrTypesNext DEF PartsInv, OwnTypes
  <2>2. LcTyped' /\ StSaid' /\ DpTyped' /\ GrBuilt'
    BY PartSteps, LcTypesNext, StTypesNext, DpTypesNext, GrInductive DEF PartsInv, OwnTypes
  <2>. QED  BY <2>1, <2>2 DEF OwnTypes
<1>5. PartsInv /\ OwnTypes => TypesOK
  <2>. SUFFICES ASSUME PartsInv, OwnTypes PROVE TypesOK
    OBVIOUS
  <2>1. TypeOK /\ TdTypeOK /\ SqTypeOK /\ AtTypeOK /\ RdTypeOK /\ RgTypeOK
    BY DutyTypes, TdTypes, SqTypes, AtTypes, RdTypes, RgTypes DEF PartsInv, OwnTypes
  <2>2. LnTypeOK /\ FaTypeOK /\ BcTypeOK /\ OrTypeOK /\ LcTypeOK /\ EnTypeOK
    BY FaTypes, BcTypes, OrTypes, LcTypes, EnTypes DEF PartsInv, OwnTypes, LnShape
  <2>3. SnTypeOK /\ ChTypeOK /\ StTypeOK /\ GrTypeOK /\ DpTypeOK
    BY SnTypes, ChTypes, StTypes, DpTypes DEF PartsInv, OwnTypes, GrBuilt
  <2>. QED  BY <2>1, <2>2, <2>3 DEF TypesOK
<1>. QED  BY <1>1, <1>2, <1>3, <1>4, <1>5, PTL DEF NodeSpec, nodeVars

\* Every output of a node is a node added after it, so events only move on and a turn
\* of the engine ends, for every program however long (compiler.rs:272-395,
\* engine.rs:141-150).
THEOREM EdgesAlwaysForward == NodeSpec => []EdgesForward
<1>1. NodeInit => GrBuilt
  BY GrStart DEF NodeInit
<1>2. GrBuilt /\ [NodeNext]_nodeVars => GrBuilt'
  BY PartSteps, GrInductive
<1>3. GrBuilt => EdgesForward
  <2>. SUFFICES ASSUME GrBuilt, NEW u \in DOMAIN grNodes, NEW i \in DOMAIN grNodes[u].outputs
       PROVE  grNodes[u].outputs[i] > u
    BY DEF EdgesForward
  <2>. DEFINE out == grNodes[u].outputs
              T == u + 1 .. Len(grNodes)
  <2>1. u \in 1 .. Len(grNodes) /\ Len(grNodes) \in Nat
    BY DEF GrBuilt, Wired, Listed
  <2>2. out \in Seq(T)
    BY <2>1 DEF GrBuilt, Wired
  <2>. HIDE DEF T
  <2>3. out[i] \in T
    BY <2>2
  <2>. QED  BY <2>1, <2>3 DEF T
<1>. QED  BY <1>1, <1>2, <1>3, PTL DEF NodeSpec, nodeVars
=============================================================================
