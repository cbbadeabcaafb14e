----------------------------- MODULE BasicProofs -----------------------------
(***************************************************************************)
(* Induction over finite sets, and what the folds of the community modules *)
(* compute.  The library states induction with the property as an operator *)
(* parameter; it is used here in another form: among the subsets of a      *)
(* finite set for which a property fails, one is minimal.  Then the age of *)
(* a reading of a clock that counts modulo c, the sums of the first        *)
(* elements of a list, arithmetic, and what some operators on sequences    *)
(* return.                                                                 *)
(***************************************************************************)
EXTENDS Naturals, SequencesExt, FiniteSetTheorems, SequenceTheorems, WellFoundedInduction,
        TLAPS

\* A non-empty family of subsets of a finite set has a minimal member.
LEMMA MinimalSubset ==
  ASSUME NEW S, IsFiniteSet(S), NEW T, T \subseteq SUBSET S, T # {}
  PROVE  \E s \in T : \A t \in T : t \subseteq s => t = s
<1>1. IsWellFoundedOn(StrictSubsetOrdering(S), SUBSET S)
  BY FS_StrictSubsetOrderingWellFounded, FS_FiniteSubsetsOfFinite
<1>2. StrictSubsetOrdering(S) =
        {ss \in (SUBSET S) \X (SUBSET S) : ss[1] \subseteq ss[2] /\ ss[1] # ss[2]}
  BY DEF StrictSubsetOrdering
<1>3. PICK s \in T : \A t \in T : ~ (<<t, s>> \in StrictSubsetOrdering(S))
  BY <1>1, WFMin
<1>4. ASSUME NEW t \in T, t \subseteq s PROVE t = s
  <2>1. t \in SUBSET S /\ s \in SUBSET S
    OBVIOUS
  <2>2. <<t, s>> \notin StrictSubsetOrdering(S)
    BY <1>3
  <2>. QED  BY <2>1, <2>2, <1>2, <1>4
<1>. QED  BY <1>3, <1>4

\* Where a function takes natural numbers on a set, it takes a smallest one.
LEMMA LeastMember ==
  ASSUME NEW S, S # {}, NEW f, \A x \in S : f[x] \in Nat
  PROVE  \E x \in S : \A y \in S : f[x] <= f[y]
<1>1. PICK k : k \in S
  OBVIOUS
<1>. DEFINE Below(x) == 0 .. f[x]
            T == {Below(x) : x \in {y \in S : f[y] <= f[k]}}
            U == Below(k)
<1>2. T \subseteq SUBSET U /\ T # {} /\ IsFiniteSet(U)
  <2>1. T \subseteq SUBSET U
    BY <1>1
  <2>2. U \in T
    BY <1>1
  <2>3. IsFiniteSet(U)
    BY <1>1, FS_Interval
  <2>. QED  BY <2>1, <2>2, <2>3
<1>3. PICK s \in T : \A t \in T : t \subseteq s => t = s
  <2>. HIDE DEF T, U
  <2>. QED  BY <1>2, MinimalSubset
<1>4. PICK x \in S : f[x] <= f[k] /\ s = Below(x)
  BY <1>3
<1>5. ASSUME NEW y \in S, ~ (f[x] <= f[y])
      PROVE  FALSE
  <2>1. f[y] \in Nat /\ f[x] \in Nat /\ f[k] \in Nat /\ f[y] < f[x]
    BY <1>1, <1>5
  <2>2. Below(y) \in T
    BY <2>1, <1>4
  <2>3. Below(y) \subseteq Below(x) /\ Below(y) # Below(x)
    BY <2>1
  <2>. HIDE DEF Below
  <2>. QED  BY <1>3, <1>4, <2>2, <2>3
<1>. QED  BY <1>5

\* The least member of a set of natural numbers.
LEMMA LeastOf ==
  ASSUME NEW S, S \subseteq Nat, S # {}
  PROVE  \E i \in S : \A j \in S : i <= j
<1>. DEFINE f == [i \in S |-> i]
<1>1. \A i \in S : f[i] \in Nat
  OBVIOUS
<1>2. \E i \in S : \A j \in S : f[i] <= f[j]
  <2>. HIDE DEF f
  <2>. QED  BY <1>1, LeastMember
<1>. QED  BY <1>2

\* A set of natural numbers with a bound has a greatest member.
LEMMA GreatestMember ==
  ASSUME NEW n \in Nat, NEW S, S \subseteq 0 .. n, S # {}
  PROVE  \E x \in S : \A y \in S : x >= y
<1>. DEFINE f == [x \in S |-> n - x]
<1>1. \A x \in S : f[x] \in Nat
  OBVIOUS
<1>2. PICK x \in S : \A y \in S : f[x] <= f[y]
  <2>. HIDE DEF f
  <2>. QED  BY <1>1, LeastMember
<1>. QED  BY <1>2

-----------------------------------------------------------------------------
(***************************************************************************)
(* A fold over the subsets of S: pick[s] is the member taken out of s,     *)
(* step[x][v] the result for x and the result v of the rest.               *)
(***************************************************************************)
IsFold(F, S, base, pick, step) ==
  \A s \in SUBSET S : F[s] = IF s = {} THEN base ELSE step[pick[s]][F[s \ {pick[s]}]]

Picks(pick, S) == \A s \in (SUBSET S) \ {{}} : pick[s] \in s

\* Two folds with the same steps agree.
LEMMA FoldUnique ==
  ASSUME NEW S, IsFiniteSet(S), NEW base, NEW pick, Picks(pick, S), NEW step,
         NEW F, NEW G, IsFold(F, S, base, pick, step), IsFold(G, S, base, pick, step)
  PROVE  \A s \in SUBSET S : F[s] = G[s]
<1>. SUFFICES ASSUME NEW b \in SUBSET S, F[b] # G[b] PROVE FALSE
  OBVIOUS
<1>. DEFINE Bad == {s \in SUBSET S : F[s] # G[s]}
<1>1. PICK t \in Bad : \A u \in Bad : u \subseteq t => u = t
  <2>1. Bad \subseteq SUBSET S /\ b \in Bad
    OBVIOUS
  <2>. HIDE DEF Bad
  <2>. QED  BY <2>1, MinimalSubset
<1>2. CASE t = {}
  BY <1>2 DEF IsFold
<1>3. CASE t # {}
  <2>1. pick[t] \in t
    BY <1>3 DEF Picks
  <2>2. F[t \ {pick[t]}] = G[t \ {pick[t]}]
    BY <1>1, <2>1
  <2>. QED  BY <1>3, <2>2 DEF IsFold
<1>. QED  BY <1>2, <1>3

\* A fold takes its values where its base and its steps do.
LEMMA FoldType ==
  ASSUME NEW S, IsFiniteSet(S), NEW V, NEW base \in V, NEW pick, Picks(pick, S),
         NEW step, \A x \in S, v \in V : step[x][v] \in V,
         NEW F, IsFold(F, S, base, pick, step)
  PROVE  \A s \in SUBSET S : F[s] \in V
<1>. SUFFICES ASSUME NEW b \in SUBSET S, F[b] \notin V PROVE FALSE
  OBVIOUS
<1>. DEFINE Bad == {s \in SUBSET S : F[s] \notin V}
<1>1. PICK t \in Bad : \A u \in Bad : u \subseteq t => u = t
  <2>1. Bad \subseteq SUBSET S /\ b \in Bad
    OBVIOUS
  <2>. HIDE DEF Bad
  <2>. QED  BY <2>1, MinimalSubset
<1>2. CASE t = {}
  BY <1>2 DEF IsFold
<1>3. CASE t # {}
  <2>1. pick[t] \in t
    BY <1>3 DEF Picks
  <2>2. F[t \ {pick[t]}] \in V
    BY <1>1, <2>1
  <2>3. F[t] = step[pick[t]][F[t \ {pick[t]}]]
    BY <1>3 DEF IsFold
  <2>. QED  BY <2>1, <2>2, <2>3
<1>. QED  BY <1>2, <1>3

\* There is a fold for every base and every step.
LEMMA FoldExists ==
  ASSUME NEW S, IsFiniteSet(S), NEW base, NEW pick, Picks(pick, S), NEW step
  PROVE  \E F : F = [s \in SUBSET S |-> F[s]] /\ IsFold(F, S, base, pick, step)
<1>. DEFINE Good(t) == \E F : IsFold(F, t, base, pick, step)
<1>1. \A t \in SUBSET S : Good(t)
  <2>. SUFFICES ASSUME NEW b \in SUBSET S, ~Good(b) PROVE FALSE
    OBVIOUS
  <2>. HIDE DEF Good
  <2>. DEFINE Bad == {t \in SUBSET S : ~Good(t)}
  <2>1. PICK t \in SUBSET S : ~Good(t) /\ \A u \in SUBSET S : u \subseteq t /\ u # t => Good(u)
    <3>1. Bad \subseteq SUBSET S /\ b \in Bad
      OBVIOUS
    <3>2. \E t \in Bad : \A u \in Bad : u \subseteq t => u = t
      <4>. HIDE DEF Bad
      <4>. QED  BY <3>1, MinimalSubset
    <3>. QED  BY <3>2
  <2>. DEFINE H == [u \in (SUBSET t) \ {t} |-> CHOOSE F : IsFold(F, u, base, pick, step)]
  <2>2. \A u \in (SUBSET t) \ {t} : IsFold(H[u], u, base, pick, step)
    <3>. SUFFICES ASSUME NEW u \in (SUBSET t) \ {t} PROVE IsFold(H[u], u, base, pick, step)
      OBVIOUS
    <3>1. \E F : IsFold(F, u, base, pick, step)
      BY <2>1 DEF Good
    <3>. QED  BY <3>1
  <2>. HIDE DEF H
  <2>. DEFINE W(s) == IF s = {} THEN base
                      ELSE step[pick[s]][H[s \ {pick[s]}][s \ {pick[s]}]]
              E == [s \in SUBSET t |-> W(s)]
  <2>3. \A u \in (SUBSET t) \ {t} : W(u) = H[u][u]
    <3>. SUFFICES ASSUME NEW u \in (SUBSET t) \ {t} PROVE W(u) = H[u][u]
      OBVIOUS
    <3>1. CASE u = {}
      BY <2>2, <3>1 DEF IsFold
    <3>2. CASE u # {}
      <4>. DEFINE r == u \ {pick[u]}
      <4>1. pick[u] \in u
        BY <3>2 DEF Picks
      <4>2. r \in (SUBSET t) \ {t} /\ r \subseteq u /\ r \in SUBSET S
        BY <4>1
      <4>3. H[u][u] = step[pick[u]][H[u][r]]
        BY <2>2, <3>2 DEF IsFold
      <4>. HIDE DEF r
      <4>4. IsFold(H[u], r, base, pick, step)
        BY <2>2, <4>2 DEF IsFold
      <4>5. IsFold(H[r], r, base, pick, step)
        BY <2>2, <4>2
      <4>6. IsFiniteSet(r) /\ Picks(pick, r)
        BY <4>2, FS_Subset DEF Picks
      <4>7. H[u][r] = H[r][r]
        BY <4>4, <4>5, <4>6, FoldUnique
      <4>. QED  BY <3>2, <4>3, <4>7 DEF r
    <3>. QED  BY <3>1, <3>2
  <2>4. \A s \in SUBSET t : E[s] = W(s)
    <3>. HIDE DEF W
    <3>. QED  OBVIOUS
  <2>5. IsFold(E, t, base, pick, step)
    <3>. SUFFICES ASSUME NEW s \in SUBSET t, s # {}
                  PROVE  W(s) = step[pick[s]][E[s \ {pick[s]}]]
      <4>. HIDE DEF E
      <4>. QED  BY <2>4 DEF IsFold
    <3>. DEFINE r == s \ {pick[s]}
    <3>1. r \in (SUBSET t) \ {t}
      BY DEF Picks
    <3>2. E[r] = H[r][r]
      BY <3>1, <2>3, <2>4
    <3>. HIDE DEF E
    <3>. QED  BY <3>2
  <2>. QED  BY <2>1, <2>5 DEF Good
<1>2. PICK F : IsFold(F, S, base, pick, step)
  BY <1>1
<1>. DEFINE R == [s \in SUBSET S |-> F[s]]
<1>3. R = [s \in SUBSET S |-> R[s]] /\ IsFold(R, S, base, pick, step)
  BY <1>2 DEF IsFold
<1>. QED  BY <1>3

-----------------------------------------------------------------------------
(***************************************************************************)
(* Sums of a function over finite sets.                                    *)
(***************************************************************************)
Chosen(s) == CHOOSE x \in s : TRUE

\* The recursion that SumFunctionOnSet is defined by.
LEMMA SumRecursion ==
  ASSUME NEW D, IsFiniteSet(D), NEW f \in [D -> Nat], NEW R \in SUBSET D
  PROVE  /\ SumFunctionOnSet(f, R) \in Nat
         /\ R = {} => SumFunctionOnSet(f, R) = 0
         /\ R # {} => SumFunctionOnSet(f, R) =
                         f[Chosen(R)] + SumFunctionOnSet(f, R \ {Chosen(R)})
<1>. DEFINE zero == 0
            pick == [s \in SUBSET D |-> Chosen(s)]
            step == [x \in D |-> [v \in Nat |-> f[x] + v]]
            Sum(F, S) == F = [s \in SUBSET S |-> IF s = {} THEN 0
                                                 ELSE f[Chosen(s)] + F[s \ {Chosen(s)}]]
<1>1. \A s \in (SUBSET D) \ {{}} : Chosen(s) \in s
  BY DEF Chosen
<1>2. Picks(pick, D) /\ \A x \in D, v \in Nat : step[x][v] \in Nat
  BY <1>1 DEF Picks
<1>3. ASSUME NEW S \in SUBSET D
      PROVE  /\ IsFiniteSet(S) /\ Picks(pick, S)
             /\ \E F : Sum(F, S)
             /\ \A F : Sum(F, S) => IsFold(F, S, zero, pick, step) /\ \A s \in SUBSET S : F[s] \in Nat
  <2>1. IsFiniteSet(S) /\ Picks(pick, S)
    BY <1>2, FS_Subset DEF Picks
  <2>. HIDE DEF zero, pick, step
  <2>2. PICK F : F = [s \in SUBSET S |-> F[s]] /\ IsFold(F, S, zero, pick, step)
    BY <2>1, FoldExists
  <2>3. IsFold(F, S, zero, pick, step)
    BY <2>2
  <2>4. \A s \in SUBSET S : F[s] \in Nat
    BY <1>2, <2>1, <2>3, FoldType DEF zero
  <2>5. \A s \in SUBSET S : s # {} => Chosen(s) \in s /\ s \ {Chosen(s)} \in SUBSET S /\ s \in SUBSET D
    BY <1>1
  <2>6. Sum(F, S)
    <3>1. \A s \in SUBSET S : F[s] = IF s = {} THEN 0 ELSE f[Chosen(s)] + F[s \ {Chosen(s)}]
      BY <2>3, <2>4, <2>5, ZenonT(60) DEF IsFold, zero, pick, step
    <3>. QED  BY <2>2, <3>1
  <2>7. ASSUME NEW G, Sum(G, S)
        PROVE  IsFold(G, S, zero, pick, step) /\ \A s \in SUBSET S : G[s] \in Nat
    <3>1. \A s \in SUBSET S : G[s] = IF s = {} THEN 0 ELSE f[Chosen(s)] + G[s \ {Chosen(s)}]
      BY <2>7
    <3>2. \A s \in SUBSET S : G[s] \in Nat
      <4>. SUFFICES ASSUME NEW b \in SUBSET S, G[b] \notin Nat PROVE FALSE
        OBVIOUS
      <4>. DEFINE Bad == {s \in SUBSET S : G[s] \notin Nat}
      <4>1. PICK t \in Bad : \A u \in Bad : u \subseteq t => u = t
        <5>1. Bad \subseteq SUBSET S /\ b \in Bad
          OBVIOUS
        <5>. HIDE DEF Bad
        <5>. QED  BY <2>1, <5>1, MinimalSubset
      <4>2. t \in SUBSET S /\ G[t] \notin Nat /\ t # {}
        <5>1. t \in SUBSET S /\ G[t] \notin Nat
          BY <4>1
        <5>2. G[{}] = 0
          BY <3>1
        <5>. QED  BY <5>1, <5>2
      <4>3. Chosen(t) \in t /\ t \ {Chosen(t)} \in SUBSET S
        BY <2>5, <4>2
      <4>4. G[t \ {Chosen(t)}] \in Nat
        BY <4>1, <4>3
      <4>5. G[t] = f[Chosen(t)] + G[t \ {Chosen(t)}]
        BY <3>1, <4>2
      <4>6. f[Chosen(t)] \in Nat
        BY <4>2, <4>3
      <4>. QED  BY <4>2, <4>4, <4>5, <4>6
    <3>3. ASSUME NEW s \in SUBSET S, s # {}
          PROVE  G[s] = step[pick[s]][G[s \ {pick[s]}]]
      <4>1. pick[s] = Chosen(s) /\ Chosen(s) \in D /\ s \ {Chosen(s)} \in SUBSET S
        BY <2>5, <3>3 DEF pick
      <4>2. G[s \ {Chosen(s)}] \in Nat
        BY <3>2, <4>1
      <4>3. G[s] = f[Chosen(s)] + G[s \ {Chosen(s)}]
        BY <3>1, <3>3
      <4>. QED  BY <4>1, <4>2, <4>3 DEF step
    <3>4. G[{}] = zero
      BY <3>1 DEF zero
    <3>. QED  BY <3>2, <3>3, <3>4 DEF IsFold
  <2>. QED  BY <2>1, <2>6, <2>7
<1>4. PICK F : Sum(F, D)
  BY <1>3, Zenon
<1>5. ASSUME NEW T \in SUBSET D
      PROVE  SumFunctionOnSet(f, T) = F[T]
  <2>. DEFINE G == CHOOSE H : Sum(H, T)
  <2>1. Sum(G, T)
    BY <1>3, Zenon
  <2>2. SumFunctionOnSet(f, T) = G[T]
    BY DEF SumFunctionOnSet, FoldFunctionOnSet, MapThenFoldSet, Chosen
  <2>. HIDE DEF G
  <2>3. IsFold(G, T, zero, pick, step)
    BY <1>3, <2>1, Zenon
  <2>4. IsFold(F, T, zero, pick, step)
    <3>1. IsFold(F, D, zero, pick, step)
      BY <1>3, <1>4, Zenon
    <3>. QED  BY <3>1 DEF IsFold
  <2>5. G[T] = F[T]
    <3>1. IsFiniteSet(T) /\ Picks(pick, T)
      BY <1>3, Zenon
    <3>. HIDE DEF zero, pick, step, Sum
    <3>. QED  BY <2>3, <2>4, <3>1, FoldUnique
  <2>. QED  BY <2>2, <2>5
<1>6. \A s \in SUBSET D : F[s] \in Nat
  BY <1>3, <1>4, Zenon
<1>7. /\ R = {} => F[R] = 0
      /\ R # {} => F[R] = f[Chosen(R)] + F[R \ {Chosen(R)}]
  BY <1>4
<1>. HIDE DEF Sum
<1>. QED  BY <1>5, <1>6, <1>7

\* Any member may be the one taken out first.
LEMMA SumRemove ==
  ASSUME NEW D, IsFiniteSet(D), NEW f \in [D -> Nat], NEW S \in SUBSET D, NEW x \in S
  PROVE  SumFunctionOnSet(f, S) = f[x] + SumFunctionOnSet(f, S \ {x})
<1>. DEFINE F == [s \in SUBSET D |-> SumFunctionOnSet(f, s)]
            Takes(s) == \A y \in s : F[s] = f[y] + F[s \ {y}]
            Bad == {s \in SUBSET D : ~Takes(s)}
<1>1. \A s \in SUBSET D : F[s] \in Nat /\ (s # {} => F[s] = f[Chosen(s)] + F[s \ {Chosen(s)}])
  BY SumRecursion
<1>. HIDE DEF F
<1>2. Bad = {}
  <2>. SUFFICES ASSUME Bad # {} PROVE FALSE
    OBVIOUS
  <2>1. PICK t \in Bad : \A u \in Bad : u \subseteq t => u = t
    <3>1. Bad \subseteq SUBSET D
      OBVIOUS
    <3>. HIDE DEF Bad
    <3>. QED  BY <3>1, MinimalSubset
  <2>2. t \in SUBSET D /\ \A u \in SUBSET D : u \subseteq t /\ u # t => Takes(u)
    <3>. HIDE DEF Takes
    <3>. QED  BY <2>1
  <2>3. PICK y \in t : F[t] # f[y] + F[t \ {y}]
    BY <2>1
  <2>. DEFINE c == Chosen(t)
              s == t \ {c}
              r == t \ {y}
              q == t \ {c, y}
  <2>4. c \in t
    BY DEF Chosen
  <2>5. F[t] = f[c] + F[s]
    BY <1>1, <2>2, <2>4
  <2>6. c # y
    BY <2>3, <2>5
  <2>. HIDE DEF c
  <2>7. F[s] = f[y] + F[q]
    <3>1. F[s] = f[y] + F[s \ {y}]
      BY <2>2, <2>4, <2>6
    <3>2. s \ {y} = q
      OBVIOUS
    <3>. QED  BY <3>1, <3>2
  <2>8. F[r] = f[c] + F[q]
    <3>1. F[r] = f[c] + F[r \ {c}]
      BY <2>2, <2>4, <2>6
    <3>2. r \ {c} = q
      OBVIOUS
    <3>. QED  BY <3>1, <3>2
  <2>9. f[c] \in Nat /\ f[y] \in Nat /\ F[q] \in Nat
    <3>1. c \in D /\ y \in D /\ q \in SUBSET D
      BY <2>2, <2>4
    <3>. HIDE DEF q
    <3>. QED  BY <1>1, <3>1
  <2>. HIDE DEF s, r, q
  <2>11. F[t] = f[y] + F[r]
    BY <2>5, <2>7, <2>8, <2>9
  <2>. QED  BY <2>3, <2>11 DEF r
<1>3. F[S] = f[x] + F[S \ {x}]
  BY <1>2
<1>. QED  BY <1>3 DEF F

\* Functions that agree on a set have the same sum over it.
LEMMA SumSame ==
  ASSUME NEW D, IsFiniteSet(D), NEW f \in [D -> Nat], NEW g \in [D -> Nat],
         NEW S \in SUBSET D, \A x \in S : f[x] = g[x]
  PROVE  SumFunctionOnSet(f, S) = SumFunctionOnSet(g, S)
<1>. DEFINE Bad == {s \in SUBSET S : SumFunctionOnSet(f, s) # SumFunctionOnSet(g, s)}
<1>. SUFFICES ASSUME Bad # {} PROVE FALSE
  OBVIOUS
<1>1. PICK t \in Bad : \A u \in Bad : u \subseteq t => u = t
  <2>1. Bad \subseteq SUBSET S /\ IsFiniteSet(S)
    BY FS_Subset
  <2>. HIDE DEF Bad
  <2>. QED  BY <2>1, MinimalSubset
<1>2. t \in SUBSET S /\ t \in SUBSET D /\ SumFunctionOnSet(f, t) # SumFunctionOnSet(g, t)
  BY <1>1
<1>3. t # {}
  BY <1>2, SumRecursion
<1>4. PICK x : x \in t
  BY <1>3
<1>5. SumFunctionOnSet(f, t \ {x}) = SumFunctionOnSet(g, t \ {x})
  BY <1>1, <1>2, <1>4
<1>6. /\ SumFunctionOnSet(f, t) = f[x] + SumFunctionOnSet(f, t \ {x})
      /\ SumFunctionOnSet(g, t) = g[x] + SumFunctionOnSet(g, t \ {x})
  BY <1>2, <1>4, SumRemove
<1>7. f[x] = g[x]
  BY <1>2, <1>4
<1>. QED  BY <1>2, <1>5, <1>6, <1>7

\* A sum over a set is the sum over a part of it and over the rest.
LEMMA SumSplit ==
  ASSUME NEW D, IsFiniteSet(D), NEW f \in [D -> Nat], NEW S \in SUBSET D, NEW T \in SUBSET S
  PROVE  SumFunctionOnSet(f, S) = SumFunctionOnSet(f, T) + SumFunctionOnSet(f, S \ T)
<1>. DEFINE Bad == {t \in SUBSET T :
               SumFunctionOnSet(f, S) # SumFunctionOnSet(f, t) + SumFunctionOnSet(f, S \ t)}
<1>. SUFFICES ASSUME Bad # {} PROVE FALSE
  OBVIOUS
<1>1. PICK t \in Bad : \A u \in Bad : u \subseteq t => u = t
  <2>1. Bad \subseteq SUBSET T /\ IsFiniteSet(T)
    BY FS_Subset
  <2>. HIDE DEF Bad
  <2>. QED  BY <2>1, MinimalSubset
<1>2. /\ t \in SUBSET S /\ t \in SUBSET D
      /\ SumFunctionOnSet(f, S) # SumFunctionOnSet(f, t) + SumFunctionOnSet(f, S \ t)
  BY <1>1
<1>3. t # {}
  <2>1. SumFunctionOnSet(f, {}) = 0 /\ SumFunctionOnSet(f, S) \in Nat /\ S \ {} = S
    BY SumRecursion, SumRecursion
  <2>. QED  BY <1>2, <2>1, SMTT(30)
<1>4. PICK x : x \in t
  BY <1>3
<1>. DEFINE u == t \ {x}
<1>5. SumFunctionOnSet(f, S) = SumFunctionOnSet(f, u) + SumFunctionOnSet(f, S \ u)
  BY <1>1, <1>2, <1>4
<1>6. SumFunctionOnSet(f, t) = f[x] + SumFunctionOnSet(f, u)
  BY <1>2, <1>4, SumRemove
<1>7. SumFunctionOnSet(f, S \ u) = f[x] + SumFunctionOnSet(f, S \ t)
  <2>1. x \in S \ u /\ (S \ u) \ {x} = S \ t /\ S \ u \in SUBSET D
    BY <1>2, <1>4
  <2>2. SumFunctionOnSet(f, S \ u) = f[x] + SumFunctionOnSet(f, (S \ u) \ {x})
    BY <2>1, SumRemove
  <2>. QED  BY <2>1, <2>2
<1>8. /\ SumFunctionOnSet(f, u) \in Nat /\ SumFunctionOnSet(f, S \ t) \in Nat /\ f[x] \in Nat
  BY <1>2, <1>4, SumRecursion
<1>. HIDE DEF u
<1>. QED  BY <1>2, <1>5, <1>6, <1>7, <1>8

\* The sum of zeros.
LEMMA SumZero ==
  ASSUME NEW D, IsFiniteSet(D), NEW f \in [D -> Nat], NEW S \in SUBSET D, \A x \in S : f[x] = 0
  PROVE  SumFunctionOnSet(f, S) = 0
<1>. DEFINE Bad == {s \in SUBSET S : SumFunctionOnSet(f, s) # 0}
<1>. SUFFICES ASSUME Bad # {} PROVE FALSE
  OBVIOUS
<1>1. PICK t \in Bad : \A u \in Bad : u \subseteq t => u = t
  <2>1. Bad \subseteq SUBSET S /\ IsFiniteSet(S)
    BY FS_Subset
  <2>. HIDE DEF Bad
  <2>. QED  BY <2>1, MinimalSubset
<1>2. t \in SUBSET S /\ t \in SUBSET D /\ SumFunctionOnSet(f, t) # 0
  BY <1>1
<1>3. t # {}
  BY <1>2, SumRecursion
<1>4. PICK x : x \in t
  BY <1>3
<1>5. SumFunctionOnSet(f, t \ {x}) = 0 /\ f[x] = 0
  BY <1>1, <1>2, <1>4
<1>6. SumFunctionOnSet(f, t) = f[x] + SumFunctionOnSet(f, t \ {x})
  BY <1>2, <1>4, SumRemove
<1>. QED  BY <1>2, <1>5, <1>6

-----------------------------------------------------------------------------
\* One tick later a reading is one older, unless the clock came round to it.
LEMMA ClockStep ==
  ASSUME NEW c \in Nat \ {0}, NEW t \in 0 .. c - 1, NEW a \in 0 .. c - 1,
         (t + c - a) % c < c - 1
  PROVE  (((t + 1) % c) + c - a) % c = ((t + c - a) % c) + 1
<1>1. CASE t + 1 = c
  BY <1>1
<1>2. CASE t + 1 < c
  BY <1>2
<1>. QED  BY <1>1, <1>2

\* A reading of the clock has no age yet.
LEMMA AgeZero ==
  ASSUME NEW c \in Nat \ {0}, NEW t \in 0 .. c - 1
  PROVE  (t + c - t) % c = 0
  OBVIOUS

\* A reading of c - 1 ticks ago looks new when the clock comes round to it.
LEMMA ClockRound ==
  ASSUME NEW c \in Nat \ {0}, NEW t \in 0 .. c - 1, NEW a \in 0 .. c - 1,
         ~((t + c - a) % c < c - 1)
  PROVE  (((t + 1) % c) + c - a) % c = 0
<1>1. CASE t + 1 = c
  BY <1>1
<1>2. CASE t + 1 < c
  BY <1>2
<1>. QED  BY <1>1, <1>2

LEMMA ClockType ==
  ASSUME NEW c \in Nat \ {0}, NEW t \in 0 .. c - 1, NEW a \in 0 .. c - 1
  PROVE  (t + c - a) % c \in 0 .. c - 1
  OBVIOUS

LEMMA ModLess ==
  ASSUME NEW x \in Nat, NEW c \in Nat \ {0}
  PROVE  x % c \in Nat /\ x % c <= x
<1>1. CASE x < c
  BY <1>1
<1>2. CASE x >= c
  <2>1. x % c \in 0 .. c - 1
    OBVIOUS
  <2>. QED  BY <1>2, <2>1
<1>. QED  BY <1>1, <1>2

LEMMA TimesNext ==
  ASSUME NEW a \in Nat, NEW r \in Nat
  PROVE  a * r \in Nat /\ (a + 1) * r = a * r + r /\ 0 * r = 0
  OBVIOUS

LEMMA TimesMore ==
  ASSUME NEW a \in Nat, NEW b \in Nat \ {0}
  PROVE  a <= a * b
  OBVIOUS

LEMMA TimesWithin ==
  ASSUME NEW a \in Nat, NEW b \in Nat \ {0}, NEW x \in Nat, a * b <= x
  PROVE  a <= x \div b
<1>. DEFINE d == x \div b
<1>1. d \in Nat /\ x < (d + 1) * b
  OBVIOUS
<1>. HIDE DEF d
<1>2. CASE d + 1 <= a
  <2>1. (d + 1) * b <= a * b
    BY <1>1, <1>2
  <2>. QED  BY <1>1, <2>1
<1>. QED  BY <1>1, <1>2 DEF d

LEMMA ModOnce ==
  ASSUME NEW n \in Nat \ {0}, NEW x \in Nat, x < n + n
  PROVE  x % n = IF x < n THEN x ELSE x - n
  OBVIOUS

LEMMA ClockNext ==
  ASSUME NEW c \in Nat \ {0}, NEW t \in 0 .. c - 1
  PROVE  (t + 1) % c = IF t + 1 = c THEN 0 ELSE t + 1
  OBVIOUS

-----------------------------------------------------------------------------
(***************************************************************************)
(* Sums of the first elements of a list.                                   *)
(***************************************************************************)
Prefix(f, k) == SumFunctionOnSet(f, 1 .. k)

LEMMA PrefixNext ==
  ASSUME NEW n \in Nat, NEW f \in [1 .. n -> Nat], NEW k \in 0 .. n
  PROVE  /\ Prefix(f, k) \in Nat
         /\ Prefix(f, 0) = 0
         /\ k < n => Prefix(f, k + 1) = Prefix(f, k) + f[k + 1]
         /\ Prefix(f, n) = SumFunction(f)
<1>1. IsFiniteSet(1 .. n) /\ 1 .. k \subseteq 1 .. n /\ 1 .. 0 = {}
  BY FS_Interval
<1>2. Prefix(f, k) \in Nat
  BY <1>1, SumRecursion DEF Prefix
<1>3. Prefix(f, 0) = 0
  <2>1. SumFunctionOnSet(f, {}) = 0
    BY <1>1, SumRecursion
  <2>. QED  BY <1>1, <2>1 DEF Prefix
<1>4. ASSUME k < n PROVE Prefix(f, k + 1) = Prefix(f, k) + f[k + 1]
  <2>1. 1 .. k + 1 \subseteq 1 .. n /\ k + 1 \in 1 .. k + 1 /\ (1 .. k + 1) \ {k + 1} = 1 .. k
    BY <1>4
  <2>2. SumFunctionOnSet(f, 1 .. k + 1) = f[k + 1] + SumFunctionOnSet(f, (1 .. k + 1) \ {k + 1})
    BY <1>1, <2>1, SumRemove
  <2>3. f[k + 1] \in Nat
    BY <2>1
  <2>4. SumFunctionOnSet(f, (1 .. k + 1) \ {k + 1}) = Prefix(f, k)
    BY <2>1 DEF Prefix
  <2>5. SumFunctionOnSet(f, 1 .. k + 1) = Prefix(f, k + 1)
    BY DEF Prefix
  <2>. QED  BY <1>2, <2>2, <2>3, <2>4, <2>5
<1>5. Prefix(f, n) = SumFunction(f)
  <2>1. DOMAIN f = 1 .. n
    OBVIOUS
  <2>. QED  BY <2>1 DEF Prefix, SumFunction
<1>. QED  BY <1>2, <1>3, <1>4, <1>5

LEMMA SumMore ==
  ASSUME NEW D, IsFiniteSet(D), NEW f \in [D -> Nat], NEW S \in SUBSET D, NEW T \in SUBSET S
  PROVE  SumFunctionOnSet(f, T) <= SumFunctionOnSet(f, S)
<1>1. SumFunctionOnSet(f, S) = SumFunctionOnSet(f, T) + SumFunctionOnSet(f, S \ T)
  BY SumSplit
<1>2. S \ T \in SUBSET D /\ T \in SUBSET D
  OBVIOUS
<1>3. SumFunctionOnSet(f, S \ T) \in Nat /\ SumFunctionOnSet(f, T) \in Nat
  BY <1>2, SumRecursion
<1>. QED  BY <1>1, <1>3

LEMMA PrefixMore ==
  ASSUME NEW n \in Nat, NEW f \in [1 .. n -> Nat], NEW k \in 0 .. n, NEW j \in 0 .. k
  PROVE  Prefix(f, j) <= Prefix(f, k)
<1>1. IsFiniteSet(1 .. n) /\ 1 .. k \in SUBSET (1 .. n) /\ 1 .. j \in SUBSET (1 .. k)
  BY FS_Interval
<1>2. SumFunctionOnSet(f, 1 .. j) <= SumFunctionOnSet(f, 1 .. k)
  BY <1>1, SumMore, Zenon
<1>. QED  BY <1>2 DEF Prefix

\* A list moved up by d places keeps its sums.
LEMMA PrefixShift ==
  ASSUME NEW n \in Nat, NEW d \in 0 .. n, NEW f \in [1 .. n -> Nat], NEW g \in [1 .. n -> Nat],
         \A i \in d + 1 .. n : g[i] = f[i - d]
  PROVE  \A k \in 0 .. n - d : Prefix(g, k + d) = Prefix(g, d) + Prefix(f, k)
<1>. DEFINE Bad == {k \in 0 .. n - d : Prefix(g, k + d) # Prefix(g, d) + Prefix(f, k)}
<1>. SUFFICES ASSUME Bad # {} PROVE FALSE
  OBVIOUS
<1>1. PICK k \in Bad : \A j \in Bad : k <= j
  <2>1. Bad \subseteq Nat
    OBVIOUS
  <2>. QED  BY <2>1, LeastOf
<1>2. k \in 0 .. n - d /\ Prefix(g, k + d) # Prefix(g, d) + Prefix(f, k)
  OBVIOUS
<1>3. Prefix(g, d) \in Nat /\ Prefix(f, 0) = 0
  BY PrefixNext
<1>4. k # 0
  BY <1>2, <1>3
<1>. DEFINE j == k - 1
<1>5. j \in 0 .. n - d /\ j + 1 = k /\ j < n - d /\ j + d \in 0 .. n /\ j + d < n /\ j \in 0 .. n /\ j < n
      /\ (j + d) + 1 = k + d
  BY <1>2, <1>4
<1>6. j \notin Bad
  BY <1>1, <1>5
<1>7. Prefix(g, j + d) = Prefix(g, d) + Prefix(f, j)
  BY <1>5, <1>6
<1>. HIDE DEF Bad
<1>8. Prefix(g, k + d) = Prefix(g, j + d) + g[k + d]
  <2>1. Prefix(g, (j + d) + 1) = Prefix(g, j + d) + g[(j + d) + 1]
    BY <1>5, PrefixNext
  <2>. QED  BY <1>5, <2>1
<1>9. Prefix(f, k) = Prefix(f, j) + f[k]
  <2>1. Prefix(f, j + 1) = Prefix(f, j) + f[j + 1]
    BY <1>5, PrefixNext
  <2>. QED  BY <1>5, <2>1
<1>10. g[k + d] = f[k] /\ f[k] \in Nat
  <2>1. k + d \in d + 1 .. n /\ (k + d) - d = k /\ k \in 1 .. n
    BY <1>2, <1>4
  <2>2. g[k + d] = f[(k + d) - d]
    BY <2>1
  <2>. QED  BY <2>1, <2>2
<1>11. Prefix(f, j) \in Nat
  BY <1>5, PrefixNext
<1>. QED  BY <1>2, <1>3, <1>7, <1>8, <1>9, <1>10, <1>11

LEMMA PrefixFirst ==
  ASSUME NEW n \in Nat, NEW f \in [1 .. n -> Nat], NEW k \in 1 .. n
  PROVE  /\ Prefix(f, k) = f[1] + SumFunctionOnSet(f, (1 .. k) \ {1})
         /\ SumFunctionOnSet(f, (1 .. k) \ {1}) \in Nat
<1>1. IsFiniteSet(1 .. n) /\ 1 .. k \subseteq 1 .. n /\ 1 \in 1 .. k /\ (1 .. k) \ {1} \subseteq 1 .. n
  BY FS_Interval
<1>2. SumFunctionOnSet(f, 1 .. k) = f[1] + SumFunctionOnSet(f, (1 .. k) \ {1})
  BY <1>1, SumRemove, SMTT(30)
<1>3. SumFunctionOnSet(f, (1 .. k) \ {1}) \in Nat
  BY <1>1, SumRecursion
<1>. QED  BY <1>2, <1>3 DEF Prefix

LEMMA PrefixAdd ==
  ASSUME NEW n \in Nat, NEW f \in [1 .. n -> Nat], NEW w \in Nat, NEW k \in 1 .. n,
         NEW g \in [1 .. n -> Nat], g[1] = f[1] + w, \A y \in 2 .. n : g[y] = f[y]
  PROVE  Prefix(g, k) = Prefix(f, k) + w
<1>1. IsFiniteSet(1 .. n) /\ (1 .. k) \ {1} \subseteq 1 .. n /\ \A y \in (1 .. k) \ {1} : f[y] = g[y]
  <2>1. IsFiniteSet(1 .. n)
    BY FS_Interval
  <2>2. (1 .. k) \ {1} \subseteq 2 .. n /\ (1 .. k) \ {1} \subseteq 1 .. n
    OBVIOUS
  <2>. QED  BY <2>1, <2>2
<1>2. SumFunctionOnSet(f, (1 .. k) \ {1}) = SumFunctionOnSet(g, (1 .. k) \ {1})
  BY <1>1, SumSame, SMTT(60)
<1>3. /\ Prefix(f, k) = f[1] + SumFunctionOnSet(f, (1 .. k) \ {1})
      /\ SumFunctionOnSet(f, (1 .. k) \ {1}) \in Nat
  BY PrefixFirst
<1>4. Prefix(g, k) = g[1] + SumFunctionOnSet(g, (1 .. k) \ {1})
  BY PrefixFirst
<1>5. f[1] \in Nat
  OBVIOUS
<1>. QED  BY <1>2, <1>3, <1>4, <1>5

LEMMA PrefixZero ==
  ASSUME NEW n \in Nat, NEW f \in [1 .. n -> Nat], \A i \in 1 .. n : f[i] = 0, NEW k \in 0 .. n
  PROVE  Prefix(f, k) = 0
<1>1. IsFiniteSet(1 .. n) /\ 1 .. k \in SUBSET (1 .. n) /\ \A x \in 1 .. k : f[x] = 0
  BY FS_Interval
<1>. QED  BY <1>1, SumZero DEF Prefix

\* The list of the last n entries, when d new ones come in front.
Recent(new, f, n) == SubSeq(new \o f, 1, n)

LEMMA PushedFront ==
  ASSUME NEW n \in Nat, NEW d \in 0 .. n, NEW f \in Seq(Nat), NEW new \in Seq(Nat),
         Len(f) = n, Len(new) = d
  PROVE  /\ Recent(new, f, n) \in Seq(Nat) /\ Len(Recent(new, f, n)) = n
         /\ Recent(new, f, n) \in [1 .. n -> Nat]
         /\ \A i \in 1 .. d : Recent(new, f, n)[i] = new[i]
         /\ \A i \in d + 1 .. n : Recent(new, f, n)[i] = f[i - d]
<1>. DEFINE c == new \o f
            g == SubSeq(c, 1, n)
<1>1. c \in Seq(Nat) /\ Len(c) = d + n
      /\ \A i \in 1 .. d + n : c[i] = IF i <= d THEN new[i] ELSE f[i - d]
  BY ConcatProperties
<1>. HIDE DEF c
<1>2. ASSUME NEW i \in 1 .. d PROVE c[i] = new[i]
  <2>1. i \in 1 .. d + n /\ i <= d
    OBVIOUS
  <2>. QED  BY <1>1, <2>1
<1>3. ASSUME NEW i \in d + 1 .. n PROVE c[i] = f[i - d]
  <2>1. i \in 1 .. d + n /\ ~(i <= d)
    OBVIOUS
  <2>. QED  BY <1>1, <2>1
<1>4. g \in Seq(Nat) /\ Len(g) = n /\ \A i \in 1 .. n : g[i] = c[i]
  <2>1. \A i \in 1 .. n : c[i] \in Nat
    BY <1>1, SMTT(30)
  <2>2. /\ g \in Seq(Nat)
        /\ Len(g) = IF 1 <= n THEN n - 1 + 1 ELSE 0
        /\ \A i \in 1 .. n - 1 + 1 : g[i] = c[1 + i - 1]
    BY <2>1, SubSeqProperties
  <2>3. \A i \in 1 .. n : g[i] = c[i]
    <3>. SUFFICES ASSUME NEW i \in 1 .. n PROVE g[i] = c[i]
      OBVIOUS
    <3>1. i \in 1 .. n - 1 + 1 /\ 1 + i - 1 = i
      OBVIOUS
    <3>. QED  BY <2>2, <3>1
  <2>. QED  BY <2>2, <2>3
<1>. HIDE DEF g
<1>5. g \in [1 .. n -> Nat]
  BY <1>4
<1>6. Recent(new, f, n) = g
  BY DEF Recent, g, c
<1>7. /\ \A i \in 1 .. d : g[i] = new[i]
      /\ \A i \in d + 1 .. n : g[i] = f[i - d]
  <2>1. 1 .. d \subseteq 1 .. n /\ d + 1 .. n \subseteq 1 .. n
    OBVIOUS
  <2>. QED  BY <1>2, <1>3, <1>4, <2>1
<1>. QED  BY <1>4, <1>5, <1>6, <1>7

InFront(x, f, n) == SubSeq(<<x>> \o f, 1, n)

LEMMA PushedOne ==
  ASSUME NEW n \in Nat \ {0}, NEW f \in Seq(Nat), NEW x \in Nat, Len(f) = n
  PROVE  /\ InFront(x, f, n) \in Seq(Nat) /\ Len(InFront(x, f, n)) = n
         /\ InFront(x, f, n) \in [1 .. n -> Nat] /\ InFront(x, f, n)[1] = x
         /\ \A i \in 2 .. n : InFront(x, f, n)[i] = f[i - 1]
<1>. DEFINE new == <<x>>
            d == 1
            g == InFront(x, f, n)
<1>1. new \in Seq(Nat) /\ Len(new) = d /\ new[1] = x /\ d \in 0 .. n /\ n \in Nat
  OBVIOUS
<1>2. g = Recent(new, f, n)
  BY DEF InFront, Recent
<1>3. 1 \in 1 .. d /\ 2 .. n = d + 1 .. n /\ d = 1
  OBVIOUS
<1>. HIDE DEF new, d, g
<1>4. /\ g \in Seq(Nat) /\ Len(g) = n /\ g \in [1 .. n -> Nat]
      /\ \A i \in 1 .. d : g[i] = new[i]
      /\ \A i \in d + 1 .. n : g[i] = f[i - d]
  <2>. DEFINE h == Recent(new, f, n)
  <2>1. /\ h \in Seq(Nat) /\ Len(h) = n /\ h \in [1 .. n -> Nat]
        /\ \A i \in 1 .. d : h[i] = new[i]
        /\ \A i \in d + 1 .. n : h[i] = f[i - d]
    BY <1>1, PushedFront, SMTT(60)
  <2>. HIDE DEF h
  <2>2. g = h
    BY <1>2 DEF h
  <2>. QED  BY <2>1, <2>2
<1>5. g[1] = x
  BY <1>1, <1>3, <1>4
<1>6. \A i \in 2 .. n : g[i] = f[i - 1]
  BY <1>3, <1>4
<1>. QED  BY <1>4, <1>5, <1>6 DEF g

-----------------------------------------------------------------------------
(***************************************************************************)
(* Remainders, the places of a circle, and sums that differ in places.     *)
(***************************************************************************)
LEMMA TimesMono ==
  ASSUME NEW c \in Nat, NEW a \in Int, NEW b \in Int, a < b
  PROVE  a * c + c <= b * c
<1>1. (b - a - 1) * c >= 0
  OBVIOUS
<1>. QED  BY <1>1

LEMMA DivMod ==
  ASSUME NEW c \in Nat \ {0}, NEW a \in Nat
  PROVE  /\ a \div c \in Nat /\ a % c \in 0 .. c - 1
         /\ (a \div c) * c \in Nat /\ a = (a \div c) * c + (a % c)
  OBVIOUS

LEMMA ModUnique ==
  ASSUME NEW c \in Nat \ {0}, NEW p \in Int, NEW q \in Int, NEW r \in 0 .. c - 1, NEW s \in 0 .. c - 1,
         p * c + r = q * c + s
  PROVE  r = s /\ p = q
<1>1. CASE p < q
  BY <1>1, TimesMono
<1>2. CASE q < p
  BY <1>2, TimesMono
<1>3. CASE q = p
  BY <1>3
<1>. QED  BY <1>1, <1>2, <1>3

\* What is r above a multiple of c has remainder r.
LEMMA ModOf ==
  ASSUME NEW c \in Nat \ {0}, NEW a \in Nat, NEW q \in Int, NEW r \in 0 .. c - 1, a = q * c + r
  PROVE  a % c = r
<1>. DEFINE p == a \div c
            y == a % c
<1>1. p \in Nat /\ y \in 0 .. c - 1 /\ a = p * c + y
  BY DivMod
<1>. HIDE DEF p, y
<1>2. p \in Int /\ p * c + y = q * c + r
  BY <1>1
<1>3. y = r
  BY <1>1, <1>2, ModUnique
<1>. QED  BY <1>3 DEF y

\* The places of a circle of c, by how far behind place s they are.
Back(c, s, i) == (s + c - i) % c

LEMMA BackType ==
  ASSUME NEW c \in Nat \ {0}, NEW s \in Nat, NEW i \in 0 .. c - 1
  PROVE  /\ Back(c, s, i) \in 0 .. c - 1
         /\ (s + (c - Back(c, s, i))) % c = i
         /\ \A d \in Nat : Back(c, s, i) + d < c => Back(c, s + d, i) = Back(c, s, i) + d
<1>. DEFINE a == s + c - i
            y == a % c
            q == a \div c
<1>0. a \in Nat /\ a = s + c - i
  OBVIOUS
<1>2. Back(c, s, i) = y
  BY DEF Back
<1>. HIDE DEF a
<1>1. a \in Nat /\ y \in 0 .. c - 1 /\ q \in Nat /\ q * c \in Nat /\ a = q * c + y
  BY <1>0, DivMod
<1>. HIDE DEF y, q
<1>3. s + (c - y) = q * c + i /\ s + (c - y) \in Nat
  BY <1>0, <1>1
<1>4. (s + (c - y)) % c = i
  <2>. DEFINE b == s + (c - y)
  <2>1. b \in Nat /\ b = q * c + i /\ q \in Int
    BY <1>1, <1>3
  <2>. HIDE DEF b
  <2>2. b % c = i
    BY <2>1, ModOf
  <2>. QED  BY <2>2 DEF b
<1>5. ASSUME NEW d \in Nat, y + d < c PROVE Back(c, s + d, i) = y + d
  <2>. DEFINE b == (s + d) + c - i
              z == y + d
  <2>1. b \in Nat /\ b = q * c + z /\ z \in 0 .. c - 1 /\ q \in Int
    BY <1>0, <1>1, <1>5
  <2>. HIDE DEF b, z
  <2>2. b % c = z
    BY <2>1, ModOf
  <2>. QED  BY <2>2 DEF Back, b, z
<1>. QED  BY <1>1, <1>2, <1>4, <1>5

LEMMA BackHere ==
  ASSUME NEW c \in Nat \ {0}, NEW s \in Nat
  PROVE  s % c \in 0 .. c - 1 /\ Back(c, s, s % c) = 0
<1>. DEFINE y == s % c
            q == s \div c
<1>1. y \in 0 .. c - 1 /\ q \in Nat /\ s = q * c + y
  BY DivMod
<1>. HIDE DEF y, q
<1>2. s + c - y \in Nat /\ s + c - y = (q + 1) * c + 0 /\ 0 \in 0 .. c - 1 /\ q + 1 \in Int
  BY <1>1
<1>3. (s + c - y) % c = 0
  <2>. DEFINE b == s + c - y
              z == 0
              p == q + 1
  <2>1. b \in Nat /\ b = p * c + z /\ z \in 0 .. c - 1 /\ p \in Int
    BY <1>1, <1>2
  <2>. HIDE DEF b, z, p
  <2>2. b % c = z
    BY <2>1, ModOf
  <2>. QED  BY <2>2 DEF b, z
<1>. QED  BY <1>1, <1>3 DEF Back, y

\* Clearing the places between s and s + d leaves those that d more steps keep on the circle.
LEMMA BackKept ==
  ASSUME NEW c \in Nat \ {0}, NEW s \in Nat, NEW i \in 0 .. c - 1, NEW d \in Nat,
         \A e \in 1 .. (IF d > c THEN c ELSE d) : (s + e) % c # i
  PROVE  Back(c, s, i) + d < c /\ Back(c, s + d, i) = Back(c, s, i) + d
<1>. DEFINE y == Back(c, s, i)
            e == c - y
<1>1. y \in 0 .. c - 1 /\ (s + e) % c = i /\ \A x \in Nat : y + x < c => Back(c, s + x, i) = y + x
  BY BackType
<1>. HIDE DEF y
<1>2. e \in 1 .. c
  BY <1>1
<1>3. ~(e \in 1 .. (IF d > c THEN c ELSE d))
  BY <1>1
<1>4. y + d < c
  BY <1>1, <1>2, <1>3
<1>. QED  BY <1>1, <1>4 DEF y

\* A sum with one summand raised.
LEMMA SumAdd ==
  ASSUME NEW D, IsFiniteSet(D), NEW f \in [D -> Nat], NEW g \in [D -> Nat], NEW S \in SUBSET D,
         NEW x \in D, NEW w \in Nat, g[x] = f[x] + w, \A y \in D \ {x} : g[y] = f[y]
  PROVE  SumFunctionOnSet(g, S) <= SumFunctionOnSet(f, S) + w
<1>0. SumFunctionOnSet(f, S) \in Nat
  BY SumRecursion
<1>1. CASE x \in S
  <2>1. S \ {x} \in SUBSET D /\ \A y \in S \ {x} : g[y] = f[y]
    OBVIOUS
  <2>2. SumFunctionOnSet(g, S \ {x}) = SumFunctionOnSet(f, S \ {x})
    BY <2>1, SumSame
  <2>3. SumFunctionOnSet(g, S \ {x}) \in Nat
    BY <2>1, SumRecursion
  <2>4. SumFunctionOnSet(f, S) = f[x] + SumFunctionOnSet(f, S \ {x})
    BY <1>1, SumRemove
  <2>5. SumFunctionOnSet(g, S) = g[x] + SumFunctionOnSet(g, S \ {x})
    BY <1>1, SumRemove
  <2>6. f[x] \in Nat
    OBVIOUS
  <2>. QED  BY <2>2, <2>3, <2>4, <2>5, <2>6
<1>2. CASE x \notin S
  <2>1. \A y \in S : g[y] = f[y]
    BY <1>2
  <2>2. SumFunctionOnSet(g, S) = SumFunctionOnSet(f, S)
    BY <2>1, SumSame
  <2>. QED  BY <1>0, <2>2
<1>. QED  BY <1>1, <1>2

\* Where g is f or nothing, and what counts for g counts for f, g has the smaller sum.
LEMMA SumLess ==
  ASSUME NEW D, IsFiniteSet(D), NEW f \in [D -> Nat], NEW g \in [D -> Nat],
         NEW S \in SUBSET D, NEW T \in SUBSET D,
         \A x \in S : g[x] = 0 \/ (g[x] = f[x] /\ x \in T)
  PROVE  SumFunctionOnSet(g, S) <= SumFunctionOnSet(f, T)
<1>. DEFINE K == {x \in S : g[x] # 0}
<1>1. K \in SUBSET S /\ K \in SUBSET T /\ K \in SUBSET D /\ S \ K \in SUBSET D
      /\ (\A x \in K : f[x] = g[x]) /\ (\A x \in S \ K : g[x] = 0)
  OBVIOUS
<1>. HIDE DEF K
<1>2. SumFunctionOnSet(g, S) = SumFunctionOnSet(g, K) + SumFunctionOnSet(g, S \ K)
  BY <1>1, SumSplit
<1>3. SumFunctionOnSet(g, S \ K) = 0
  BY <1>1, SumZero
<1>4. SumFunctionOnSet(f, K) = SumFunctionOnSet(g, K)
  BY <1>1, SumSame
<1>5. SumFunctionOnSet(f, K) <= SumFunctionOnSet(f, T)
  BY <1>1, SumMore
<1>6. SumFunctionOnSet(g, K) \in Nat
  BY <1>1, SumRecursion
<1>. QED  BY <1>2, <1>3, <1>4, <1>5, <1>6

-----------------------------------------------------------------------------
(***************************************************************************)
(* Products, quotients and counts.                                         *)
(***************************************************************************)
LEMMA TimesGrows ==
  ASSUME NEW a \in Nat, NEW b \in Nat, a <= b, NEW c \in Nat
  PROVE  a * c \in Nat /\ b * c \in Nat /\ a * c <= b * c
<1>1. (b - a) * c >= 0
  OBVIOUS
<1>. QED  BY <1>1

LEMMA DivGrows ==
  ASSUME NEW c \in Nat \ {0}, NEW a \in Nat, NEW b \in Nat, a <= b
  PROVE  a \div c \in Nat /\ b \div c \in Nat /\ a \div c <= b \div c
<1>. DEFINE x == a \div c
            z == a % c
<1>1. x \in Nat /\ z \in 0 .. c - 1 /\ x * c \in Nat /\ a = x * c + z
  BY DivMod
<1>2. b \div c \in Nat
  BY DivMod
<1>. HIDE DEF x, z
<1>3. x * c <= b
  BY <1>1
<1>4. x <= b \div c
  BY <1>1, <1>3, TimesWithin
<1>. QED  BY <1>1, <1>2, <1>4 DEF x

LEMMA DivLess ==
  ASSUME NEW a \in Nat, NEW u \in Nat \ {0}, NEW v \in Nat \ {0}, v <= u
  PROVE  a \div u \in Nat /\ a \div v \in Nat /\ a \div u <= a \div v
<1>. DEFINE x == a \div u
            z == a % u
<1>1. x \in Nat /\ x * u \in Nat /\ x * u <= a
  <2>1. x \in Nat /\ z \in 0 .. u - 1 /\ x * u \in Nat /\ a = x * u + z
    BY DivMod
  <2>. HIDE DEF x, z
  <2>. QED  BY <2>1
<1>2. a \div v \in Nat
  BY DivMod
<1>. HIDE DEF x
<1>3. x * v <= x * u
  <2>1. CASE v = u
    BY <1>1, <2>1
  <2>2. CASE v < u
    <3>1. (u - v) * x >= 0
      BY <1>1, <2>2
    <3>. QED  BY <1>1, <3>1
  <2>. QED  BY <2>1, <2>2
<1>4. x * v \in Nat /\ x * v <= a
  BY <1>1, <1>3
<1>5. x <= a \div v
  BY <1>1, <1>4, TimesWithin
<1>. QED  BY <1>1, <1>2, <1>5 DEF x

\* A part of a whole.
LEMMA Scaled ==
  ASSUME NEW q \in Nat, NEW e \in Nat \ {0}, NEW w \in 0 .. e
  PROVE  q * w \in Nat /\ (q * w) \div e \in 0 .. q
<1>. DEFINE a == q * w
            x == a \div e
            z == a % e
<1>1. a \in Nat /\ q * e \in Nat /\ a <= q * e
  <2>1. (e - w) * q >= 0
    OBVIOUS
  <2>. QED  BY <2>1
<1>. HIDE DEF a
<1>2. x \in Nat /\ z \in 0 .. e - 1 /\ x * e \in Nat /\ a = x * e + z
  BY <1>1, DivMod
<1>. HIDE DEF x, z
<1>3. x * e <= q * e
  BY <1>1, <1>2
<1>4. ~ (q < x)
  BY <1>2, <1>3, TimesMono
<1>5. x \in 0 .. q
  BY <1>2, <1>4
<1>. QED  BY <1>1, <1>5 DEF a, x

LEMMA PercentNat == \A s \in 0 .. 100 : s \in Nat
OBVIOUS

\* A count of the ticks since a, up to c, is the age of a while it is less than c.
LEMMA ClockFollowed ==
  ASSUME NEW c \in Nat \ {0}, NEW t \in 0 .. c - 1, NEW a \in 0 .. c - 1, NEW n \in 0 .. c,
         n < c => (t + c - a) % c = n
  PROVE  /\ (IF n < c THEN n + 1 ELSE n) \in 0 .. c
         /\ (IF n < c THEN n + 1 ELSE n) < c
              => (((t + 1) % c) + c - a) % c = (IF n < c THEN n + 1 ELSE n)
<1>1. CASE n < c - 1
  <2>1. (t + c - a) % c = n
    BY <1>1
  <2>2. (((t + 1) % c) + c - a) % c = n + 1
    BY <1>1, <2>1, ClockStep
  <2>. QED  BY <1>1, <2>2
<1>2. CASE ~(n < c - 1)
  BY <1>2
<1>. QED  BY <1>1, <1>2

-----------------------------------------------------------------------------
(***************************************************************************)
(* Sequences, the library's and those the community modules build.         *)
(***************************************************************************)
LEMMA FunctionSeq ==
  ASSUME NEW S, NEW n \in Nat, NEW f \in [1 .. n -> S]
  PROVE  f \in Seq(S) /\ Len(f) = n
  OBVIOUS

LEMMA Repeats ==
  ASSUME NEW S, NEW c \in S, NEW n \in Nat
  PROVE  [i \in 1 .. n |-> c] \in Seq(S)
  OBVIOUS

LEMMA SeqWider ==
  ASSUME NEW S, NEW T, S \subseteq T, NEW s \in Seq(S)
  PROVE  s \in Seq(T)
  OBVIOUS

LEMMA FrontIs ==
  ASSUME NEW R, NEW v \in Seq(R), Len(v) > 0
  PROVE  /\ Front(v) \in Seq(R) /\ Len(Front(v)) = Len(v) - 1
         /\ \A i \in 1 .. Len(v) - 1 : Front(v)[i] = v[i]
<1>. DEFINE n == Len(v) - 1
<1>0. n \in Nat /\ \A i \in 1 .. n : v[i] \in R
  BY LenProperties
<1>1. Front(v) = SubSeq(v, 1, n)
  BY DEF Front
<1>. HIDE DEF n
<1>2. /\ SubSeq(v, 1, n) \in Seq(R)
      /\ Len(SubSeq(v, 1, n)) = IF 1 <= n THEN n - 1 + 1 ELSE 0
      /\ \A i \in 1 .. n - 1 + 1 : SubSeq(v, 1, n)[i] = v[1 + i - 1]
  BY <1>0, SubSeqProperties
<1>3. Len(Front(v)) = n /\ \A i \in 1 .. n : Front(v)[i] = v[i]
  BY <1>0, <1>1, <1>2
<1>. QED  BY <1>1, <1>2, <1>3 DEF n

\* e stands after the first k of v in w.
Insertion(w, v, k, e) ==
  /\ Len(w) = Len(v) + 1
  /\ \A i \in 1 .. k : w[i] = v[i]
  /\ w[k + 1] = e
  /\ \A i \in k + 2 .. Len(v) + 1 : w[i] = v[i - 1]

LEMMA InsertIs ==
  ASSUME NEW R, NEW v \in Seq(R), NEW k \in 0 .. Len(v), NEW e \in R
  PROVE  InsertAt(v, k + 1, e) \in Seq(R) /\ Insertion(InsertAt(v, k + 1, e), v, k, e)
<1>. DEFINE a == SubSeq(v, 1, k)
            b == SubSeq(v, k + 1, Len(v))
            c == <<e>> \o b
<1>0. Len(v) \in Nat /\ k \in Nat /\ k <= Len(v) /\ \A i \in 1 .. Len(v) : v[i] \in R
  BY LenProperties
<1>1. a \in Seq(R) /\ Len(a) = k /\ \A i \in 1 .. k : a[i] = v[i]
  <2>1. \A i \in 1 .. k : v[i] \in R
    BY <1>0
  <2>2. /\ a \in Seq(R)
        /\ Len(a) = IF 1 <= k THEN k - 1 + 1 ELSE 0
        /\ \A i \in 1 .. k - 1 + 1 : a[i] = v[1 + i - 1]
    BY <1>0, <2>1, SubSeqProperties
  <2>. HIDE DEF a
  <2>. QED  BY <1>0, <2>2
<1>2. b \in Seq(R) /\ Len(b) = Len(v) - k /\ \A i \in 1 .. Len(v) - k : b[i] = v[k + i]
  <2>. DEFINE n == Len(v)
              m == k + 1
  <2>0. n \in Nat /\ m \in Nat /\ k \in Nat /\ k <= n /\ m = k + 1
    BY <1>0
  <2>1. \A i \in m .. n : v[i] \in R
    BY <1>0
  <2>. HIDE DEF n, m
  <2>2. /\ SubSeq(v, m, n) \in Seq(R)
        /\ Len(SubSeq(v, m, n)) = IF m <= n THEN n - m + 1 ELSE 0
        /\ \A i \in 1 .. n - m + 1 : SubSeq(v, m, n)[i] = v[m + i - 1]
    BY <2>0, <2>1, SubSeqProperties
  <2>3. b = SubSeq(v, m, n)
    BY DEF n, m
  <2>. HIDE DEF b
  <2>4. Len(b) = n - k
    BY <2>0, <2>2, <2>3
  <2>5. \A i \in 1 .. n - k : i \in 1 .. n - m + 1 /\ m + i - 1 = k + i
    BY <2>0
  <2>6. \A i \in 1 .. n - k : b[i] = v[k + i]
    BY <2>2, <2>3, <2>5
  <2>. QED  BY <2>2, <2>3, <2>4, <2>6 DEF n
<1>. HIDE DEF a, b
<1>3. c \in Seq(R) /\ Len(c) = 1 + Len(b) /\ c[1] = e /\ \A i \in 2 .. Len(b) + 1 : c[i] = b[i - 1]
  <2>1. <<e>> \in Seq(R) /\ Len(<<e>>) = 1 /\ <<e>>[1] = e
    OBVIOUS
  <2>2. /\ <<e>> \o b \in Seq(R) /\ Len(<<e>> \o b) = Len(<<e>>) + Len(b)
        /\ \A i \in 1 .. Len(<<e>>) + Len(b) :
             (<<e>> \o b)[i] = IF i <= Len(<<e>>) THEN <<e>>[i] ELSE b[i - Len(<<e>>)]
    BY <1>2, <2>1, ConcatProperties
  <2>3. c = <<e>> \o b /\ Len(b) \in Nat
    BY <1>2, LenProperties
  <2>. HIDE DEF c
  <2>. QED  BY <2>1, <2>2, <2>3
<1>. HIDE DEF c
<1>4. a \o c \in Seq(R) /\ Len(a \o c) = Len(a) + Len(c)
      /\ \A i \in 1 .. Len(a) + Len(c) : (a \o c)[i] = IF i <= Len(a) THEN a[i] ELSE c[i - Len(a)]
  BY <1>1, <1>3, ConcatProperties
<1>5. InsertAt(v, k + 1, e) = a \o c
  <2>1. (k + 1) - 1 = k
    BY <1>0
  <2>2. InsertAt(v, k + 1, e) = SubSeq(v, 1, (k + 1) - 1) \o <<e>> \o SubSeq(v, k + 1, Len(v))
    BY DEF InsertAt
  <2>3. <<e>> \in Seq(R)
    OBVIOUS
  <2>4. (a \o <<e>>) \o b = a \o (<<e>> \o b)
    BY <1>1, <1>2, <2>3, ConcatAssociative, SMTT(30)
  <2>. QED  BY <2>1, <2>2, <2>4 DEF a, b, c
<1>6. Len(a) + Len(c) = Len(v) + 1
  BY <1>0, <1>1, <1>2, <1>3
<1>7. ASSUME NEW i \in 1 .. k PROVE (a \o c)[i] = v[i]
  <2>1. i \in 1 .. Len(a) + Len(c) /\ i <= Len(a)
    BY <1>0, <1>1, <1>6
  <2>. QED  BY <1>1, <1>4, <2>1
<1>8. (a \o c)[k + 1] = e
  <2>1. k + 1 \in 1 .. Len(a) + Len(c) /\ ~ (k + 1 <= Len(a)) /\ (k + 1) - Len(a) = 1
    BY <1>0, <1>1, <1>6
  <2>. QED  BY <1>3, <1>4, <2>1
<1>9. ASSUME NEW i \in k + 2 .. Len(v) + 1 PROVE (a \o c)[i] = v[i - 1]
  <2>1. i \in 1 .. Len(a) + Len(c) /\ ~ (i <= Len(a)) /\ i - Len(a) = i - k /\ i - k \in 2 .. Len(b) + 1
        /\ (i - k) - 1 \in 1 .. Len(v) - k /\ k + ((i - k) - 1) = i - 1
    BY <1>0, <1>1, <1>2, <1>6
  <2>2. (a \o c)[i] = c[i - k]
    BY <1>4, <2>1
  <2>3. c[i - k] = b[(i - k) - 1]
    BY <1>3, <2>1
  <2>4. b[(i - k) - 1] = v[k + ((i - k) - 1)]
    BY <1>2, <2>1
  <2>. QED  BY <2>1, <2>2, <2>3, <2>4
<1>10. a \o c \in Seq(R) /\ Len(a \o c) = Len(v) + 1
  BY <1>4, <1>6
<1>. QED  BY <1>5, <1>7, <1>8, <1>9, <1>10 DEF Insertion

-----------------------------------------------------------------------------
(***************************************************************************)
(* Finite sets.                                                            *)
(***************************************************************************)
\* Short tuples have finite domains.
LEMMA TupleDomains ==
  /\ IsFiniteSet(DOMAIN <<>>)
  /\ \A a : IsFiniteSet(DOMAIN <<a>>)
  /\ \A a, b : IsFiniteSet(DOMAIN <<a, b>>)
<1>1. IsFiniteSet({}) /\ IsFiniteSet({1}) /\ IsFiniteSet({1, 2})
  <2>1. IsFiniteSet({})
    BY FS_EmptySet
  <2>2. \A n : IsFiniteSet({n})
    BY FS_Singleton
  <2>3. IsFiniteSet({1} \cup {2})
    BY <2>2, FS_Union
  <2>4. {1, 2} = {1} \cup {2}
    OBVIOUS
  <2>. QED  BY <2>1, <2>2, <2>3, <2>4, Zenon
<1>2. DOMAIN <<>> = {} /\ (\A a : DOMAIN <<a>> = {1}) /\ \A a, b : DOMAIN <<a, b>> = {1, 2}
  OBVIOUS
<1>. QED  BY <1>1, <1>2

\* Of the clocks with work, one has any given rank.
LEMMA RankHeld ==
  ASSUME NEW A, A \subseteq 0 .. 255, NEW r \in Nat, r < Cardinality(A)
  PROVE  \E k \in A : Cardinality({j \in A : j < k}) = r
<1>. DEFINE Lower(m) == {j \in A : j < m}
            S == {m \in Nat : Cardinality(Lower(m)) > r}
<1>1. IsFiniteSet(A)
  <2>1. A \in SUBSET Nat /\ 255 \in Nat /\ \A k \in A : k <= 255
    OBVIOUS
  <2>. QED  BY <2>1, FS_BoundedSetOfNaturals
<1>2. \A m \in Nat : IsFiniteSet(Lower(m)) /\ Cardinality(Lower(m)) \in Nat
  BY <1>1, FS_Subset, FS_CardinalityType
<1>3. Lower(256) = A /\ Lower(0) = {}
  <2>1. \A j \in A : j < 256 /\ ~(j < 0)
    OBVIOUS
  <2>. QED  BY <2>1, Zenon
<1>4. 256 \in S /\ 0 \notin S
  <2>1. Cardinality({}) = 0
    BY FS_EmptySet
  <2>. HIDE DEF Lower
  <2>. QED  BY <1>3, <2>1
<1>5. PICK m \in S : \A n \in S : m <= n
  <2>1. S # {} /\ S \subseteq Nat
    BY <1>4
  <2>. HIDE DEF S
  <2>. QED  BY <2>1, LeastOf
<1>6. m \in Nat /\ m # 0 /\ m - 1 \in Nat /\ m - 1 \notin S
  <2>1. m \in Nat /\ m # 0
    BY <1>4, <1>5
  <2>. HIDE DEF S
  <2>. QED  BY <1>5, <2>1
<1>7. Cardinality(Lower(m - 1)) <= r /\ Cardinality(Lower(m)) > r
  <2>1. Cardinality(Lower(m)) > r
    BY <1>5
  <2>2. ~(Cardinality(Lower(m - 1)) > r)
    BY <1>6
  <2>. HIDE DEF Lower
  <2>. QED  BY <1>2, <1>6, <2>1, <2>2
<1>8. m - 1 \in A
  <2>1. SUFFICES ASSUME m - 1 \notin A PROVE FALSE
    OBVIOUS
  <2>2. \A j \in A : j < m <=> j < m - 1
    BY <1>6, <2>1
  <2>3. Lower(m) = Lower(m - 1)
    BY <2>2
  <2>. HIDE DEF Lower
  <2>. QED  BY <1>2, <1>6, <1>7, <2>3
<1>9. Cardinality(Lower(m)) = Cardinality(Lower(m - 1)) + 1
  <2>1. Lower(m) = Lower(m - 1) \cup {m - 1} /\ m - 1 \notin Lower(m - 1)
    <3>1. \A j \in A : j < m <=> j < m - 1 \/ j = m - 1
      BY <1>6
    <3>2. ~(m - 1 < m - 1) /\ m - 1 < m
      BY <1>6
    <3>. QED  BY <1>8, <3>1, <3>2, Zenon
  <2>. HIDE DEF Lower
  <2>. QED  BY <1>2, <1>6, <2>1, FS_AddElement
<1>10. Cardinality(Lower(m - 1)) = r
  <2>. HIDE DEF Lower
  <2>. QED  BY <1>2, <1>6, <1>7, <1>9
<1>. QED  BY <1>8, <1>10
=============================================================================
