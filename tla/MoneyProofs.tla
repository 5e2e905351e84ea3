---------------------------- MODULE MoneyProofs ----------------------------
(***************************************************************************)
(* The arithmetic of the books for any number of people and any amounts.   *)
(* What a fold over a finite set computes is proved by induction over its  *)
(* subsets: the least counterexample among them (WFMin) has a member, and  *)
(* taking that member away leaves none.                                    *)
(***************************************************************************)
EXTENDS Money, FiniteSetTheorems, WellFoundedInduction, TLAPS

-----------------------------------------------------------------------------
(* Induction, with a set in place of a predicate *)

LEMMA SubsetInduction ==
  ASSUME NEW S, IsFiniteSet(S), NEW G,
         \A T \in SUBSET S : (\A U \in SUBSET T : U # T => U \in G) => T \in G
  PROVE  \A T \in SUBSET S : T \in G
<1> SUFFICES ASSUME NEW T0 \in SUBSET S, T0 \notin G PROVE FALSE
  OBVIOUS
<1> DEFINE B == {T \in SUBSET S : T \notin G}
<1>1. B \subseteq FiniteSubsetsOf(S) /\ B # {}
  BY FS_Subset DEF FiniteSubsetsOf
<1>2. IsWellFoundedOn(StrictSubsetOrdering(S), FiniteSubsetsOf(S))
  BY FS_StrictSubsetOrderingWellFounded
<1>3. PICK T \in B : \A U \in B : ~ (<<U, T>> \in StrictSubsetOrdering(S))
  <2> HIDE DEF B
  <2> QED BY <1>1, <1>2, WFMin
<1>4. ASSUME NEW U \in SUBSET T, U # T PROVE U \in G
  <2>1. <<U, T>> \in StrictSubsetOrdering(S)
    BY <1>3, <1>4 DEF StrictSubsetOrdering
  <2> QED BY <1>3, <2>1
<1> QED BY <1>3, <1>4

LEMMA SetInduction ==
  ASSUME NEW S, IsFiniteSet(S), NEW G, {} \in G,
         \A T \in SUBSET S : \A x \in S \ T : T \in G => T \cup {x} \in G
  PROVE  S \in G
<1>1. ASSUME NEW T \in SUBSET S, \A U \in SUBSET T : U # T => U \in G PROVE T \in G
  <2>1. CASE T = {}
    BY <2>1
  <2>2. CASE T # {}
    <3>1. PICK x : x \in T
      BY <2>2
    <3>2. PICK U \in SUBSET S : U = T \ {x}
      OBVIOUS
    <3>3. U \in G /\ x \in S \ U /\ U \cup {x} = T
      BY <1>1, <3>1, <3>2
    <3> QED BY <3>3
  <2> QED BY <2>1, <2>2
<1> QED BY <1>1, SubsetInduction

LEMMA NumberInduction ==
  ASSUME NEW G, 0 \in G, \A n \in Nat : n \in G => n + 1 \in G
  PROVE  \A n \in Nat : n \in G
<1> SUFFICES ASSUME NEW n \in Nat PROVE n \in G
  OBVIOUS
<1> DEFINE S == 1 .. n
           H == {T \in SUBSET S : Cardinality(T) \in G}
<1>1. IsFiniteSet(S) /\ Cardinality(S) = n
  BY FS_Interval
<1>2. {} \in H
  BY FS_EmptySet
<1>3. ASSUME NEW T \in SUBSET S, NEW x \in S \ T, T \in H PROVE T \cup {x} \in H
  <2>1. IsFiniteSet(T)
    BY <1>1, FS_Subset
  <2>2. Cardinality(T) \in Nat /\ Cardinality(T \cup {x}) = Cardinality(T) + 1
    BY <2>1, FS_CardinalityType, FS_AddElement
  <2> QED BY <1>3, <2>2
<1>4. S \in H
  <2> HIDE DEF S, H
  <2> QED BY <1>1, <1>2, <1>3, SetInduction
<1> QED BY <1>1, <1>4

-----------------------------------------------------------------------------
(* Sums *)

Pick(s) == CHOOSE x \in s : TRUE

Sum(f, S) == MapThenSumSet(LAMBDA x : f[x], S)

\* How the fold goes through a set, and the function it defines.
Step(f, g, s) == IF s = {} THEN 0 ELSE f[Pick(s)] + g[s \ {Pick(s)}]
Sums(f, g, S) == g = [s \in SUBSET S |-> Step(f, g, s)]

LEMMA SumsExists ==
  ASSUME NEW f, NEW S, IsFiniteSet(S) PROVE \E g : Sums(f, g, S)
<1> DEFINE Upto(g, n) == \A s \in SUBSET S : Cardinality(s) <= n => g[s] = Step(f, g, s)
           G == {n \in Nat : \E g : Upto(g, n)}
<1>1. \A s \in SUBSET S : IsFiniteSet(s) /\ Cardinality(s) \in Nat /\ (Cardinality(s) = 0 <=> s = {})
  BY FS_Subset, FS_CardinalityType, FS_EmptySet
<1>2. 0 \in G
  <2>1. PICK g : g = [s \in SUBSET S |-> 0]
    OBVIOUS
  <2>2. Upto(g, 0)
    BY <1>1, <2>1 DEF Step
  <2> QED BY <2>2
<1>3. ASSUME NEW n \in Nat, n \in G PROVE n + 1 \in G
  <2>1. PICK g : Upto(g, n)
    BY <1>3
  <2>2. PICK h : h = [s \in SUBSET S |-> Step(f, g, s)]
    OBVIOUS
  <2>3. ASSUME NEW s \in SUBSET S, Cardinality(s) <= n + 1 PROVE h[s] = Step(f, h, s)
    <3>1. CASE s = {}
      BY <2>2, <3>1 DEF Step
    <3>2. CASE s # {}
      <4>1. PICK x, t : x = Pick(s) /\ t = s \ {x}
        OBVIOUS
      <4>2. x \in s /\ t \in SUBSET S
        BY <3>2, <4>1 DEF Pick
      <4>3. Cardinality(t) <= n
        BY <1>1, <2>3, <4>1, <4>2, FS_RemoveElement
      <4>4. g[t] = h[t]
        BY <2>1, <2>2, <4>2, <4>3
      <4>5. h[s] = f[x] + g[t]
        BY <2>2, <3>2, <4>1 DEF Step
      <4> QED BY <3>2, <4>1, <4>4, <4>5 DEF Step
    <3> QED BY <3>1, <3>2
  <2>4. Upto(h, n + 1)
    BY <2>3
  <2> QED BY <2>4
<1>4. Cardinality(S) \in Nat /\ \A s \in SUBSET S : Cardinality(s) <= Cardinality(S)
  BY <1>1, FS_Subset
<1>5. Cardinality(S) \in G
  <2> HIDE DEF G
  <2> QED BY <1>2, <1>3, <1>4, NumberInduction
<1>6. PICK g : Upto(g, Cardinality(S))
  BY <1>5
<1>7. PICK h : h = [s \in SUBSET S |-> g[s]]
  OBVIOUS
<1>8. ASSUME NEW s \in SUBSET S PROVE h[s] = Step(f, h, s)
  <2>1. g[s] = Step(f, g, s)
    BY <1>4, <1>6
  <2>2. s # {} => h[s \ {Pick(s)}] = g[s \ {Pick(s)}]
    BY <1>7
  <2> QED BY <1>7, <2>1, <2>2 DEF Step
<1>9. h = [s \in SUBSET S |-> Step(f, h, s)]
  BY <1>7, <1>8
<1> QED BY <1>9 DEF Sums

LEMMA SumIs ==
  ASSUME NEW f, NEW S, IsFiniteSet(S)
  PROVE  \E g : Sums(f, g, S) /\ Sum(f, S) = g[S]
<1> DEFINE g == CHOOSE g : g = [s \in SUBSET S |->
                  IF s = {} THEN 0
                  ELSE f[CHOOSE x \in s : TRUE] + g[s \ {CHOOSE x \in s : TRUE}]]
<1>1. Sums(f, g, S)
  <2>1. \E h : Sums(f, h, S)
    BY SumsExists
  <2> QED BY <2>1 DEF Sums, Step, Pick
<1>2. Sum(f, S) = g[S]
  BY DEF Sum, MapThenSumSet, MapThenFoldSet
<1> QED BY <1>1, <1>2

\* The fold over a part is a value of the fold over the whole.
LEMMA SumPart ==
  ASSUME NEW f, NEW S, IsFiniteSet(S), NEW g, Sums(f, g, S), NEW T \in SUBSET S
  PROVE  Sum(f, T) = g[T]
<1>1. IsFiniteSet(T)
  BY FS_Subset
<1>2. PICK h : Sums(f, h, T) /\ Sum(f, T) = h[T]
  BY <1>1, SumIs
<1> DEFINE G == {U \in SUBSET T : h[U] = g[U]}
<1>3. ASSUME NEW U \in SUBSET T, \A V \in SUBSET U : V # U => V \in G PROVE U \in G
  <2>1. h[U] = Step(f, h, U) /\ g[U] = Step(f, g, U)
    BY <1>2 DEF Sums
  <2>2. CASE U = {}
    BY <2>1, <2>2 DEF Step
  <2>3. CASE U # {}
    <3>1. Pick(U) \in U
      BY <2>3 DEF Pick
    <3>2. U \ {Pick(U)} \in G
      BY <1>3, <3>1
    <3> QED BY <2>1, <2>3, <3>2 DEF Step
  <2> QED BY <2>2, <2>3
<1>4. T \in G
  <2> HIDE DEF G
  <2> QED BY <1>1, <1>3, SubsetInduction
<1> QED BY <1>2, <1>4

LEMMA SumEmpty == \A f : Sum(f, {}) = 0
<1> SUFFICES ASSUME NEW f PROVE Sum(f, {}) = 0
  OBVIOUS
<1>1. PICK g : Sums(f, g, {}) /\ Sum(f, {}) = g[{}]
  BY SumIs, FS_EmptySet
<1> QED BY <1>1 DEF Sums, Step

\* Which member is picked first makes no difference.
LEMMA SumStep ==
  ASSUME NEW f, NEW S, IsFiniteSet(S), \A x \in S : f[x] \in Int
  PROVE  Sum(f, S) \in Int /\ \A x \in S : Sum(f, S) = f[x] + Sum(f, S \ {x})
<1>1. PICK g : Sums(f, g, S)
  BY SumsExists
<1>2. \A T \in SUBSET S : Sum(f, T) = g[T] /\ g[T] = Step(f, g, T)
  <2>1. \A T \in SUBSET S : g[T] = Step(f, g, T)
    BY <1>1 DEF Sums
  <2> QED BY <1>1, <2>1, SumPart
<1> DEFINE G == {T \in SUBSET S : g[T] \in Int /\ \A x \in T : g[T] = f[x] + g[T \ {x}]}
<1>3. ASSUME NEW T \in SUBSET S, \A U \in SUBSET T : U # T => U \in G PROVE T \in G
  <2>1. CASE T = {}
    <3>1. g[T] = 0
      BY <1>2, <2>1 DEF Step
    <3> QED BY <2>1, <3>1
  <2>2. CASE T # {}
    <3>1. PICK c : c = Pick(T)
      OBVIOUS
    <3>2. c \in T
      BY <2>2, <3>1 DEF Pick
    <3>3. g[T] = f[c] + g[T \ {c}]
      BY <1>2, <2>2, <3>1 DEF Step
    <3>4. \A x \in T : T \ {x} \in SUBSET T /\ T \ {x} # T
      OBVIOUS
    <3>5. \A x \in T : T \ {x} \in G /\ g[T \ {x}] \in Int /\ f[x] \in Int
      BY <1>3, <3>4
    <3>6. ASSUME NEW x \in T, x # c PROVE g[T] = f[x] + g[T \ {x}]
      <4>1. PICK U : U = (T \ {c}) \ {x} /\ U = (T \ {x}) \ {c}
        OBVIOUS
      <4>2. g[T \ {c}] = f[x] + g[U]
        BY <3>2, <3>5, <3>6, <4>1
      <4>3. g[T \ {x}] = f[c] + g[U]
        BY <3>2, <3>5, <3>6, <4>1
      <4>4. g[U] \in Int
        <5>1. U \in SUBSET T /\ U # T
          BY <3>6, <4>1
        <5> QED BY <1>3, <5>1
      <4>5. f[x] \in Int /\ f[c] \in Int
        BY <3>2
      <4> QED BY <3>3, <4>2, <4>3, <4>4, <4>5
    <3>7. g[T] \in Int
      BY <3>2, <3>3, <3>5
    <3> QED BY <3>3, <3>6, <3>7
  <2> QED BY <2>1, <2>2
<1>4. S \in G
  <2> HIDE DEF G
  <2> QED BY <1>3, SubsetInduction
<1> QED BY <1>2, <1>4

\* One more member.
LEMMA SumAdd ==
  ASSUME NEW f, NEW S, IsFiniteSet(S), NEW y, y \notin S, \A x \in S \cup {y} : f[x] \in Int
  PROVE  Sum(f, S) \in Int /\ Sum(f, S \cup {y}) = f[y] + Sum(f, S)
<1>1. PICK T : T = S \cup {y}
  OBVIOUS
<1>2. IsFiniteSet(T) /\ y \in T /\ T \ {y} = S
  BY <1>1, FS_AddElement
<1> QED BY <1>1, <1>2, SumStep

LEMMA SumPlus ==
  ASSUME NEW S, IsFiniteSet(S), NEW f, NEW h, NEW k,
         \A x \in S : f[x] \in Int /\ h[x] \in Int /\ k[x] = f[x] + h[x]
  PROVE  Sum(f, S) \in Int /\ Sum(h, S) \in Int /\ Sum(k, S) = Sum(f, S) + Sum(h, S)
<1> DEFINE G == {T \in SUBSET S : Sum(k, T) = Sum(f, T) + Sum(h, T)}
<1>1. {} \in G
  BY SumEmpty
<1>2. ASSUME NEW T \in SUBSET S, NEW y \in S \ T, T \in G PROVE T \cup {y} \in G
  <2>1. IsFiniteSet(T)
    BY FS_Subset
  <2>2. \A x \in S : k[x] \in Int
    OBVIOUS
  <2>3. PICK u, v, w : u = Sum(f, T) /\ v = Sum(h, T) /\ w = Sum(k, T)
    OBVIOUS
  <2>4. /\ u \in Int /\ Sum(f, T \cup {y}) = f[y] + u
        /\ v \in Int /\ Sum(h, T \cup {y}) = h[y] + v
        /\ w \in Int /\ Sum(k, T \cup {y}) = k[y] + w
    BY <2>1, <2>2, <2>3, SumAdd
  <2>5. w = u + v
    BY <1>2, <2>3
  <2>6. PICK p \in Int, q \in Int : p = f[y] /\ q = h[y] /\ k[y] = p + q
    OBVIOUS
  <2> QED BY <2>4, <2>5, <2>6
<1>3. S \in G
  <2> HIDE DEF G
  <2> QED BY <1>1, <1>2, SetInduction
<1> QED BY <1>3, SumStep

LEMMA SumTimes ==
  ASSUME NEW S, IsFiniteSet(S), NEW f, NEW k, NEW a \in Int,
         \A x \in S : f[x] \in Int /\ k[x] = a * f[x]
  PROVE  Sum(f, S) \in Int /\ Sum(k, S) = a * Sum(f, S)
<1> DEFINE G == {T \in SUBSET S : Sum(k, T) = a * Sum(f, T)}
<1>1. {} \in G
  BY SumEmpty
<1>2. ASSUME NEW T \in SUBSET S, NEW y \in S \ T, T \in G PROVE T \cup {y} \in G
  <2>1. IsFiniteSet(T)
    BY FS_Subset
  <2>2. \A x \in S : k[x] \in Int
    OBVIOUS
  <2>3. PICK u, w : u = Sum(f, T) /\ w = Sum(k, T)
    OBVIOUS
  <2>4. /\ u \in Int /\ Sum(f, T \cup {y}) = f[y] + u
        /\ w \in Int /\ Sum(k, T \cup {y}) = k[y] + w
    BY <2>1, <2>2, <2>3, SumAdd
  <2>5. w = a * u
    BY <1>2, <2>3
  <2>6. PICK p \in Int : p = f[y] /\ k[y] = a * p
    OBVIOUS
  <2>7. a * (p + u) = a * p + a * u /\ a * p \in Int /\ a * u \in Int
    BY <2>4, <2>6
  <2> QED BY <2>4, <2>5, <2>6, <2>7
<1>3. S \in G
  <2> HIDE DEF G
  <2> QED BY <1>1, <1>2, SetInduction
<1> QED BY <1>3, SumStep

LEMMA SumSame ==
  ASSUME NEW S, IsFiniteSet(S), NEW f, NEW k, \A x \in S : f[x] \in Int /\ k[x] = f[x]
  PROVE  Sum(k, S) = Sum(f, S)
<1>1. PICK one \in Int : one = 1
  OBVIOUS
<1>2. \A x \in S : f[x] \in Int /\ k[x] = one * f[x]
  BY <1>1
<1>3. PICK u : u = Sum(f, S)
  OBVIOUS
<1>4. u \in Int /\ Sum(k, S) = one * u
  BY <1>2, <1>3, SumTimes
<1> QED BY <1>1, <1>3, <1>4

LEMMA SumZero ==
  ASSUME NEW S, IsFiniteSet(S), NEW k, \A x \in S : k[x] = 0
  PROVE  Sum(k, S) = 0
<1>1. PICK zero \in Int : zero = 0
  OBVIOUS
<1>2. \A x \in S : k[x] \in Int /\ k[x] = zero * k[x]
  BY <1>1
<1>3. PICK u : u = Sum(k, S)
  OBVIOUS
<1>4. u \in Int /\ u = zero * u
  BY <1>2, <1>3, SumTimes
<1> QED BY <1>1, <1>3, <1>4

\* Sums grow with what is summed.
LEMMA SumBound ==
  ASSUME NEW S, IsFiniteSet(S), NEW f, NEW k,
         \A x \in S : f[x] \in Int /\ k[x] \in Int /\ f[x] <= k[x]
  PROVE  /\ Sum(f, S) \in Int /\ Sum(k, S) \in Int /\ Sum(f, S) <= Sum(k, S)
         /\ Sum(f, S) = Sum(k, S) => \A x \in S : f[x] = k[x]
<1> DEFINE G == {T \in SUBSET S : /\ Sum(f, T) <= Sum(k, T)
                                  /\ Sum(f, T) = Sum(k, T) => \A x \in T : f[x] = k[x]}
<1>1. {} \in G
  BY SumEmpty
<1>2. ASSUME NEW T \in SUBSET S, NEW y \in S \ T, T \in G PROVE T \cup {y} \in G
  <2>1. IsFiniteSet(T)
    BY FS_Subset
  <2>2. PICK u, v : u = Sum(f, T) /\ v = Sum(k, T)
    OBVIOUS
  <2>3. /\ u \in Int /\ Sum(f, T \cup {y}) = f[y] + u
        /\ v \in Int /\ Sum(k, T \cup {y}) = k[y] + v
    BY <2>1, <2>2, SumAdd
  <2>4. u <= v /\ (u = v => \A x \in T : f[x] = k[x])
    BY <1>2, <2>2
  <2>5. PICK p \in Int, q \in Int : p = f[y] /\ q = k[y] /\ p <= q
    OBVIOUS
  <2>6. p + u <= q + v /\ (p + u = q + v => u = v /\ p = q)
    BY <2>3, <2>4, <2>5
  <2> QED BY <2>3, <2>4, <2>5, <2>6
<1>3. S \in G
  <2> HIDE DEF G
  <2> QED BY <1>1, <1>2, SetInduction
<1> QED BY <1>3, SumStep

\* What is zero does not count.
LEMMA SumWithin ==
  ASSUME NEW S, IsFiniteSet(S), NEW T \in SUBSET S, NEW f,
         \A x \in S : f[x] \in Int, \A x \in S \ T : f[x] = 0
  PROVE  Sum(f, S) = Sum(f, T)
<1> DEFINE G == {U \in SUBSET (S \ T) : Sum(f, T \cup U) = Sum(f, T)}
<1>1. {} \in G
  OBVIOUS
<1>2. ASSUME NEW U \in SUBSET (S \ T), NEW y \in (S \ T) \ U, U \in G PROVE U \cup {y} \in G
  <2>1. PICK V : V = T \cup U
    OBVIOUS
  <2>2. V \in SUBSET S /\ V \cup {y} = T \cup (U \cup {y}) /\ y \notin V
    BY <2>1
  <2>3. IsFiniteSet(V)
    BY <2>2, FS_Subset
  <2>4. f[y] = 0 /\ \A x \in V \cup {y} : f[x] \in Int
    BY <2>2
  <2>5. PICK v : v = Sum(f, V)
    OBVIOUS
  <2>6. v \in Int /\ Sum(f, V \cup {y}) = f[y] + v
    BY <2>2, <2>3, <2>4, <2>5, SumAdd
  <2>7. Sum(f, V \cup {y}) = v
    BY <2>4, <2>6
  <2> QED BY <1>2, <2>1, <2>2, <2>5, <2>7
<1>3. (S \ T) \in G
  <2>1. IsFiniteSet(S \ T)
    BY FS_Difference
  <2> HIDE DEF G
  <2> QED BY <1>1, <1>2, <2>1, SetInduction
<1>4. T \cup (S \ T) = S
  OBVIOUS
<1> QED BY <1>3, <1>4

\* A sum with one member that counts.
LEMMA SumSingle ==
  ASSUME NEW S, IsFiniteSet(S), NEW y \in S, NEW a \in Int, NEW f,
         \A x \in S : f[x] = IF x = y THEN a ELSE 0
  PROVE  Sum(f, S) = a
<1>1. \A x \in S : f[x] \in Int
  OBVIOUS
<1>2. Sum(f, S) = f[y] + Sum(f, S \ {y})
  BY <1>1, SumStep
<1>3. Sum(f, S \ {y}) = 0
  <2>1. IsFiniteSet(S \ {y}) /\ \A x \in S \ {y} : f[x] = 0
    BY FS_Subset
  <2> QED BY <2>1, SumZero
<1> QED BY <1>2, <1>3

\* Counting is summing ones.
LEMMA SumOnes ==
  ASSUME NEW S, IsFiniteSet(S), NEW T \in SUBSET S, NEW f,
         \A x \in S : f[x] = IF x \in T THEN 1 ELSE 0
  PROVE  Sum(f, S) = Cardinality(T)
<1>1. IsFiniteSet(T)
  BY FS_Subset
<1> DEFINE G == {U \in SUBSET T : Sum(f, U) = Cardinality(U)}
<1>2. {} \in G
  BY SumEmpty, FS_EmptySet
<1>3. ASSUME NEW U \in SUBSET T, NEW y \in T \ U, U \in G PROVE U \cup {y} \in G
  <2>1. IsFiniteSet(U) /\ f[y] = 1 /\ \A x \in U \cup {y} : f[x] \in Int
    BY <1>1, FS_Subset
  <2>2. Cardinality(U) \in Nat /\ Cardinality(U \cup {y}) = Cardinality(U) + 1
    BY <2>1, FS_CardinalityType, FS_AddElement
  <2>3. Sum(f, U \cup {y}) = f[y] + Sum(f, U)
    BY <2>1, SumAdd
  <2> QED BY <1>3, <2>1, <2>2, <2>3
<1>4. T \in G
  <2> HIDE DEF G
  <2> QED BY <1>1, <1>2, <1>3, SetInduction
<1>5. Sum(f, S) = Sum(f, T)
  <2>1. (\A x \in S : f[x] \in Int) /\ \A x \in S \ T : f[x] = 0
    OBVIOUS
  <2> QED BY <2>1, SumWithin
<1> QED BY <1>4, <1>5

-----------------------------------------------------------------------------
(* Places in a finite strict order *)

\* R orders S strictly and totally.
Orders(R, S) == /\ \A i \in S : <<i, i>> \notin R
                /\ \A i, j \in S : i # j => <<i, j>> \in R \/ <<j, i>> \in R
                /\ \A i, j, k \in S : <<i, j>> \in R /\ <<j, k>> \in R => <<i, k>> \in R

Ahead(R, S, i) == {j \in S : <<j, i>> \in R}
Place(R, S, i) == Cardinality(Ahead(R, S, i))

LEMMA OrdersPart ==
  ASSUME NEW R, NEW S, Orders(R, S), NEW T \in SUBSET S PROVE Orders(R, T)
BY DEF Orders

LEMMA PlaceType ==
  ASSUME NEW R, NEW S, Orders(R, S), IsFiniteSet(S), NEW i \in S
  PROVE  Place(R, S, i) \in 0 .. Cardinality(S) - 1 /\ IsFiniteSet(Ahead(R, S, i))
<1>1. Ahead(R, S, i) \in SUBSET (S \ {i})
  BY DEF Ahead, Orders
<1>2. IsFiniteSet(S \ {i}) /\ Cardinality(S \ {i}) = Cardinality(S) - 1
  BY FS_RemoveElement
<1>3. IsFiniteSet(Ahead(R, S, i)) /\ Place(R, S, i) <= Cardinality(S) - 1
  BY <1>1, <1>2, FS_Subset DEF Place
<1>4. Place(R, S, i) \in Nat /\ Cardinality(S) \in Nat
  BY <1>3, FS_CardinalityType DEF Place
<1> QED BY <1>3, <1>4

LEMMA PlaceGrows ==
  ASSUME NEW R, NEW S, Orders(R, S), IsFiniteSet(S), NEW i \in S, NEW j \in S, <<i, j>> \in R
  PROVE  Place(R, S, i) < Place(R, S, j)
<1>1. Ahead(R, S, i) \in SUBSET Ahead(R, S, j)
  BY DEF Ahead, Orders
<1>2. i \in Ahead(R, S, j) /\ i \notin Ahead(R, S, i)
  BY DEF Ahead, Orders
<1>3. /\ IsFiniteSet(Ahead(R, S, j)) /\ Place(R, S, i) \in Int /\ Place(R, S, j) \in Int
  BY PlaceType
<1>4. Place(R, S, i) <= Place(R, S, j) /\ Place(R, S, i) # Place(R, S, j)
  BY <1>1, <1>2, <1>3, FS_Subset DEF Place
<1> QED BY <1>3, <1>4

\* Places tell members apart, and say which comes first.
LEMMA PlaceOrders ==
  ASSUME NEW R, NEW S, Orders(R, S), IsFiniteSet(S), NEW i \in S, NEW j \in S
  PROVE  /\ Place(R, S, i) = Place(R, S, j) => i = j
         /\ Place(R, S, i) < Place(R, S, j) => <<i, j>> \in R
<1>1. Place(R, S, i) \in Int /\ Place(R, S, j) \in Int
  BY PlaceType
<1>2. i = j \/ <<i, j>> \in R \/ <<j, i>> \in R
  BY DEF Orders
<1>3. <<i, j>> \in R => Place(R, S, i) < Place(R, S, j)
  BY PlaceGrows
<1>4. <<j, i>> \in R => Place(R, S, j) < Place(R, S, i)
  BY PlaceGrows
<1> QED BY <1>1, <1>2, <1>3, <1>4

\* Every place is taken.
LEMMA PlaceTaken ==
  ASSUME NEW R, NEW S, Orders(R, S), IsFiniteSet(S), NEW k \in 0 .. Cardinality(S) - 1
  PROVE  \E i \in S : Place(R, S, i) = k
<1> DEFINE N == 0 .. Cardinality(S) - 1
           f == [i \in S |-> Place(R, S, i)]
<1>1. Cardinality(S) \in Nat
  BY FS_CardinalityType
<1>2. IsFiniteSet(N) /\ Cardinality(N) = Cardinality(S)
  BY <1>1, FS_Interval
<1>3. f \in Injection(S, N)
  <2>1. f \in [S -> N]
    BY PlaceType
  <2>2. \A i, j \in S : f[i] = f[j] => i = j
    BY PlaceOrders
  <2> QED BY <2>1, <2>2 DEF Injection, IsInjective
<1>4. f \in Surjection(S, N)
  BY <1>2, <1>3, FS_Injection
<1> QED BY <1>4 DEF Surjection

\* The first n.
Front(R, S, n) == {i \in S : Place(R, S, i) < n}

LEMMA FrontIs ==
  ASSUME NEW R, NEW S, Orders(R, S), IsFiniteSet(S), NEW n \in Nat
  PROVE  /\ Front(R, S, n) \in SUBSET S /\ IsFiniteSet(Front(R, S, n))
         /\ Cardinality(Front(R, S, n)) \in Nat /\ Cardinality(Front(R, S, n)) <= n
         /\ n > 0 /\ S # {} => Front(R, S, n) # {}
         /\ Cardinality(S) >= n => Cardinality(Front(R, S, n)) = n
<1> DEFINE F == Front(R, S, n)
           f == [i \in F |-> Place(R, S, i)]
<1>1. F \in SUBSET S
  BY DEF Front
<1>2. IsFiniteSet(F) /\ Cardinality(F) \in Nat /\ Cardinality(S) \in Nat
  BY <1>1, FS_Subset, FS_CardinalityType
<1>3. IsFiniteSet(0 .. n - 1) /\ Cardinality(0 .. n - 1) = n
  BY FS_Interval
<1>4. \A i \in F : Place(R, S, i) \in 0 .. n - 1
  <2> SUFFICES ASSUME NEW i \in F PROVE Place(R, S, i) \in 0 .. n - 1
    OBVIOUS
  <2>1. i \in S /\ Place(R, S, i) < n
    BY DEF Front
  <2>2. Place(R, S, i) \in 0 .. Cardinality(S) - 1
    BY <2>1, PlaceType
  <2> QED BY <1>2, <2>1, <2>2
<1>5. f \in Injection(F, 0 .. n - 1)
  <2>1. f \in [F -> 0 .. n - 1]
    BY <1>4
  <2>2. \A i, j \in F : f[i] = f[j] => i = j
    BY <1>1, PlaceOrders
  <2> QED BY <2>1, <2>2 DEF Injection, IsInjective
<1>6. Cardinality(F) <= n /\ (Cardinality(F) = n <=> f \in Surjection(F, 0 .. n - 1))
  BY <1>3, <1>5, FS_Injection
<1>7. ASSUME n > 0, S # {} PROVE F # {}
  <2>1. Cardinality(S) # 0
    BY <1>7, FS_EmptySet
  <2>2. 0 \in 0 .. Cardinality(S) - 1
    BY <1>2, <2>1
  <2>3. PICK i \in S : Place(R, S, i) = 0
    BY <2>2, PlaceTaken
  <2> QED BY <1>7, <2>3 DEF Front
<1>8. ASSUME Cardinality(S) >= n PROVE f \in Surjection(F, 0 .. n - 1)
  <2>1. ASSUME NEW k \in 0 .. n - 1 PROVE \E i \in F : f[i] = k
    <3>1. k \in 0 .. Cardinality(S) - 1 /\ k < n
      BY <1>2, <1>8
    <3>2. PICK i \in S : Place(R, S, i) = k
      BY <3>1, PlaceTaken
    <3> QED BY <3>1, <3>2 DEF Front
  <2> QED BY <1>4, <2>1 DEF Surjection
<1> HIDE DEF F, f
<1>9. F \in SUBSET S /\ IsFiniteSet(F) /\ Cardinality(F) \in Nat /\ Cardinality(F) <= n
  BY <1>1, <1>2, <1>6
<1>10. Cardinality(S) >= n => Cardinality(F) = n
  BY <1>6, <1>8
<1>11. n > 0 /\ S # {} => F # {}
  BY <1>7
<1> QED BY <1>9, <1>10, <1>11 DEF F

-----------------------------------------------------------------------------
(* The shares of an expense *)

LEMMA Division ==
  ASSUME NEW a \in Int, NEW b \in Nat \ {0}
  PROVE  /\ a \div b \in Int /\ a % b \in Int /\ 0 <= a % b /\ a % b < b
         /\ a = b * (a \div b) + (a % b)
OBVIOUS

LEMMA TotalIs == \A f : Total(f) = Sum(f, DOMAIN f)
BY DEF Total, Sum

\* W * s <= (W - 1) * n for the members n that have a remainder: there are enough of them.
LEMMA Enough ==
  ASSUME NEW W \in Nat \ {0}, NEW s \in Int, NEW n \in Nat, 0 <= W * s, W * s <= (W - 1) * n
  PROVE  0 <= s /\ s <= n
<1>1. 0 <= s
  BY SMTT(30)
<1>2. (W - 1) * n <= W * n
  BY SMTT(30)
<1>3. W * s <= W * n
  BY <1>2
<1>4. s <= n
  BY <1>3, SMTT(30)
<1> QED BY <1>1, <1>4
\* allocate hands the units that rounding down leaves over to the largest remainders:
\* the shares add up to the total, each is within one unit of its exact proportion, and
\* none passes the share of a larger weight.
THEOREM AllocateIs ==
  ASSUME NEW total \in Nat \ {0}, NEW D, IsFiniteSet(D), D # {},
         NEW weight \in [D -> Nat \ {0}],
         NEW rank, \A u, v \in D : rank[u] \in Int /\ (rank[u] = rank[v] => u = v)
  PROVE  LET alloc == Allocate(total, weight, rank)
         IN /\ alloc \in [D -> Int]
            /\ Total(alloc) = total
            /\ \A u \in D : Magnitude(alloc[u] * Total(weight) - total * weight[u]) < Total(weight)
            /\ \A u, v \in D : weight[u] > weight[v] => alloc[u] >= alloc[v]
<1>1. PICK W : W = Total(weight)
  OBVIOUS
<1>2. W = Sum(weight, D) /\ W \in Nat \ {0}
  <2>1. \A x \in D : weight[x] \in Int
    OBVIOUS
  <2>2. PICK c \in D : TRUE
    OBVIOUS
  <2>3. PICK f : f = [x \in D |-> IF x = c THEN 1 ELSE 0]
    OBVIOUS
  <2>4. Sum(f, D) = 1
    <3>1. PICK one \in Int : one = 1
      OBVIOUS
    <3>2. \A x \in D : f[x] = IF x = c THEN one ELSE 0
      BY <2>3, <3>1
    <3>3. Sum(f, D) = one
      BY <2>2, <3>2, SumSingle
    <3> QED BY <3>1, <3>3
  <2>5. \A x \in D : f[x] \in Int /\ weight[x] \in Int /\ f[x] <= weight[x]
    BY <2>3
  <2>6. Sum(weight, D) \in Int /\ Sum(f, D) <= Sum(weight, D)
    BY <2>5, SumBound
  <2>7. W = Sum(weight, D)
    BY <1>1, TotalIs
  <2> QED BY <2>4, <2>6, <2>7
<1>3. PICK scaled : scaled = [u \in D |-> total * weight[u]]
  OBVIOUS
<1>4. PICK base : base = [u \in D |-> scaled[u] \div W]
  OBVIOUS
<1>5. PICK rest : rest = [u \in D |-> scaled[u] % W]
  OBVIOUS
<1>6. ASSUME NEW u \in D
      PROVE  /\ scaled[u] \in Int /\ base[u] \in Int /\ rest[u] \in Int /\ weight[u] \in Int
             /\ 0 <= rest[u] /\ rest[u] < W
             /\ scaled[u] = W * base[u] + rest[u] /\ scaled[u] = total * weight[u]
  <2>1. PICK w \in Nat, t \in Nat : w = weight[u] /\ t = total * w
    <3>1. weight[u] \in Nat /\ \A w \in Nat : total * w \in Nat
      OBVIOUS
    <3> QED BY <3>1
  <2>2. scaled[u] = t /\ t \in Int
    BY <1>3, <2>1
  <2>3. base[u] = t \div W /\ rest[u] = t % W
    BY <1>4, <1>5, <2>2
  <2>4. /\ t \div W \in Int /\ t % W \in Int /\ 0 <= t % W /\ t % W < W
        /\ t = W * (t \div W) + (t % W)
    BY <1>2, <2>2, Division
  <2> QED BY <2>1, <2>2, <2>3, <2>4
<1>7. PICK short : short = total - Sum(base, D)
  OBVIOUS
<1>8. Sum(base, D) \in Int /\ short \in Int /\ Sum(rest, D) \in Int /\ W * short = Sum(rest, D)
  <2>1. PICK wb : wb = [u \in D |-> W * base[u]]
    OBVIOUS
  <2>2. \A x \in D : base[x] \in Int /\ wb[x] = W * base[x]
    BY <1>6, <2>1
  <2>3. Sum(base, D) \in Int /\ Sum(wb, D) = W * Sum(base, D)
    BY <1>2, <2>2, SumTimes
  <2>4. \A x \in D : wb[x] \in Int /\ rest[x] \in Int /\ scaled[x] = wb[x] + rest[x]
    BY <1>2, <1>6, <2>2
  <2>5. /\ Sum(wb, D) \in Int /\ Sum(rest, D) \in Int
        /\ Sum(scaled, D) = Sum(wb, D) + Sum(rest, D)
    <3>1. Sum(wb, D) \in Int /\ Sum(rest, D) \in Int
      BY <2>4, SumStep
    <3>2. Sum(scaled, D) = Sum(wb, D) + Sum(rest, D)
      BY <2>4, SumPlus
    <3> QED BY <3>1, <3>2
  <2>6. \A x \in D : weight[x] \in Int /\ scaled[x] = total * weight[x]
    BY <1>6
  <2>7. Sum(scaled, D) = total * W
    BY <1>2, <2>6, SumTimes
  <2>8. PICK b \in Int, r \in Int : b = Sum(base, D) /\ r = Sum(rest, D)
    BY <2>3, <2>5
  <2>9. total * W = W * b + r /\ short = total - b
    BY <1>7, <2>3, <2>5, <2>7, <2>8
  <2>10. W * (total - b) = W * total - W * b /\ total * W = W * total
    BY <1>2, <2>8
  <2>11. W * b \in Int /\ W * total \in Int
    BY <1>2, <2>8
  <2>12. W * (total - b) = r
    BY <2>8, <2>9, <2>10, <2>11
  <2> QED BY <2>8, <2>9, <2>12
<1> DEFINE P == {u \in D : rest[u] > 0}
<1>9. IsFiniteSet(P) /\ Cardinality(P) \in Nat
  BY FS_Subset, FS_CardinalityType
<1>10. 0 <= short /\ short <= Cardinality(P)
  <2>1. PICK ones : ones = [u \in D |-> IF u \in P THEN 1 ELSE 0]
    OBVIOUS
  <2>2. PICK cap : cap = [u \in D |-> (W - 1) * ones[u]]
    OBVIOUS
  <2>3. PICK low : low = [u \in D |-> 0]
    OBVIOUS
  <2>4. W - 1 \in Int /\ P \in SUBSET D
    BY <1>2
  <2>5. Sum(ones, D) = Cardinality(P)
    <3>1. \A x \in D : ones[x] = IF x \in P THEN 1 ELSE 0
      BY <2>1
    <3> HIDE DEF P
    <3> QED BY <2>4, <3>1, SumOnes
  <2>6. Sum(cap, D) = (W - 1) * Cardinality(P)
    <3>1. \A x \in D : ones[x] \in Int /\ cap[x] = (W - 1) * ones[x]
      BY <2>1, <2>2
    <3> HIDE DEF P
    <3> QED BY <2>4, <2>5, <3>1, SumTimes
  <2>7. \A x \in D : /\ low[x] \in Int /\ rest[x] \in Int /\ cap[x] \in Int
                     /\ low[x] <= rest[x] /\ rest[x] <= cap[x]
    <3> SUFFICES ASSUME NEW x \in D
                 PROVE  /\ low[x] \in Int /\ rest[x] \in Int /\ cap[x] \in Int
                        /\ low[x] <= rest[x] /\ rest[x] <= cap[x]
      OBVIOUS
    <3>1. PICK r \in Int, w \in Int : r = rest[x] /\ w = W - 1 /\ 0 <= r /\ r <= w
      BY <1>2, <1>6
    <3>2. cap[x] = IF r > 0 THEN w ELSE 0
      <4>1. ones[x] = IF r > 0 THEN 1 ELSE 0
        BY <2>1, <3>1
      <4>2. w * 1 = w /\ w * 0 = 0
        BY <3>1
      <4> QED BY <2>2, <3>1, <4>1, <4>2
    <3> QED BY <2>3, <3>1, <3>2
  <2>8. Sum(low, D) = 0
    BY <2>3, SumZero
  <2>9. 0 <= Sum(rest, D)
    BY <2>7, <2>8, SumBound
  <2>10. Sum(rest, D) <= Sum(cap, D)
    BY <2>7, SumBound
  <2>11. 0 <= W * short /\ W * short <= (W - 1) * Cardinality(P)
    BY <1>8, <2>6, <2>9, <2>10
  <2> HIDE DEF P
  <2> QED BY <1>2, <1>8, <1>9, <2>11, Enough
<1> DEFINE before(v, u) == rest[v] > rest[u] \/ (rest[v] = rest[u] /\ rank[v] < rank[u])
           R == {p \in D \X D : before(p[1], p[2])}
<1>11. \A u, v \in D : <<v, u>> \in R <=> before(v, u)
  OBVIOUS
<1>12. Orders(R, D)
  <2>1. \A i \in D : rest[i] \in Int /\ rank[i] \in Int
    BY <1>6
  <2>2. \A i \in D : ~ before(i, i)
    BY <2>1
  <2>3. \A i, j \in D : i # j => before(i, j) \/ before(j, i)
    BY <2>1
  <2>4. \A i, j, k \in D : before(i, j) /\ before(j, k) => before(i, k)
    BY <2>1
  <2> HIDE DEF R, before
  <2> QED BY <1>11, <2>2, <2>3, <2>4 DEF Orders
<1> DEFINE F == Front(R, D, short)
<1>13. F \in SUBSET D /\ Cardinality(F) = short
  <2>1. Cardinality(P) <= Cardinality(D) /\ Cardinality(D) \in Nat
    BY FS_Subset, FS_CardinalityType
  <2>2. short \in Nat /\ Cardinality(D) >= short
    BY <1>8, <1>9, <1>10, <2>1
  <2> HIDE DEF R
  <2> QED BY <1>12, <2>2, FrontIs
\* Whoever gets one more has a remainder: those who have one come first, and there are enough.
<1>14. ASSUME NEW u \in F PROVE rest[u] > 0
  <2> SUFFICES ASSUME ~ (rest[u] > 0) PROVE FALSE
    OBVIOUS
  <2>1. u \in D /\ Place(R, D, u) < short
    BY DEF Front
  <2>2. rest[u] = 0
    BY <1>6, <2>1
  <2>3. P \in SUBSET Ahead(R, D, u)
    BY <1>6, <1>11, <2>1, <2>2 DEF Ahead
  <2> HIDE DEF R, P
  <2>4. Place(R, D, u) \in Int /\ IsFiniteSet(Ahead(R, D, u))
    BY <1>12, <2>1, PlaceType
  <2>5. Cardinality(P) <= Place(R, D, u)
    BY <2>3, <2>4, FS_Subset DEF Place
  <2> QED BY <1>8, <1>9, <1>10, <2>1, <2>4, <2>5
<1>15. PICK bonus : bonus = [u \in D |-> IF u \in F THEN 1 ELSE 0]
  OBVIOUS
<1>16. PICK alloc : alloc = Allocate(total, weight, rank)
  OBVIOUS
<1>17. alloc = [u \in D |-> base[u] + bonus[u]]
  <2>1. DOMAIN weight = D /\ DOMAIN base = D
    BY <1>4
  <2>2. Total(base) = Sum(base, D)
    BY <2>1, TotalIs
  <2>3. alloc = [u \in D |-> base[u] +
                    IF Cardinality({v \in D : before(v, u)}) < short THEN 1 ELSE 0]
    BY <1>1, <1>3, <1>4, <1>5, <1>7, <1>16, <2>1, <2>2 DEF Allocate
  <2>4. \A u \in D : {v \in D : before(v, u)} = Ahead(R, D, u)
    BY <1>11 DEF Ahead
  <2>5. \A u \in D : Cardinality({v \in D : before(v, u)}) < short <=> u \in F
    <3> HIDE DEF R, before
    <3> QED BY <2>4 DEF Front, Place
  <2>6. \A u \in D : bonus[u] = IF Cardinality({v \in D : before(v, u)}) < short THEN 1 ELSE 0
    <3> HIDE DEF F, before
    <3> QED BY <1>15, <2>5
  <2> HIDE DEF F, before
  <2> QED BY <2>3, <2>6
<1>18. \A u \in D : /\ base[u] \in Int /\ bonus[u] \in {0, 1} /\ alloc[u] = base[u] + bonus[u]
                    /\ bonus[u] = 1 => rest[u] > 0
  <2> HIDE DEF F
  <2> QED BY <1>6, <1>14, <1>15, <1>17
<1> HIDE DEF P, before, R, F
<1>19. alloc \in [D -> Int] /\ DOMAIN alloc = D
  BY <1>17, <1>18
<1>20. Total(alloc) = total
  <2>1. Sum(bonus, D) = short
    BY <1>13, <1>15, SumOnes
  <2>2. \A x \in D : base[x] \in Int /\ bonus[x] \in Int /\ alloc[x] = base[x] + bonus[x]
    BY <1>18
  <2>3. Sum(alloc, D) = Sum(base, D) + Sum(bonus, D)
    BY <2>2, SumPlus
  <2>4. Total(alloc) = Sum(alloc, D)
    BY <1>19, TotalIs
  <2> QED BY <1>7, <1>8, <2>1, <2>3, <2>4
<1>21. ASSUME NEW u \in D
       PROVE  Magnitude(alloc[u] * W - total * weight[u]) < W
  <2>1. PICK b \in Int, e \in {0, 1}, r \in Int :
          b = base[u] /\ e = bonus[u] /\ r = rest[u]
    BY <1>6, <1>18
  <2>2. PICK t \in Int : t = total * weight[u]
    BY <1>6
  <2>3. alloc[u] = b + e /\ t = W * b + r /\ 0 <= r /\ r < W /\ (e = 1 => r > 0)
    BY <1>6, <1>18, <2>1, <2>2
  <2>4. (b + e) * W = W * b + e * W /\ W * b \in Int /\ (e = 0 => e * W = 0) /\ (e = 1 => e * W = W)
    BY <1>2, <2>1
  <2>5. PICK m \in Int : m = (b + e) * W - t /\ -W < m /\ m < W
    <3>1. PICK z \in Int : z = W * b
      BY <2>4
    <3>2. CASE e = 0
      <4>1. (b + e) * W - t = -r
        BY <2>1, <2>2, <2>3, <2>4, <3>1, <3>2
      <4> QED BY <1>2, <2>1, <2>3, <4>1
    <3>3. CASE e = 1
      <4>1. (b + e) * W - t = W - r
        BY <1>2, <2>1, <2>2, <2>3, <2>4, <3>1, <3>3
      <4> QED BY <1>2, <2>1, <2>3, <3>3, <4>1
    <3> QED BY <2>1, <3>2, <3>3
  <2>6. Magnitude(m) < W
    BY <1>2, <2>5 DEF Magnitude
  <2> QED BY <2>2, <2>3, <2>5, <2>6
<1>22. ASSUME NEW u \in D, NEW v \in D, weight[u] > weight[v] PROVE alloc[u] >= alloc[v]
  <2>1. PICK wu \in Nat, wv \in Nat : wu = weight[u] /\ wv = weight[v] /\ wv + 1 <= wu
    BY <1>22
  <2>2. PICK bu \in Int, bv \in Int, eu \in {0, 1}, ev \in {0, 1} :
          bu = base[u] /\ bv = base[v] /\ eu = bonus[u] /\ ev = bonus[v]
    BY <1>18
  <2>3. PICK ru \in Int, rv \in Int : ru = rest[u] /\ rv = rest[v]
    BY <1>6
  <2>4. total * wv + total <= total * wu /\ total * wv \in Int /\ total * wu \in Int
    <3>1. PICK d \in Nat : wu = wv + 1 + d
      <4>1. wu - wv - 1 \in Nat /\ wu = wv + 1 + (wu - wv - 1)
        BY <2>1
      <4> QED BY <4>1
    <3>2. total * (wv + 1 + d) = total * wv + total + total * d
      BY <2>1, <3>1
    <3>3. total * d \in Nat /\ total * wv \in Int
      BY <2>1, <3>1
    <3> QED BY <3>1, <3>2, <3>3
  <2>5. W * bv + rv + total <= W * bu + ru
    <3>1. W * bv + rv = total * wv /\ W * bu + ru = total * wu
      BY <1>6, <2>1, <2>2, <2>3
    <3> QED BY <2>4, <3>1
  <2>6. ru < W /\ 0 <= rv /\ ru \in Int /\ rv \in Int
    BY <1>6, <2>3
  <2>7. bv <= bu
    <3> SUFFICES ASSUME bu + 1 <= bv PROVE FALSE
      BY <2>2
    <3>1. PICK d \in Nat : bv = bu + 1 + d
      <4>1. bv - bu - 1 \in Nat /\ bv = bu + 1 + (bv - bu - 1)
        BY <2>2
      <4> QED BY <4>1
    <3>2. W * (bu + 1 + d) = W * bu + W + W * d
      BY <1>2, <2>2, <3>1
    <3>3. W * d \in Nat /\ W * bu \in Int
      BY <1>2, <2>2, <3>1
    <3> QED BY <1>2, <2>5, <2>6, <3>1, <3>2, <3>3
  <2>8. ASSUME bu = bv, ev = 1 PROVE eu = 1
    <3>1. rv < ru
      <4>1. PICK z \in Int : z = W * bv /\ z = W * bu
        BY <1>2, <2>2, <2>8
      <4> QED BY <2>5, <2>6, <4>1
    <3>2. before(u, v)
      BY <2>3, <3>1 DEF before
    <3>3. <<u, v>> \in R
      BY <1>11, <3>2
    <3>4. v \in F
      BY <1>15, <2>2, <2>8
    <3>5. Place(R, D, v) < short /\ Place(R, D, u) < Place(R, D, v)
      BY <1>12, <3>3, <3>4, PlaceGrows DEF F, Front
    <3>6. Place(R, D, u) \in Int /\ Place(R, D, v) \in Int
      BY <1>12, PlaceType
    <3>7. u \in F
      BY <1>8, <3>5, <3>6 DEF F, Front
    <3> QED BY <1>15, <2>2, <3>7
  <2>9. bv + ev <= bu + eu
    <3>1. (eu = 0 \/ eu = 1) /\ (ev = 0 \/ ev = 1) /\ bu \in Int /\ bv \in Int
      BY <2>2
    <3>2. bu = bv /\ ev = 1 => eu = 1
      BY <2>8
    <3> QED BY <2>7, <3>1, <3>2
  <2> QED BY <1>18, <2>2, <2>9
<1> QED BY <1>1, <1>16, <1>19, <1>20, <1>21, <1>22

-----------------------------------------------------------------------------
(* What everyone owes *)

DeltaOf(events, u) == [i \in DOMAIN events |-> Delta(events[i], u)]

LEMMA ReplayIs ==
  ASSUME NEW events, IsFiniteSet(DOMAIN events)
  PROVE  \A u \in People : Replay(events)[u] = Sum(DeltaOf(events, u), DOMAIN events)
<1> SUFFICES ASSUME NEW u \in People
             PROVE  Replay(events)[u] = Sum(DeltaOf(events, u), DOMAIN events)
  OBVIOUS
<1> DEFINE D == DOMAIN events
           f == DeltaOf(events, u)
           Body(g, s) == IF s = {} THEN 0
                         ELSE Delta(events[CHOOSE x \in s : TRUE], u) + g[s \ {CHOOSE x \in s : TRUE}]
           h == CHOOSE g : g = [s \in SUBSET D |-> Body(g, s)]
<1>1. \A g, s : s \in SUBSET D => Body(g, s) = Step(f, g, s)
  BY DEF Step, Pick, DeltaOf
<1>2. \A g : g = [s \in SUBSET D |-> Body(g, s)] <=> Sums(f, g, D)
  <2> HIDE DEF Body, f
  <2> QED BY <1>1 DEF Sums
<1>3. \E g : g = [s \in SUBSET D |-> Body(g, s)]
  <2> HIDE DEF Body, f
  <2> QED BY <1>2, SumsExists
<1>4. h = [s \in SUBSET D |-> Body(h, s)]
  <2> HIDE DEF Body
  <2> QED BY <1>3
<1>5. Sums(f, h, D)
  <2> HIDE DEF Body, f, h
  <2> QED BY <1>2, <1>4
<1>6. Replay(events)[u] = h[D]
  BY DEF Replay, MapThenSumSet, MapThenFoldSet
<1> HIDE DEF f, h
<1>7. Sum(f, D) = h[D]
  BY <1>5, SumPart
<1> QED BY <1>6, <1>7 DEF f
PaidOf(events, u) ==
  [i \in DOMAIN events |-> IF events[i].kind = "settlement" THEN Delta(events[i], u) ELSE 0]

LEMMA PaidNetIs ==
  ASSUME NEW events, IsFiniteSet(DOMAIN events), NEW u
  PROVE  PaidNet(events, u) = -Sum(PaidOf(events, u), DOMAIN events)
<1> DEFINE D == DOMAIN events
           f == PaidOf(events, u)
           At(i) == IF events[i].kind = "settlement" THEN Delta(events[i], u) ELSE 0
           Body(g, s) == IF s = {} THEN 0
                         ELSE At(CHOOSE x \in s : TRUE) + g[s \ {CHOOSE x \in s : TRUE}]
           h == CHOOSE g : g = [s \in SUBSET D |-> Body(g, s)]
<1>1. \A g, s : s \in SUBSET D => Body(g, s) = Step(f, g, s)
  BY DEF Step, Pick, PaidOf
<1>2. \A g : g = [s \in SUBSET D |-> Body(g, s)] <=> Sums(f, g, D)
  <2> HIDE DEF Body, f
  <2> QED BY <1>1 DEF Sums
<1>3. \E g : g = [s \in SUBSET D |-> Body(g, s)]
  <2> HIDE DEF Body, f
  <2> QED BY <1>2, SumsExists
<1>4. h = [s \in SUBSET D |-> Body(h, s)]
  <2> HIDE DEF Body
  <2> QED BY <1>3
<1>5. Sums(f, h, D)
  <2> HIDE DEF Body, f, h
  <2> QED BY <1>2, <1>4
<1>6. PaidNet(events, u) = -h[D]
  BY DEF PaidNet, MapThenSumSet, MapThenFoldSet
<1> HIDE DEF f, h
<1>7. Sum(f, D) = h[D]
  BY <1>5, SumPart
<1> QED BY <1>6, <1>7 DEF f

\* The sums of a part of the transactions.
LEMMA PartOfEvents ==
  ASSUME NEW events, IsFiniteSet(DOMAIN events), NEW T \in SUBSET DOMAIN events, NEW u,
         \A i \in DOMAIN events : Delta(events[i], u) \in Int
  PROVE  LET part == [i \in T |-> events[i]]
         IN /\ Sum(DeltaOf(part, u), T) = Sum(DeltaOf(events, u), T)
            /\ Sum(PaidOf(part, u), T) = Sum(PaidOf(events, u), T)
<1>1. PICK part : part = [i \in T |-> events[i]]
  OBVIOUS
<1>2. IsFiniteSet(T) /\ DOMAIN part = T
  BY <1>1, FS_Subset
<1>3. \A i \in T : DeltaOf(events, u)[i] \in Int /\ DeltaOf(part, u)[i] = DeltaOf(events, u)[i]
  BY <1>1 DEF DeltaOf
<1>4. \A i \in T : PaidOf(events, u)[i] \in Int /\ PaidOf(part, u)[i] = PaidOf(events, u)[i]
  BY <1>1 DEF PaidOf
<1>5. Sum(DeltaOf(part, u), T) = Sum(DeltaOf(events, u), T)
  BY <1>2, <1>3, SumSame
<1>6. Sum(PaidOf(part, u), T) = Sum(PaidOf(events, u), T)
  BY <1>2, <1>4, SumSame
<1> QED BY <1>1, <1>5, <1>6

\* A transaction whose parties are people and whose shares make up its amount.
WellFormed(event) ==
  \/ /\ event.kind = "expense"
     /\ event.payer \in People /\ event.amount \in Int
     /\ DOMAIN event.shares \in SUBSET People
     /\ \A u \in DOMAIN event.shares : event.shares[u] \in Int
     /\ Total(event.shares) = event.amount
  \/ /\ event.kind = "settlement"
     /\ event.from \in People /\ event.to \in People /\ event.amount \in Int

\* What one of them moves, it takes from some and gives to others.
LEMMA DeltaIs ==
  ASSUME NEW event, WellFormed(event), NEW f, f = [u \in People |-> Delta(event, u)]
  PROVE  (\A u \in People : Delta(event, u) \in Int) /\ Sum(f, People) = 0
<1>1. IsFiniteSet(People)
  BY PeopleAssumption
<1>2. PICK a \in Int : a = event.amount
  BY DEF WellFormed
<1>3. CASE event.kind = "expense"
  <2>1. /\ event.payer \in People /\ DOMAIN event.shares \in SUBSET People
        /\ \A u \in DOMAIN event.shares : event.shares[u] \in Int
        /\ Total(event.shares) = a
    BY <1>2, <1>3 DEF WellFormed
  <2>2. PICK S : S = DOMAIN event.shares
    OBVIOUS
  <2>3. PICK s : s = [u \in People |-> IF u \in S THEN event.shares[u] ELSE 0]
    OBVIOUS
  <2>4. PICK p : p = [u \in People |-> IF u = event.payer THEN a ELSE 0]
    OBVIOUS
  <2>5. Sum(p, People) = a
    BY <1>1, <2>1, <2>4, SumSingle
  <2>6. Sum(s, People) = a
    <3>1. (\A x \in People : s[x] \in Int) /\ \A x \in People \ S : s[x] = 0
      BY <2>1, <2>2, <2>3
    <3>2. Sum(s, People) = Sum(s, S)
      BY <1>1, <2>1, <2>2, <3>1, SumWithin
    <3>3. IsFiniteSet(S) /\ \A x \in S : event.shares[x] \in Int /\ s[x] = event.shares[x]
      BY <1>1, <2>1, <2>2, <2>3, FS_Subset
    <3>4. Sum(s, S) = Sum(event.shares, S)
      BY <3>3, SumSame
    <3> QED BY <2>1, <2>2, <3>2, <3>4, TotalIs
  <2>7. \A u \in People : f[u] = s[u] - p[u]
    BY <1>2, <1>3, <2>2, <2>3, <2>4 DEF Delta
  <2>8. \A u \in People : s[u] \in Int /\ p[u] \in Int
    BY <2>1, <2>2, <2>3, <2>4
  <2>9. \A u \in People : f[u] \in Int /\ p[u] \in Int /\ s[u] = f[u] + p[u]
    BY <2>7, <2>8
  <2>10. PICK z : z = Sum(f, People)
    OBVIOUS
  <2>11. z \in Int
    BY <1>1, <2>9, <2>10, SumStep
  <2>12. Sum(s, People) = z + Sum(p, People)
    BY <1>1, <2>9, <2>10, SumPlus
  <2> QED BY <2>5, <2>6, <2>9, <2>10, <2>11, <2>12
<1>4. CASE event.kind = "settlement"
  <2>1. event.from \in People /\ event.to \in People
    BY <1>4 DEF WellFormed
  <2>2. PICK s : s = [u \in People |-> IF u = event.to THEN a ELSE 0]
    OBVIOUS
  <2>3. PICK p : p = [u \in People |-> IF u = event.from THEN a ELSE 0]
    OBVIOUS
  <2>4. Sum(s, People) = a /\ Sum(p, People) = a
    BY <1>1, <2>1, <2>2, <2>3, SumSingle
  <2>5. \A u \in People : f[u] = s[u] - p[u]
    BY <1>2, <1>4, <2>2, <2>3 DEF Delta
  <2>6. \A u \in People : f[u] \in Int /\ p[u] \in Int /\ s[u] = f[u] + p[u]
    BY <2>2, <2>3, <2>5
  <2>7. PICK z : z = Sum(f, People)
    OBVIOUS
  <2>8. z \in Int
    BY <1>1, <2>6, <2>7, SumStep
  <2>9. Sum(s, People) = z + Sum(p, People)
    BY <1>1, <2>6, <2>7, SumPlus
  <2> QED BY <2>4, <2>6, <2>7, <2>8, <2>9
<1> QED BY <1>3, <1>4 DEF WellFormed

\* replay of domain/balances.py makes what some owe what others are owed, whatever the
\* transactions are.
THEOREM ReplayBalances ==
  ASSUME NEW events, IsFiniteSet(DOMAIN events), \A i \in DOMAIN events : WellFormed(events[i])
  PROVE  Replay(events) \in [People -> Int] /\ Total(Replay(events)) = 0
<1>1. PICK D : D = DOMAIN events
  OBVIOUS
<1>2. IsFiniteSet(People) /\ IsFiniteSet(D)
  BY <1>1, PeopleAssumption
<1>3. \A i \in D : \A u \in People : Delta(events[i], u) \in Int
  BY <1>1, DeltaIs
<1> DEFINE Net(T) == [u \in People |-> Sum(DeltaOf(events, u), T)]
           G == {T \in SUBSET D : Sum(Net(T), People) = 0}
<1>4. ASSUME NEW T \in SUBSET D
      PROVE  IsFiniteSet(T) /\ \A u \in People : Net(T)[u] \in Int
  <2>1. IsFiniteSet(T)
    BY <1>2, FS_Subset
  <2>2. ASSUME NEW u \in People PROVE Sum(DeltaOf(events, u), T) \in Int
    <3>1. \A i \in T : DeltaOf(events, u)[i] \in Int
      BY <1>1, <1>3 DEF DeltaOf
    <3> QED BY <2>1, <3>1, SumStep
  <2> QED BY <2>1, <2>2
<1>5. {} \in G
  <2>1. \A u \in People : Net({})[u] = 0
    BY SumEmpty
  <2> HIDE DEF Net
  <2> QED BY <1>2, <2>1, SumZero
<1>6. ASSUME NEW T \in SUBSET D, NEW y \in D \ T, T \in G PROVE T \cup {y} \in G
  <2>1. PICK d : d = [u \in People |-> Delta(events[y], u)]
    OBVIOUS
  <2>2. Sum(d, People) = 0 /\ \A u \in People : d[u] \in Int
    BY <1>1, <2>1, DeltaIs
  <2>3. ASSUME NEW u \in People PROVE Net(T \cup {y})[u] = d[u] + Net(T)[u]
    <3>1. \A i \in T \cup {y} : DeltaOf(events, u)[i] \in Int
      BY <1>1, <1>3 DEF DeltaOf
    <3>2. Sum(DeltaOf(events, u), T \cup {y}) = DeltaOf(events, u)[y] + Sum(DeltaOf(events, u), T)
      BY <1>4, <3>1, SumAdd
    <3> QED BY <1>1, <2>1, <3>2 DEF DeltaOf
  <2> HIDE DEF Net
  <2>4. \A u \in People : d[u] \in Int /\ Net(T)[u] \in Int /\ Net(T \cup {y})[u] = d[u] + Net(T)[u]
    BY <1>4, <2>2, <2>3
  <2>5. Sum(Net(T \cup {y}), People) = Sum(d, People) + Sum(Net(T), People)
    BY <1>2, <2>4, SumPlus
  <2> QED BY <1>6, <2>2, <2>5
<1>7. D \in G
  <2> HIDE DEF G
  <2> QED BY <1>2, <1>5, <1>6, SetInduction
<1>8. \A u \in People : Replay(events)[u] = Net(D)[u]
  BY <1>1, <1>2, ReplayIs
<1>9. PICK r : r = Replay(events)
  OBVIOUS
<1>10. DOMAIN r = People /\ r = [u \in People |-> r[u]]
  BY <1>9 DEF Replay
<1> HIDE DEF Net
<1>11. r \in [People -> Int] /\ \A u \in People : Net(D)[u] \in Int /\ r[u] = Net(D)[u]
  BY <1>4, <1>8, <1>9, <1>10
<1>12. Sum(r, People) = Sum(Net(D), People)
  BY <1>2, <1>11, SumSame
<1> QED BY <1>7, <1>9, <1>10, <1>11, <1>12, TotalIs

-----------------------------------------------------------------------------
(* Credits *)

\* When everyone is square, taking an expense away makes exactly those overpaid
\* who owed a share of it and had paid more than they received: the rest of the
\* minimum that overpayment_credits takes has not moved.
LEMMA SquareThenUndone ==
  ASSUME NEW events, IsFiniteSet(DOMAIN events), \A i \in DOMAIN events : WellFormed(events[i]),
         NEW y \in DOMAIN events, events[y].kind = "expense",
         NEW u \in People, Replay(events)[u] = 0,
         NEW after, after = [i \in DOMAIN events \ {y} |-> events[i]]
  PROVE  OverpaymentCredit(after, u) > OverpaymentCredit(events, u)
           <=> Delta(events[y], u) > 0 /\ PaidNet(events, u) > 0
<1>1. PICK D, T : D = DOMAIN events /\ T = D \ {y}
  OBVIOUS
<1>2. IsFiniteSet(D) /\ IsFiniteSet(T) /\ y \in D /\ T \in SUBSET D
  BY <1>1, FS_Subset
<1>3. \A i \in D : Delta(events[i], u) \in Int
  BY <1>1, DeltaIs
<1>4. DOMAIN after = T
  BY <1>1
<1>5. PICK d \in Int : d = Delta(events[y], u)
  BY <1>2, <1>3
<1>6. PICK b, a : b = Sum(DeltaOf(events, u), D) /\ a = Sum(DeltaOf(events, u), T)
  OBVIOUS
<1>7. b \in Int /\ a \in Int /\ b = d + a
  <2>1. \A i \in D : DeltaOf(events, u)[i] \in Int
    BY <1>1, <1>3 DEF DeltaOf
  <2>2. b \in Int /\ b = DeltaOf(events, u)[y] + a
    BY <1>1, <1>2, <1>6, <2>1, SumStep
  <2>3. a \in Int
    BY <1>2, <1>6, <2>1, SumStep
  <2> QED BY <1>1, <1>2, <1>5, <2>2, <2>3 DEF DeltaOf
<1>8. PICK p, q : p = Sum(PaidOf(events, u), D) /\ q = Sum(PaidOf(events, u), T)
  OBVIOUS
<1>9. p \in Int /\ q = p
  <2>1. \A i \in D : PaidOf(events, u)[i] \in Int
    BY <1>1, <1>3 DEF PaidOf
  <2>2. p \in Int /\ p = PaidOf(events, u)[y] + q
    BY <1>1, <1>2, <1>8, <2>1, SumStep
  <2>3. q \in Int
    BY <1>2, <1>8, <2>1, SumStep
  <2>4. PaidOf(events, u)[y] = 0
    BY DEF PaidOf
  <2> QED BY <2>2, <2>3, <2>4
<1>10. Replay(events)[u] = b /\ PaidNet(events, u) = -p
  BY <1>1, <1>2, <1>6, <1>8, ReplayIs, PaidNetIs
<1>11. Replay(after)[u] = a /\ PaidNet(after, u) = -q
  <2>1. /\ Sum(DeltaOf(after, u), T) = Sum(DeltaOf(events, u), T)
        /\ Sum(PaidOf(after, u), T) = Sum(PaidOf(events, u), T)
    BY <1>1, <1>2, <1>3, PartOfEvents
  <2>2. Replay(after)[u] = Sum(DeltaOf(after, u), T) /\ PaidNet(after, u) = -Sum(PaidOf(after, u), T)
    BY <1>2, <1>4, ReplayIs, PaidNetIs
  <2> QED BY <1>6, <1>8, <2>1, <2>2
<1>12. b = 0 /\ a = -d
  BY <1>5, <1>7, <1>10
<1>13. OverpaymentCredit(events, u) = 0
  <2>1. Lesser(-Replay(events)[u], PaidNet(events, u)) = IF 0 < -p THEN 0 ELSE -p
    BY <1>9, <1>10, <1>12 DEF Lesser
  <2> QED BY <1>9, <2>1 DEF OverpaymentCredit
<1>14. OverpaymentCredit(after, u) = IF d > 0 /\ -p > 0 THEN (IF d < -p THEN d ELSE -p) ELSE 0
  <2>1. Lesser(-Replay(after)[u], PaidNet(after, u)) = IF d < -p THEN d ELSE -p
    BY <1>5, <1>9, <1>11, <1>12 DEF Lesser
  <2> QED BY <1>5, <1>9, <2>1 DEF OverpaymentCredit
<1> QED BY <1>5, <1>9, <1>10, <1>13, <1>14

-----------------------------------------------------------------------------
(* The suggested transfers *)

Larger(net, u, v) == \/ Magnitude(net[u]) > Magnitude(net[v])
                     \/ Magnitude(net[u]) = Magnitude(net[v]) /\ u <= v

\* Somebody has the largest position.
LEMMA LargestIs ==
  ASSUME NEW net \in [People -> Int], NEW S \in SUBSET People, S # {}
  PROVE  Largest(net, S) \in S
<1>1. IsFiniteSet(S)
  BY PeopleAssumption, FS_Subset
<1>2. \A u \in People : Magnitude(net[u]) \in Int /\ u \in Int
  BY PeopleAssumption DEF Magnitude
<1>3. \A u, v, w \in People : Larger(net, u, v) /\ Larger(net, v, w) => Larger(net, u, w)
  BY <1>2 DEF Larger
<1>4. \A u, v \in People : Larger(net, u, v) \/ Larger(net, v, u)
  BY <1>2 DEF Larger
<1> DEFINE G == {T \in SUBSET S : T = {} \/ \E u \in T : \A v \in T : Larger(net, u, v)}
<1>5. {} \in G
  OBVIOUS
<1>6. ASSUME NEW T \in SUBSET S, NEW y \in S \ T, T \in G PROVE T \cup {y} \in G
  <2>1. \A v \in T \cup {y} : v \in People
    OBVIOUS
  <2>2. CASE T = {}
    BY <1>4, <2>1, <2>2
  <2>3. CASE T # {}
    <3>1. PICK u \in T : \A v \in T : Larger(net, u, v)
      BY <1>6, <2>3
    <3>2. CASE Larger(net, u, y)
      BY <3>1, <3>2
    <3>3. CASE ~ Larger(net, u, y)
      <4>1. Larger(net, y, u) /\ Larger(net, y, y)
        BY <1>4, <2>1, <3>3
      <4>2. \A v \in T : Larger(net, y, v)
        BY <1>3, <2>1, <3>1, <4>1
      <4> QED BY <4>1, <4>2
    <3> QED BY <3>2, <3>3
  <2> QED BY <2>2, <2>3
<1>7. S \in G
  <2> HIDE DEF G
  <2> QED BY <1>1, <1>5, <1>6, SetInduction
<1>8. \E u \in S : \A v \in S : Larger(net, u, v)
  BY <1>7
<1> QED BY <1>8 DEF Largest, Larger

Amounts(S) == MapThenSumSet(LAMBDA t : t.amount, S)

LEMMA AmountsIs ==
  ASSUME NEW S, IsFiniteSet(S), NEW a, a = [t \in S |-> t.amount] PROVE Amounts(S) = Sum(a, S)
<1> DEFINE Body(g, s) == IF s = {} THEN 0
                         ELSE (CHOOSE x \in s : TRUE).amount + g[s \ {CHOOSE x \in s : TRUE}]
           h == CHOOSE g : g = [s \in SUBSET S |-> Body(g, s)]
<1>1. \A g, s : s \in SUBSET S => Body(g, s) = Step(a, g, s)
  BY DEF Step, Pick
<1>2. \A g : g = [s \in SUBSET S |-> Body(g, s)] <=> Sums(a, g, S)
  <2> HIDE DEF Body
  <2> QED BY <1>1 DEF Sums
<1>3. \E g : g = [s \in SUBSET S |-> Body(g, s)]
  <2> HIDE DEF Body
  <2> QED BY <1>2, SumsExists
<1>4. h = [s \in SUBSET S |-> Body(h, s)]
  <2> HIDE DEF Body
  <2> QED BY <1>3
<1>5. Sums(a, h, S)
  <2> HIDE DEF Body, h
  <2> QED BY <1>2, <1>4
<1>6. Amounts(S) = h[S]
  BY DEF Amounts, MapThenSumSet, MapThenFoldSet
<1> HIDE DEF h
<1>7. Sum(a, S) = h[S]
  BY <1>5, SumPart
<1> QED BY <1>6, <1>7

LEMMA AmountsAdd ==
  ASSUME NEW S, IsFiniteSet(S), \A t \in S : t.amount \in Int, NEW y, y \notin S, y.amount \in Int
  PROVE  Amounts(S) \in Int /\ Amounts(S \cup {y}) = y.amount + Amounts(S)
<1>1. PICK U : U = S \cup {y}
  OBVIOUS
<1>2. PICK a : a = [t \in U |-> t.amount]
  OBVIOUS
<1>3. PICK b : b = [t \in S |-> t.amount]
  OBVIOUS
<1>4. IsFiniteSet(U)
  BY <1>1, FS_AddElement
<1>5. Amounts(U) = Sum(a, U) /\ Amounts(S) = Sum(b, S)
  BY <1>2, <1>3, <1>4, AmountsIs
<1>6. \A x \in S \cup {y} : a[x] \in Int
  BY <1>1, <1>2
<1>7. Sum(a, S) \in Int /\ Sum(a, U) = a[y] + Sum(a, S)
  BY <1>1, <1>6, SumAdd
<1>8. \A x \in S : a[x] \in Int /\ b[x] = a[x]
  BY <1>1, <1>2, <1>3
<1>9. Sum(b, S) = Sum(a, S)
  BY <1>8, SumSame
<1> QED BY <1>1, <1>2, <1>5, <1>7, <1>9

LEMMA AmountsNone == Amounts({}) = 0
<1>1. PICK a : a = [t \in {} |-> t.amount]
  OBVIOUS
<1> QED BY <1>1, AmountsIs, SumEmpty, FS_EmptySet

\* Nobody owes or nobody is owed: everyone is square.
LEMMA OneSided ==
  ASSUME NEW net \in [People -> Int], Sum(net, People) = 0,
         Debtors(net) = {} \/ Creditors(net) = {}
  PROVE  \A u \in People : net[u] = 0
<1>1. IsFiniteSet(People)
  BY PeopleAssumption
<1>2. PICK zero : zero = [u \in People |-> 0]
  OBVIOUS
<1>3. Sum(zero, People) = 0
  BY <1>1, <1>2, SumZero
<1>4. CASE Debtors(net) = {}
  <2>1. \A u \in People : net[u] \in Int /\ zero[u] \in Int /\ net[u] <= zero[u]
    BY <1>2, <1>4 DEF Debtors
  <2>2. \A u \in People : net[u] = zero[u]
    BY <1>1, <1>3, <2>1, SumBound
  <2> QED BY <1>2, <2>2
<1>5. CASE Creditors(net) = {}
  <2>1. \A u \in People : net[u] \in Int /\ zero[u] \in Int /\ zero[u] <= net[u]
    BY <1>2, <1>5 DEF Creditors
  <2>2. \A u \in People : zero[u] = net[u]
    BY <1>1, <1>3, <2>1, SumBound
  <2> QED BY <1>2, <2>2
<1> QED BY <1>4, <1>5

\* The rounds of the greedy loop, and the function they define.
Round(r) == IF Debtors(r.net) = {} \/ Creditors(r.net) = {} THEN r
            ELSE [net |-> Paid(r.net, Suggestion(r.net)),
                  transfers |-> r.transfers \cup {Suggestion(r.net)}]

AtRound(net, g, k) == IF k = 0 THEN [net |-> net, transfers |-> {}] ELSE Round(g[k - 1])

Rounds(net, g) == g = [k \in 0 .. Cardinality(People) |-> AtRound(net, g, k)]

LEMMA RoundsExist == \A net : \E g : Rounds(net, g)
<1> SUFFICES ASSUME NEW net PROVE \E g : Rounds(net, g)
  OBVIOUS
<1> DEFINE G == {n \in Nat : \E g : g = [k \in 0 .. n |-> AtRound(net, g, k)]}
<1>1. 0 \in G
  <2>1. PICK g : g = [k \in 0 .. 0 |-> [net |-> net, transfers |-> {}]]
    OBVIOUS
  <2>2. g = [k \in 0 .. 0 |-> AtRound(net, g, k)]
    BY <2>1 DEF AtRound
  <2> QED BY <2>2
<1>2. ASSUME NEW n \in Nat, n \in G PROVE n + 1 \in G
  <2>1. PICK g : g = [k \in 0 .. n |-> AtRound(net, g, k)]
    BY <1>2
  <2>2. PICK h : h = [k \in 0 .. n + 1 |-> IF k = n + 1 THEN Round(g[n]) ELSE g[k]]
    OBVIOUS
  <2>3. \A k \in 0 .. n : h[k] = g[k]
    BY <2>2
  <2>4. ASSUME NEW k \in 0 .. n + 1 PROVE h[k] = AtRound(net, h, k)
    <3>1. CASE k = n + 1
      <4>1. k - 1 = n /\ k # 0 /\ n \in 0 .. n
        BY <3>1
      <4> QED BY <2>2, <2>3, <3>1, <4>1 DEF AtRound
    <3>2. CASE k # n + 1
      <4>1. k \in 0 .. n /\ (k # 0 => k - 1 \in 0 .. n)
        BY <3>2
      <4>2. g[k] = AtRound(net, g, k)
        BY <2>1, <4>1
      <4> QED BY <2>3, <4>1, <4>2 DEF AtRound
    <3> QED BY <3>1, <3>2
  <2>5. h = [k \in 0 .. n + 1 |-> AtRound(net, h, k)]
    BY <2>2, <2>4
  <2> QED BY <2>5
<1>3. Cardinality(People) \in Nat
  BY PeopleAssumption, FS_CardinalityType
<1>4. Cardinality(People) \in G
  <2> HIDE DEF G
  <2> QED BY <1>1, <1>2, <1>3, NumberInduction
<1> QED BY <1>4 DEF Rounds

LEMMA SimplifyIs ==
  ASSUME NEW net PROVE \E g : Rounds(net, g) /\ Simplify(net) = g[Cardinality(People)].transfers
<1> DEFINE Body(g, k) ==
             IF k = 0 THEN [net |-> net, transfers |-> {}]
             ELSE LET r == g[k - 1] IN
                  IF Debtors(r.net) = {} \/ Creditors(r.net) = {} THEN r
                  ELSE [net |-> Paid(r.net, Suggestion(r.net)),
                        transfers |-> r.transfers \cup {Suggestion(r.net)}]
           h == CHOOSE g : g = [k \in 0 .. Cardinality(People) |-> Body(g, k)]
<1>1. \A g, k : Body(g, k) = AtRound(net, g, k)
  BY DEF AtRound, Round
<1>2. \A g : g = [k \in 0 .. Cardinality(People) |-> Body(g, k)] <=> Rounds(net, g)
  <2> HIDE DEF Body
  <2> QED BY <1>1 DEF Rounds
<1>3. \E g : g = [k \in 0 .. Cardinality(People) |-> Body(g, k)]
  <2> HIDE DEF Body
  <2> QED BY <1>2, RoundsExist
<1>4. h = [k \in 0 .. Cardinality(People) |-> Body(h, k)]
  <2> HIDE DEF Body
  <2> QED BY <1>3
<1>5. Simplify(net) = h[Cardinality(People)].transfers
  BY DEF Simplify
<1> HIDE DEF Body, h
<1> QED BY <1>2, <1>4, <1>5
Positions(net) == {u \in People : net[u] # 0}

PaidBy(T, u) == Amounts({t \in T : t.from = u})
PaidTo(T, u) == Amounts({t \in T : t.to = u})

\* What holds of every round of simplify on the positions net: what is left to
\* settle and what the transfers so far pay make up net, no position is passed,
\* and each transfer has closed one of the two positions it is for.
Settling(net, r) ==
  /\ r.net \in [People -> Int] /\ Sum(r.net, People) = 0
  /\ \A u \in People : /\ net[u] >= 0 => 0 <= r.net[u]
                       /\ net[u] <= 0 => r.net[u] <= 0
  /\ IsFiniteSet(r.transfers)
  /\ \A t \in r.transfers : /\ t.amount \in Int /\ t.from \in People /\ t.to \in People
                            /\ r.net[t.from] = 0 \/ r.net[t.to] = 0
  /\ \A u \in People : /\ PaidBy(r.transfers, u) = IF net[u] > 0 THEN net[u] - r.net[u] ELSE 0
                       /\ PaidTo(r.transfers, u) = IF net[u] < 0 THEN r.net[u] - net[u] ELSE 0
  /\ Cardinality(r.transfers) + Cardinality(Positions(r.net)) <= Cardinality(Positions(net))
  /\ r.transfers # {} /\ Positions(r.net) = {} => Cardinality(r.transfers) < Cardinality(Positions(net))

LEMMA SuggestionIs ==
  ASSUME NEW net \in [People -> Int], Debtors(net) # {}, Creditors(net) # {}
  PROVE  LET t == Suggestion(net)
         IN /\ t.from \in People /\ t.to \in People /\ t.from # t.to /\ t.amount \in Int
            /\ net[t.from] > 0 /\ net[t.to] < 0 /\ t.amount > 0
            /\ t.amount <= net[t.from] /\ t.amount <= -net[t.to]
            /\ t.amount = net[t.from] \/ t.amount = -net[t.to]
<1>1. PICK d, c : d = ChiefDebtor(net) /\ c = ChiefCreditor(net)
  OBVIOUS
<1>2. Debtors(net) \in SUBSET People /\ Creditors(net) \in SUBSET People
  BY DEF Debtors, Creditors
<1>3. d \in Debtors(net) /\ c \in Creditors(net)
  BY <1>1, <1>2, LargestIs DEF ChiefDebtor, ChiefCreditor
<1>4. d \in People /\ c \in People /\ net[d] > 0 /\ net[c] < 0
  BY <1>3 DEF Debtors, Creditors
<1>5. PICK a : a = TransferAmount(net[d], -net[c])
  OBVIOUS
<1>6. PICK p \in Int, q \in Int : p = net[d] /\ q = net[c] /\ p > 0 /\ q < 0
  BY <1>4
<1>7. a = IF p < -q THEN p ELSE -q
  BY <1>5, <1>6 DEF TransferAmount, Lesser
<1>8. a \in Int /\ a > 0 /\ a <= p /\ a <= -q /\ (a = p \/ a = -q)
  BY <1>6, <1>7
<1>9. Suggestion(net) = [from |-> d, to |-> c, amount |-> a]
  BY <1>1, <1>5 DEF Suggestion
<1>10. d # c
  BY <1>6
<1> QED BY <1>4, <1>6, <1>8, <1>9, <1>10

LEMMA SettlingStarts ==
  ASSUME NEW net \in [People -> Int], Sum(net, People) = 0
  PROVE  Settling(net, [net |-> net, transfers |-> {}])
<1>1. PICK r : r = [net |-> net, transfers |-> {}]
  OBVIOUS
<1>2. r.net = net /\ r.transfers = {}
  BY <1>1
<1>3. \A u \in People : PaidBy({}, u) = 0 /\ PaidTo({}, u) = 0
  <2>1. \A u : {t \in {} : t.from = u} = {} /\ {t \in {} : t.to = u} = {}
    OBVIOUS
  <2> QED BY <2>1, AmountsNone DEF PaidBy, PaidTo
<1>4. /\ IsFiniteSet(Positions(net)) /\ Cardinality(Positions(net)) \in Nat
      /\ IsFiniteSet({}) /\ Cardinality({}) = 0
  BY PeopleAssumption, FS_Subset, FS_CardinalityType, FS_EmptySet DEF Positions
<1>5. \A u \in People : net[u] - net[u] = 0
  OBVIOUS
<1>6. Settling(net, r)
  BY <1>2, <1>3, <1>4, <1>5 DEF Settling
<1> QED BY <1>1, <1>6

LEMMA SettlingStays ==
  ASSUME NEW net \in [People -> Int], NEW r, Settling(net, r),
         Debtors(r.net) # {}, Creditors(r.net) # {}
  PROVE  /\ Settling(net, Round(r))
         /\ Cardinality(Round(r).transfers) = Cardinality(r.transfers) + 1
<1>1. PICK m, T, t : m = r.net /\ T = r.transfers /\ t = Suggestion(m)
  OBVIOUS
<1>2. PICK d, c, a : d = t.from /\ c = t.to /\ a = t.amount
  OBVIOUS
<1>3. PICK n : n = Paid(m, t)
  OBVIOUS
<1>4. PICK U : U = T \cup {t}
  OBVIOUS
<1>5. Round(r) = [net |-> n, transfers |-> U]
  BY <1>1, <1>3, <1>4 DEF Round
<1>6. IsFiniteSet(People)
  BY PeopleAssumption
<1>7. m \in [People -> Int] /\ Sum(m, People) = 0
  BY <1>1 DEF Settling
<1>8. /\ d \in People /\ c \in People /\ d # c /\ a \in Int
      /\ m[d] > 0 /\ m[c] < 0 /\ a > 0
      /\ a <= m[d] /\ a <= -m[c] /\ (a = m[d] \/ a = -m[c])
  BY <1>1, <1>2, <1>7, SuggestionIs
<1>9. n = [m EXCEPT ![d] = @ - a, ![c] = @ + a]
  BY <1>2, <1>3 DEF Paid
<1>10. /\ n \in [People -> Int] /\ n[d] = m[d] - a /\ n[c] = m[c] + a
       /\ \A u \in People \ {d, c} : n[u] = m[u]
  BY <1>7, <1>8, <1>9
<1>11. n[d] >= 0 /\ n[c] <= 0 /\ (n[d] = 0 \/ n[c] = 0)
  <2>1. PICK p \in Int, q \in Int : p = m[d] /\ q = m[c]
    BY <1>7, <1>8
  <2> QED BY <1>8, <1>10, <2>1
\* The sum stays zero.
<1>12. Sum(n, People) = 0
  <2>1. PICK e : e = [kind |-> "settlement", from |-> d, to |-> c, amount |-> a]
    OBVIOUS
  <2>2. WellFormed(e)
    BY <1>8, <2>1 DEF WellFormed
  <2>3. PICK f : f = [u \in People |-> Delta(e, u)]
    OBVIOUS
  <2>4. (\A u \in People : f[u] \in Int) /\ Sum(f, People) = 0
    BY <2>2, <2>3, DeltaIs
  <2>5. \A u \in People : f[u] = (IF u = c THEN a ELSE 0) - (IF u = d THEN a ELSE 0)
    BY <2>1, <2>3 DEF Delta
  <2>6. \A u \in People : m[u] \in Int /\ f[u] \in Int /\ n[u] = m[u] + f[u]
    BY <1>7, <1>8, <1>10, <2>4, <2>5
  <2>7. Sum(n, People) = Sum(m, People) + Sum(f, People)
    BY <1>6, <2>6, SumPlus
  <2> QED BY <1>7, <2>4, <2>7
<1>13. net[d] > 0 /\ net[c] < 0
  <2>1. (net[d] <= 0 => m[d] <= 0) /\ (net[c] >= 0 => 0 <= m[c])
    BY <1>1, <1>8 DEF Settling
  <2> QED BY <1>7, <1>8, <2>1
<1>14. \A u \in People : (net[u] >= 0 => 0 <= n[u]) /\ (net[u] <= 0 => n[u] <= 0)
  <2>1. \A u \in People : (net[u] >= 0 => 0 <= m[u]) /\ (net[u] <= 0 => m[u] <= 0)
    BY <1>1 DEF Settling
  <2>2. net[d] \in Int /\ net[c] \in Int
    BY <1>8
  <2> QED BY <1>10, <1>11, <1>13, <2>1, <2>2
<1>15. /\ IsFiniteSet(T) /\ t \notin T
       /\ \A x \in T : x.amount \in Int /\ x.from \in People /\ x.to \in People
       /\ \A x \in T : n[x.from] = 0 \/ n[x.to] = 0
  <2>1. /\ IsFiniteSet(T)
        /\ \A x \in T : x.amount \in Int /\ x.from \in People /\ x.to \in People
        /\ \A x \in T : m[x.from] = 0 \/ m[x.to] = 0
    BY <1>1 DEF Settling
  <2>2. t \notin T
    BY <1>2, <1>8, <2>1
  <2>3. \A u \in People : m[u] = 0 => n[u] = 0
    BY <1>8, <1>10
  <2> QED BY <2>1, <2>2, <2>3
<1>16. IsFiniteSet(U) /\ Cardinality(U) = Cardinality(T) + 1 /\ Cardinality(T) \in Nat
  BY <1>4, <1>15, FS_AddElement, FS_CardinalityType
<1>17. \A x \in U : /\ x.amount \in Int /\ x.from \in People /\ x.to \in People
                    /\ n[x.from] = 0 \/ n[x.to] = 0
  BY <1>2, <1>4, <1>8, <1>11, <1>15
\* The transfers pay what has been closed.
<1>18. ASSUME NEW u \in People
       PROVE  /\ PaidBy(U, u) = IF net[u] > 0 THEN net[u] - n[u] ELSE 0
              /\ PaidTo(U, u) = IF net[u] < 0 THEN n[u] - net[u] ELSE 0
  <2>1. PICK A, B : A = {x \in T : x.from = u} /\ B = {x \in T : x.to = u}
    OBVIOUS
  <2>2. IsFiniteSet(A) /\ IsFiniteSet(B) /\ t \notin A /\ t \notin B
    BY <1>15, <2>1, FS_Subset
  <2>3. (\A x \in A : x.amount \in Int) /\ \A x \in B : x.amount \in Int
    BY <1>15, <2>1
  <2>4. /\ Amounts(A) \in Int /\ Amounts(A \cup {t}) = a + Amounts(A)
        /\ Amounts(B) \in Int /\ Amounts(B \cup {t}) = a + Amounts(B)
    BY <1>2, <1>8, <2>2, <2>3, AmountsAdd
  <2>5. /\ Amounts(A) = IF net[u] > 0 THEN net[u] - m[u] ELSE 0
        /\ Amounts(B) = IF net[u] < 0 THEN m[u] - net[u] ELSE 0
    BY <1>1, <2>1 DEF Settling, PaidBy, PaidTo
  <2>6. /\ {x \in U : x.from = u} = IF u = d THEN A \cup {t} ELSE A
        /\ {x \in U : x.to = u} = IF u = c THEN B \cup {t} ELSE B
    BY <1>2, <1>4, <2>1
  <2>7. /\ PaidBy(U, u) = IF u = d THEN a + Amounts(A) ELSE Amounts(A)
        /\ PaidTo(U, u) = IF u = c THEN a + Amounts(B) ELSE Amounts(B)
    BY <2>4, <2>6 DEF PaidBy, PaidTo
  <2>8. PICK p \in Int, q \in Int, s \in Int : p = net[u] /\ q = m[u] /\ s = n[u]
    BY <1>7, <1>10
  <2>9. CASE u = d
    <3>1. s = q - a /\ p > 0 /\ u # c
      BY <1>8, <1>10, <1>13, <2>8, <2>9
    <3> QED BY <1>8, <2>5, <2>7, <2>8, <2>9, <3>1
  <2>10. CASE u = c
    <3>1. s = q + a /\ p < 0 /\ u # d
      BY <1>8, <1>10, <1>13, <2>8, <2>10
    <3> QED BY <1>8, <2>5, <2>7, <2>8, <2>10, <3>1
  <2>11. CASE u # d /\ u # c
    <3>1. s = q
      BY <1>10, <2>8, <2>11
    <3> QED BY <2>5, <2>7, <2>8, <2>11, <3>1
  <2> QED BY <2>9, <2>10, <2>11
\* Each transfer closes a position, and the last one closes two.
<1>19. /\ IsFiniteSet(Positions(m)) /\ IsFiniteSet(Positions(n))
       /\ Cardinality(Positions(m)) \in Nat /\ Cardinality(Positions(n)) \in Nat
       /\ Cardinality(Positions(net)) \in Nat
  <2>1. /\ Positions(m) \in SUBSET People /\ Positions(n) \in SUBSET People
        /\ Positions(net) \in SUBSET People
    BY DEF Positions
  <2> QED BY <1>6, <2>1, FS_Subset, FS_CardinalityType
<1>20. \E x \in {d, c} : Positions(n) \in SUBSET (Positions(m) \ {x}) /\ x \in Positions(m)
  <2>1. d \in Positions(m) /\ c \in Positions(m)
    BY <1>8 DEF Positions
  <2>2. Positions(n) \in SUBSET Positions(m)
    BY <1>8, <1>10 DEF Positions
  <2>3. n[d] = 0 => d \notin Positions(n)
    BY DEF Positions
  <2>4. n[c] = 0 => c \notin Positions(n)
    BY DEF Positions
  <2> QED BY <1>11, <2>1, <2>2, <2>3, <2>4
<1>21. Cardinality(Positions(n)) + 1 <= Cardinality(Positions(m))
  <2>1. PICK x : Positions(n) \in SUBSET (Positions(m) \ {x}) /\ x \in Positions(m)
    BY <1>20
  <2>2. /\ IsFiniteSet(Positions(m) \ {x})
        /\ Cardinality(Positions(m) \ {x}) = Cardinality(Positions(m)) - 1
    BY <1>19, <2>1, FS_RemoveElement
  <2>3. Cardinality(Positions(n)) <= Cardinality(Positions(m) \ {x})
    BY <2>1, <2>2, FS_Subset
  <2> QED BY <1>19, <2>2, <2>3
<1>22. Cardinality(Positions(m)) >= 2
  <2>1. {d, c} \in SUBSET Positions(m)
    BY <1>8 DEF Positions
  <2>2. Cardinality({d, c}) = 2
    <3>1. IsFiniteSet({d}) /\ Cardinality({d}) = 1 /\ c \notin {d}
      BY <1>8, FS_Singleton
    <3>2. Cardinality({d} \cup {c}) = Cardinality({d}) + 1
      BY <3>1, FS_AddElement
    <3>3. {d} \cup {c} = {d, c}
      OBVIOUS
    <3> QED BY <3>1, <3>2, <3>3
  <2>3. Cardinality({d, c}) <= Cardinality(Positions(m))
    BY <1>19, <2>1, FS_Subset
  <2> QED BY <1>19, <2>2, <2>3
<1>23. Cardinality(T) + Cardinality(Positions(m)) <= Cardinality(Positions(net))
  BY <1>1 DEF Settling
<1>24. /\ Cardinality(U) + Cardinality(Positions(n)) <= Cardinality(Positions(net))
       /\ Positions(n) = {} => Cardinality(U) < Cardinality(Positions(net))
  BY <1>16, <1>19, <1>21, <1>22, <1>23
<1>25. Settling(net, [net |-> n, transfers |-> U])
  <2>1. PICK q : q = [net |-> n, transfers |-> U]
    OBVIOUS
  <2>2. q.net = n /\ q.transfers = U
    BY <2>1
  <2>3. Settling(net, q)
    BY <1>10, <1>12, <1>14, <1>16, <1>17, <1>18, <1>24, <2>2 DEF Settling
  <2> QED BY <2>1, <2>3
<1> QED BY <1>1, <1>5, <1>16, <1>25
\* The greedy loop of simplify settles any positions that balance: whoever owes only
\* pays, whoever is owed only receives, exactly what they owe or are owed, in fewer
\* transfers than there are people to settle.
THEOREM SimplifySettles ==
  ASSUME NEW net \in [People -> Int], Total(net) = 0, NEW T, T = Simplify(net)
  PROVE  /\ \A u \in People : /\ PaidBy(T, u) = IF net[u] > 0 THEN net[u] ELSE 0
                              /\ PaidTo(T, u) = IF net[u] < 0 THEN -net[u] ELSE 0
         /\ T # {} => Cardinality(T) < Cardinality(Positions(net))
<1>1. PICK g : Rounds(net, g) /\ T = g[Cardinality(People)].transfers
  BY SimplifyIs
<1>2. PICK N : N = Cardinality(People) /\ N \in Nat
  BY PeopleAssumption, FS_CardinalityType
<1>3. \A k \in 0 .. N : g[k] = AtRound(net, g, k)
  BY <1>1, <1>2 DEF Rounds
<1>4. Sum(net, People) = 0
  BY TotalIs
<1> DEFINE G == {k \in Nat : k \in 0 .. N =>
                   /\ Settling(net, g[k])
                   /\ Positions(g[k].net) = {} \/ Cardinality(g[k].transfers) = k}
<1>5. 0 \in G
  <2>1. g[0] = [net |-> net, transfers |-> {}]
    BY <1>2, <1>3 DEF AtRound
  <2>2. Settling(net, g[0])
    BY <1>4, <2>1, SettlingStarts
  <2> QED BY <2>1, <2>2, FS_EmptySet
<1>6. ASSUME NEW k \in Nat, k \in G PROVE k + 1 \in G
  <2> SUFFICES ASSUME k + 1 \in 0 .. N
               PROVE  /\ Settling(net, g[k + 1])
                      /\ Positions(g[k + 1].net) = {} \/ Cardinality(g[k + 1].transfers) = k + 1
    OBVIOUS
  <2>1. PICK r : r = g[k]
    OBVIOUS
  <2>2. k \in 0 .. N /\ k + 1 # 0 /\ (k + 1) - 1 = k
    BY <1>2
  <2>3. Settling(net, r) /\ (Positions(r.net) = {} \/ Cardinality(r.transfers) = k)
    BY <1>6, <2>1, <2>2
  <2>4. g[k + 1] = Round(r)
    BY <1>3, <2>1, <2>2 DEF AtRound
  <2>5. CASE Debtors(r.net) = {} \/ Creditors(r.net) = {}
    <3>1. r.net \in [People -> Int] /\ Sum(r.net, People) = 0
      BY <2>3 DEF Settling
    <3>2. Positions(r.net) = {}
      BY <2>5, <3>1, OneSided DEF Positions
    <3> QED BY <2>3, <2>4, <2>5, <3>2 DEF Round
  <2>6. CASE Debtors(r.net) # {} /\ Creditors(r.net) # {}
    <3>1. Settling(net, Round(r)) /\ Cardinality(Round(r).transfers) = Cardinality(r.transfers) + 1
      BY <2>3, <2>6, SettlingStays
    <3>2. Positions(r.net) # {}
      BY <2>6 DEF Positions, Debtors
    <3> QED BY <2>3, <2>4, <3>1, <3>2
  <2> QED BY <2>5, <2>6
<1>7. N \in G
  <2> HIDE DEF G
  <2> QED BY <1>2, <1>5, <1>6, NumberInduction
<1>8. PICK r : r = g[N]
  OBVIOUS
<1>9. Settling(net, r) /\ (Positions(r.net) = {} \/ Cardinality(r.transfers) = N) /\ r.transfers = T
  BY <1>1, <1>2, <1>7, <1>8
<1>10. /\ IsFiniteSet(Positions(r.net)) /\ Cardinality(Positions(r.net)) \in Nat
       /\ Cardinality(Positions(net)) \in Nat /\ Cardinality(Positions(net)) <= N
  <2>1. Positions(r.net) \in SUBSET People /\ Positions(net) \in SUBSET People /\ IsFiniteSet(People)
    BY PeopleAssumption DEF Positions
  <2> QED BY <1>2, <2>1, FS_Subset, FS_CardinalityType
\* Were a position left, everyone would have been settled long before.
<1>11. Positions(r.net) = {}
  <2> SUFFICES ASSUME Positions(r.net) # {} PROVE FALSE
    OBVIOUS
  <2>1. Cardinality(Positions(r.net)) # 0
    BY <1>10, FS_EmptySet
  <2>2. Cardinality(T) + Cardinality(Positions(r.net)) <= Cardinality(Positions(net))
    BY <1>9 DEF Settling
  <2> QED BY <1>2, <1>9, <1>10, <2>1, <2>2
<1>12. \A u \in People : r.net[u] = 0
  BY <1>11 DEF Positions
<1>13. \A u \in People : /\ PaidBy(T, u) = IF net[u] > 0 THEN net[u] - r.net[u] ELSE 0
                         /\ PaidTo(T, u) = IF net[u] < 0 THEN r.net[u] - net[u] ELSE 0
  BY <1>9 DEF Settling
<1>14. ASSUME NEW u \in People
       PROVE  /\ PaidBy(T, u) = IF net[u] > 0 THEN net[u] ELSE 0
              /\ PaidTo(T, u) = IF net[u] < 0 THEN -net[u] ELSE 0
  <2>1. PICK p \in Int : p = net[u]
    OBVIOUS
  <2> QED BY <1>12, <1>13, <2>1
<1>15. T # {} => Cardinality(T) < Cardinality(Positions(net))
  BY <1>9, <1>11 DEF Settling
<1> QED BY <1>14, <1>15
=============================================================================
