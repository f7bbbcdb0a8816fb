------------------------------- MODULE SumFacts -------------------------------
(***************************************************************************)
(* Lemmas about the sum of a function over a finite set, which the library *)
(* defines as a fold that takes elements in an order of its choosing: it   *)
(* exists, does not depend on that order, and splits, grows and changes as *)
(* a sum does.  Money and shares are sums over positions and trades.       *)
(*                                                                         *)
(* The induction they rest on is a set of subsets: the strict inclusion of *)
(* finite sets is well-founded, so that subset has a least one outside it. *)
(***************************************************************************)
EXTENDS Integers, Functions, FiniteSets, FiniteSetTheorems, WellFoundedInduction, TLAPS

\* What holds of a subset whenever it holds of all smaller ones holds of the whole set; the
\* induction hypothesis is the set F of the subsets it holds of.
LEMMA SetInduction ==
  ASSUME NEW S, IsFiniteSet(S), NEW F,
         \A T \in SUBSET S : (\A U \in SUBSET T : U # T => U \in F) => T \in F
  PROVE  S \in F
<1> DEFINE Bad == (SUBSET S) \ F
<1> SUFFICES ASSUME Bad # {} PROVE FALSE
  OBVIOUS
<1>1. IsWellFoundedOn(StrictSubsetOrdering(S), FiniteSubsetsOf(S))
  BY FS_StrictSubsetOrderingWellFounded
<1>2. Bad \subseteq FiniteSubsetsOf(S)
  BY FS_Subset DEF FiniteSubsetsOf
<1>3. PICK T \in Bad : \A U \in Bad : <<U, T>> \notin StrictSubsetOrdering(S)
  <2> HIDE DEF Bad
  <2> QED
    BY <1>1, <1>2, WFMin
<1>4. \A U \in SUBSET T : U # T => U \in F
  BY <1>3 DEF StrictSubsetOrdering
<1> QED
  BY <1>3, <1>4

\* The element that the fold takes first.
Pick(s) == CHOOSE x \in s : TRUE

\* g sums f over every subset of S, as the fold does.
Sums(g, f, S) == g = [s \in SUBSET S |-> IF s = {} THEN 0 ELSE f[Pick(s)] + g[s \ {Pick(s)}]]

\* A sum is the value of some such function, if there is one.
LEMMA SumIsChosen ==
  ASSUME NEW f, NEW S
  PROVE  SumFunctionOnSet(f, S) = (CHOOSE g : Sums(g, f, S))[S]
BY DEF SumFunctionOnSet, FoldFunctionOnSet, MapThenFoldSet, Sums, Pick

\* Two sums over sets that have T in common agree on it.
LEMMA SumsAgree ==
  ASSUME NEW f, NEW S, NEW R, NEW T \in SUBSET (S \cap R), IsFiniteSet(T),
         NEW g, Sums(g, f, S), NEW h, Sums(h, f, R)
  PROVE  g[T] = h[T]
<1> DEFINE F == {U \in SUBSET T : g[U] = h[U]}
<1>1. ASSUME NEW U \in SUBSET T, \A V \in SUBSET U : V # U => V \in F
      PROVE  U \in F
  <2>1. CASE U = {}
    BY <2>1 DEF Sums
  <2>2. CASE U # {}
    <3>1. Pick(U) \in U
      BY <2>2 DEF Pick
    <3>2. g[U \ {Pick(U)}] = h[U \ {Pick(U)}]
      BY <1>1, <3>1
    <3> QED
      BY <2>2, <3>2 DEF Sums
  <2> QED
    BY <2>1, <2>2
<1>2. T \in F
  <2> HIDE DEF F
  <2> QED
    BY <1>1, SetInduction
<1> QED
  BY <1>2

\* Every finite set has its sums.
LEMMA SumsExist ==
  ASSUME NEW f, NEW S, IsFiniteSet(S)
  PROVE  \E g : Sums(g, f, S)
<1> DEFINE F == {T \in SUBSET S : \E g : Sums(g, f, T)}
           Of(T) == CHOOSE g : Sums(g, f, T)
<1>1. ASSUME NEW T \in SUBSET S, \A U \in SUBSET T : U # T => U \in F
      PROVE  T \in F
  <2> DEFINE g == [s \in SUBSET T |-> IF s = {} THEN 0 ELSE f[Pick(s)] + Of(s \ {Pick(s)})[s \ {Pick(s)}]]
  <2>1. ASSUME NEW s \in SUBSET T, s # {}
        PROVE  Of(s \ {Pick(s)})[s \ {Pick(s)}] = g[s \ {Pick(s)}]
    <3> DEFINE r == s \ {Pick(s)}
    <3>1. Pick(s) \in s
      BY <2>1 DEF Pick
    <3>2. r \in SUBSET T /\ r # T
      BY <3>1
    <3>3. Sums(Of(r), f, r)
      BY <1>1, <3>2
    <3>4. CASE r = {}
      BY <3>3, <3>4 DEF Sums
    <3>5. CASE r # {}
      <4> DEFINE q == r \ {Pick(r)}
      <4>1. Pick(r) \in r
        BY <3>5 DEF Pick
      <4>2. q \in SUBSET T /\ q # T /\ q \in SUBSET r
        BY <3>2
      <4>3. Sums(Of(q), f, q)
        <5>1. \E h : Sums(h, f, q)
          BY <1>1, <4>2
        <5> QED
          BY <5>1
      <4>4. IsFiniteSet(q)
        BY <4>2, FS_Subset
      <4>5. Of(q)[q] = Of(r)[q]
        <5> HIDE DEF Of, q, r
        <5> QED
          BY <3>3, <4>2, <4>3, <4>4, SumsAgree
      <4>6. Of(r)[r] = f[Pick(r)] + Of(r)[q]
        <5> HIDE DEF Of
        <5> QED
          BY <3>3, <3>5, <4>1 DEF Sums
      <4>7. g[r] = f[Pick(r)] + Of(q)[q]
        BY <3>2, <3>5
      <4> QED
        BY <4>5, <4>6, <4>7
    <3> QED
      BY <3>4, <3>5
  <2>2. Sums(g, f, T)
    <3>1. ASSUME NEW s \in SUBSET T
          PROVE  g[s] = IF s = {} THEN 0 ELSE f[Pick(s)] + g[s \ {Pick(s)}]
      <4>1. g[s] = IF s = {} THEN 0 ELSE f[Pick(s)] + Of(s \ {Pick(s)})[s \ {Pick(s)}]
        OBVIOUS
      <4> HIDE DEF g, Of
      <4>2. CASE s = {}
        BY <4>1, <4>2
      <4>3. CASE s # {}
        BY <4>1, <4>3, <2>1
      <4> QED
        BY <4>2, <4>3
    <3>2. g = [s \in SUBSET T |-> g[s]]
      OBVIOUS
    <3> HIDE DEF g
    <3>3. [s \in SUBSET T |-> g[s]] = [s \in SUBSET T |-> IF s = {} THEN 0 ELSE f[Pick(s)] + g[s \ {Pick(s)}]]
      BY <3>1
    <3> QED
      BY <3>2, <3>3 DEF Sums
  <2> QED
    BY <2>2
<1>2. S \in F
  <2> HIDE DEF F
  <2> QED
    BY <1>1, SetInduction
<1> QED
  BY <1>2

\* The sum over a set, by the element the fold takes first.
LEMMA SumPeels ==
  ASSUME NEW f, NEW S, IsFiniteSet(S)
  PROVE  SumFunctionOnSet(f, S) =
           IF S = {} THEN 0 ELSE f[Pick(S)] + SumFunctionOnSet(f, S \ {Pick(S)})
<1> DEFINE g == CHOOSE h : Sums(h, f, S)
           r == S \ {Pick(S)}
           k == CHOOSE h : Sums(h, f, r)
<1>1. Sums(g, f, S) /\ SumFunctionOnSet(f, S) = g[S]
  BY SumsExist, SumIsChosen
<1>2. IsFiniteSet(r)
  BY FS_Subset
<1>3. Sums(k, f, r) /\ SumFunctionOnSet(f, r) = k[r]
  BY <1>2, SumsExist, SumIsChosen
<1>4. g[r] = k[r]
  <2> HIDE DEF g, k
  <2> QED
    BY <1>1, <1>2, <1>3, SumsAgree
<1>5. S \in SUBSET S /\ (S # {} => r # S)
  BY DEF Pick
<1> HIDE DEF g, k
<1>6. g[S] = IF S = {} THEN 0 ELSE f[Pick(S)] + g[r]
  BY <1>1, <1>5 DEF Sums
<1>7. SumFunctionOnSet(f, S) = IF S = {} THEN 0 ELSE f[Pick(S)] + SumFunctionOnSet(f, r)
  <2> HIDE DEF r
  <2> QED
    BY <1>1, <1>3, <1>4, <1>6
<1> QED
  BY <1>7

\* Nothing sums up to nothing.
LEMMA SumEmpty == ASSUME NEW f PROVE SumFunctionOnSet(f, {}) = 0
BY SumPeels, FS_EmptySet

\* Integers sum up to an integer, naturals to a natural.
LEMMA SumType ==
  ASSUME NEW f, NEW S, IsFiniteSet(S), \A x \in S : f[x] \in Int
  PROVE  /\ SumFunctionOnSet(f, S) \in Int
         /\ (\A x \in S : f[x] \in Nat) => SumFunctionOnSet(f, S) \in Nat
<1> DEFINE Fine(T) == /\ SumFunctionOnSet(f, T) \in Int
                      /\ (\A x \in S : f[x] \in Nat) => SumFunctionOnSet(f, T) \in Nat
           F == {T \in SUBSET S : Fine(T)}
<1>1. ASSUME NEW T \in SUBSET S, \A U \in SUBSET T : U # T => U \in F
      PROVE  T \in F
  <2>1. SumFunctionOnSet(f, T) =
          IF T = {} THEN 0 ELSE f[Pick(T)] + SumFunctionOnSet(f, T \ {Pick(T)})
    BY FS_Subset, SumPeels
  <2>2. CASE T = {}
    BY <2>1, <2>2
  <2>3. CASE T # {}
    <3>1. Pick(T) \in T
      BY <2>3 DEF Pick
    <3>2. Fine(T \ {Pick(T)})
      BY <1>1, <3>1
    <3> QED
      BY <2>1, <2>3, <3>1, <3>2
  <2> QED
    BY <2>2, <2>3
<1>2. S \in F
  <2> HIDE DEF F
  <2> QED
    BY <1>1, SetInduction
<1> QED
  BY <1>2

\* Zeros sum up to zero.
LEMMA SumZero ==
  ASSUME NEW f, NEW S, IsFiniteSet(S), \A x \in S : f[x] = 0
  PROVE  SumFunctionOnSet(f, S) = 0
<1> DEFINE F == {T \in SUBSET S : SumFunctionOnSet(f, T) = 0}
<1>1. ASSUME NEW T \in SUBSET S, \A U \in SUBSET T : U # T => U \in F
      PROVE  T \in F
  <2>1. SumFunctionOnSet(f, T) =
          IF T = {} THEN 0 ELSE f[Pick(T)] + SumFunctionOnSet(f, T \ {Pick(T)})
    BY FS_Subset, SumPeels
  <2>2. T # {} => Pick(T) \in T
    BY DEF Pick
  <2> QED
    BY <1>1, <2>1, <2>2
<1>2. S \in F
  <2> HIDE DEF F
  <2> QED
    BY <1>1, SetInduction
<1> QED
  BY <1>2

\* It does not matter which element is taken first.
LEMMA SumRemove ==
  ASSUME NEW f, NEW S, IsFiniteSet(S), \A x \in S : f[x] \in Int, NEW e \in S
  PROVE  SumFunctionOnSet(f, S) = f[e] + SumFunctionOnSet(f, S \ {e})
<1> DEFINE Sum(T) == SumFunctionOnSet(f, T)
           F == {T \in SUBSET S : \A x \in T : Sum(T) = f[x] + Sum(T \ {x})}
<1>1. ASSUME NEW T \in SUBSET S, \A U \in SUBSET T : U # T => U \in F, NEW x \in T
      PROVE  Sum(T) = f[x] + Sum(T \ {x})
  <2> DEFINE y == Pick(T)
  <2>1. y \in T
    BY DEF Pick
  <2>2. Sum(T) = f[y] + Sum(T \ {y})
    BY FS_Subset, SumPeels
  <2>3. CASE x = y
    BY <2>2, <2>3
  <2>4. CASE x # y
    <3> DEFINE rest == (T \ {x}) \ {y}
               a == Sum(rest)
               p == Sum(T \ {x})
               q == Sum(T \ {y})
    <3>1. (T \ {y}) \ {x} = rest
      OBVIOUS
    <3>2. p = f[y] + a
      BY <1>1, <2>1, <2>4
    <3>3. q = f[x] + Sum((T \ {y}) \ {x})
      BY <1>1, <2>1, <2>4
    <3>4. a \in Int
      BY FS_Subset, SumType
    <3>5. f[x] \in Int /\ f[y] \in Int
      BY <2>1
    <3> SUFFICES Sum(T) = f[x] + p
      OBVIOUS
    <3>6. Sum(T) = f[y] + q
      BY <2>2
    <3>7. q = f[x] + a
      BY <3>1, <3>3
    <3> HIDE DEF Sum, y, p, q, a
    <3> QED
      BY <3>2, <3>4, <3>5, <3>6, <3>7
  <2> QED
    BY <2>3, <2>4
<1>2. S \in F
  <2>1. \A T \in SUBSET S : (\A U \in SUBSET T : U # T => U \in F) => T \in F
    BY <1>1
  <2> HIDE DEF F
  <2> QED
    BY <2>1, SetInduction
<1> QED
  BY <1>2

\* One element more adds its value.
LEMMA SumAdd ==
  ASSUME NEW f, NEW S, IsFiniteSet(S), NEW e, e \notin S, \A x \in S \cup {e} : f[x] \in Int
  PROVE  SumFunctionOnSet(f, S \cup {e}) = SumFunctionOnSet(f, S) + f[e]
<1>1. IsFiniteSet(S \cup {e})
  BY FS_AddElement
<1> DEFINE all == SumFunctionOnSet(f, S \cup {e})
           old == SumFunctionOnSet(f, S)
<1>2. all = f[e] + SumFunctionOnSet(f, (S \cup {e}) \ {e})
  BY <1>1, SumRemove
<1>3. (S \cup {e}) \ {e} = S
  OBVIOUS
<1>4. old \in Int /\ f[e] \in Int
  BY SumType
<1>5. all = f[e] + old
  BY <1>2, <1>3
<1> HIDE DEF all, old
<1>6. all = old + f[e]
  BY <1>4, <1>5
<1> QED
  BY <1>6 DEF all, old

\* Functions that agree on a set have the same sum over it.
LEMMA SumSame ==
  ASSUME NEW f, NEW g, NEW S, IsFiniteSet(S), \A x \in S : f[x] = g[x]
  PROVE  SumFunctionOnSet(f, S) = SumFunctionOnSet(g, S)
<1> DEFINE F == {T \in SUBSET S : SumFunctionOnSet(f, T) = SumFunctionOnSet(g, T)}
<1>1. ASSUME NEW T \in SUBSET S, \A U \in SUBSET T : U # T => U \in F
      PROVE  T \in F
  <2>0. IsFiniteSet(T)
    BY FS_Subset
  <2>1. SumFunctionOnSet(f, T) =
          IF T = {} THEN 0 ELSE f[Pick(T)] + SumFunctionOnSet(f, T \ {Pick(T)})
    BY <2>0, SumPeels
  <2>2. SumFunctionOnSet(g, T) =
          IF T = {} THEN 0 ELSE g[Pick(T)] + SumFunctionOnSet(g, T \ {Pick(T)})
    BY <2>0, SumPeels
  <2>3. T # {} => Pick(T) \in T
    BY DEF Pick
  <2> QED
    BY <1>1, <2>1, <2>2, <2>3
<1>2. S \in F
  <2> HIDE DEF F
  <2> QED
    BY <1>1, SetInduction
<1> QED
  BY <1>2

\* A change of one element changes the sum by as much.
LEMMA SumChange ==
  ASSUME NEW f, NEW g, NEW S, IsFiniteSet(S), NEW e \in S,
         \A x \in S : f[x] \in Int /\ g[x] \in Int,
         \A x \in S \ {e} : f[x] = g[x]
  PROVE  SumFunctionOnSet(g, S) = SumFunctionOnSet(f, S) - f[e] + g[e]
<1>1. IsFiniteSet(S \ {e})
  BY FS_Subset
<1>2. SumFunctionOnSet(f, S) = f[e] + SumFunctionOnSet(f, S \ {e})
  BY SumRemove
<1>3. SumFunctionOnSet(g, S) = g[e] + SumFunctionOnSet(g, S \ {e})
  BY SumRemove
<1>4. SumFunctionOnSet(f, S \ {e}) = SumFunctionOnSet(g, S \ {e})
  BY <1>1, SumSame
<1>5. SumFunctionOnSet(f, S \ {e}) \in Int /\ f[e] \in Int /\ g[e] \in Int
  BY <1>1, SumType
<1> QED
  BY <1>2, <1>3, <1>4, <1>5

\* The sum over two sets that have nothing in common.
LEMMA SumUnion ==
  ASSUME NEW f, NEW S, IsFiniteSet(S), NEW R, IsFiniteSet(R), S \cap R = {},
         \A x \in S \cup R : f[x] \in Int
  PROVE  SumFunctionOnSet(f, S \cup R) = SumFunctionOnSet(f, S) + SumFunctionOnSet(f, R)
<1> DEFINE Sum(T) == SumFunctionOnSet(f, T)
           F == {T \in SUBSET R : Sum(S \cup T) = Sum(S) + Sum(T)}
<1>0. Sum(S) \in Int
  BY SumType
<1>1. ASSUME NEW T \in SUBSET R, \A U \in SUBSET T : U # T => U \in F
      PROVE  Sum(S \cup T) = Sum(S) + Sum(T)
  <2>0. IsFiniteSet(T) /\ IsFiniteSet(S \cup T)
    BY FS_Subset, FS_Union
  <2>1. CASE T = {}
    <3>1. Sum(T) = 0 /\ S \cup T = S
      BY <2>1, SumEmpty
    <3>2. Sum(S \cup T) = Sum(S)
      BY <3>1
    <3>3. Sum(S) = Sum(S) + 0
      <4> HIDE DEF Sum
      <4> QED
        BY <1>0
    <3>4. Sum(T) = 0
      BY <3>1
    <3> HIDE DEF Sum
    <3> QED
      BY <3>2, <3>3, <3>4
  <2>2. CASE T # {}
    <3>1. PICK e : e \in T
      BY <2>2
    <3> DEFINE all == Sum(S \cup T)
               part == Sum(S \cup (T \ {e}))
               left == Sum(S)
               right == Sum(T)
               rest == Sum(T \ {e})
    <3>2. part = left + rest
      BY <1>1, <3>1
    <3>3. right = f[e] + rest
      BY <2>0, <3>1, SumRemove
    <3>4. all = f[e] + Sum((S \cup T) \ {e})
      <4>1. \A x \in S \cup T : f[x] \in Int
        OBVIOUS
      <4>2. e \in S \cup T
        BY <3>1
      <4> QED
        BY <2>0, <4>1, <4>2, SumRemove
    <3>5. (S \cup T) \ {e} = S \cup (T \ {e})
      BY <3>1
    <3>6. all = f[e] + part
      BY <3>4, <3>5
    <3>7. rest \in Int /\ f[e] \in Int /\ left \in Int
      <4>1. IsFiniteSet(T \ {e})
        BY <2>0, FS_Subset
      <4> QED
        BY <1>0, <3>1, <4>1, SumType
    <3> SUFFICES all = left + right
      OBVIOUS
    <3> HIDE DEF Sum, all, part, left, right, rest
    <3> QED
      BY <3>2, <3>3, <3>6, <3>7
  <2> QED
    BY <2>1, <2>2
<1>2. R \in F
  <2>1. \A T \in SUBSET R : (\A U \in SUBSET T : U # T => U \in F) => T \in F
    BY <1>1
  <2> HIDE DEF F
  <2> QED
    BY <2>1, SetInduction
<1> QED
  BY <1>2

\* A sum has at most as many times a bound as it has elements.
LEMMA SumBounded ==
  ASSUME NEW f, NEW S, IsFiniteSet(S), NEW b \in Nat, \A x \in S : f[x] \in Int /\ f[x] <= b
  PROVE  SumFunctionOnSet(f, S) <= Cardinality(S) * b
<1> DEFINE Sum(T) == SumFunctionOnSet(f, T)
           F == {T \in SUBSET S : Sum(T) <= Cardinality(T) * b}
<1>1. ASSUME NEW T \in SUBSET S, \A U \in SUBSET T : U # T => U \in F
      PROVE  Sum(T) <= Cardinality(T) * b
  <2>0. IsFiniteSet(T)
    BY FS_Subset
  <2>1. CASE T = {}
    <3>1. Sum(T) = 0 /\ Cardinality(T) = 0
      BY <2>1, SumEmpty, FS_EmptySet
    <3> HIDE DEF Sum
    <3> QED
      BY <3>1
  <2>2. CASE T # {}
    <3>1. PICK e : e \in T
      BY <2>2
    <3> DEFINE all == Sum(T)
               rest == Sum(T \ {e})
               n == Cardinality(T)
               m == Cardinality(T \ {e})
    <3>2. IsFiniteSet(T \ {e}) /\ m = n - 1 /\ n \in Nat /\ m \in Nat
      BY <2>0, <3>1, FS_RemoveElement, FS_CardinalityType
    <3>3. rest <= m * b
      BY <1>1, <3>1
    <3>4. all = f[e] + rest
      BY <2>0, <3>1, SumRemove
    <3>5. rest \in Int /\ f[e] \in Int /\ f[e] <= b
      BY <3>1, <3>2, SumType
    <3> SUFFICES all <= n * b
      OBVIOUS
    <3> HIDE DEF Sum, all, rest, n, m
    <3>6. n * b = m * b + b /\ m * b \in Int
      BY <3>2
    <3> QED
      BY <3>3, <3>4, <3>5, <3>6
  <2> QED
    BY <2>1, <2>2
<1>2. S \in F
  <2>1. \A T \in SUBSET S : (\A U \in SUBSET T : U # T => U \in F) => T \in F
    BY <1>1
  <2> HIDE DEF F
  <2> QED
    BY <2>1, SetInduction
<1> QED
  BY <1>2

\* The set of the values of a function on a finite set is finite.
LEMMA ValuesAreFinite ==
  ASSUME NEW S, IsFiniteSet(S), NEW f, DOMAIN f = S
  PROVE  IsFiniteSet({f[x] : x \in S})
<1> DEFINE R == {f[x] : x \in S}
           g == [x \in S |-> f[x]]
<1>1. g \in Surjection(S, R)
  BY DEF Surjection
<1> HIDE DEF R, g
<1>2. IsFiniteSet(R)
  BY <1>1, FS_Surjection
<1> QED
  BY <1>2 DEF R
===============================================================================
