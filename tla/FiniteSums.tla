----------------------------- MODULE FiniteSums -----------------------------
(***************************************************************************)
(* Finite sums, of weights in the engine and of row sizes in an import.    *)
(* SumFunction recurses over the subsets of the domain, so that facts      *)
(* about it go by the least counterexample.                                *)
(***************************************************************************)
EXTENDS Functions, FiniteSetTheorems, TLAPS

\* A set of naturals that has an element has a least one.
LEMMA LeastNatural ==
  ASSUME NEW T \in SUBSET Nat, T # {}
  PROVE  \E n \in T : \A m \in T : n <= m
<1>1. PICK n \in T : \A m \in T : ~(<<m, n>> \in OpToRel(<, Nat))
  BY WFMin, NatLessThanWellFounded, Zenon
<1>2. \A m \in T : ~(m < n)
  <2>1. \A m \in T : m < n => <<m, n>> \in OpToRel(<, Nat)
    BY DEF OpToRel
  <2>. QED
    BY <1>1, <2>1, Zenon
<1>. QED
  BY <1>2

\* The element a sum takes next, and what it makes of the sums of smaller sets.
Pick(s) == CHOOSE x \in s : TRUE
SumStep(fun, f, s) == IF s = {} THEN 0 ELSE fun[Pick(s)] + f[s \ {Pick(s)}]

\* The sums over every subset of S.
IsSumTable(S, fun, f) == f = [s \in SUBSET S |-> SumStep(fun, f, s)]
Sums(S, fun) == CHOOSE f : IsSumTable(S, fun, f)

\* SumFunction reads that table.
LEMMA SumUnfold ==
  ASSUME NEW S, NEW fun, DOMAIN fun = S
  PROVE  SumFunction(fun) = Sums(S, fun)[S]
  BY DEF SumFunction, SumFunctionOnSet, FoldFunctionOnSet, MapThenFoldSet, Pick, SumStep,
         Sums, IsSumTable

\* The subsets of at most n elements.
UpTo(S, n) == {s \in SUBSET S : Cardinality(s) <= n}

\* Removing an element makes a finite set smaller.
LEMMA Smaller ==
  ASSUME NEW S, IsFiniteSet(S), NEW s \in SUBSET S, s # {}
  PROVE  /\ Pick(s) \in s /\ s \ {Pick(s)} \in SUBSET S
         /\ Cardinality(s) \in Nat \ {0}
         /\ Cardinality(s \ {Pick(s)}) = Cardinality(s) - 1
<1>1. Pick(s) \in s
  BY DEF Pick
<1>2. IsFiniteSet(s) /\ Cardinality(s) \in Nat /\ Cardinality(s) # 0
  BY FS_Subset, FS_CardinalityType, FS_EmptySet
<1>3. Cardinality(s \ {Pick(s)}) = Cardinality(s) - 1
  BY <1>1, <1>2, FS_RemoveElement
<1>. QED
  BY <1>1, <1>2, <1>3

\* The table exists on every finite set.
LEMMA SumExists ==
  ASSUME NEW S, IsFiniteSet(S), NEW fun
  PROVE  \E f : IsSumTable(S, fun, f)
<1>. DEFINE Defined(n) == \E f : f = [s \in UpTo(S, n) |-> SumStep(fun, f, s)]
            Bad == {n \in Nat : ~Defined(n)}
<1>1. Defined(0)
  <2>. DEFINE g == [s \in UpTo(S, 0) |-> 0]
  <2>1. \A s \in UpTo(S, 0) : s = {}
    BY FS_Subset, FS_CardinalityType, FS_EmptySet DEF UpTo
  <2>2. \A s \in UpTo(S, 0) : SumStep(fun, g, s) = 0
    BY <2>1 DEF SumStep
  <2>3. g = [s \in UpTo(S, 0) |-> SumStep(fun, g, s)]
    BY <2>2
  <2>. HIDE DEF g
  <2>. QED
    BY <2>3
<1>2. ASSUME NEW n \in Nat, Defined(n)
      PROVE  Defined(n + 1)
  <2>1. PICK f : f = [s \in UpTo(S, n) |-> SumStep(fun, f, s)]
    BY <1>2
  <2>. DEFINE g == [s \in UpTo(S, n + 1) |-> SumStep(fun, f, s)]
  <2>2. \A s \in UpTo(S, n + 1) : s # {} => s \ {Pick(s)} \in UpTo(S, n)
    BY Smaller DEF UpTo
  <2>3. \A s \in UpTo(S, n) : s \in UpTo(S, n + 1)
    BY FS_Subset, FS_CardinalityType DEF UpTo
  <2>4. \A s \in UpTo(S, n) : g[s] = f[s]
    BY <2>1, <2>3
  <2>5. \A s \in UpTo(S, n + 1) : SumStep(fun, g, s) = SumStep(fun, f, s)
    <3>. HIDE DEF g
    <3>. QED
      BY <2>2, <2>4 DEF SumStep
  <2>6. g = [s \in UpTo(S, n + 1) |-> SumStep(fun, g, s)]
    BY <2>5
  <2>. HIDE DEF g
  <2>. QED
    BY <2>6
<1>. HIDE DEF Defined
<1>3. Bad = {}
  <2>. SUFFICES ASSUME Bad # {} PROVE FALSE
    OBVIOUS
  <2>1. PICK n \in Bad : \A m \in Bad : n <= m
    BY LeastNatural
  <2>2. n - 1 \in Nat /\ n - 1 \notin Bad
    BY <1>1, <2>1
  <2>3. Defined(n - 1 + 1)
    BY <1>2, <2>2
  <2>4. n - 1 + 1 = n
    BY <2>1
  <2>. QED
    BY <2>1, <2>3, <2>4
<1>4. Cardinality(S) \in Nat /\ UpTo(S, Cardinality(S)) = SUBSET S
  BY FS_Subset, FS_CardinalityType DEF UpTo
<1>5. Defined(Cardinality(S))
  BY <1>3, <1>4
<1>. QED
  BY <1>4, <1>5 DEF Defined, IsSumTable

\* Each entry is a step from smaller ones.
LEMMA SumsStep ==
  ASSUME NEW S, IsFiniteSet(S), NEW fun
  PROVE  \A s \in SUBSET S : Sums(S, fun)[s] = SumStep(fun, Sums(S, fun), s)
<1>1. \E f : IsSumTable(S, fun, f)
  BY SumExists
<1>2. IsSumTable(S, fun, Sums(S, fun))
  BY <1>1, Zenon DEF Sums
<1>. QED
  BY <1>2 DEF IsSumTable

\* A finite sum of naturals is one, and term by term a bound bounds it.
LEMMA SumBound ==
  ASSUME NEW S, IsFiniteSet(S),
         NEW terms \in [S -> Nat], NEW parts \in [S -> Nat], NEW k \in Nat,
         \A s \in S : terms[s] <= k * parts[s]
  PROVE  /\ SumFunction(terms) \in Nat /\ SumFunction(parts) \in Nat
         /\ SumFunction(terms) <= k * SumFunction(parts)
<1>. DEFINE T == Sums(S, terms)
            P == Sums(S, parts)
            Bounded(s) == T[s] \in Nat /\ P[s] \in Nat /\ T[s] <= k * P[s]
            Bad == {n \in Nat : \E s \in SUBSET S : Cardinality(s) = n /\ ~Bounded(s)}
<1>1. \A s \in SUBSET S : T[s] = SumStep(terms, T, s)
  BY SumsStep
<1>2. \A s \in SUBSET S : P[s] = SumStep(parts, P, s)
  BY SumsStep
<1>3. SumFunction(terms) = T[S] /\ SumFunction(parts) = P[S]
  BY SumUnfold
<1>. HIDE DEF T, P
<1>4. Bounded({})
  <2>1. SumStep(terms, T, {}) = 0 /\ SumStep(parts, P, {}) = 0
    BY DEF SumStep
  <2>2. T[{}] = 0 /\ P[{}] = 0
    BY <1>1, <1>2, <2>1
  <2>. QED
    BY <2>2
<1>5. ASSUME NEW s \in SUBSET S, s # {}, Bounded(s \ {Pick(s)})
      PROVE  Bounded(s)
  <2>. DEFINE p == Pick(s)
              r == s \ {p}
  <2>1. p \in S /\ r \in SUBSET S
    BY <1>5, Smaller
  <2>2. T[s] = terms[p] + T[r] /\ P[s] = parts[p] + P[r]
    BY <1>1, <1>2, <1>5 DEF SumStep
  <2>. HIDE DEF p
  <2>. QED
    BY <1>5, <2>1, <2>2 DEF p
<1>. HIDE DEF Bounded
<1>6. Bad = {}
  <2>. SUFFICES ASSUME Bad # {} PROVE FALSE
    OBVIOUS
  <2>1. PICK n \in Bad : \A m \in Bad : n <= m
    BY LeastNatural
  <2>2. PICK s \in SUBSET S : Cardinality(s) = n /\ ~Bounded(s)
    BY <2>1
  <2>3. s # {}
    BY <1>4, <2>2
  <2>4. /\ s \ {Pick(s)} \in SUBSET S /\ Cardinality(s) \in Nat \ {0}
        /\ Cardinality(s \ {Pick(s)}) = Cardinality(s) - 1
    BY <2>3, Smaller
  <2>5. ~Bounded(s \ {Pick(s)})
    BY <1>5, <2>2, <2>3
  <2>6. n - 1 \in Bad
    BY <2>2, <2>4, <2>5
  <2>. QED
    BY <2>1, <2>2, <2>4, <2>6
<1>7. Bounded(S)
  BY <1>6, FS_CardinalityType
<1>. QED
  BY <1>3, <1>7 DEF Bounded

\* What holds of the empty set, and of a set once it holds of the set without
\* the element a sum takes next, holds of every subset.
LEMMA SubsetsByOne ==
  ASSUME NEW S, IsFiniteSet(S), NEW Good \in SUBSET (SUBSET S), {} \in Good,
         \A s \in SUBSET S : s # {} /\ s \ {Pick(s)} \in Good => s \in Good
  PROVE  Good = SUBSET S
<1>. DEFINE Bad == {n \in Nat : \E s \in SUBSET S : Cardinality(s) = n /\ s \notin Good}
<1>1. Bad = {}
  <2>. SUFFICES ASSUME Bad # {} PROVE FALSE
    OBVIOUS
  <2>1. PICK n \in Bad : \A m \in Bad : n <= m
    BY LeastNatural
  <2>2. PICK s \in SUBSET S : Cardinality(s) = n /\ s \notin Good
    BY <2>1
  <2>3. /\ s \ {Pick(s)} \in SUBSET S /\ Cardinality(s) \in Nat \ {0}
        /\ Cardinality(s \ {Pick(s)}) = Cardinality(s) - 1
    BY <2>2, Smaller
  <2>4. s # {} /\ s \ {Pick(s)} \notin Good
    BY <2>2
  <2>5. n - 1 \in Bad
    BY <2>2, <2>3, <2>4
  <2>. QED
    BY <2>1, <2>2, <2>3, <2>5
<1>2. \A s \in SUBSET S : Cardinality(s) \in Nat
  BY FS_Subset, FS_CardinalityType
<1>. QED
  BY <1>1, <1>2

\* A finite sum of naturals up to a, and up to a + b on D, goes by the counts.
LEMMA SumByCount ==
  ASSUME NEW S, IsFiniteSet(S), NEW D, NEW terms \in [S -> Nat], NEW a \in Nat, NEW b \in Nat,
         \A x \in S : terms[x] <= a + (IF x \in D THEN b ELSE 0)
  PROVE  /\ SumFunction(terms) \in Nat
         /\ SumFunction(terms) <= a * Cardinality(S) + b * Cardinality(S \cap D)
<1>. DEFINE T == Sums(S, terms)
            Counted == {s \in SUBSET S : /\ T[s] \in Nat
                                        /\ T[s] <= a * Cardinality(s) + b * Cardinality(s \cap D)}
<1>1. \A s \in SUBSET S : T[s] = SumStep(terms, T, s)
  BY SumsStep
<1>2. SumFunction(terms) = T[S]
  BY SumUnfold
<1>. HIDE DEF T
<1>3. {} \in Counted
  <2>1. T[{}] = 0
    BY <1>1 DEF SumStep
  <2>2. Cardinality({}) = 0 /\ {} \cap D = {}
    BY FS_EmptySet
  <2>. QED
    BY <2>1, <2>2
<1>4. ASSUME NEW s \in SUBSET S, s # {}, s \ {Pick(s)} \in Counted
      PROVE  s \in Counted
  <2>. DEFINE x == Pick(s)
              r == s \ {x}
              n == Cardinality(r)
              d == Cardinality(r \cap D)
  <2>1. x \in s /\ r \in SUBSET S /\ IsFiniteSet(r) /\ IsFiniteSet(r \cap D) /\ IsFiniteSet(s)
        /\ IsFiniteSet(s \cap D)
    BY <1>4, Smaller, FS_Subset
  <2>2. T[s] = terms[x] + T[r]
    BY <1>1, <1>4 DEF SumStep
  <2>3. Cardinality(s) = n + 1 /\ n \in Nat /\ d \in Nat
    <3>1. Cardinality(s) \in Nat \ {0} /\ n = Cardinality(s) - 1
      BY <1>4, Smaller
    <3>2. d \in Nat
      BY <2>1, FS_CardinalityType
    <3>. HIDE DEF n, d
    <3>. QED
      BY <3>1, <3>2
  <2>4. CASE x \in D
    <3>1. s \cap D = (r \cap D) \cup {x} /\ x \notin r \cap D
      BY <2>1, <2>4
    <3>2. Cardinality(s \cap D) = d + 1
      <4>. HIDE DEF r, x
      <4>. QED
        BY <2>1, <3>1, FS_AddElement
    <3>3. terms[x] \in Nat /\ terms[x] <= a + b
      BY <2>1, <2>4
    <3>4. T[r] \in Nat /\ T[r] <= a * n + b * d
      BY <1>4
    <3>. HIDE DEF n, d, r, x
    <3>5. terms[x] + T[r] <= a * (n + 1) + b * (d + 1)
      BY <2>3, <3>3, <3>4
    <3>. QED
      BY <2>2, <2>3, <3>2, <3>3, <3>4, <3>5
  <2>5. CASE x \notin D
    <3>1. Cardinality(s \cap D) = d
      <4>1. s \cap D = r \cap D
        BY <2>5
      <4>. QED
        BY <4>1
    <3>2. terms[x] \in Nat /\ terms[x] <= a
      BY <2>1, <2>5
    <3>3. T[r] \in Nat /\ T[r] <= a * n + b * d
      BY <1>4
    <3>. HIDE DEF n, d, r, x
    <3>4. terms[x] + T[r] <= a * (n + 1) + b * d
      BY <2>3, <3>2, <3>3
    <3>. QED
      BY <2>2, <2>3, <3>1, <3>2, <3>3, <3>4
  <2>. QED
    BY <2>4, <2>5
<1>. HIDE DEF Counted
<1>5. Counted = SUBSET S
  <2>1. Counted \in SUBSET (SUBSET S)
    BY DEF Counted
  <2>2. \A s \in SUBSET S : s # {} /\ s \ {Pick(s)} \in Counted => s \in Counted
    BY <1>4
  <2>. QED
    BY <1>3, <2>1, <2>2, SubsetsByOne
<1>6. S \in Counted
  BY <1>5
<1>. QED
  BY <1>2, <1>6 DEF Counted
=============================================================================
