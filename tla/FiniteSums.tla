----------------------------- MODULE FiniteSums -----------------------------
(***************************************************************************)
(* Sums over finite sets.  The community library folds with a recursive    *)
(* function; it is shown to exist, and its sums to have a type and to be   *)
(* monotone, by taking a least counterexample.                             *)
(***************************************************************************)
EXTENDS Integers, FiniteSets, FiniteSetsExt, FiniteSetTheorems, WellFoundedInduction, TLAPS

Sum(f, S) == MapThenSumSet(LAMBDA q : f[q], S)

Pick(s) == CHOOSE x \in s : TRUE
Folded(f, g, s) == IF s = {} THEN 0 ELSE f[Pick(s)] + g[s \ {Pick(s)}]

\* A set of natural numbers has a least element.
LEMMA LeastNat ==
  ASSUME NEW T \in SUBSET Nat, T # {}
  PROVE  \E m \in T : \A n \in T : m <= n
<1> DEFINE R == {ss \in Nat \X Nat : ss[1] < ss[2]}
<1>1. IsWellFoundedOn(R, Nat)
  BY NatLessThanWellFounded DEF OpToRel
<1>2. \A m, n \in Nat : n < m => <<n, m>> \in R
  OBVIOUS
<1> HIDE DEF R
<1>3. PICK m \in T : \A n \in T : ~ (<<n, m>> \in R)
  BY <1>1, WFMin
<1>4. \A n \in T : ~(n < m)
  BY <1>2, <1>3
<1> QED BY <1>4

\* Taking an element out of a finite set makes it smaller.
LEMMA PickShrinks ==
  ASSUME NEW S, IsFiniteSet(S), NEW s \in SUBSET S, s # {}
  PROVE  /\ Pick(s) \in s /\ s \ {Pick(s)} \in SUBSET S
         /\ Cardinality(s) \in Nat /\ Cardinality(s) # 0
         /\ Cardinality(s \ {Pick(s)}) = Cardinality(s) - 1
<1>1. Pick(s) \in s
  BY DEF Pick
<1>2. IsFiniteSet(s)
  BY FS_Subset
<1>3. Cardinality(s) \in Nat /\ Cardinality(s) # 0
  BY <1>2, FS_CardinalityType, FS_EmptySet
<1> QED BY <1>1, <1>2, <1>3, FS_RemoveElement

\* The recursive function of the fold exists.
Small(S, n) == {s \in SUBSET S : Cardinality(s) <= n}
FoldsUpTo(f, g, S, n) == g = [s \in Small(S, n) |-> Folded(f, g, s)]

LEMMA FoldExtends ==
  ASSUME NEW f, NEW S, NEW n, NEW g, NEW h, h = [s \in Small(S, n) |-> Folded(f, g, s)],
         \A s \in Small(S, n) : s # {} => g[s \ {Pick(s)}] = h[s \ {Pick(s)}]
  PROVE  FoldsUpTo(f, h, S, n)
<1>1. \A s \in Small(S, n) : Folded(f, g, s) = Folded(f, h, s)
  BY DEF Folded
<1>2. h = [s \in Small(S, n) |-> Folded(f, h, s)]
  BY <1>1
<1> QED BY <1>2 DEF FoldsUpTo

LEMMA FoldExists ==
  ASSUME NEW f, NEW S, IsFiniteSet(S)
  PROVE  \E g : g = [s \in SUBSET S |-> Folded(f, g, s)]
<1> DEFINE Bad == {n \in Nat : ~ \E g : FoldsUpTo(f, g, S, n)}
<1>1. Bad = {}
  <2> SUFFICES ASSUME Bad # {} PROVE FALSE
    OBVIOUS
  <2>1. PICK m \in Bad : \A n \in Bad : m <= n
    BY LeastNat
  <2>2. \A h : ~FoldsUpTo(f, h, S, m)
    BY <2>1
  <2>3. CASE m = 0
    <3>1. ASSUME NEW s \in Small(S, m), s # {} PROVE FALSE
      <4>1. s \in SUBSET S /\ Cardinality(s) <= 0
        BY <2>3 DEF Small
      <4>2. Cardinality(s) \in Nat /\ Cardinality(s) # 0
        BY <3>1, <4>1, PickShrinks
      <4> QED BY <4>1, <4>2
    <3> DEFINE h == [s \in Small(S, m) |-> Folded(f, f, s)]
    <3>2. h = [s \in Small(S, m) |-> Folded(f, f, s)]
      OBVIOUS
    <3> HIDE DEF h
    <3>3. FoldsUpTo(f, h, S, m)
      BY <3>1, <3>2, FoldExtends
    <3> QED BY <2>2, <3>3
  <2>4. CASE m # 0
    <3>1. m - 1 \in Nat /\ m - 1 \notin Bad
      BY <2>1, <2>4
    <3>2. PICK g : FoldsUpTo(f, g, S, m - 1)
      BY <3>1
    <3> DEFINE h == [s \in Small(S, m) |-> Folded(f, g, s)]
    <3>3. ASSUME NEW s \in Small(S, m), s # {}
          PROVE  g[s \ {Pick(s)}] = h[s \ {Pick(s)}]
      <4> DEFINE u == s \ {Pick(s)}
      <4>1. u \in Small(S, m - 1) /\ u \in Small(S, m)
        BY <3>1, <3>3, PickShrinks DEF Small
      <4>2. g[u] = Folded(f, g, u)
        BY <3>2, <4>1 DEF FoldsUpTo
      <4>3. h[u] = Folded(f, g, u)
        BY <4>1
      <4> QED BY <4>2, <4>3
    <3> HIDE DEF h
    <3>4. h = [s \in Small(S, m) |-> Folded(f, g, s)]
      BY DEF h
    <3>5. FoldsUpTo(f, h, S, m)
      BY <3>3, <3>4, FoldExtends
    <3> QED BY <2>2, <3>5
  <2> QED BY <2>3, <2>4
<1>2. Cardinality(S) \in Nat /\ Small(S, Cardinality(S)) = SUBSET S
  BY FS_CardinalityType, FS_Subset DEF Small
<1>3. PICK g : FoldsUpTo(f, g, S, Cardinality(S))
  BY <1>1, <1>2
<1> QED BY <1>2, <1>3 DEF FoldsUpTo

\* A sum is the value of that function.
IsFold(f, g, S) == \A s \in SUBSET S : g[s] = Folded(f, g, s)

LEMMA SumFolds ==
  ASSUME NEW f, NEW S, IsFiniteSet(S)
  PROVE  \E g : Sum(f, S) = g[S] /\ IsFold(f, g, S)
<1> DEFINE g == CHOOSE g : g = [s \in SUBSET S |-> Folded(f, g, s)]
<1>1. Sum(f, S) = g[S]
  BY DEF Sum, MapThenSumSet, MapThenFoldSet, Folded, Pick
<1>2. g = [s \in SUBSET S |-> Folded(f, g, s)]
  BY FoldExists
<1> HIDE DEF g
<1>3. IsFold(f, g, S)
  BY <1>2 DEF IsFold
<1> QED BY <1>1, <1>3

\* Sums of naturals are naturals, and grow with their terms.
LEMMA SumMonotone ==
  ASSUME NEW S, IsFiniteSet(S), NEW f, NEW h,
         \A q \in S : f[q] \in Nat /\ h[q] \in Nat /\ f[q] <= h[q]
  PROVE  Sum(f, S) \in Nat /\ Sum(h, S) \in Nat /\ Sum(f, S) <= Sum(h, S)
<1>1. PICK g : Sum(f, S) = g[S] /\ IsFold(f, g, S)
  BY SumFolds
<1>2. PICK k : Sum(h, S) = k[S] /\ IsFold(h, k, S)
  BY SumFolds
<1> DEFINE Good(s) == g[s] \in Nat /\ k[s] \in Nat /\ g[s] <= k[s]
           Bad == {n \in Nat : \E s \in SUBSET S : Cardinality(s) = n /\ ~Good(s)}
<1>3. Bad = {}
  <2> SUFFICES ASSUME Bad # {} PROVE FALSE
    OBVIOUS
  <2>1. PICK m \in Bad : \A n \in Bad : m <= n
    BY LeastNat
  <2>2. PICK s \in SUBSET S : Cardinality(s) = m /\ ~Good(s)
    OBVIOUS
  <2>3. s # {}
    <3>1. Folded(f, g, {}) = 0 /\ Folded(h, k, {}) = 0
      BY DEF Folded
    <3>2. g[{}] = 0 /\ k[{}] = 0
      BY <1>1, <1>2, <3>1 DEF IsFold
    <3> QED BY <2>2, <3>2
  <2> DEFINE u == s \ {Pick(s)}
  <2>4. Pick(s) \in S /\ u \in SUBSET S /\ Cardinality(u) \in Nat /\ Cardinality(u) < m
    BY <2>2, <2>3, PickShrinks
  <2>5. Good(u)
    <3> HIDE DEF Good, u
    <3>1. m \in Nat /\ Cardinality(u) \notin Bad
      BY <2>1, <2>4
    <3> QED BY <2>4, <3>1
  <2>6. g[s] = f[Pick(s)] + g[u] /\ k[s] = h[Pick(s)] + k[u]
    BY <1>1, <1>2, <2>3 DEF Folded, IsFold
  <2> HIDE DEF u
  <2>7. Good(s)
    BY <2>4, <2>5, <2>6
  <2> QED BY <2>2, <2>7
<1>4. Good(S)
  BY <1>3, FS_CardinalityType
<1> QED BY <1>1, <1>2, <1>4

\* A sum of zeros is zero.
LEMMA SumZero ==
  ASSUME NEW S, IsFiniteSet(S), NEW f, \A q \in S : f[q] = 0
  PROVE  Sum(f, S) = 0
<1>1. PICK g : Sum(f, S) = g[S] /\ IsFold(f, g, S)
  BY SumFolds
<1> DEFINE Bad == {n \in Nat : \E s \in SUBSET S : Cardinality(s) = n /\ g[s] # 0}
<1>2. Bad = {}
  <2> SUFFICES ASSUME Bad # {} PROVE FALSE
    OBVIOUS
  <2>1. PICK m \in Bad : \A n \in Bad : m <= n
    BY LeastNat
  <2>2. PICK s \in SUBSET S : Cardinality(s) = m /\ g[s] # 0
    OBVIOUS
  <2>3. s # {}
    <3>1. Folded(f, g, {}) = 0
      BY DEF Folded
    <3> QED BY <1>1, <2>2, <3>1 DEF IsFold
  <2> DEFINE u == s \ {Pick(s)}
  <2>4. Pick(s) \in S /\ u \in SUBSET S /\ Cardinality(u) \in Nat /\ Cardinality(u) < m
    BY <2>2, <2>3, PickShrinks
  <2>5. g[u] = 0
    <3> HIDE DEF u
    <3>1. m \in Nat /\ Cardinality(u) \notin Bad
      BY <2>1, <2>4
    <3> QED BY <2>4, <3>1
  <2>6. g[s] = f[Pick(s)] + g[u]
    BY <1>1, <2>3 DEF Folded, IsFold
  <2> QED BY <2>2, <2>4, <2>5, <2>6
<1> QED BY <1>1, <1>2, FS_CardinalityType

\* Sums of integers are integers.
LEMMA SumInteger ==
  ASSUME NEW S, IsFiniteSet(S), NEW f, \A q \in S : f[q] \in Int
  PROVE  Sum(f, S) \in Int
<1>1. PICK g : Sum(f, S) = g[S] /\ IsFold(f, g, S)
  BY SumFolds
<1> DEFINE Bad == {n \in Nat : \E s \in SUBSET S : Cardinality(s) = n /\ g[s] \notin Int}
<1>2. Bad = {}
  <2> SUFFICES ASSUME Bad # {} PROVE FALSE
    OBVIOUS
  <2>1. PICK m \in Bad : \A n \in Bad : m <= n
    BY LeastNat
  <2>2. PICK s \in SUBSET S : Cardinality(s) = m /\ g[s] \notin Int
    OBVIOUS
  <2>3. s # {}
    <3>1. Folded(f, g, {}) = 0
      BY DEF Folded
    <3>2. g[{}] = 0
      BY <1>1, <3>1 DEF IsFold
    <3> QED BY <2>2, <3>2
  <2> DEFINE u == s \ {Pick(s)}
  <2>4. Pick(s) \in S /\ u \in SUBSET S /\ Cardinality(u) \in Nat /\ Cardinality(u) < m
    BY <2>2, <2>3, PickShrinks
  <2>5. g[u] \in Int
    <3> HIDE DEF u
    <3>1. m \in Nat /\ Cardinality(u) \notin Bad
      BY <2>1, <2>4
    <3> QED BY <2>4, <3>1
  <2>6. g[s] = f[Pick(s)] + g[u]
    BY <1>1, <2>3 DEF Folded, IsFold
  <2> HIDE DEF u
  <2>7. g[s] \in Int
    BY <2>4, <2>5, <2>6
  <2> QED BY <2>2, <2>7
<1> QED BY <1>1, <1>2, FS_CardinalityType
=============================================================================
