------------------------ MODULE SequenceFilterProofs ------------------------
(***************************************************************************)
(* What Without promises, for sequences of any length, and that sets of    *)
(* integers have the greatest and least elements that Max and Min choose.  *)
(***************************************************************************)
EXTENDS SequenceFilter, FiniteSetsExt, Functions, FiniteSetTheorems, SequenceTheorems, TLAPS

\* An element's rank counts it and those below: it grows from position to
\* position.
LEMMA RankGrows ==
  ASSUME NEW K, IsFiniteSet(K), K \subseteq Int, NEW i \in K, NEW j \in K, i < j
  PROVE  /\ RankIn(K, i) \in 1..Cardinality(K) /\ RankIn(K, j) \in 1..Cardinality(K)
         /\ RankIn(K, i) < RankIn(K, j)
  <1> DEFINE upTo(k) == {l \in K : l <= k}
  <1>1. ASSUME NEW k \in K
        PROVE  /\ IsFiniteSet(upTo(k)) /\ Cardinality(upTo(k)) \in 1..Cardinality(K)
    <2>1. upTo(k) \in SUBSET K /\ k \in upTo(k)
      OBVIOUS
    <2>2. IsFiniteSet(upTo(k)) /\ Cardinality(upTo(k)) <= Cardinality(K)
      BY <2>1, FS_Subset
    <2>3. Cardinality(upTo(k)) \in Nat /\ Cardinality(K) \in Nat /\ Cardinality(upTo(k)) # 0
      BY <2>1, <2>2, FS_CardinalityType, FS_EmptySet
    <2>4. QED
      BY <2>2, <2>3
  <1>2. upTo(i) \in SUBSET upTo(j) /\ j \in upTo(j) /\ j \notin upTo(i)
    <2>1. \A k \in K : k \in Int
      OBVIOUS
    <2>2. \A k \in K : k <= i => k <= j
      BY <2>1
    <2>3. ~(j <= i) /\ j <= j
      BY <2>1
    <2>4. QED
      BY <2>2, <2>3
  <1>3. Cardinality(upTo(i)) <= Cardinality(upTo(j)) /\ Cardinality(upTo(i)) # Cardinality(upTo(j))
    BY <1>1, <1>2, FS_Subset
  <1>4. RankIn(K, i) = Cardinality(upTo(i)) /\ RankIn(K, j) = Cardinality(upTo(j))
    BY DEF RankIn
  <1>5. QED
    BY <1>1, <1>3, <1>4

\* Each rank is that of one element.
LEMMA RankBijective ==
  ASSUME NEW K, IsFiniteSet(K), K \subseteq Int
  PROVE  /\ \A i \in K : RankIn(K, i) \in 1..Cardinality(K)
         /\ \A i, j \in K : RankIn(K, i) = RankIn(K, j) => i = j
         /\ \A n \in 1..Cardinality(K) : \E i \in K : RankIn(K, i) = n
  <1> DEFINE N == 1..Cardinality(K)
             rank == [i \in K |-> RankIn(K, i)]
  <1>1. Cardinality(K) \in Nat
    BY FS_CardinalityType
  <1>2. ASSUME NEW i \in K PROVE RankIn(K, i) \in N
    <2>1. {j \in K : j <= i} \in SUBSET K /\ i \in {j \in K : j <= i}
      OBVIOUS
    <2>2. IsFiniteSet({j \in K : j <= i}) /\ RankIn(K, i) <= Cardinality(K)
      BY <2>1, FS_Subset DEF RankIn
    <2>3. RankIn(K, i) \in Nat /\ RankIn(K, i) # 0
      BY <2>1, <2>2, FS_CardinalityType, FS_EmptySet DEF RankIn
    <2>4. QED
      BY <1>1, <2>2, <2>3
  <1>3. ASSUME NEW i \in K, NEW j \in K, RankIn(K, i) = RankIn(K, j) PROVE i = j
    <2>1. i \in Int /\ j \in Int
      OBVIOUS
    <2>2. ASSUME NEW k \in K, NEW l \in K, k < l PROVE RankIn(K, k) # RankIn(K, l)
      <3>1. RankIn(K, k) < RankIn(K, l)
        BY <2>2, RankGrows
      <3>2. RankIn(K, k) \in Int
        BY <1>1, <1>2
      <3>3. QED
        BY <3>1, <3>2
    <2>3. ~(i < j) /\ ~(j < i)
      BY <1>3, <2>2
    <2>4. QED
      BY <2>1, <2>3
  <1>4. rank \in Injection(K, N)
    BY <1>2, <1>3 DEF Injection, IsInjective
  <1>5. IsFiniteSet(N) /\ Cardinality(N) = Cardinality(K)
    BY <1>1, FS_Interval
  <1>6. rank \in Surjection(K, N)
    BY <1>4, <1>5, FS_Injection
  <1>7. \A n \in N : \E i \in K : rank[i] = n
    BY <1>6 DEF Surjection
  <1>8. QED
    BY <1>2, <1>3, <1>7

\* The elements of Without are those of s that are not in X, in the order they
\* have in s.
LEMMA WithoutPositions ==
  ASSUME NEW S, NEW s \in Seq(S), NEW X
  PROVE  /\ Without(s, X) \in Seq(S)
         /\ \E at \in [DOMAIN Without(s, X) -> DOMAIN s] :
              /\ \A n \in DOMAIN Without(s, X) :
                   Without(s, X)[n] = s[at[n]] /\ s[at[n]] \notin X
              /\ \A m, n \in DOMAIN Without(s, X) : m < n => at[m] < at[n]
              /\ \A i \in DOMAIN s :
                   s[i] \notin X => \E n \in DOMAIN Without(s, X) : at[n] = i
  <1> DEFINE K == Kept(s, X)
             N == 1..Cardinality(K)
             at == [n \in N |-> CHOOSE i \in K : RankIn(K, i) = n]
  <1>1. K \in SUBSET (1..Len(s)) /\ Len(s) \in Nat
    BY DEF Kept
  <1>2. IsFiniteSet(K) /\ K \subseteq Int
    <2>1. IsFiniteSet(1..Len(s))
      BY <1>1, FS_Interval
    <2> HIDE DEF K
    <2>2. IsFiniteSet(K)
      BY <1>1, <2>1, FS_Subset
    <2>3. QED
      BY <1>1, <2>2
  <1>3. Cardinality(K) \in Nat
    BY <1>2, FS_CardinalityType
  <1>4. ASSUME NEW n \in N PROVE at[n] \in K /\ RankIn(K, at[n]) = n
    BY <1>2, RankBijective
  <1>5. ASSUME NEW i \in K PROVE \E n \in N : at[n] = i
    BY <1>2, <1>4, RankBijective
  <1>6. ASSUME NEW m \in N, NEW n \in N, m < n PROVE at[m] < at[n]
    <2>1. at[m] \in Int /\ at[n] \in Int
      BY <1>2, <1>4
    <2>2. at[m] # at[n]
      BY <1>3, <1>4, <1>6
    <2>3. ASSUME at[n] < at[m] PROVE FALSE
      <3>1. RankIn(K, at[n]) < RankIn(K, at[m])
        BY <1>2, <1>4, <2>3, RankGrows
      <3>2. QED
        BY <1>3, <1>4, <1>6, <3>1
    <2>4. QED
      BY <2>1, <2>2, <2>3
  <1>7. Without(s, X) = [n \in N |-> s[at[n]]]
    BY DEF Without
  <1>8. DOMAIN s = 1..Len(s) /\ DOMAIN Without(s, X) = N
    BY <1>7
  <1>9. \A i \in 1..Len(s) : i \in K <=> s[i] \notin X
    BY DEF Kept
  <1>10. at \in [N -> DOMAIN s]
    BY <1>1, <1>4, <1>8
  <1> HIDE DEF K, at
  <1>11. \A n \in N : s[at[n]] \in S /\ s[at[n]] \notin X
    <2>1. \A i \in 1..Len(s) : s[i] \in S
      BY ElementOfSeq
    <2>2. QED
      BY <1>1, <1>4, <1>9, <2>1
  <1>12. Without(s, X) \in Seq(S)
    BY <1>3, <1>7, <1>11
  <1>13. \A n \in N : Without(s, X)[n] = s[at[n]]
    BY <1>7
  <1>14. \A i \in DOMAIN s : s[i] \notin X => \E n \in N : at[n] = i
    BY <1>5, <1>8, <1>9
  <1>15. QED
    <2> DEFINE t == Without(s, X)
    <2>1. DOMAIN t = N
      BY <1>8
    <2> HIDE DEF t, N
    <2>2. /\ at \in [DOMAIN t -> DOMAIN s]
          /\ \A n \in DOMAIN t : t[n] = s[at[n]] /\ s[at[n]] \notin X
          /\ \A m, n \in DOMAIN t : m < n => at[m] < at[n]
          /\ \A i \in DOMAIN s : s[i] \notin X => \E n \in DOMAIN t : at[n] = i
      BY <2>1, <1>6, <1>10, <1>11, <1>13, <1>14 DEF t
    <2>3. QED
      BY <2>2, <1>12 DEF t

\* What stays is what is not in X; and an element that was once in s is once in
\* what stays.
LEMMA WithoutProperties ==
  ASSUME NEW S, NEW s \in Seq(S), NEW X
  PROVE  /\ Without(s, X) \in Seq(S)
         /\ Range(Without(s, X)) = Range(s) \ X
         /\ (\A i, j \in DOMAIN s : s[i] = s[j] => i = j) =>
               \A m, n \in DOMAIN Without(s, X) :
                 Without(s, X)[m] = Without(s, X)[n] => m = n
  <1> DEFINE t == Without(s, X)
  <1>1. t \in Seq(S)
    BY WithoutPositions
  <1>2. PICK at \in [DOMAIN t -> DOMAIN s] :
              /\ \A n \in DOMAIN t : t[n] = s[at[n]] /\ s[at[n]] \notin X
              /\ \A m, n \in DOMAIN t : m < n => at[m] < at[n]
              /\ \A i \in DOMAIN s : s[i] \notin X => \E n \in DOMAIN t : at[n] = i
    BY WithoutPositions
  <1> HIDE DEF t
  <1>3. DOMAIN t \subseteq Int /\ DOMAIN s \subseteq Int
    BY <1>1
  <1>4. Range(t) = Range(s) \ X
    <2>1. ASSUME NEW x PROVE x \in Range(t) <=> x \in Range(s) /\ x \notin X
      BY <1>2 DEF Range
    <2>2. QED
      BY <2>1
  <1>5. ASSUME \A i, j \in DOMAIN s : s[i] = s[j] => i = j,
               NEW m \in DOMAIN t, NEW n \in DOMAIN t, t[m] = t[n]
        PROVE  m = n
    <2>1. at[m] = at[n] /\ at[m] \in Int
      BY <1>2, <1>3, <1>5
    <2>2. ~(m < n) /\ ~(n < m)
      BY <1>2, <2>1
    <2>3. QED
      BY <1>3, <2>2
  <1>6. QED
    BY <1>1, <1>4, <1>5 DEF t
------------------------------------------------------------------------------
\* Of finitely many sets that are no longer something one is smallest: without
\* any of its elements it still is.
LEMMA SmallestSubset ==
  ASSUME NEW K, IsFiniteSet(K), NEW bad \in SUBSET (SUBSET K), bad # {}
  PROVE  \E T \in bad : \A x \in T : T \ {x} \notin bad
  <1>1. IsWellFoundedOn(StrictSubsetOrdering(K), SUBSET K)
    BY FS_FiniteSubsetsOfFinite, FS_StrictSubsetOrderingWellFounded
  <1>2. PICK T \in bad : \A U \in bad : <<U, T>> \notin StrictSubsetOrdering(K)
    BY <1>1, WFMin
  <1>3. ASSUME NEW x \in T PROVE T \ {x} \notin bad
    <2>1. T \ {x} \in SUBSET K /\ T \in SUBSET K /\ T \ {x} # T
      OBVIOUS
    <2>2. <<T \ {x}, T>> \in StrictSubsetOrdering(K)
      BY <2>1 DEF StrictSubsetOrdering
    <2>3. QED
      BY <1>2, <2>2
  <1>4. QED
    BY <1>3

\* A finite set of integers that is not empty has a greatest and a least
\* element: a smallest subset without one would have one after all.
LEMMA Extremes ==
  ASSUME NEW K, IsFiniteSet(K), K \subseteq Int, K # {}
  PROVE  /\ Max(K) \in K /\ \A k \in K : k <= Max(K)
         /\ Min(K) \in K /\ \A k \in K : Min(K) <= k
  <1> DEFINE Top(T) == \E x \in T : \A y \in T : x >= y
             Bottom(T) == \E x \in T : \A y \in T : x =< y
             Good(T) == T = {} \/ (Top(T) /\ Bottom(T))
             bad == {T \in SUBSET K : ~Good(T)}
  <1>1. ASSUME bad # {} PROVE FALSE
    <2>1. bad \in SUBSET (SUBSET K)
      OBVIOUS
    <2>2. PICK T \in bad : \A x \in T : T \ {x} \notin bad
      <3> HIDE DEF bad
      <3>1. QED
        BY <1>1, <2>1, SmallestSubset
    <2>3. PICK x \in T : TRUE
      OBVIOUS
    <2>4. T \in SUBSET K /\ ~Good(T) /\ \A k \in T : k \in Int
      OBVIOUS
    <2>5. Good(T \ {x})
      BY <2>2, <2>3, <2>4
    <2> HIDE DEF bad
    <2>6. CASE T \ {x} = {}
      <3>1. \A k \in T : k = x
        BY <2>6
      <3>2. QED
        BY <2>3, <2>4, <3>1
    <2>7. CASE Top(T \ {x}) /\ Bottom(T \ {x})
      <3>1. PICK a \in T \ {x} : \A y \in T \ {x} : a >= y
        BY <2>7
      <3>2. PICK b \in T \ {x} : \A y \in T \ {x} : b =< y
        BY <2>7
      <3>3. \A y \in T : (IF a >= x THEN a ELSE x) >= y
        BY <2>3, <2>4, <3>1
      <3>4. \A y \in T : (IF b =< x THEN b ELSE x) =< y
        BY <2>3, <2>4, <3>2
      <3>5. Top(T) /\ Bottom(T)
        BY <2>3, <3>1, <3>2, <3>3, <3>4
      <3>6. QED
        BY <2>4, <3>5
    <2>8. QED
      BY <2>5, <2>6, <2>7
  <1>2. Good(K)
    BY <1>1
  <1>3. Top(K) /\ Bottom(K)
    BY <1>2
  <1>4. QED
    BY <1>3 DEF Max, Min
------------------------------------------------------------------------------
\* The elements of a sequence.
LEMMA Elements ==
  ASSUME NEW S, NEW s \in Seq(S)
  PROVE  /\ Range(s) \subseteq S
         /\ \A i \in DOMAIN s : s[i] \in Range(s)
         /\ \A x \in Range(s) : \E i \in DOMAIN s : s[i] = x
         /\ DOMAIN s = 1..Len(s) /\ Len(s) \in Nat
  BY DEF Range

\* Appending a new element.
LEMMA AppendNew ==
  ASSUME NEW S, NEW s \in Seq(S), NEW x \in S
  PROVE  /\ Append(s, x) \in Seq(S)
         /\ Range(Append(s, x)) = Range(s) \cup {x}
         /\ x \notin Range(s) /\ (\A i, j \in DOMAIN s : s[i] = s[j] => i = j) =>
              \A i, j \in DOMAIN Append(s, x) : Append(s, x)[i] = Append(s, x)[j] => i = j
  <1>1. /\ Append(s, x) \in Seq(S) /\ DOMAIN Append(s, x) = 1..(Len(s) + 1)
        /\ DOMAIN s = 1..Len(s) /\ Len(s) \in Nat
        /\ \A i \in 1..Len(s) : Append(s, x)[i] = s[i]
        /\ Append(s, x)[Len(s) + 1] = x
    BY AppendProperties, LenProperties
  <1> DEFINE t == Append(s, x)
  <1> HIDE DEF t
  <1>2. ASSUME NEW y PROVE y \in Range(t) <=> y \in Range(s) \cup {x}
    <2>1. ASSUME NEW i \in 1..(Len(s) + 1) PROVE i \in 1..Len(s) \/ i = Len(s) + 1
      BY <1>1
    <2>2. ASSUME NEW i \in 1..Len(s) PROVE i \in 1..(Len(s) + 1)
      BY <1>1
    <2>3. Len(s) + 1 \in 1..(Len(s) + 1)
      BY <1>1
    <2>4. QED
      BY <1>1, <2>1, <2>2, <2>3 DEF Range, t
  <1>3. ASSUME x \notin Range(s), \A i, j \in DOMAIN s : s[i] = s[j] => i = j,
               NEW i \in DOMAIN t, NEW j \in DOMAIN t, t[i] = t[j]
        PROVE  i = j
    <2>1. \A k \in 1..Len(s) : s[k] # x
      BY <1>1, <1>3 DEF Range
    <2>2. i \in 1..(Len(s) + 1) /\ j \in 1..(Len(s) + 1)
      BY <1>1, <1>3 DEF t
    <2>3. CASE i \in 1..Len(s) /\ j \in 1..Len(s)
      BY <1>1, <1>3, <2>3 DEF t
    <2>4. CASE i = Len(s) + 1 /\ j \in 1..Len(s)
      BY <1>1, <1>3, <2>1, <2>4 DEF t
    <2>5. CASE j = Len(s) + 1 /\ i \in 1..Len(s)
      BY <1>1, <1>3, <2>1, <2>5 DEF t
    <2>6. QED
      BY <1>1, <2>2, <2>3, <2>4, <2>5
  <1>4. QED
    BY <1>1, <1>2, <1>3 DEF t

\* Removing the first element.
LEMMA TailOfDistinct ==
  ASSUME NEW S, NEW s \in Seq(S), s # <<>>, \A i, j \in DOMAIN s : s[i] = s[j] => i = j
  PROVE  /\ Tail(s) \in Seq(S) /\ Head(s) \in Range(s)
         /\ Range(Tail(s)) = Range(s) \ {Head(s)}
         /\ \A i, j \in DOMAIN Tail(s) : Tail(s)[i] = Tail(s)[j] => i = j
  <1> DEFINE t == Tail(s)
  <1>1. /\ t \in Seq(S) /\ Head(s) = s[1] /\ Len(s) \in Nat \ {0}
        /\ DOMAIN t = 1..(Len(s) - 1) /\ DOMAIN s = 1..Len(s)
        /\ \A i \in 1..(Len(s) - 1) : t[i] = s[i + 1]
    BY HeadTailProperties, EmptySeq, LenProperties
  <1> HIDE DEF t
  <1>2. ASSUME NEW y PROVE y \in Range(t) <=> y \in Range(s) \ {Head(s)}
    <2>1. ASSUME y \in Range(t) PROVE y \in Range(s) \ {Head(s)}
      <3>1. PICK i \in 1..(Len(s) - 1) : y = s[i + 1]
        BY <1>1, <2>1 DEF Range
      <3>2. i + 1 \in 1..Len(s) /\ i + 1 # 1 /\ 1 \in 1..Len(s)
        BY <1>1
      <3>3. QED
        BY <1>1, <3>1, <3>2 DEF Range
    <2>2. ASSUME y \in Range(s) \ {Head(s)} PROVE y \in Range(t)
      <3>1. PICK i \in 1..Len(s) : y = s[i]
        BY <1>1, <2>2 DEF Range
      <3>2. i # 1
        BY <1>1, <2>2, <3>1
      <3>3. i - 1 \in 1..(Len(s) - 1) /\ (i - 1) + 1 = i
        BY <1>1, <3>2
      <3>4. t[i - 1] = y
        BY <1>1, <3>1, <3>3
      <3>5. QED
        BY <1>1, <3>3, <3>4 DEF Range
    <2>3. QED
      BY <2>1, <2>2
  <1>3. ASSUME NEW i \in DOMAIN t, NEW j \in DOMAIN t, t[i] = t[j] PROVE i = j
    <2>1. i + 1 \in DOMAIN s /\ j + 1 \in DOMAIN s /\ i \in Int /\ j \in Int
      BY <1>1
    <2>2. i + 1 = j + 1
      BY <1>1, <1>3, <2>1
    <2>3. QED
      BY <2>1, <2>2
  <1>4. Head(s) \in Range(s)
    BY <1>1 DEF Range
  <1>5. QED
    BY <1>1, <1>2, <1>3, <1>4 DEF t
================================================================================
