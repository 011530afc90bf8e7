-------------------------- MODULE SelectionProofs --------------------------
(***************************************************************************)
(* What Selected returns.                                                  *)
(***************************************************************************)
EXTENDS Selections, SequenceTheorems, FiniteSetTheorems, TLAPS

\* The ranks of the kept positions are 1..Cardinality(K), each taken once.
LEMMA RanksOfSubset ==
  ASSUME NEW n \in Nat, NEW K \in SUBSET (1..n)
  PROVE  /\ Cardinality(K) \in Nat
         /\ \A i \in K : RankIn(K, i) \in 1..Cardinality(K)
         /\ \A i, j \in K : RankIn(K, i) = RankIn(K, j) => i = j
         /\ \A k \in 1..Cardinality(K) : \E i \in K : RankIn(K, i) = k
<1> DEFINE upTo(i) == {j \in K : j <= i}
           c == Cardinality(K)
           rank == [i \in K |-> RankIn(K, i)]
<1>1. IsFiniteSet(K) /\ c \in Nat
  <2>1. IsFiniteSet(1..n)
    BY FS_Interval
  <2>2. IsFiniteSet(K)
    BY <2>1, FS_Subset
  <2> QED BY <2>2, FS_CardinalityType
<1>2. \A i \in K : IsFiniteSet(upTo(i)) /\ Cardinality(upTo(i)) <= c
  BY <1>1, FS_Subset
<1>3. \A i \in K : RankIn(K, i) \in 1..c
  <2> TAKE i \in K
  <2>1. i \in upTo(i) /\ IsFiniteSet(upTo(i))
    BY <1>2
  <2>2. Cardinality(upTo(i)) \in Nat /\ Cardinality(upTo(i)) # 0
    BY <2>1, FS_CardinalityType, FS_EmptySet
  <2> QED BY <1>1, <1>2, <2>2 DEF RankIn
<1>4. ASSUME NEW i \in K, NEW j \in K, i < j
      PROVE  RankIn(K, i) # RankIn(K, j)
  <2>1. upTo(i) \in SUBSET upTo(j) /\ IsFiniteSet(upTo(j))
    <3>1. \A k \in K : k <= i => k <= j
      BY <1>4
    <3> QED BY <3>1, <1>2
  <2>2. j \in upTo(j) /\ j \notin upTo(i)
    BY <1>4
  <2> QED BY <2>1, <2>2, FS_Subset DEF RankIn
<1>5. \A i, j \in K : RankIn(K, i) = RankIn(K, j) => i = j
  <2> TAKE i, j \in K
  <2>1. i < j \/ j < i \/ i = j
    OBVIOUS
  <2> QED BY <1>4, <2>1
<1>6. rank \in Injection(K, 1..c)
  BY <1>3, <1>5 DEF Injection, IsInjective
<1>7. IsFiniteSet(1..c) /\ Cardinality(1..c) = c
  BY <1>1, FS_Interval
<1>8. rank \in Surjection(K, 1..c)
  BY <1>6, <1>7, FS_Injection
<1>9. \A k \in 1..c : \E i \in K : RankIn(K, i) = k
  BY <1>8 DEF Surjection
<1> QED BY <1>1, <1>3, <1>5, <1>9

\* A selection of a list is a list of the same kind, and its elements are the
\* kept ones, all of them and no other.
LEMMA SelectedItems ==
  ASSUME NEW S, NEW s \in Seq(S), NEW K \in SUBSET (DOMAIN s)
  PROVE  /\ Selected(s, K) \in Seq(S)
         /\ \A k \in DOMAIN Selected(s, K) : \E i \in K : Selected(s, K)[k] = s[i]
         /\ \A i \in K : \E k \in DOMAIN Selected(s, K) : Selected(s, K)[k] = s[i]
<1> DEFINE c == Cardinality(K)
           pick(k) == CHOOSE i \in K : RankIn(K, i) = k
           w == Selected(s, K)
<1>1. Len(s) \in Nat /\ DOMAIN s = 1..Len(s) /\ K \in SUBSET (1..Len(s))
  BY LenProperties
<1>2. /\ c \in Nat
      /\ \A i \in K : RankIn(K, i) \in 1..c
      /\ \A i, j \in K : RankIn(K, i) = RankIn(K, j) => i = j
      /\ \A k \in 1..c : \E i \in K : RankIn(K, i) = k
  BY <1>1, RanksOfSubset
<1>3. \A k \in 1..c : pick(k) \in K /\ RankIn(K, pick(k)) = k
  BY <1>2
<1>4. w = [k \in 1..c |-> s[pick(k)]]
  BY DEF Selected
<1>5. \A i \in K : s[i] \in S
  BY <1>1, ElementOfSeq
<1>6. w \in Seq(S)
  <2>1. w \in [1..c -> S]
    BY <1>3, <1>4, <1>5
  <2> QED BY <2>1, <1>2, SeqDef
<1>7. \A k \in DOMAIN w : \E i \in K : w[k] = s[i]
  BY <1>3, <1>4
<1>8. ASSUME NEW i \in K
      PROVE  \E k \in DOMAIN w : w[k] = s[i]
  <2>1. RankIn(K, i) \in 1..c /\ pick(RankIn(K, i)) = i
    BY <1>2, <1>3
  <2>2. RankIn(K, i) \in DOMAIN w /\ w[RankIn(K, i)] = s[i]
    BY <2>1, <1>4
  <2> QED BY <2>2
<1> QED BY <1>6, <1>7, <1>8

\* A selection keeps the order of the list; in particular it takes no position
\* twice.
LEMMA SelectedInOrder ==
  ASSUME NEW S, NEW s \in Seq(S), NEW K \in SUBSET (DOMAIN s),
         NEW k \in DOMAIN Selected(s, K), NEW l \in DOMAIN Selected(s, K), k < l
  PROVE  \E i, j \in K : i < j /\ Selected(s, K)[k] = s[i] /\ Selected(s, K)[l] = s[j]
<1> DEFINE c == Cardinality(K)
           pick(n) == CHOOSE i \in K : RankIn(K, i) = n
           upTo(i) == {j \in K : j <= i}
<1>1. Len(s) \in Nat /\ K \in SUBSET (1..Len(s))
  BY LenProperties
<1>2. c \in Nat /\ \A n \in 1..c : \E i \in K : RankIn(K, i) = n
  BY <1>1, RanksOfSubset
<1>3. \A n \in 1..c : pick(n) \in K /\ RankIn(K, pick(n)) = n
  BY <1>2
<1>4. /\ Selected(s, K) = [n \in 1..c |-> s[pick(n)]]
      /\ k \in 1..c /\ l \in 1..c
  BY DEF Selected
<1>5. pick(k) < pick(l)
  <2>1. SUFFICES ASSUME pick(l) <= pick(k)
                 PROVE  FALSE
    BY <1>1, <1>3, <1>4
  <2>2. upTo(pick(l)) \subseteq upTo(pick(k)) /\ IsFiniteSet(upTo(pick(k)))
    <3>1. \A j \in K : j <= pick(l) => j <= pick(k)
      BY <1>1, <1>3, <1>4, <2>1
    <3>2. IsFiniteSet(1..Len(s))
      BY <1>1, FS_Interval
    <3>3. IsFiniteSet(upTo(pick(k)))
      BY <1>1, <3>2, FS_Subset
    <3> QED BY <3>1, <3>3
  <2>3. Cardinality(upTo(pick(l))) <= Cardinality(upTo(pick(k)))
    BY <2>2, FS_Subset
  <2>4. l <= k
    BY <1>3, <1>4, <2>3 DEF RankIn
  <2> QED BY <1>2, <1>4, <2>4
<1> QED BY <1>3, <1>4, <1>5
=============================================================================
