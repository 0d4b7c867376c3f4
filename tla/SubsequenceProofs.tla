-------------------------- MODULE SubsequenceProofs --------------------------
(***************************************************************************)
(* What taking elements out of a sequence leaves: the others, in their     *)
(* order.  And facts about least and greatest members and intervals that   *)
(* the proofs about queues need.                                           *)
(***************************************************************************)
EXTENDS Subsequence, NaturalsInduction, WellFoundedInduction, FiniteSetTheorems, FunctionTheorems,
        SequenceTheorems, SequencesExt, TLAPS

\* Every set of naturals that has members has a least one.
LEMMA LeastNatural ==
    ASSUME NEW S \in SUBSET Nat, S # {}
    PROVE  \E x \in S : \A y \in S : x <= y
<1>1. PICK x \in S : \A y \in S : ~(<<y, x>> \in OpToRel(<, Nat))
  BY NatLessThanWellFounded, WFMin
<1>2. \A y \in S : ~(y < x)
  BY <1>1 DEF OpToRel
<1>3. QED
  BY <1>2

\* One that is bounded has a greatest one.
LEMMA GreatestNatural ==
    ASSUME NEW n \in Nat, NEW S \in SUBSET (0 .. n), S # {}
    PROVE  \E x \in S : \A y \in S : y <= x
<1> DEFINE T == {n - y : y \in S}
<1>1. T \in SUBSET Nat /\ T # {}
  <2>1. \A y \in S : n - y \in Nat
    OBVIOUS
  <2>2. QED
    BY <2>1
<1>2. PICK t \in T : \A u \in T : t <= u
  BY <1>1, LeastNatural
<1>3. PICK x \in S : t = n - x
  OBVIOUS
<1>4. \A y \in S : y <= x
  BY <1>2, <1>3
<1>5. QED
  BY <1>4

\* There are n positions up to n.
LEMMA CountUpTo ==
    ASSUME NEW n \in Nat
    PROVE  IsFiniteSet(1 .. n) /\ Cardinality(1 .. n) = n
<1>1. IsFiniteSet(1 .. n) /\ Cardinality(1 .. n) = IF 1 > n THEN 0 ELSE n - 1 + 1
  BY FS_Interval
<1>2. n = IF 1 > n THEN 0 ELSE n - 1 + 1
  OBVIOUS
<1>3. QED
  BY <1>1, <1>2

\* Ranks are naturals, and never more than there are positions.
LEMMA RankType ==
    ASSUME NEW n \in Nat, NEW P \in SUBSET (1 .. n), NEW i
    PROVE  /\ IsFiniteSet(P) /\ Cardinality(P) \in Nat
           /\ IsFiniteSet(P \cap 1 .. i) /\ Rank(P, i) \in Nat /\ Rank(P, i) <= Cardinality(P)
<1>1. IsFiniteSet(P)
  <2>1. IsFiniteSet(1 .. n)
    BY FS_Interval
  <2>2. QED
    BY <2>1, FS_Subset
<1>2. QED
  BY <1>1, FS_Subset, FS_CardinalityType DEF Rank

\* A position ranks above those before it.
LEMMA RankGrows ==
    ASSUME NEW n \in Nat, NEW P \in SUBSET (1 .. n), NEW i \in Int, NEW j \in P, i < j
    PROVE  Rank(P, i) < Rank(P, j)
<1>1. (P \cap 1 .. i) \cup {j} \subseteq P \cap 1 .. j /\ j \notin P \cap 1 .. i
  OBVIOUS
<1>2. Cardinality((P \cap 1 .. i) \cup {j}) = Rank(P, i) + 1
  BY <1>1, RankType, FS_AddElement DEF Rank
<1>3. Cardinality((P \cap 1 .. i) \cup {j}) <= Rank(P, j)
  BY <1>1, RankType, FS_Subset DEF Rank
<1>4. Rank(P, i) \in Nat /\ Rank(P, j) \in Nat
  BY RankType
<1>5. QED
  BY <1>2, <1>3, <1>4

\* Every rank is some position's.
LEMMA RankTaken ==
    ASSUME NEW n \in Nat, NEW P \in SUBSET (1 .. n), NEW k \in 1 .. Cardinality(P)
    PROVE  \E i \in P : Rank(P, i) = k
<1> DEFINE S == {i \in Nat : Rank(P, i) >= k}
<1>1. n \in S
  <2>1. P \cap 1 .. n = P
    OBVIOUS
  <2>2. QED
    BY <2>1 DEF Rank
<1>2. PICK i \in S : \A j \in S : i <= j
  BY <1>1, LeastNatural
<1>3. i # 0
  <2>1. P \cap 1 .. 0 = {}
    OBVIOUS
  <2>2. Rank(P, 0) = 0
    BY <2>1, FS_EmptySet DEF Rank
  <2>3. QED
    BY <2>2
<1>4. i - 1 \in Nat /\ Rank(P, i - 1) \in Nat /\ Rank(P, i) \in Nat /\ k \in Nat
  <2>0. Cardinality(P) \in Nat
    BY RankType
  <2>1. i - 1 \in Nat /\ k \in Nat
    BY <1>3, <2>0
  <2>2. Rank(P, i - 1) \in Nat /\ Rank(P, i) \in Nat
    BY RankType
  <2>3. QED
    BY <2>1, <2>2
<1>5. Rank(P, i - 1) < k /\ Rank(P, i) >= k
  BY <1>2, <1>4
<1>6. i \in P /\ Rank(P, i) <= Rank(P, i - 1) + 1
  <2>1. CASE i \in P
    <3>1. P \cap 1 .. i = (P \cap 1 .. (i - 1)) \cup {i} /\ i \notin P \cap 1 .. (i - 1)
      BY <1>3, <2>1
    <3>2. Rank(P, i) = Rank(P, i - 1) + 1
      BY <3>1, RankType, FS_AddElement DEF Rank
    <3>3. QED
      BY <1>4, <2>1, <3>2
  <2>2. CASE i \notin P
    <3>1. P \cap 1 .. i = P \cap 1 .. (i - 1)
      BY <1>3, <2>2
    <3>2. Rank(P, i) = Rank(P, i - 1)
      BY <3>1 DEF Rank
    <3>3. QED
      BY <1>4, <1>5, <3>2
  <2>3. QED
    BY <2>1, <2>2
<1>7. Rank(P, i) = k
  BY <1>4, <1>5, <1>6
<1>8. QED
  BY <1>6, <1>7

\* The subsequence runs through the kept positions in their order and misses none.
LEMMA OnlyEnumerates ==
    ASSUME NEW T, NEW s \in Seq(T), NEW S
    PROVE  LET P == Positions(s, S)
               r == Only(s, S)
           IN  /\ r \in Seq(T) /\ Len(r) = Cardinality(P)
               /\ \E e \in [1 .. Len(r) -> P] :
                    /\ \A k \in 1 .. Len(r) : r[k] = s[e[k]] /\ Rank(P, e[k]) = k
                    /\ \A k, l \in 1 .. Len(r) : k < l => e[k] < e[l]
                    /\ \A i \in P : \E k \in 1 .. Len(r) : e[k] = i
<1> DEFINE P == Positions(s, S)
           r == Only(s, S)
           m == Cardinality(P)
           e == [k \in 1 .. m |-> CHOOSE i \in P : Rank(P, i) = k]
<1>1. Len(s) \in Nat /\ P \in SUBSET (1 .. Len(s)) /\ m \in Nat
  <2>1. Len(s) \in Nat /\ P \in SUBSET (1 .. Len(s))
    BY DEF Positions
  <2>2. QED
    BY <2>1, RankType
<1>2. \A k \in 1 .. m : e[k] \in P /\ Rank(P, e[k]) = k
  BY <1>1, RankTaken
<1>3. r = [k \in 1 .. m |-> s[e[k]]]
  BY DEF Only
<1>4. \A k \in 1 .. m : s[e[k]] \in T
  BY <1>1, <1>2
<1>5. r \in Seq(T) /\ Len(r) = m
  <2> HIDE DEF r, e, m
  <2>1. r \in [1 .. m -> T]
    BY <1>3, <1>4
  <2>2. QED
    BY <1>1, <2>1
<1>6. \A k, l \in 1 .. m : k < l => e[k] < e[l]
  <2> SUFFICES ASSUME NEW k \in 1 .. m, NEW l \in 1 .. m, k < l, ~(e[k] < e[l]) PROVE FALSE
    OBVIOUS
  <2>1. /\ e[k] \in P /\ e[l] \in P /\ e[k] \in Int /\ e[l] \in Int
        /\ Rank(P, e[k]) = k /\ Rank(P, e[l]) = l
    BY <1>1, <1>2
  <2>2. CASE e[l] < e[k]
    <3>1. Rank(P, e[l]) < Rank(P, e[k])
      <4> HIDE DEF e, P
      <4>1. QED
        BY <1>1, <2>1, <2>2, RankGrows
    <3>2. QED
      BY <2>1, <3>1
  <2>3. CASE e[l] = e[k]
    BY <2>1, <2>3
  <2>4. QED
    BY <2>1, <2>2, <2>3
<1>7. \A i \in P : \E k \in 1 .. m : e[k] = i
  <2> SUFFICES ASSUME NEW i \in P PROVE \E k \in 1 .. m : e[k] = i
    OBVIOUS
  <2> DEFINE k == Rank(P, i)
  <2>1. i \in 1 .. Len(s)
    BY <1>1
  <2>2. k \in 1 .. m
    <3> HIDE DEF P
    <3>1. Rank(P, 0) < Rank(P, i)
      <4>1. 0 \in Int /\ 0 < i
        BY <1>1, <2>1
      <4>2. QED
        BY <1>1, <4>1, RankGrows
    <3>2. Rank(P, 0) \in Nat /\ Rank(P, i) \in Nat /\ Rank(P, i) <= m
      BY <1>1, RankType
    <3>3. QED
      BY <1>1, <3>1, <3>2
  <2>3. e[k] \in P /\ Rank(P, e[k]) = Rank(P, i)
    BY <1>2, <2>2
  <2>4. e[k] = i
    <3>1. e[k] \in Int /\ i \in Int
      BY <1>1, <2>3
    <3>2. ~(e[k] < i) /\ ~(i < e[k])
      <4> HIDE DEF e, k, P
      <4>1. Rank(P, e[k]) \in Nat /\ Rank(P, i) \in Nat
        BY <1>1, RankType
      <4>2. e[k] < i => Rank(P, e[k]) < Rank(P, i)
        BY <1>1, <2>3, <3>1, RankGrows
      <4>3. i < e[k] => Rank(P, i) < Rank(P, e[k])
        BY <1>1, <2>3, <3>1, RankGrows
      <4>4. QED
        BY <2>3, <4>1, <4>2, <4>3
    <3>3. QED
      BY <3>1, <3>2
  <2>5. QED
    BY <2>2, <2>4
<1>8. e \in [1 .. m -> P]
  BY <1>2
<1> HIDE DEF e, m, r
<1>9. QED
  BY <1>2, <1>3, <1>5, <1>6, <1>7, <1>8 DEF m, r

\* e lists the m positions of the elements of s that are in S, in increasing order.
Lists(e, m, s, S) ==
    /\ \A k \in 1 .. m : e[k] \in 1 .. Len(s)
    /\ \A k, l \in 1 .. m : k < l => e[k] < e[l]
    /\ \A i \in 1 .. Len(s) : s[i] \in S <=> \E k \in 1 .. m : e[k] = i

\* Such a list gives the subsequence.
LEMMA OnlyListed ==
    ASSUME NEW T, NEW s \in Seq(T), NEW S, NEW m \in Nat, NEW e, Lists(e, m, s, S)
    PROVE  /\ Only(s, S) \in Seq(T) /\ Len(Only(s, S)) = m
           /\ \A k \in 1 .. m : Only(s, S)[k] = s[e[k]]
<1> DEFINE P == Positions(s, S)
<1>0. /\ \A k \in 1 .. m : e[k] \in 1 .. Len(s)
      /\ \A k, l \in 1 .. m : k < l => e[k] < e[l]
      /\ \A i \in 1 .. Len(s) : s[i] \in S <=> \E k \in 1 .. m : e[k] = i
  BY DEF Lists
<1>1. Len(s) \in Nat /\ P \in SUBSET (1 .. Len(s)) /\ P = {e[k] : k \in 1 .. m}
  BY <1>0 DEF Positions
<1>2. \A k, l \in 1 .. m : e[k] = e[l] => k = l
  <2>1. \A k \in 1 .. m : e[k] \in Int /\ k \in Int
    BY <1>0
  <2>2. QED
    BY <1>0, <2>1
<1>3. ASSUME NEW k \in 0 .. m, NEW Q, Q = {e[l] : l \in 1 .. k}
      PROVE  Cardinality(Q) = k
  <2> DEFINE f == [l \in 1 .. k |-> e[l]]
  <2>1. f \in Bijection(1 .. k, Q)
    <3>1. f \in [1 .. k -> Q] /\ \A t \in Q : \E l \in 1 .. k : f[l] = t
      BY <1>3
    <3>2. \A a, b \in 1 .. k : f[a] = f[b] => a = b
      BY <1>2, <1>3
    <3> HIDE DEF f
    <3>3. QED
      BY <3>1, <3>2, Fun_IsBij
  <2>2. IsFiniteSet(1 .. k) /\ Cardinality(1 .. k) = k
    BY FS_Interval
  <2>3. Cardinality(Q) = Cardinality(1 .. k)
    BY <2>1, <2>2, FS_Bijection DEF ExistsBijection
  <2>4. QED
    BY <2>2, <2>3
<1>4. Cardinality(P) = m
  BY <1>1, <1>3
<1>5. \A k \in 1 .. m : e[k] \in P /\ Rank(P, e[k]) = k
  <2> SUFFICES ASSUME NEW k \in 1 .. m PROVE Rank(P, e[k]) = k
    BY <1>1
  <2>1. P \cap 1 .. e[k] = {e[l] : l \in 1 .. k}
    <3>1. \A l \in 1 .. m : e[l] \in 1 .. Len(s) /\ (e[l] <= e[k] <=> l <= k)
      <4>1. \A l \in 1 .. m : l \in Int /\ e[l] \in Int /\ e[l] >= 1
        BY <1>0
      <4>2. QED
        BY <1>0, <4>1
    <3>2. \A x \in P \cap 1 .. e[k] : x \in {e[l] : l \in 1 .. k}
      BY <1>1, <3>1
    <3>3. \A l \in 1 .. k : e[l] \in P \cap 1 .. e[k]
      BY <1>1, <3>1
    <3>4. QED
      BY <3>2, <3>3
  <2>2. k \in 0 .. m
    OBVIOUS
  <2>3. QED
    BY <1>1, <1>3, <2>1, <2>2 DEF Rank
<1>6. \A k \in 1 .. m : (CHOOSE i \in P : Rank(P, i) = k) = e[k]
  <2> SUFFICES ASSUME NEW k \in 1 .. m, NEW i \in P, Rank(P, i) = k PROVE i = e[k]
    BY <1>5
  <2>1. PICK l \in 1 .. m : i = e[l]
    BY <1>1
  <2>2. QED
    BY <1>5, <2>1
<1> DEFINE first(k) == CHOOSE i \in P : Rank(P, i) = k
<1>7. Only(s, S) = [k \in 1 .. Cardinality(P) |-> s[first(k)]]
  BY DEF Only
<1>8. \A k \in 1 .. m : first(k) = e[k]
  BY <1>6
<1> HIDE DEF first, P
<1>9. \A k \in 1 .. m : s[first(k)] = s[e[k]] /\ s[e[k]] \in T
  BY <1>0, <1>8
<1>10. Only(s, S) \in [1 .. m -> T] /\ \A k \in 1 .. m : Only(s, S)[k] = s[e[k]]
  BY <1>4, <1>7, <1>9
<1>11. QED
  BY <1>10

\* The elements of s that are in S are the n that follow the k-th.
Block(s, S, k, n) == \A i \in 1 .. Len(s) : s[i] \in S <=> (k < i /\ i <= k + n)

\* Taking out a block that lies together closes the gap it leaves.
LEMMA CutOut ==
    ASSUME NEW T, NEW s \in Seq(T), NEW S, NEW k \in Nat, NEW n \in Nat, k + n <= Len(s),
           Block(s, S, k, n)
    PROVE  LET r == Without(s, S) IN
           /\ r \in Seq(T) /\ Len(r) = Len(s) - n
           /\ \A i \in 1 .. (Len(s) - n) : r[i] = IF i <= k THEN s[i] ELSE s[i + n]
<1> DEFINE m == Len(s) - n
           e == [i \in 1 .. m |-> IF i <= k THEN i ELSE i + n]
           A == {s[i] : i \in DOMAIN s} \ S
<1>1. m \in Nat /\ Len(s) \in Nat
  OBVIOUS
<1>2. \A i \in 1 .. m : e[i] \in 1 .. Len(s) /\ e[i] = IF i <= k THEN i ELSE i + n
  OBVIOUS
<1>3. \A i, j \in 1 .. m : i < j => e[i] < e[j]
  OBVIOUS
<1>4. ASSUME NEW i \in 1 .. Len(s) PROVE s[i] \in A <=> \E j \in 1 .. m : e[j] = i
  <2>1. s[i] \in A <=> ~(k < i /\ i <= k + n)
    BY DEF Block
  <2>2. ASSUME i <= k PROVE i \in 1 .. m /\ e[i] = i
    BY <2>2
  <2>3. ASSUME i > k + n PROVE i - n \in 1 .. m /\ e[i - n] = i
    BY <2>3
  <2>4. ASSUME k < i, i <= k + n, NEW j \in 1 .. m PROVE e[j] # i
    BY <2>4
  <2> HIDE DEF e, m, A
  <2>5. CASE i <= k
    BY <2>1, <2>2, <2>5
  <2>6. CASE i > k + n
    BY <2>1, <2>3, <2>6
  <2>7. CASE k < i /\ i <= k + n
    BY <2>1, <2>4, <2>7
  <2>8. QED
    BY <2>5, <2>6, <2>7
<1> HIDE DEF e, m, A
<1>6. /\ Only(s, A) \in Seq(T) /\ Len(Only(s, A)) = m
      /\ \A i \in 1 .. m : Only(s, A)[i] = s[e[i]]
  <2>1. \A i \in 1 .. Len(s) : s[i] \in A <=> \E j \in 1 .. m : e[j] = i
    BY <1>4
  <2>2. Lists(e, m, s, A)
    BY <1>2, <1>3, <2>1 DEF Lists
  <2>3. QED
    BY <1>1, <2>2, OnlyListed
<1>7. Without(s, S) = Only(s, A)
  BY DEF Without, A
<1>8. QED
  BY <1>2, <1>6, <1>7 DEF m

Distinct(s) == \A i, j \in 1 .. Len(s) : s[i] = s[j] => i = j

\* r is made of elements of s, in the order they have there.
Within(r, s) ==
    \E e \in [1 .. Len(r) -> 1 .. Len(s)] :
        /\ \A k \in 1 .. Len(r) : r[k] = s[e[k]]
        /\ \A k, l \in 1 .. Len(r) : k < l => e[k] < e[l]

\* The empty sequence is within every one.
LEMMA EmptyWithin ==
    ASSUME NEW s
    PROVE  Within(<< >>, s)
<1> DEFINE e == [k \in {} |-> k]
<1>1. 1 .. Len(<< >>) = {}
  OBVIOUS
<1>2. e \in [{} -> 1 .. Len(s)]
  OBVIOUS
<1>3. QED
  BY <1>1, <1>2 DEF Within

\* The members of a sequence are its elements.
LEMMA ToSetMembers ==
    ASSUME NEW T, NEW s \in Seq(T)
    PROVE  /\ ToSet(s) \subseteq T
           /\ \A x : x \in ToSet(s) <=> \E i \in 1 .. Len(s) : s[i] = x
  BY DEF ToSet

\* What stays is what is wanted, in the order it had.
LEMMA OnlyIsWithin ==
    ASSUME NEW T, NEW s \in Seq(T), NEW S
    PROVE  /\ Only(s, S) \in Seq(T) /\ Within(Only(s, S), s)
           /\ ToSet(Only(s, S)) = ToSet(s) \cap S
<1> DEFINE r == Only(s, S)
           P == Positions(s, S)
<1>1. /\ r \in Seq(T)
      /\ \E e \in [1 .. Len(r) -> P] :
           /\ \A k \in 1 .. Len(r) : r[k] = s[e[k]] /\ Rank(P, e[k]) = k
           /\ \A k, l \in 1 .. Len(r) : k < l => e[k] < e[l]
           /\ \A i \in P : \E k \in 1 .. Len(r) : e[k] = i
  BY OnlyEnumerates
<1>2. PICK e \in [1 .. Len(r) -> P] :
        /\ \A k \in 1 .. Len(r) : r[k] = s[e[k]]
        /\ \A k, l \in 1 .. Len(r) : k < l => e[k] < e[l]
        /\ \A i \in P : \E k \in 1 .. Len(r) : e[k] = i
  BY <1>1
<1>3. P = {i \in 1 .. Len(s) : s[i] \in S}
  BY DEF Positions
<1> HIDE DEF P, r
<1>4. e \in [1 .. Len(r) -> 1 .. Len(s)]
  BY <1>2, <1>3
<1>5. ASSUME NEW x
      PROVE  (\E k \in 1 .. Len(r) : r[k] = x) <=> (x \in S /\ \E i \in 1 .. Len(s) : s[i] = x)
  <2>1. ASSUME NEW k \in 1 .. Len(r), r[k] = x
        PROVE  x \in S /\ \E i \in 1 .. Len(s) : s[i] = x
    <3>1. e[k] \in 1 .. Len(s) /\ s[e[k]] \in S /\ s[e[k]] = x
      BY <1>2, <1>3, <2>1
    <3>2. QED
      BY <3>1
  <2>2. ASSUME NEW i \in 1 .. Len(s), s[i] = x, x \in S
        PROVE  \E k \in 1 .. Len(r) : r[k] = x
    <3>1. i \in P
      BY <1>3, <2>2
    <3>2. PICK k \in 1 .. Len(r) : e[k] = i
      BY <1>2, <3>1
    <3>3. QED
      BY <1>2, <2>2, <3>2
  <2>3. QED
    BY <2>1, <2>2
<1>6. Within(r, s)
  BY <1>2, <1>4 DEF Within
<1>7. ToSet(r) = ToSet(s) \cap S
  <2>1. \A x : x \in ToSet(r) <=> \E k \in 1 .. Len(r) : r[k] = x
    BY <1>1, ToSetMembers
  <2>2. \A x : x \in ToSet(s) <=> \E i \in 1 .. Len(s) : s[i] = x
    BY ToSetMembers
  <2>3. QED
    BY <1>5, <2>1, <2>2
<1>8. QED
  BY <1>1, <1>6, <1>7 DEF r

\* What is taken out is gone, everything else stays.
LEMMA WithoutIsWithin ==
    ASSUME NEW T, NEW s \in Seq(T), NEW S
    PROVE  /\ Without(s, S) \in Seq(T) /\ Within(Without(s, S), s)
           /\ ToSet(Without(s, S)) = ToSet(s) \ S
<1>1. Without(s, S) = Only(s, ToSet(s) \ S)
  BY DEF Without, ToSet
<1>2. QED
  BY <1>1, OnlyIsWithin

\* All but the first n elements.
LEMMA TailIsWithin ==
    ASSUME NEW T, NEW s \in Seq(T), NEW n \in 0 .. Len(s)
    PROVE  LET r == SubSeq(s, n + 1, Len(s)) IN
           /\ r \in Seq(T) /\ Len(r) = Len(s) - n
           /\ \A i \in 1 .. Len(r) : r[i] = s[i + n]
           /\ Within(r, s)
<1> DEFINE r == SubSeq(s, n + 1, Len(s))
           e == [k \in 1 .. Len(r) |-> k + n]
<1>1. r \in Seq(T) /\ Len(r) = Len(s) - n /\ \A i \in 1 .. Len(r) : r[i] = s[i + n]
  <2>1. n \in Nat /\ Len(s) \in Nat /\ n <= Len(s)
    OBVIOUS
  <2>2. r \in Seq(T) /\ Len(r) = Len(s) - n
    BY <2>1
  <2>3. ASSUME NEW i \in 1 .. Len(r) PROVE r[i] = s[i + n]
    BY <2>1, <2>2
  <2>4. QED
    BY <2>2, <2>3
<1> HIDE DEF r
<1>2. e \in [1 .. Len(r) -> 1 .. Len(s)]
  BY <1>1
<1>3. /\ \A k \in 1 .. Len(r) : r[k] = s[e[k]]
      /\ \A k, l \in 1 .. Len(r) : k < l => e[k] < e[l]
  BY <1>1
<1> HIDE DEF e
<1>4. Within(r, s)
  BY <1>2, <1>3 DEF Within
<1>5. QED
  BY <1>1, <1>4 DEF r

\* The first n elements.
LEMMA FrontIsWithin ==
    ASSUME NEW T, NEW s \in Seq(T), NEW n \in 0 .. Len(s)
    PROVE  LET r == SubSeq(s, 1, n) IN
           /\ r \in Seq(T) /\ Len(r) = n
           /\ \A i \in 1 .. n : r[i] = s[i]
           /\ Distinct(s) => Distinct(r)
<1> DEFINE r == SubSeq(s, 1, n)
<1>1. r \in Seq(T) /\ Len(r) = n /\ \A i \in 1 .. n : r[i] = s[i]
  OBVIOUS
<1> HIDE DEF r
<1>2. Distinct(s) => Distinct(r)
  BY <1>1 DEF Distinct
<1>3. QED
  BY <1>1, <1>2 DEF r

\* Leaving elements out makes no two alike.
LEMMA DistinctWithin ==
    ASSUME NEW T, NEW s \in Seq(T), NEW r \in Seq(T), Within(r, s), Distinct(s)
    PROVE  Distinct(r)
<1>1. PICK e \in [1 .. Len(r) -> 1 .. Len(s)] :
        /\ \A k \in 1 .. Len(r) : r[k] = s[e[k]]
        /\ \A k, l \in 1 .. Len(r) : k < l => e[k] < e[l]
  BY DEF Within
<1>2. SUFFICES ASSUME NEW i \in 1 .. Len(r), NEW j \in 1 .. Len(r), r[i] = r[j], i # j
               PROVE  FALSE
  BY DEF Distinct
<1>3. e[i] = e[j] /\ e[i] \in Int
  <2>1. e[i] \in 1 .. Len(s) /\ e[j] \in 1 .. Len(s)
    BY <1>1
  <2>2. s[e[i]] = s[e[j]]
    BY <1>1, <1>2
  <2>3. e[i] = e[j]
    BY <2>1, <2>2 DEF Distinct
  <2>4. QED
    BY <2>1, <2>3
<1>4. i < j \/ j < i
  BY <1>2
<1>5. QED
  BY <1>1, <1>3, <1>4

\* A sequence without repetitions has as many members as elements.
LEMMA DistinctCardinality ==
    ASSUME NEW T, NEW s \in Seq(T)
    PROVE  /\ IsFiniteSet(ToSet(s)) /\ Cardinality(ToSet(s)) <= Len(s)
           /\ Distinct(s) => Cardinality(ToSet(s)) = Len(s)
<1> DEFINE D == 1 .. Len(s)
           S == ToSet(s)
<1>1. Len(s) \in Nat /\ IsFiniteSet(D) /\ Cardinality(D) = Len(s)
  <2>1. Len(s) \in Nat
    OBVIOUS
  <2>2. QED
    BY <2>1, CountUpTo
<1>2. s \in [D -> S] /\ (\A x \in S : \E i \in D : s[i] = x)
  <2>1. DOMAIN s = D /\ s = [i \in D |-> s[i]]
    OBVIOUS
  <2>2. \A i \in D : s[i] \in S
    BY DEF ToSet
  <2>3. \A x \in S : \E i \in D : s[i] = x
    BY DEF ToSet
  <2>4. QED
    BY <2>1, <2>2, <2>3
<1> HIDE DEF S, D
<1>3. s \in Surjection(D, S)
  BY <1>2 DEF Surjection
<1>4. /\ IsFiniteSet(S) /\ Cardinality(S) <= Cardinality(D)
      /\ Cardinality(S) = Cardinality(D) <=> s \in Injection(D, S)
  BY <1>1, <1>3, FS_Surjection
<1>5. ASSUME Distinct(s) PROVE s \in Injection(D, S)
  <2>1. \A i, j \in D : s[i] = s[j] => i = j
    BY <1>5 DEF Distinct, D
  <2>2. QED
    BY <1>2, <2>1 DEF Injection, IsInjective
<1>6. QED
  BY <1>1, <1>4, <1>5 DEF S

\* Without repetitions, what the front has the rest has not.
LEMMA FrontAndTail ==
    ASSUME NEW T, NEW s \in Seq(T), Distinct(s), NEW n \in 0 .. Len(s)
    PROVE  ToSet(SubSeq(s, n + 1, Len(s))) = ToSet(s) \ ToSet(SubSeq(s, 1, n))
<1> DEFINE f == SubSeq(s, 1, n)
           r == SubSeq(s, n + 1, Len(s))
<1>1. f \in Seq(T) /\ Len(f) = n /\ \A i \in 1 .. n : f[i] = s[i]
  BY FrontIsWithin
<1>2. r \in Seq(T) /\ Len(r) = Len(s) - n /\ \A i \in 1 .. Len(r) : r[i] = s[i + n]
  BY TailIsWithin
<1> HIDE DEF f, r
<1>3. /\ \A x : x \in ToSet(f) <=> \E i \in 1 .. Len(f) : f[i] = x
      /\ \A x : x \in ToSet(r) <=> \E i \in 1 .. Len(r) : r[i] = x
      /\ \A x : x \in ToSet(s) <=> \E i \in 1 .. Len(s) : s[i] = x
  BY <1>1, <1>2, ToSetMembers
<1>4. Len(s) \in Nat /\ n \in Nat /\ n <= Len(s)
  OBVIOUS
<1>5. ASSUME NEW x \in ToSet(r) PROVE x \in ToSet(s) /\ x \notin ToSet(f)
  <2>1. PICK i \in 1 .. Len(r) : r[i] = x
    BY <1>3
  <2>2. i + n \in 1 .. Len(s) /\ s[i + n] = x /\ i + n > n
    BY <1>2, <1>4, <2>1
  <2>3. ASSUME NEW j \in 1 .. Len(f) PROVE f[j] # x
    <3>1. j \in 1 .. Len(s) /\ j <= n /\ f[j] = s[j]
      BY <1>1, <1>4
    <3>2. QED
      BY <2>2, <3>1 DEF Distinct
  <2>4. QED
    BY <1>3, <2>2, <2>3
<1>6. ASSUME NEW x \in ToSet(s), x \notin ToSet(f) PROVE x \in ToSet(r)
  <2>1. PICK i \in 1 .. Len(s) : s[i] = x
    BY <1>3
  <2>2. i > n
    <3>1. i \in 1 .. n => f[i] = x /\ i \in 1 .. Len(f)
      BY <1>1, <2>1
    <3>2. QED
      BY <1>3, <1>4, <1>6, <3>1
  <2>3. i - n \in 1 .. Len(r) /\ (i - n) + n = i
    BY <1>2, <1>4, <2>2
  <2>4. r[i - n] = x
    BY <1>2, <2>1, <2>3
  <2>5. QED
    BY <1>3, <2>3, <2>4
<1>7. ToSet(r) = ToSet(s) \ ToSet(f)
  BY <1>5, <1>6
<1>8. QED
  BY <1>7 DEF f, r

\* What is within a sequence without repetitions is no longer than it.
LEMMA WithinLength ==
    ASSUME NEW T, NEW s \in Seq(T), NEW r \in Seq(T), Within(r, s), Distinct(s)
    PROVE  Distinct(r) /\ Len(r) <= Len(s)
<1>1. Distinct(r)
  BY DistinctWithin
<1>2. ToSet(r) \subseteq ToSet(s)
  <2>1. \A k \in 1 .. Len(r) : \E i \in 1 .. Len(s) : r[k] = s[i]
    BY DEF Within
  <2>2. /\ \A x : x \in ToSet(r) <=> \E i \in 1 .. Len(r) : r[i] = x
        /\ \A x : x \in ToSet(s) <=> \E i \in 1 .. Len(s) : s[i] = x
    BY ToSetMembers
  <2>3. QED
    BY <2>1, <2>2
<1>3. /\ IsFiniteSet(ToSet(s)) /\ Cardinality(ToSet(s)) = Len(s) /\ Cardinality(ToSet(r)) = Len(r)
  BY <1>1, DistinctCardinality
<1>4. Cardinality(ToSet(r)) <= Cardinality(ToSet(s))
  BY <1>2, <1>3, FS_Subset
<1>5. QED
  BY <1>1, <1>3, <1>4
=============================================================================
