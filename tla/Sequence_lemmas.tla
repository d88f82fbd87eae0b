-------------------------- MODULE Sequence_lemmas --------------------------
(***************************************************************************)
(* Lemmas that the proofs of several components need: the least element of *)
(* a set of numbers, what is computed step by step, and what is left of a  *)
(* sequence when some of its elements are erased.                          *)
(***************************************************************************)
EXTENDS Places, FiniteSetTheorems, SequenceTheorems, WellFoundedInduction, TLAPS

LEMMA LeastExists ==
    ASSUME NEW S \in SUBSET Nat, S # {}
    PROVE  \E i \in S : \A j \in S : i <= j
<1>1. PICK i \in S : \A j \in S : <<j, i>> \notin OpToRel(<, Nat)
  BY WFMin, NatLessThanWellFounded, Zenon
<1>2. \A j \in S : ~(j < i)
  BY <1>1, Zenon DEF OpToRel
<1> QED
  BY <1>2

LEMMA ConcatIs ==
    ASSUME NEW S, NEW s \in Seq(S), NEW t \in Seq(S)
    PROVE  /\ s \o t \in Seq(S) /\ Len(s \o t) = Len(s) + Len(t)
           /\ \A k \in 1 .. Len(s) : (s \o t)[k] = s[k]
           /\ \A k \in 1 .. Len(t) : (s \o t)[Len(s) + k] = t[k]
OBVIOUS

-----------------------------------------------------------------------------
(* What is done step by step: it exists, and every step of it is in V.     *)
Stepwise(f, n, a, g) == f[0] = a /\ \A i \in 1 .. n : f[i] = g[<<i, f[i - 1]>>]

LEMMA StepsExist ==
    ASSUME NEW n \in Nat, NEW V, NEW a \in V, NEW g \in [(1 .. n) \X V -> V]
    PROVE  \E f \in [0 .. n -> V] : Stepwise(f, n, a, g)
<1> DEFINE Good(f, m) == f \in [0 .. m -> V] /\ f[0] = a /\ \A i \in 1 .. m : f[i] = g[<<i, f[i - 1]>>]
           bad == {m \in 0 .. n : ~ \E f : Good(f, m)}
<1>1. CASE bad # {}
  <2>1. PICK m \in bad : \A k \in bad : m <= k
    <3>1. bad \in SUBSET Nat
      OBVIOUS
    <3> QED BY <1>1, <3>1, LeastExists
  <2>2. m \in 0 .. n
    BY <2>1
  <2>3. CASE m = 0
    <3> DEFINE f == [i \in 0 .. 0 |-> a]
    <3>1. f \in [0 .. 0 -> V] /\ f[0] = a /\ 1 .. 0 = {}
      OBVIOUS
    <3>2. Good(f, 0)
      <4> HIDE DEF f
      <4> QED BY <3>1
    <3> QED BY <2>1, <2>3, <3>2
  <2>4. CASE m # 0
    <3>1. m - 1 \in 0 .. n /\ m - 1 \notin bad
      <4> HIDE DEF bad
      <4> QED BY <2>1, <2>2, <2>4
    <3>2. PICK f : Good(f, m - 1)
      <4> HIDE DEF Good
      <4> QED BY <3>1
    <3> DEFINE v == g[<<m, f[m - 1]>>]
               h == [i \in 0 .. m |-> IF i = m THEN v ELSE f[i]]
    <3>3. v \in V
      <4>1. f[m - 1] \in V /\ m \in 1 .. n
        BY <2>2, <2>4, <3>2
      <4> QED BY <4>1
    <3> HIDE DEF v
    <3>4. h \in [0 .. m -> V]
      BY <2>2, <2>4, <3>2, <3>3
    <3>5. \A i \in 0 .. m : h[i] = IF i = m THEN v ELSE f[i]
      OBVIOUS
    <3> HIDE DEF h
    <3>6. h[0] = a
      BY <2>2, <2>4, <3>2, <3>5
    <3>7. ASSUME NEW i \in 1 .. m PROVE h[i] = g[<<i, h[i - 1]>>]
      <4>1. h[i - 1] = f[i - 1]
        BY <2>2, <2>4, <3>5
      <4>2. CASE i = m
        BY <3>5, <4>1, <4>2 DEF v
      <4>3. CASE i # m
        BY <2>2, <2>4, <3>2, <3>5, <4>1, <4>3
      <4> QED BY <4>2, <4>3
    <3>8. Good(h, m)
      BY <3>4, <3>6, <3>7
    <3> QED BY <2>1, <3>8
  <2> QED BY <2>3, <2>4
<1>2. CASE bad = {}
  <2>1. n \in 0 .. n
    OBVIOUS
  <2>2. PICK f : Good(f, n)
    BY <1>2, <2>1
  <2> QED BY <2>2 DEF Stepwise
<1> QED BY <1>1, <1>2

LEMMA StepsStay ==
    ASSUME NEW n \in Nat, NEW V, NEW f, f[0] \in V,
           \A i \in 1 .. n : f[i - 1] \in V => f[i] \in V
    PROVE  \A i \in 0 .. n : f[i] \in V
<1> DEFINE bad == {m \in 0 .. n : f[m] \notin V}
<1>1. CASE bad # {}
  <2>1. PICK m \in bad : \A k \in bad : m <= k
    <3>1. bad \in SUBSET Nat
      OBVIOUS
    <3> QED BY <1>1, <3>1, LeastExists
  <2>2. m \in 0 .. n /\ m # 0
    BY <2>1
  <2>3. m - 1 \in 0 .. n /\ m - 1 \notin bad /\ m \in 1 .. n
    <3> HIDE DEF bad
    <3> QED BY <2>1, <2>2
  <2> QED BY <2>1, <2>3
<1>2. CASE bad = {}
  BY <1>2
<1> QED BY <1>1, <1>2

-----------------------------------------------------------------------------
(* The places that are left of a sequence, in their order.                 *)
Upto(K, k) == {j \in K : j <= k}

LEMMA NthExists ==
    ASSUME NEW K \in SUBSET Nat, IsFiniteSet(K), NEW n \in 1 .. Cardinality(K)
    PROVE  \E k \in K : Cardinality(Upto(K, k)) = n
<1> DEFINE size == Cardinality(K)
           bad == {m \in 1 .. size : ~ \E k \in K : Cardinality(Upto(K, k)) = m}
<1>1. size \in Nat /\ (size # 0 => K # {}) /\ \A k \in K : k \in Nat
  BY FS_CardinalityType, FS_EmptySet
<1>2. CASE bad = {}
  BY <1>2
<1>3. CASE bad # {}
  <2> HIDE DEF size
  <2>1. PICK m \in bad : \A l \in bad : m <= l
    <3>1. bad \in SUBSET Nat
      BY <1>1
    <3> QED
      BY <1>3, <3>1, LeastExists, Zenon
  <2>2. m \in 1 .. size /\ m \in Nat
    BY <1>1
  <2>3. CASE m = 1
    <3>1. PICK k \in K : \A j \in K : k <= j
      BY <1>1, <2>2, LeastExists
    <3>2. Upto(K, k) = {k}
      <4>1. \A j : j \in Upto(K, k) <=> j \in K /\ j <= k
        BY DEF Upto
      <4>2. ASSUME NEW j \in Upto(K, k) PROVE j = k
        <5>1. j \in Nat /\ k \in Nat /\ j <= k /\ k <= j
          BY <1>1, <3>1, <4>1
        <5> QED
          BY <5>1
      <4>3. k \in Nat /\ k \in Upto(K, k)
        BY <1>1, <4>1
      <4> QED
        BY <4>2, <4>3
    <3> QED
      BY <2>1, <2>3, <3>2, FS_Singleton
  <2>4. CASE m # 1
    <3>1. m - 1 \in 1 .. size /\ m - 1 \notin bad
      BY <1>1, <2>1, <2>2, <2>4
    <3>2. PICK k \in K : Cardinality(Upto(K, k)) = m - 1
      BY <3>1
    <3>3. IsFiniteSet(Upto(K, k)) /\ Upto(K, k) \subseteq K
      BY FS_Subset DEF Upto
    <3>4. K \ Upto(K, k) # {}
      BY <1>1, <2>2, <3>2, <3>3 DEF size
    <3>5. PICK l \in K \ Upto(K, k) : \A j \in K \ Upto(K, k) : l <= j
      <4>1. K \ Upto(K, k) \in SUBSET Nat
        OBVIOUS
      <4> QED
        BY <3>4, <4>1, LeastExists, Zenon
    <3>6. Upto(K, l) = Upto(K, k) \cup {l}
      <4>1. \A i, j : j \in Upto(K, i) <=> j \in K /\ j <= i
        BY DEF Upto
      <4>2. \A j \in K : j \in Nat /\ (j <= k \/ l <= j)
        BY <1>1, <3>5, <4>1
      <4>3. k \in Nat /\ l \in Nat /\ l \in K /\ ~(l <= k)
        BY <1>1, <3>5, <4>1
      <4>4. ASSUME NEW j \in Upto(K, l) PROVE j \in Upto(K, k) \cup {l}
        <5>1. j \in Nat /\ j \in K /\ j <= l /\ (j <= k \/ l <= j)
          BY <4>1, <4>2
        <5> QED
          BY <4>1, <4>3, <5>1
      <4>5. ASSUME NEW j \in Upto(K, k) PROVE j \in Upto(K, l)
        <5>1. j \in Nat /\ j \in K /\ j <= k
          BY <4>1, <4>2
        <5> QED
          BY <4>1, <4>3, <5>1
      <4> QED
        BY <4>1, <4>3, <4>4, <4>5
    <3>7. Cardinality(Upto(K, l)) = m
      <4> DEFINE U == Upto(K, k)
      <4>1. IsFiniteSet(U) /\ l \notin U /\ Cardinality(U) = m - 1
        BY <3>2, <3>3, <3>5
      <4> HIDE DEF U
      <4>2. Cardinality(U \cup {l}) = (m - 1) + 1
        BY <4>1, FS_AddElement
      <4> QED
        BY <2>2, <3>6, <4>2 DEF U
    <3> QED
      BY <2>1, <3>7
  <2> QED
    BY <2>3, <2>4
<1> QED
  BY <1>2, <1>3

LEMMA NthIs ==
    ASSUME NEW K \in SUBSET Nat, IsFiniteSet(K)
    PROVE  /\ \A n \in 1 .. Cardinality(K) :
                NthOf(K, n) \in K /\ Cardinality(Upto(K, NthOf(K, n))) = n
           /\ \A m, n \in 1 .. Cardinality(K) : m # n => NthOf(K, m) # NthOf(K, n)
           /\ \A m, n \in 1 .. Cardinality(K) : m < n => NthOf(K, m) < NthOf(K, n)
           /\ \A k \in K : \E n \in 1 .. Cardinality(K) : NthOf(K, n) = k
<1>1. ASSUME NEW n \in 1 .. Cardinality(K)
      PROVE  NthOf(K, n) \in K /\ Cardinality(Upto(K, NthOf(K, n))) = n
  BY NthExists, Zenon DEF NthOf, Upto
<1>2. ASSUME NEW k \in K PROVE \E n \in 1 .. Cardinality(K) : NthOf(K, n) = k
  <2> DEFINE n == Cardinality(Upto(K, k))
             l == NthOf(K, n)
  <2>1. Upto(K, k) \in SUBSET K /\ k \in Upto(K, k)
    BY DEF Upto
  <2>2. n \in 1 .. Cardinality(K)
    BY <2>1, FS_Subset, FS_CardinalityType, FS_EmptySet
  <2>3. l \in K /\ Cardinality(Upto(K, l)) = n
    BY <1>1, <2>2
  <2> HIDE DEF l
  <2>4. \A a, b \in K : a < b => /\ \A j \in Upto(K, a) : j \in Upto(K, b)
                                /\ b \in Upto(K, b) /\ b \notin Upto(K, a)
    <3>1. \A a \in K : a \in Nat
      OBVIOUS
    <3> QED
      BY <3>1 DEF Upto
  <2>5. ASSUME NEW a \in K, NEW b \in K, a < b
        PROVE  Cardinality(Upto(K, a)) # Cardinality(Upto(K, b))
    <3>1. Upto(K, b) \in SUBSET K /\ IsFiniteSet(Upto(K, b))
      BY FS_Subset DEF Upto
    <3>2. Upto(K, a) \in SUBSET Upto(K, b) /\ Upto(K, a) # Upto(K, b)
      BY <2>4, <2>5
    <3> QED
      BY <3>1, <3>2, FS_Subset
  <2>6. l = k
    <3>1. l \in Nat /\ k \in Nat
      BY <2>3
    <3>2. l < k \/ k < l \/ l = k
      BY <3>1
    <3> QED
      BY <2>3, <2>5, <3>2
  <2> QED
    BY <2>2, <2>6 DEF l
<1>3. ASSUME NEW m \in 1 .. Cardinality(K), NEW n \in 1 .. Cardinality(K), m < n
      PROVE  NthOf(K, m) < NthOf(K, n)
  <2> DEFINE a == NthOf(K, m)
             b == NthOf(K, n)
             A == Upto(K, a)
             B == Upto(K, b)
  <2>1. a \in K /\ b \in K /\ Cardinality(A) = m /\ Cardinality(B) = n
    BY <1>1
  <2> HIDE DEF a, b
  <2>2. A \in SUBSET K /\ IsFiniteSet(A)
    BY FS_Subset DEF Upto
  <2>3. CASE b <= a
    <3>1. a \in Nat /\ b \in Nat
      BY <2>1
    <3>2. \A j \in K : j \in Nat /\ (j <= b => j <= a)
      BY <2>3, <3>1
    <3>3. B \in SUBSET A
      BY <3>2 DEF Upto
    <3>4. Cardinality(B) <= Cardinality(A)
      BY <2>2, <3>3, FS_Subset
    <3> QED
      BY <1>3, <2>1, <3>4
  <2>4. CASE ~(b <= a)
    <3>1. a \in Nat /\ b \in Nat
      BY <2>1
    <3> QED
      BY <2>4, <3>1 DEF a, b
  <2> QED
    BY <2>3, <2>4
<1> QED
  BY <1>1, <1>2, <1>3

LEMMA OnlyIs ==
    ASSUME NEW S, NEW s \in Seq(S), NEW K \in SUBSET DOMAIN s
    PROVE  /\ Only(s, K) \in Seq(S) /\ Len(Only(s, K)) = Cardinality(K) /\ Cardinality(K) \in Nat
           /\ IsFiniteSet(K) /\ K \in SUBSET Nat
           /\ \A n \in 1 .. Cardinality(K) : Only(s, K)[n] = s[NthOf(K, n)]
           /\ \A n \in 1 .. Cardinality(K) : NthOf(K, n) \in K
           /\ \A m, n \in 1 .. Cardinality(K) : m # n => NthOf(K, m) # NthOf(K, n)
           /\ \A m, n \in 1 .. Cardinality(K) : m < n => NthOf(K, m) < NthOf(K, n)
           /\ \A k \in K : \E n \in 1 .. Cardinality(K) : NthOf(K, n) = k
<1>1. DOMAIN s = 1 .. Len(s) /\ Len(s) \in Nat
  BY LenProperties
<1>2. IsFiniteSet(K) /\ K \in SUBSET Nat
  <2>1. IsFiniteSet(1 .. Len(s)) /\ K \in SUBSET (1 .. Len(s))
    BY <1>1, FS_Interval
  <2>2. IsFiniteSet(K)
    BY <2>1, FS_Subset
  <2> QED
    BY <2>1, <2>2
<1>3. Cardinality(K) \in Nat
  BY <1>2, FS_CardinalityType
<1>4. \A n \in 1 .. Cardinality(K) : s[NthOf(K, n)] \in S
  BY <1>1, <1>2, NthIs, ElementOfSeq
<1>5. Only(s, K) = [n \in 1 .. Cardinality(K) |-> s[NthOf(K, n)]]
  BY DEF Only
<1>6. /\ Only(s, K) \in Seq(S) /\ Len(Only(s, K)) = Cardinality(K)
      /\ \A n \in 1 .. Cardinality(K) : Only(s, K)[n] = s[NthOf(K, n)]
  <2> DEFINE c == Cardinality(K)
  <2> HIDE DEF c
  <2> QED
    BY <1>3, <1>4, <1>5 DEF c
<1> QED
  BY <1>2, <1>3, <1>6, NthIs
=============================================================================
