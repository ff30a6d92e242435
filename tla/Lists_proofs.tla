---------------------------- MODULE Lists_proofs ----------------------------
(***************************************************************************)
(* What the list idioms of module Lists return: which elements, how often  *)
(* and as lists over which set.  Every proof about a queue or a batch      *)
(* cites these lemmas instead of the definitions.                          *)
(***************************************************************************)
EXTENDS Lists, FiniteSetTheorems, FunctionTheorems, SequenceTheorems, TLAPS

(* 1 .. n is finite, empty or not. *)
LEMMA InitialSegment == \A n \in Int : IsFiniteSet(1 .. n)
BY FS_Interval

(* range(n) has n elements. *)
LEMMA IntervalSize ==
  ASSUME NEW n \in Nat
  PROVE  IsFiniteSet(1 .. n) /\ Cardinality(1 .. n) = n
<1>1. Cardinality(1 .. n) = IF 1 > n THEN 0 ELSE n - 1 + 1
  BY FS_Interval
<1> QED
  BY <1>1, FS_Interval

(* The rank of an element within a finite set of numbers tells the         *)
(* elements apart, so every rank up to the cardinality is taken: the k-th  *)
(* smallest number that Nth chooses exists.                                *)
LEMMA NthExists ==
  ASSUME NEW K, K \subseteq Nat, IsFiniteSet(K), NEW k \in 1 .. Cardinality(K)
  PROVE  /\ Nth(K, k) \in K
         /\ Cardinality({j \in K : j <= Nth(K, k)}) = k
<1> DEFINE below(i) == {j \in K : j <= i}
           rank == [i \in K |-> Cardinality(below(i))]
           n == Cardinality(K)
<1>1. n \in Nat
  BY FS_CardinalityType
<1>2. ASSUME NEW i \in K
      PROVE  IsFiniteSet(below(i)) /\ Cardinality(below(i)) \in 1 .. n
  <2>1. IsFiniteSet(below(i)) /\ Cardinality(below(i)) <= n
    BY FS_Subset, below(i) \in SUBSET K
  <2>2. Cardinality(below(i)) # 0
    BY <2>1, FS_EmptySet, i \in below(i)
  <2>3. Cardinality(below(i)) \in Nat
    BY <2>1, FS_CardinalityType
  <2> QED
    BY <1>1, <2>1, <2>2, <2>3
<1>3. rank \in [K -> 1 .. n]
  BY <1>2
<1>4. ASSUME NEW a \in K, NEW b \in K, a < b
      PROVE  rank[a] # rank[b]
  <2>1. \A j \in K : j <= a => j <= b
    BY <1>4
  <2>2. IsFiniteSet(below(b))
    BY <1>2
  <2>3. below(a) \in SUBSET below(b)
    BY <2>1
  <2>4. b \in below(b) /\ b \notin below(a)
    BY <1>4
  <2>5. Cardinality(below(a)) # Cardinality(below(b))
    BY <2>2, <2>3, <2>4, FS_Subset
  <2> QED
    BY <2>5
<1>5. rank \in Injection(K, 1 .. n)
  <2>1. \A a, b \in K : rank[a] = rank[b] => a = b
    <3> SUFFICES ASSUME NEW a \in K, NEW b \in K, a # b
                 PROVE  rank[a] # rank[b]
      OBVIOUS
    <3>1. a < b \/ b < a
      OBVIOUS
    <3> QED
      BY <3>1, <1>4
  <2> QED
    BY <1>3, <2>1, Fun_IsInj
<1>6. rank \in Surjection(K, 1 .. n)
  <2> HIDE DEF rank
  <2>1. IsFiniteSet(1 .. n) /\ Cardinality(1 .. n) = Cardinality(K)
    BY <1>1, FS_Interval
  <2> QED
    BY <1>5, <2>1, FS_Injection
<1>7. \E i \in K : rank[i] = k
  <2> HIDE DEF rank, n
  <2>1. \A t \in 1 .. n : \E i \in K : rank[i] = t
    BY <1>6, Fun_SurjectionProperties
  <2> QED
    BY <2>1 DEF n
<1> QED
  BY <1>7 DEF Nth

(* The indices of s that Keep(s, S) keeps. *)
Kept(s, S) == {i \in DOMAIN s : s[i] \in S}

LEMMA KeptFinite ==
  ASSUME NEW T, NEW s \in Seq(T), NEW S
  PROVE  /\ Kept(s, S) \subseteq Nat
         /\ IsFiniteSet(Kept(s, S))
         /\ Cardinality(Kept(s, S)) \in Nat
<1>1. IsFiniteSet(1 .. Len(s)) /\ Kept(s, S) \in SUBSET (1 .. Len(s))
  BY FS_Interval DEF Kept
<1> QED
  BY <1>1, FS_Subset, FS_CardinalityType

(* [x for x in s if x in S] is a list over the same set, it holds exactly  *)
(* the elements of s that are in S, and none more often than s does.       *)
LEMMA KeepProperties ==
  ASSUME NEW T, NEW s \in Seq(T), NEW S
  PROVE  /\ Keep(s, S) \in Seq(T)
         /\ Items(Keep(s, S)) = Items(s) \cap S
         /\ Distinct(s) => Distinct(Keep(s, S))
<1> DEFINE K == Kept(s, S)
           n == Cardinality(K)
           q == [k \in 1 .. n |-> s[Nth(K, k)]]
<1>1. Keep(s, S) = q
  BY DEF Keep, Kept
<1>2. K \subseteq Nat /\ IsFiniteSet(K) /\ n \in Nat
  BY KeptFinite
<1>3. \A k \in 1 .. n : /\ Nth(K, k) \in K
                        /\ Cardinality({j \in K : j <= Nth(K, k)}) = k
  BY <1>2, NthExists
<1>4. \A i \in K : i \in DOMAIN s /\ s[i] \in S /\ s[i] \in T
  BY DEF Kept
<1>5. q \in [1 .. n -> T]
  BY <1>3, <1>4
<1>6. q \in Seq(T)
  BY <1>2, <1>5
<1>7. Items(q) \subseteq Items(s) \cap S
  BY <1>3, <1>4 DEF Items
<1>8. Items(s) \cap S \subseteq Items(q)
  <2> SUFFICES ASSUME NEW i \in K
               PROVE  s[i] \in Items(q)
    BY DEF Items, Kept
  <2> DEFINE below(j) == {x \in K : x <= j}
             k == Cardinality(below(i))
  <2>1. IsFiniteSet(below(i)) /\ k <= n /\ k \in Nat
    BY <1>2, FS_Subset, FS_CardinalityType, below(i) \in SUBSET K
  <2>2. k # 0
    BY <1>2, <2>1, FS_EmptySet, i \in below(i)
  <2>3. k \in 1 .. n
    BY <1>2, <2>1, <2>2
  <2>4. Nth(K, k) \in K /\ Cardinality(below(Nth(K, k))) = k
    BY <2>3, <1>3
  <2>5. Nth(K, k) = i
    <3>1. ASSUME NEW a \in K, NEW b \in K, a < b
          PROVE  Cardinality(below(a)) # Cardinality(below(b))
      <4>1. below(a) \in SUBSET below(b) /\ below(a) # below(b)
        BY <1>2, <3>1
      <4>2. IsFiniteSet(below(b))
        BY <1>2, FS_Subset, below(b) \in SUBSET K
      <4> QED
        BY <4>1, <4>2, FS_Subset
    <3>2. Nth(K, k) < i \/ i < Nth(K, k) \/ Nth(K, k) = i
      BY <1>2, <2>4
    <3> QED
      BY <2>4, <3>1, <3>2
  <2> QED
    BY <2>3, <2>5 DEF Items
<1>9. ASSUME Distinct(s) PROVE Distinct(q)
  <2> SUFFICES ASSUME NEW a \in 1 .. n, NEW b \in 1 .. n, s[Nth(K, a)] = s[Nth(K, b)]
               PROVE  a = b
    BY DEF Distinct
  <2>1. Nth(K, a) = Nth(K, b)
    BY <1>3, <1>4, <1>9 DEF Distinct
  <2> QED
    BY <1>3, <2>1
<1> QED
  BY <1>1, <1>6, <1>7, <1>8, <1>9

(* s[:n] is a list of elements of s, without new repetitions. *)
LEMMA PrefixProperties ==
  ASSUME NEW T, NEW s \in Seq(T), NEW n \in 0 .. Len(s)
  PROVE  /\ Prefix(s, n) \in Seq(T)
         /\ Len(Prefix(s, n)) = n
         /\ \A i \in 1 .. n : Prefix(s, n)[i] = s[i]
         /\ Items(Prefix(s, n)) \subseteq Items(s)
         /\ Distinct(s) => Distinct(Prefix(s, n))
<1> DEFINE p == SubSeq(s, 1, n)
<1>1. \A i \in 1 .. n : s[i] \in T
  OBVIOUS
<1>2. p \in Seq(T) /\ Len(p) = n /\ \A i \in 1 .. n : p[i] = s[i]
  BY <1>1, SubSeqProperties
<1>3. Items(p) \subseteq Items(s)
  BY <1>2 DEF Items
<1>4. Distinct(s) => Distinct(p)
  BY <1>2 DEF Distinct
<1> QED
  BY <1>2, <1>3, <1>4 DEF Prefix

(* s + t holds the elements of both; no element twice if they have none in *)
(* common.                                                                 *)
LEMMA ConcatItems ==
  ASSUME NEW T, NEW s \in Seq(T), NEW t \in Seq(T)
  PROVE  /\ s \o t \in Seq(T)
         /\ Items(s \o t) = Items(s) \cup Items(t)
         /\ Distinct(s) /\ Distinct(t) /\ Items(s) \cap Items(t) = {} => Distinct(s \o t)
<1> DEFINE q == s \o t
<1>1. /\ q \in Seq(T) /\ Len(q) = Len(s) + Len(t)
      /\ \A i \in 1 .. Len(q) : q[i] = IF i <= Len(s) THEN s[i] ELSE t[i - Len(s)]
  BY ConcatProperties
<1>2. /\ \A i \in 1 .. Len(s) : i \in 1 .. Len(q) /\ q[i] = s[i]
      /\ \A i \in 1 .. Len(t) : i + Len(s) \in 1 .. Len(q) /\ q[i + Len(s)] = t[i]
  BY <1>1
<1>3. \A i \in 1 .. Len(q) : \/ i \in 1 .. Len(s) /\ q[i] = s[i]
                             \/ i - Len(s) \in 1 .. Len(t) /\ q[i] = t[i - Len(s)]
  BY <1>1
<1>4. Items(q) = Items(s) \cup Items(t)
  <2>1. Items(q) \subseteq Items(s) \cup Items(t)
    BY <1>1, <1>3 DEF Items
  <2>2. \A i \in 1 .. Len(q) : q[i] \in Items(q)
    BY <1>1 DEF Items
  <2>3. \A i \in 1 .. Len(s) : s[i] \in Items(q)
    BY <1>2, <2>2
  <2>4. \A i \in 1 .. Len(t) : t[i] \in Items(q)
    BY <1>2, <2>2
  <2>5. \A x \in Items(s) : \E i \in 1 .. Len(s) : x = s[i]
    BY DEF Items
  <2>6. \A x \in Items(t) : \E i \in 1 .. Len(t) : x = t[i]
    BY DEF Items
  <2> QED
    BY <2>1, <2>3, <2>4, <2>5, <2>6
<1>5. ASSUME Distinct(s), Distinct(t), Items(s) \cap Items(t) = {}
      PROVE  Distinct(q)
  <2> SUFFICES ASSUME NEW i \in 1 .. Len(q), NEW j \in 1 .. Len(q), q[i] = q[j]
               PROVE  i = j
    BY <1>1 DEF Distinct
  <2>1. CASE i \in 1 .. Len(s) /\ j \in 1 .. Len(s)
    BY <2>1, <1>2, <1>5 DEF Distinct
  <2>2. CASE i - Len(s) \in 1 .. Len(t) /\ j - Len(s) \in 1 .. Len(t)
    <3>1. t[i - Len(s)] = t[j - Len(s)]
      BY <2>2, <1>1
    <3>2. i - Len(s) = j - Len(s)
      BY <3>1, <2>2, <1>5 DEF Distinct
    <3> QED
      BY <3>2
  <2>3. ASSUME NEW a \in 1 .. Len(s), NEW b \in 1 .. Len(t)
        PROVE  s[a] # t[b]
    <3>1. s[a] \in Items(s) /\ t[b] \in Items(t)
      BY DEF Items
    <3> QED
      BY <3>1, <1>5
  <2> QED
    BY <1>3, <2>1, <2>2, <2>3
<1> QED
  BY <1>1, <1>4, <1>5

(* Append is the concatenation with a list of one. *)
LEMMA AppendItems ==
  ASSUME NEW T, NEW s \in Seq(T), NEW x \in T
  PROVE  /\ Append(s, x) \in Seq(T)
         /\ Len(Append(s, x)) = Len(s) + 1
         /\ \A i \in 1 .. Len(s) : Append(s, x)[i] = s[i]
         /\ Append(s, x)[Len(s) + 1] = x
         /\ Items(Append(s, x)) = Items(s) \cup {x}
         /\ Distinct(s) /\ x \notin Items(s) => Distinct(Append(s, x))
<1>1. /\ Append(s, x) \in Seq(T)
      /\ Len(Append(s, x)) = Len(s) + 1
      /\ \A i \in 1 .. Len(s) : Append(s, x)[i] = s[i]
      /\ Append(s, x)[Len(s) + 1] = x
  OBVIOUS
<1> DEFINE q == Append(s, x)
<1> HIDE DEF q
<1>2. Len(s) \in Nat /\ DOMAIN s = 1 .. Len(s) /\ DOMAIN q = 1 .. Len(s) + 1
  BY <1>1 DEF q
<1>3. \A i \in 1 .. Len(s) : q[i] = s[i]
  BY <1>1 DEF q
<1>4. q[Len(s) + 1] = x
  BY <1>1 DEF q
<1>5. Items(q) = Items(s) \cup {x}
  BY <1>2, <1>3, <1>4 DEF Items
<1>6. Distinct(s) /\ x \notin Items(s) => Distinct(q)
  BY <1>2, <1>3, <1>4 DEF Items, Distinct
<1> QED
  BY <1>1, <1>5, <1>6 DEF q

(* An arrangement of a finite set is a list of its elements, each once. *)
LEMMA ArrangementProperties ==
  ASSUME NEW T, NEW S \in SUBSET T, IsFiniteSet(S), NEW q \in Arrangements(S)
  PROVE  /\ q \in Seq(T)
         /\ Items(q) = S
         /\ Distinct(q)
<1>1. Cardinality(S) \in Nat
  BY FS_CardinalityType
<1> QED
  BY <1>1 DEF Arrangements

(* s[:i-1] + s[i+1:]: list s without its i-th entry. *)
LEMMA RemovedAt ==
  ASSUME NEW T, NEW s \in Seq(T), NEW i \in 1 .. Len(s)
  PROVE  LET q == SubSeq(s, 1, i - 1) \o SubSeq(s, i + 1, Len(s))
         IN  /\ q \in Seq(T)
             /\ Len(q) = Len(s) - 1
             /\ \A j \in 1 .. Len(q) : q[j] = IF j < i THEN s[j] ELSE s[j + 1]
<1> DEFINE a == SubSeq(s, 1, i - 1)
           b == SubSeq(s, i + 1, Len(s))
<1>1. /\ Len(s) \in Nat /\ i \in Nat
      /\ \A j \in 1 .. i - 1 : s[j] \in T
      /\ \A j \in i + 1 .. Len(s) : s[j] \in T
  OBVIOUS
<1>2. a \in Seq(T) /\ Len(a) = i - 1 /\ \A j \in 1 .. i - 1 : a[j] = s[j]
  BY <1>1, SubSeqProperties
<1>3. b \in Seq(T) /\ Len(b) = Len(s) - i
  BY <1>1, SubSeqProperties
<1>4. \A j \in 1 .. Len(s) - i : b[j] = s[j + i]
  BY <1>1, SubSeqProperties
<1> HIDE DEF a, b
<1>5. /\ a \o b \in Seq(T) /\ Len(a \o b) = Len(a) + Len(b)
      /\ \A j \in 1 .. Len(a) + Len(b) :
           (a \o b)[j] = IF j <= Len(a) THEN a[j] ELSE b[j - Len(a)]
  BY <1>2, <1>3, ConcatProperties
<1>6. Len(a \o b) = Len(s) - 1
  BY <1>1, <1>2, <1>3, <1>5
<1>7. ASSUME NEW j \in 1 .. Len(s) - 1
      PROVE  (a \o b)[j] = IF j < i THEN s[j] ELSE s[j + 1]
  <2>1. CASE j < i
    BY <1>1, <1>2, <1>3, <1>5, <2>1
  <2>2. CASE ~(j < i)
    <3>1. j - (i - 1) \in 1 .. Len(s) - i
      BY <1>1, <2>2
    <3>2. b[j - (i - 1)] = s[j + 1]
      BY <1>1, <1>4, <3>1
    <3> QED
      BY <1>1, <1>2, <1>3, <1>5, <2>2, <3>2
  <2> QED
    BY <2>1, <2>2
<1> QED
  BY <1>5, <1>6, <1>7 DEF a, b

-----------------------------------------------------------------------------
(* Finite sums.  A Python sum over requests is the cardinality of a union  *)
(* of pairs in the model; these lemmas say that it is a number.            *)

LEMMA PairsFinite ==
  ASSUME NEW f, IsFiniteSet(DOMAIN f), \A x \in DOMAIN f : IsFiniteSet(f[x])
  PROVE  IsFiniteSet(Pairs(f)) /\ Cardinality(Pairs(f)) \in Nat
<1> DEFINE S == DOMAIN f
           g == [x \in S |-> {x} \X f[x]]
           T == {{x} \X f[x] : x \in S}
<1>1. g \in Surjection(S, T)
  <2>1. g \in [S -> T] /\ \A t \in T : \E x \in S : g[x] = t
    OBVIOUS
  <2> HIDE DEF g, T, S
  <2> QED
    BY <2>1, Fun_IsSurj
<1>2. IsFiniteSet(T)
  <2> HIDE DEF g, T
  <2> QED
    BY <1>1, FS_Surjection
<1>3. ASSUME NEW x \in S PROVE IsFiniteSet({x} \X f[x])
  BY FS_Singleton, FS_Product
<1>4. IsFiniteSet(UNION T)
  BY <1>2, <1>3, FS_UNION
<1> QED
  BY <1>4, FS_CardinalityType DEF Pairs

LEMMA PairsOfIntervals ==
  ASSUME NEW f, IsFiniteSet(DOMAIN f),
         \A x \in DOMAIN f : \E a, b \in Int : f[x] = a .. b
  PROVE  IsFiniteSet(Pairs(f)) /\ Cardinality(Pairs(f)) \in Nat
<1>1. \A a, b \in Int : IsFiniteSet(a .. b)
  BY FS_Interval
<1>2. \A x \in DOMAIN f : IsFiniteSet(f[x])
  BY <1>1
<1> QED
  BY <1>2, PairsFinite

(* The sum over two disjoint parts of a domain is the sum over all of it.  *)
LEMMA PairsSplit ==
  ASSUME NEW f, NEW A, NEW B, DOMAIN f = A \cup B, A \cap B = {},
         IsFiniteSet(DOMAIN f), \A x \in DOMAIN f : IsFiniteSet(f[x])
  PROVE  /\ Cardinality(Pairs([x \in A |-> f[x]])) \in Nat
         /\ Cardinality(Pairs([x \in B |-> f[x]])) \in Nat
         /\ Cardinality(Pairs(f)) = Cardinality(Pairs([x \in A |-> f[x]]))
                                    + Cardinality(Pairs([x \in B |-> f[x]]))
<1> DEFINE a == [x \in A |-> f[x]]
           b == [x \in B |-> f[x]]
<1>1. Pairs(f) = Pairs(a) \cup Pairs(b) /\ Pairs(a) \cap Pairs(b) = {}
  BY DEF Pairs
<1>2. IsFiniteSet(A) /\ IsFiniteSet(B)
  BY FS_Subset, A \in SUBSET DOMAIN f, B \in SUBSET DOMAIN f
<1>3. IsFiniteSet(Pairs(a)) /\ Cardinality(Pairs(a)) \in Nat
  <2>1. DOMAIN a = A /\ \A x \in A : IsFiniteSet(a[x])
    OBVIOUS
  <2> HIDE DEF a
  <2> QED
    BY <1>2, <2>1, PairsFinite
<1>4. IsFiniteSet(Pairs(b)) /\ Cardinality(Pairs(b)) \in Nat
  <2>1. DOMAIN b = B /\ \A x \in B : IsFiniteSet(b[x])
    OBVIOUS
  <2> HIDE DEF b
  <2> QED
    BY <1>2, <2>1, PairsFinite
<1> HIDE DEF a, b
<1>5. Cardinality(Pairs(f)) = Cardinality(Pairs(a)) + Cardinality(Pairs(b))
                                - Cardinality(Pairs(a) \cap Pairs(b))
  BY <1>1, <1>3, <1>4, FS_Union
<1>6. Cardinality(Pairs(a) \cap Pairs(b)) = 0
  BY <1>1, FS_EmptySet
<1>7. Cardinality(Pairs(f)) = Cardinality(Pairs(a)) + Cardinality(Pairs(b))
  BY <1>3, <1>4, <1>5, <1>6
<1> QED
  BY <1>3, <1>4, <1>7 DEF a, b

(* The sum over one element. *)
LEMMA PairsSingle ==
  ASSUME NEW f, NEW x, NEW n \in Nat, DOMAIN f = {x}, f[x] = 1 .. n
  PROVE  Cardinality(Pairs(f)) = n
<1> DEFINE g == [k \in 1 .. n |-> <<x, k>>]
<1>1. Pairs(f) = {x} \X (1 .. n)
  BY DEF Pairs
<1>2. /\ g \in [1 .. n -> {x} \X (1 .. n)]
      /\ \A i, j \in 1 .. n : g[i] = g[j] => i = j
      /\ \A p \in {x} \X (1 .. n) : \E i \in 1 .. n : g[i] = p
  OBVIOUS
<1> HIDE DEF g
<1>3. g \in Bijection(1 .. n, {x} \X (1 .. n))
  BY <1>2, Fun_IsBij
<1>4. ExistsBijection(1 .. n, {x} \X (1 .. n))
  BY <1>3 DEF ExistsBijection
<1> QED
  BY <1>1, <1>4, IntervalSize, FS_Bijection

-----------------------------------------------------------------------------
(* Order *)

(* The k-th entry of [x for x in s if x in S] stands at place at[k] of s.  *)
KeptAt(at, s, S) ==
  LET q == Keep(s, S)
  IN  /\ at \in [1 .. Len(q) -> 1 .. Len(s)]
      /\ \A k \in 1 .. Len(q) : q[k] = s[at[k]] /\ s[at[k]] \in S
      /\ \A a, b \in 1 .. Len(q) : a < b => at[a] < at[b]
      /\ \A i \in 1 .. Len(s) : s[i] \in S => \E k \in 1 .. Len(q) : at[k] = i

(* The comprehension keeps the order of s, and every entry of s in S.      *)
LEMMA KeepOrder ==
  ASSUME NEW T, NEW s \in Seq(T), NEW S
  PROVE  \E at : KeptAt(at, s, S)
<1> DEFINE K == Kept(s, S)
           n == Cardinality(K)
           at == [k \in 1 .. n |-> Nth(K, k)]
           below(i) == {j \in K : j <= i}
<1>1. IsFiniteSet(K) /\ n \in Nat /\ K \subseteq Nat
  BY KeptFinite
<1>0. \A i \in K : i \in 1 .. Len(s) /\ i \in Int
  BY DEF Kept
<1>2. Keep(s, S) = [k \in 1 .. n |-> s[Nth(K, k)]]
  BY DEF Keep, Kept
<1>3. Len(Keep(s, S)) = n /\ \A k \in 1 .. n : Keep(s, S)[k] = s[at[k]]
  BY <1>1, <1>2
<1>4. \A k \in 1 .. n : at[k] \in K /\ Cardinality(below(at[k])) = k
  BY <1>1, NthExists
<1>5. \A i \in K : s[i] \in S
  BY DEF Kept
<1>6. \A i \in 1 .. Len(s) : s[i] \in S => i \in K
  BY DEF Kept
<1>7. \A i \in K : IsFiniteSet(below(i)) /\ Cardinality(below(i)) \in Nat
  BY <1>1, FS_Subset, FS_CardinalityType, \A i \in K : below(i) \in SUBSET K
<1> HIDE DEF K, n, at
<1>8. ASSUME NEW a \in K, NEW b \in K, a <= b
      PROVE  Cardinality(below(a)) <= Cardinality(below(b))
  <2>1. below(a) \in SUBSET below(b)
    BY <1>0, <1>8
  <2> QED
    BY <1>7, <2>1, FS_Subset
<1>9. \A a, b \in 1 .. n : a < b => at[a] < at[b]
  <2> SUFFICES ASSUME NEW a \in 1 .. n, NEW b \in 1 .. n, a < b, ~(at[a] < at[b])
               PROVE  FALSE
    OBVIOUS
  <2>3. at[a] \in K /\ at[b] \in K
    BY <1>4
  <2>1. at[a] \in K /\ at[b] \in K /\ at[b] <= at[a]
    BY <1>0, <2>3
  <2>2. Cardinality(below(at[b])) <= Cardinality(below(at[a]))
    BY <1>8, <2>1
  <2> QED
    BY <1>1, <1>4, <2>2
<1>10. \A i \in K : \E k \in 1 .. n : at[k] = i
  <2> SUFFICES ASSUME NEW i \in K
               PROVE  \E k \in 1 .. n : at[k] = i
    OBVIOUS
  <2>1. s[i] \in Items(Keep(s, S))
    <3>1. s[i] \in Items(s) \cap S
      BY <1>0, <1>5 DEF Items
    <3> QED
      BY <3>1, KeepProperties
  <2> DEFINE k == Cardinality(below(i))
  <2>2. k \in Nat /\ k <= n
    <3>1. below(i) \in SUBSET K
      OBVIOUS
    <3> QED
      BY <1>1, <1>7, <3>1, FS_Subset DEF n
  <2>3. k # 0
    BY <1>1, <1>7, FS_EmptySet, i \in below(i)
  <2>4. k \in 1 .. n
    BY <1>1, <2>2, <2>3
  <2> HIDE DEF k
  <2>5. at[k] \in K /\ Cardinality(below(at[k])) = k
    BY <1>4, <2>4
  <2>6. ASSUME NEW a \in K, NEW b \in K, a < b
        PROVE  Cardinality(below(a)) # Cardinality(below(b))
    <3>1. below(a) \in SUBSET below(b) /\ below(a) # below(b)
      BY <1>0, <2>6
    <3> QED
      BY <1>7, <3>1, FS_Subset
  <2>7. at[k] < i \/ i < at[k] \/ at[k] = i
    BY <1>0, <2>5
  <2>8. at[k] = i
    BY <2>5, <2>6, <2>7 DEF k
  <2> QED
    BY <2>4, <2>8
<1>11. at \in [1 .. n -> 1 .. Len(s)]
  BY <1>0, <1>1, <1>4 DEF at
<1> QED
  BY <1>3, <1>4, <1>5, <1>6, <1>9, <1>10, <1>11 DEF KeptAt

(* A comprehension whose condition every element meets is the list itself. *)
LEMMA KeepAll ==
  ASSUME NEW T, NEW s \in Seq(T), NEW S, Items(s) \subseteq S
  PROVE  /\ Len(Keep(s, S)) = Len(s)
         /\ \A k \in 1 .. Len(s) : Keep(s, S)[k] = s[k]
<1> DEFINE K == Kept(s, S)
           n == Len(s)
<1>1. K = 1 .. n /\ n \in Nat
  <2>1. DOMAIN s = 1 .. n /\ n \in Nat
    OBVIOUS
  <2>2. \A i \in DOMAIN s : s[i] \in S
    BY DEF Items
  <2>3. K = DOMAIN s
    BY <2>2 DEF Kept
  <2> QED
    BY <2>1, <2>3
<1>2. \A m \in 0 .. n : IsFiniteSet(1 .. m) /\ Cardinality(1 .. m) = m
  BY <1>1, FS_Interval
<1>3. IsFiniteSet(K) /\ Cardinality(K) = n
  BY <1>1, <1>2
<1>4. Keep(s, S) = [k \in 1 .. n |-> s[Nth(K, k)]]
  BY <1>3 DEF Keep, Kept
<1> HIDE DEF K, n
<1>5. ASSUME NEW k \in 1 .. n
      PROVE  Nth(K, k) = k
  <2> DEFINE i == Nth(K, k)
  <2>0. K \subseteq Nat /\ IsFiniteSet(K) /\ k \in 1 .. Cardinality(K)
    BY <1>1, <1>3
  <2>1. i \in K /\ Cardinality({j \in K : j <= i}) = k
    BY <2>0, NthExists
  <2> HIDE DEF i
  <2>2. i \in 0 .. n /\ {j \in K : j <= i} = 1 .. i
    BY <1>1, <2>1
  <2>3. i = k
    BY <1>2, <2>1, <2>2
  <2> QED
    BY <2>3 DEF i
<1>6. Len(Keep(s, S)) = n
  BY <1>1, <1>4
<1> QED
  BY <1>4, <1>5, <1>6 DEF n

(* len(set(s)) <= len(s), with equality for a list of distinct elements.   *)
LEMMA ItemsSize ==
  ASSUME NEW T, NEW s \in Seq(T)
  PROVE  /\ IsFiniteSet(Items(s))
         /\ Cardinality(Items(s)) \in Nat
         /\ Cardinality(Items(s)) <= Len(s)
         /\ Distinct(s) => Cardinality(Items(s)) = Len(s)
<1> DEFINE f == [i \in 1 .. Len(s) |-> s[i]]
<1>1. IsFiniteSet(1 .. Len(s)) /\ Cardinality(1 .. Len(s)) = Len(s)
  BY IntervalSize
<1>2. f \in [1 .. Len(s) -> Items(s)] /\ \A x \in Items(s) : \E i \in 1 .. Len(s) : f[i] = x
  BY DEF Items
<1>3. Distinct(s) => \A i, j \in 1 .. Len(s) : f[i] = f[j] => i = j
  BY DEF Distinct
<1> HIDE DEF f
<1>4. f \in Surjection(1 .. Len(s), Items(s))
  BY <1>2, Fun_IsSurj
<1>5. Distinct(s) => f \in Injection(1 .. Len(s), Items(s))
  BY <1>2, <1>3, Fun_IsInj
<1>6. /\ IsFiniteSet(Items(s))
      /\ Cardinality(Items(s)) <= Cardinality(1 .. Len(s))
      /\ Cardinality(Items(s)) = Cardinality(1 .. Len(s)) <=> f \in Injection(1 .. Len(s), Items(s))
  BY <1>1, <1>4, FS_Surjection
<1> QED
  BY <1>1, <1>5, <1>6, FS_CardinalityType

(* The index of an entry of a list that holds nothing twice. *)
LEMMA PosOf ==
  ASSUME NEW T, NEW s \in Seq(T), Distinct(s)
  PROVE  /\ \A i \in 1 .. Len(s) : Pos(s, s[i]) = i
         /\ \A x \in Items(s) : Pos(s, x) \in 1 .. Len(s) /\ s[Pos(s, x)] = x
<1>1. ASSUME NEW i \in 1 .. Len(s)
      PROVE  Pos(s, s[i]) = i
  <2>1. \E j \in DOMAIN s : s[j] = s[i]
    OBVIOUS
  <2>2. Pos(s, s[i]) \in DOMAIN s /\ s[Pos(s, s[i])] = s[i]
    BY <2>1 DEF Pos
  <2> QED
    BY <2>2 DEF Distinct
<1> QED
  BY <1>1 DEF Items

(* The list s is in the order R, a set of pairs. *)
InOrderOf(s, R) == \A i, j \in DOMAIN s : i < j => <<s[i], s[j]>> \in R

(* What keeps a list in order. *)
LEMMA OrderKept ==
  ASSUME NEW T, NEW s \in Seq(T), NEW R, InOrderOf(s, R)
  PROVE  /\ \A S : InOrderOf(Keep(s, S), R)
         /\ \A n \in 0 .. Len(s) : InOrderOf(Prefix(s, n), R)
         /\ \A x \in T : (\A i \in 1 .. Len(s) : <<s[i], x>> \in R) => InOrderOf(Append(s, x), R)
<1>1. ASSUME NEW S PROVE InOrderOf(Keep(s, S), R)
  <2> DEFINE q == Keep(s, S)
  <2>0. PICK at : KeptAt(at, s, S)
    BY KeepOrder
  <2>1. /\ at \in [1 .. Len(q) -> 1 .. Len(s)]
        /\ \A k \in 1 .. Len(q) : q[k] = s[at[k]]
        /\ \A a, b \in 1 .. Len(q) : a < b => at[a] < at[b]
    BY <2>0 DEF KeptAt
  <2>2. DOMAIN q = 1 .. Len(q) /\ DOMAIN s = 1 .. Len(s)
    BY KeepProperties
  <2> HIDE DEF q
  <2> QED
    BY <2>1, <2>2 DEF InOrderOf, q
<1>2. ASSUME NEW n \in 0 .. Len(s) PROVE InOrderOf(Prefix(s, n), R)
  <2>1. /\ DOMAIN Prefix(s, n) = 1 .. n
        /\ \A i \in 1 .. n : Prefix(s, n)[i] = s[i]
        /\ 1 .. n \subseteq DOMAIN s
    BY PrefixProperties
  <2> QED
    BY <2>1 DEF InOrderOf
<1>3. ASSUME NEW x \in T, \A i \in 1 .. Len(s) : <<s[i], x>> \in R
      PROVE  InOrderOf(Append(s, x), R)
  <2> DEFINE q == Append(s, x)
             n == Len(s)
  <2>1. /\ DOMAIN q = 1 .. n + 1 /\ DOMAIN s = 1 .. n /\ n \in Nat
        /\ q[n + 1] = x
        /\ \A i \in 1 .. n : q[i] = s[i]
    OBVIOUS
  <2> HIDE DEF q, n
  <2> SUFFICES ASSUME NEW i \in 1 .. n + 1, NEW j \in 1 .. n + 1, i < j
               PROVE  <<q[i], q[j]>> \in R
    BY <2>1 DEF InOrderOf, q
  <2>2. i \in 1 .. n /\ (j \in 1 .. n \/ j = n + 1)
    BY <2>1
  <2> QED
    BY <1>3, <2>1, <2>2 DEF InOrderOf, n
<1> QED
  BY <1>1, <1>2, <1>3

LEMMA ConcatOrder ==
  ASSUME NEW T, NEW s \in Seq(T), NEW t \in Seq(T), NEW R, InOrderOf(s, R), InOrderOf(t, R),
         \A x \in Items(s), y \in Items(t) : <<x, y>> \in R
  PROVE  InOrderOf(s \o t, R)
<1> DEFINE q == s \o t
           m == Len(s)
           n == Len(t)
<1>1. /\ m \in Nat /\ n \in Nat
      /\ DOMAIN s = 1 .. m /\ DOMAIN t = 1 .. n /\ DOMAIN q = 1 .. m + n
      /\ \A i \in 1 .. m + n : q[i] = IF i <= m THEN s[i] ELSE t[i - m]
  BY ConcatProperties
<1> HIDE DEF q, m, n
<1> SUFFICES ASSUME NEW i \in 1 .. m + n, NEW j \in 1 .. m + n, i < j
             PROVE  <<q[i], q[j]>> \in R
  BY <1>1 DEF InOrderOf, q
<1>2. CASE j <= m
  <2>1. i \in 1 .. m /\ j \in 1 .. m
    BY <1>1, <1>2
  <2> QED
    BY <1>1, <2>1 DEF InOrderOf
<1>3. CASE i <= m /\ ~(j <= m)
  <2>1. i \in 1 .. m /\ j - m \in 1 .. n
    BY <1>1, <1>3
  <2> QED
    BY <1>1, <1>3, <2>1 DEF Items
<1>4. CASE ~(i <= m)
  <2>1. i - m \in 1 .. n /\ j - m \in 1 .. n /\ i - m < j - m /\ ~(j <= m)
    BY <1>1, <1>4
  <2> QED
    BY <1>1, <1>4, <2>1 DEF InOrderOf
<1> QED
  BY <1>1, <1>2, <1>3, <1>4

(* Two entries of q that Keep(q, S) keeps stand in it as they do in q. *)
LEMMA OrderFromKept ==
  ASSUME NEW T, NEW q \in Seq(T), NEW S, NEW R, InOrderOf(Keep(q, S), R),
         NEW i \in 1 .. Len(q), NEW j \in 1 .. Len(q), i < j, q[i] \in S, q[j] \in S
  PROVE  <<q[i], q[j]>> \in R
<1> DEFINE s == Keep(q, S)
<1>1. PICK at : KeptAt(at, q, S)
  BY KeepOrder
<1>2. /\ \A k \in 1 .. Len(s) : s[k] = q[at[k]]
      /\ \A a, b \in 1 .. Len(s) : a < b => at[a] < at[b]
      /\ \A k \in 1 .. Len(q) : q[k] \in S => \E a \in 1 .. Len(s) : at[a] = k
  BY <1>1 DEF KeptAt
<1>3. DOMAIN s = 1 .. Len(s)
  BY KeepProperties
<1>4. InOrderOf(s, R)
  OBVIOUS
<1> HIDE DEF s
<1>5. PICK a \in 1 .. Len(s), b \in 1 .. Len(s) : at[a] = i /\ at[b] = j
  BY <1>2
<1>6. a < b
  <2>1. ~(b < a) /\ a # b
    BY <1>2, <1>5
  <2> QED
    BY <2>1
<1>7. <<s[a], s[b]>> \in R
  BY <1>3, <1>4, <1>6 DEF InOrderOf
<1>8. s[a] = q[i] /\ s[b] = q[j]
  BY <1>2, <1>5
<1> QED
  BY <1>7, <1>8

(* A finite set that R orders totally has a last element: the ranks of its *)
(* elements differ, so one of them has the cardinality of the set.         *)
LEMMA LastExists ==
  ASSUME NEW M, IsFiniteSet(M), M # {}, NEW R,
         \A x, y, z \in M : <<x, y>> \in R /\ <<y, z>> \in R => <<x, z>> \in R,
         \A x \in M : <<x, x>> \notin R,
         \A x, y \in M : x = y \/ <<x, y>> \in R \/ <<y, x>> \in R
  PROVE  \E y \in M : \A z \in M : z = y \/ <<z, y>> \in R
<1> DEFINE upto(y) == {z \in M : z = y \/ <<z, y>> \in R}
           rank == [y \in M |-> Cardinality(upto(y))]
           n == Cardinality(M)
<1>1. n \in Nat /\ n # 0
  BY FS_CardinalityType, FS_EmptySet
<1>2. ASSUME NEW y \in M
      PROVE  IsFiniteSet(upto(y)) /\ Cardinality(upto(y)) \in 1 .. n
  <2>1. IsFiniteSet(upto(y)) /\ Cardinality(upto(y)) <= n
    BY FS_Subset, upto(y) \in SUBSET M
  <2>2. Cardinality(upto(y)) # 0
    BY <2>1, FS_EmptySet, y \in upto(y)
  <2>3. Cardinality(upto(y)) \in Nat
    BY <2>1, FS_CardinalityType
  <2> QED
    BY <1>1, <2>1, <2>2, <2>3
<1>3. rank \in [M -> 1 .. n]
  BY <1>2
<1>4. ASSUME NEW a \in M, NEW b \in M, <<a, b>> \in R
      PROVE  rank[a] # rank[b]
  <2>1. upto(a) \in SUBSET upto(b)
    BY <1>4
  <2>2. b \in upto(b) /\ b \notin upto(a)
    BY <1>4
  <2>3. Cardinality(upto(a)) # Cardinality(upto(b))
    <3>1. IsFiniteSet(upto(b)) /\ upto(a) # upto(b)
      BY <1>2, <2>2
    <3> QED
      BY <2>1, <3>1, FS_Subset
  <2> QED
    BY <2>3
<1>5. rank \in Injection(M, 1 .. n)
  <2>1. \A a, b \in M : rank[a] = rank[b] => a = b
    BY <1>4
  <2> QED
    BY <1>3, <2>1, Fun_IsInj
<1>6. rank \in Surjection(M, 1 .. n)
  <2> HIDE DEF rank
  <2>1. IsFiniteSet(1 .. n) /\ Cardinality(1 .. n) = Cardinality(M)
    BY <1>1, FS_Interval
  <2> QED
    BY <1>5, <2>1, FS_Injection
<1>7. PICK y \in M : rank[y] = n
  <2> HIDE DEF rank, n
  <2>1. \A t \in 1 .. n : \E x \in M : rank[x] = t
    BY <1>6, Fun_SurjectionProperties
  <2> QED
    BY <1>1, <2>1
<1>8. upto(y) \in SUBSET M /\ Cardinality(upto(y)) = Cardinality(M)
  BY <1>7
<1>9. upto(y) = M
  <2> HIDE DEF upto
  <2> QED
    BY <1>8, FS_Subset
<1> QED
  BY <1>9

(* A finite set of numbers has a largest and a smallest element. *)
LEMMA Extremes ==
  ASSUME NEW S, S \subseteq Int, IsFiniteSet(S), S # {}
  PROVE  /\ \E y \in S : \A x \in S : y >= x
         /\ \E y \in S : \A x \in S : y =< x
<1>1. \E y \in S : \A x \in S : y >= x
  <2> DEFINE R == {p \in Int \X Int : p[1] < p[2]}
  <2>1. \A x, y : <<x, y>> \in R <=> x \in Int /\ y \in Int /\ x < y
    OBVIOUS
  <2> HIDE DEF R
  <2>2. \A x, y, z \in S : <<x, y>> \in R /\ <<y, z>> \in R => <<x, z>> \in R
    BY <2>1
  <2>3. /\ \A x \in S : <<x, x>> \notin R
        /\ \A x, y \in S : x = y \/ <<x, y>> \in R \/ <<y, x>> \in R
    BY <2>1
  <2>4. \E y \in S : \A z \in S : z = y \/ <<z, y>> \in R
    BY <2>2, <2>3, LastExists
  <2> QED
    <3>1. PICK y \in S : \A z \in S : z = y \/ <<z, y>> \in R
      BY <2>4
    <3>2. ASSUME NEW z \in S
          PROVE  y >= z
      <4>1. y \in Int /\ z \in Int
        OBVIOUS
      <4>2. z = y \/ <<z, y>> \in R
        BY <3>1
      <4> QED
        BY <2>1, <4>1, <4>2
    <3> QED
      BY <3>2
<1>2. \E y \in S : \A x \in S : y =< x
  <2> DEFINE R == {p \in Int \X Int : p[1] > p[2]}
  <2>1. \A x, y : <<x, y>> \in R <=> x \in Int /\ y \in Int /\ x > y
    OBVIOUS
  <2> HIDE DEF R
  <2>2. \A x, y, z \in S : <<x, y>> \in R /\ <<y, z>> \in R => <<x, z>> \in R
    BY <2>1
  <2>3. /\ \A x \in S : <<x, x>> \notin R
        /\ \A x, y \in S : x = y \/ <<x, y>> \in R \/ <<y, x>> \in R
    BY <2>1
  <2>4. \E y \in S : \A z \in S : z = y \/ <<z, y>> \in R
    BY <2>2, <2>3, LastExists
  <2> QED
    <3>1. PICK y \in S : \A z \in S : z = y \/ <<z, y>> \in R
      BY <2>4
    <3>2. ASSUME NEW z \in S
          PROVE  y =< z
      <4>1. y \in Int /\ z \in Int
        OBVIOUS
      <4>2. z = y \/ <<z, y>> \in R
        BY <3>1
      <4> QED
        BY <2>1, <4>1, <4>2
    <3> QED
      BY <3>2
<1> QED
  BY <1>1, <1>2

-----------------------------------------------------------------------------
(* Folds *)

(* What holds of 0 and passes from each number to the next holds of all up *)
(* to n: the library's theorem of induction takes a predicate, so here the *)
(* numbers it holds of are a set.                                          *)
LEMMA UpTo ==
  ASSUME NEW n \in Nat, NEW S, 0 \in S, \A k \in 1 .. n : k - 1 \in S => k \in S
  PROVE  0 .. n \subseteq S
<1> SUFFICES ASSUME (0 .. n) \ S # {}
             PROVE  FALSE
  OBVIOUS
<1> DEFINE bad == (0 .. n) \ S
<1>1. bad \in SUBSET (0 .. n) /\ bad \subseteq Int /\ bad # {}
  OBVIOUS
<1>2. IsFiniteSet(0 .. n)
  BY FS_Interval
<1>3. IsFiniteSet(bad)
  BY <1>1, <1>2, FS_Subset
<1> HIDE DEF bad
<1>4. PICK k \in bad : \A l \in bad : k =< l
  BY <1>1, <1>3, Extremes
<1>5. k \in 0 .. n /\ k # 0 /\ k \notin S
  BY <1>4 DEF bad
<1>6. k - 1 \in 0 .. n /\ k - 1 \notin bad
  BY <1>4, <1>5
<1> QED
  BY <1>5, <1>6 DEF bad

(* The largest number of a set: the element a fold over a list takes off.  *)
Top(S) == CHOOSE x \in S : \A y \in S : x >= y

LEMMA TopIs ==
  ASSUME NEW S, NEW k \in S, k \in Int, \A y \in S : y \in Int /\ y <= k
  PROVE  Top(S) = k
<1>1. \A y \in S : k >= y
  OBVIOUS
<1>2. Top(S) \in S /\ \A y \in S : Top(S) >= y
  BY <1>1 DEF Top
<1>3. Top(S) >= k /\ Top(S) <= k /\ Top(S) \in Int
  BY <1>2
<1> QED
  BY <1>3

LEMMA TopInside ==
  ASSUME NEW n \in Nat
  PROVE  \A S \in SUBSET (1 .. n) : S # {} => Top(S) \in S /\ S \ {Top(S)} \in SUBSET (1 .. n)
<1> SUFFICES ASSUME NEW S \in SUBSET (1 .. n), S # {}
             PROVE  Top(S) \in S
  OBVIOUS
<1>1. IsFiniteSet(1 .. n)
  BY FS_Interval
<1>2. IsFiniteSet(S)
  BY <1>1, FS_Subset
<1>3. S \subseteq Int
  OBVIOUS
<1>4. PICK y \in S : \A x \in S : y >= x
  BY <1>2, <1>3, Extremes
<1> QED
  BY <1>4 DEF Top

(* A fold over a list of n elements is a function on the sets of its       *)
(* indices: b on the empty set, on any other the step G of its largest     *)
(* index, applied to what the rest gives.  G[k] is what element k does to  *)
(* a value of T.                                                           *)
Folds(g, m, b, G) ==
  \A S \in SUBSET (1 .. m) : g[S] = IF S = {} THEN b ELSE G[Top(S)][g[S \ {Top(S)}]]

LEMMA FoldExists ==
  ASSUME NEW n \in Nat, NEW T, NEW b \in T, NEW G \in [1 .. n -> [T -> T]]
  PROVE  \E g \in [SUBSET (1 .. n) -> T] : Folds(g, n, b, G)
<1> DEFINE good == {m \in 0 .. n : \E g \in [SUBSET (1 .. m) -> T] : Folds(g, m, b, G)}
<1>1. 0 \in good
  <2> DEFINE g == [S \in SUBSET (1 .. 0) |-> b]
  <2>1. SUBSET (1 .. 0) = {{}}
    OBVIOUS
  <2>2. g \in [SUBSET (1 .. 0) -> T]
    OBVIOUS
  <2>3. Folds(g, 0, b, G)
    BY <2>1 DEF Folds
  <2> QED
    BY <2>2, <2>3
<1>2. ASSUME NEW k \in 1 .. n, k - 1 \in good
      PROVE  k \in good
  <2>1. PICK m \in 0 .. n : m = k - 1
    OBVIOUS
  <2>2. PICK f \in [SUBSET (1 .. m) -> T] : Folds(f, m, b, G)
    BY <1>2, <2>1
  <2> DEFINE val(S) == IF k \in S THEN G[k][f[S \ {k}]] ELSE f[S]
             g == [S \in SUBSET (1 .. k) |-> val(S)]
  <2>3. \A S \in SUBSET (1 .. k) : S \ {k} \in SUBSET (1 .. m) /\ (k \notin S => S \in SUBSET (1 .. m))
    BY <2>1
  <2>4. \A S \in SUBSET (1 .. k) : val(S) \in T
    BY <2>3
  <2>5. g \in [SUBSET (1 .. k) -> T]
    BY <2>4
  <2>6. ASSUME NEW S \in SUBSET (1 .. k)
        PROVE  g[S] = IF S = {} THEN b ELSE G[Top(S)][g[S \ {Top(S)}]]
    <3>1. CASE S = {}
      BY <2>2, <2>3, <3>1 DEF Folds
    <3>2. CASE k \in S
      <4>1. Top(S) = k
        <5>1. k \in Int /\ \A y \in S : y \in Int /\ y <= k
          OBVIOUS
        <5> QED
          BY <3>2, <5>1, TopIs
      <4>2. g[S \ {k}] = f[S \ {k}]
        <5>1. S \ {k} \in SUBSET (1 .. k) /\ k \notin S \ {k}
          OBVIOUS
        <5> QED
          BY <5>1
      <4> QED
        BY <3>2, <4>1, <4>2
    <3>3. CASE S # {} /\ k \notin S
      <4>1. S \in SUBSET (1 .. m)
        BY <2>3, <3>3
      <4>2. S \ {Top(S)} \in SUBSET (1 .. m)
        BY <3>3, <4>1, TopInside
      <4>3. S \ {Top(S)} \in SUBSET (1 .. m) /\ S \ {Top(S)} \in SUBSET (1 .. k) /\ k \notin S \ {Top(S)}
        BY <3>3, <4>1, <4>2
      <4>4. f[S] = G[Top(S)][f[S \ {Top(S)}]]
        BY <2>2, <3>3, <4>1 DEF Folds
      <4> QED
        BY <3>3, <4>3, <4>4
    <3> QED
      BY <3>1, <3>2, <3>3
  <2> HIDE DEF g
  <2>7. Folds(g, k, b, G)
    BY <2>6 DEF Folds
  <2> QED
    BY <2>5, <2>7
<1> HIDE DEF good
<1>3. 0 .. n \subseteq good
  BY <1>1, <1>2, UpTo
<1>4. n \in good
  BY <1>3
<1> QED
  BY <1>4 DEF good

(* A fold over a list goes through a value after each element.             *)
FoldStep(iter, n, b, G, T) ==
  /\ iter[{}] = b
  /\ \A S \in SUBSET (1 .. n) :
       S # {} /\ iter[S \ {Top(S)}] \in T => iter[S] = G[Top(S)][iter[S \ {Top(S)}]]

FoldRun(run, iter, n, b, G) ==
  /\ run[0] = b
  /\ \A k \in 1 .. n : run[k] = G[k][run[k - 1]]
  /\ iter[1 .. n] = run[n]

LEMMA FoldRuns ==
  ASSUME NEW n \in Nat, NEW T, NEW b \in T, NEW G \in [1 .. n -> [T -> T]],
         NEW iter, FoldStep(iter, n, b, G, T)
  PROVE  \E run \in [0 .. n -> T] : FoldRun(run, iter, n, b, G)
<1> DEFINE good == {k \in 0 .. n : /\ iter[1 .. k] \in T
                                   /\ k > 0 => iter[1 .. k] = G[k][iter[1 .. k - 1]]}
<1>1. 0 \in good /\ iter[1 .. 0] = b
  <2>1. 1 .. 0 = {}
    OBVIOUS
  <2> QED
    BY <2>1 DEF FoldStep
<1>2. ASSUME NEW k \in 1 .. n, k - 1 \in good
      PROVE  k \in good
  <2>1. Top(1 .. k) = k
    <3>1. k \in 1 .. k /\ \A y \in 1 .. k : y \in Int /\ y <= k
      OBVIOUS
    <3> QED
      BY <3>1, TopIs
  <2>2. (1 .. k) \ {k} = 1 .. k - 1 /\ 1 .. k # {} /\ 1 .. k \in SUBSET (1 .. n)
    OBVIOUS
  <2>3. iter[1 .. k - 1] \in T
    BY <1>2
  <2>4. iter[1 .. k] = G[k][iter[1 .. k - 1]]
    <3> DEFINE S == 1 .. k
    <3>1. S \in SUBSET (1 .. n) /\ S # {} /\ S \ {Top(S)} = 1 .. k - 1 /\ Top(S) = k
      BY <2>1, <2>2
    <3> HIDE DEF S
    <3>2. iter[S] = G[Top(S)][iter[S \ {Top(S)}]]
      BY <2>3, <3>1 DEF FoldStep
    <3> QED
      BY <3>1, <3>2 DEF S
  <2>5. G[k] \in [T -> T]
    OBVIOUS
  <2> QED
    BY <2>3, <2>4, <2>5
<1> HIDE DEF good
<1>3. 0 .. n \subseteq good
  BY <1>1, <1>2, UpTo
<1> DEFINE run == [k \in 0 .. n |-> iter[1 .. k]]
<1>4. run \in [0 .. n -> T]
  BY <1>3 DEF good
<1>5. run[0] = b /\ iter[1 .. n] = run[n]
  BY <1>1
<1>6. \A k \in 1 .. n : run[k] = G[k][run[k - 1]]
  BY <1>3 DEF good
<1> QED
  BY <1>4, <1>5, <1>6 DEF FoldRun

(* ... and where the values an element takes depend on what came before:   *)
(* T[S] is where the fold over the indices S is.                           *)
FoldWithin(T, n, b, G) ==
  /\ b \in T[{}]
  /\ \A S \in SUBSET (1 .. n) : S # {} => \A x \in T[S \ {Top(S)}] : G[Top(S)][x] \in T[S]

LEMMA FoldGrows ==
  ASSUME NEW n \in Nat, NEW U, NEW T, \A S \in SUBSET (1 .. n) : T[S] \subseteq U,
         NEW b, NEW G, FoldWithin(T, n, b, G)
  PROVE  \E g \in [SUBSET (1 .. n) -> U] : Folds(g, n, b, G) /\ \A S \in SUBSET (1 .. n) : g[S] \in T[S]
<1> DEFINE in(k, x) == IF G[k][x] \in U THEN G[k][x] ELSE x
           H == [k \in 1 .. n |-> [x \in U |-> in(k, x)]]
<1>1. H \in [1 .. n -> [U -> U]]
  OBVIOUS
<1>2. b \in T[{}] /\ {} \in SUBSET (1 .. n)
  BY DEF FoldWithin
<1>3. b \in U
  BY <1>2
<1>4. \A k \in 1 .. n, x \in U : G[k][x] \in U => H[k][x] = G[k][x]
  OBVIOUS
<1> HIDE DEF H
<1>5. PICK g \in [SUBSET (1 .. n) -> U] : Folds(g, n, b, H)
  BY <1>1, <1>3, FoldExists
<1> DEFINE good == {k \in 0 .. n : \A S \in SUBSET (1 .. k) : g[S] \in T[S]}
<1>6. g[{}] = b
  BY <1>2, <1>5 DEF Folds
<1>7. 0 \in good
  <2>1. \A S \in SUBSET (1 .. 0) : S = {}
    OBVIOUS
  <2>2. \A S \in SUBSET (1 .. 0) : g[S] \in T[S]
    BY <1>2, <1>6, <2>1
  <2> QED
    BY <2>2
<1>8. \A S \in SUBSET (1 .. n) : S # {} => Top(S) \in S /\ S \ {Top(S)} \in SUBSET (1 .. n)
  BY TopInside
<1>9. ASSUME NEW S \in SUBSET (1 .. n), S # {}, g[S \ {Top(S)}] \in T[S \ {Top(S)}]
      PROVE  g[S] \in T[S] /\ g[S] = G[Top(S)][g[S \ {Top(S)}]]
  <2> DEFINE k == Top(S)
             R == S \ {k}
  <2>1. k \in 1 .. n /\ R \in SUBSET (1 .. n)
    BY <1>8, <1>9
  <2>2. g[S] = H[k][g[R]] /\ g[R] \in U
    BY <1>5, <1>9, <2>1 DEF Folds
  <2>3. G[k][g[R]] \in T[S]
    BY <1>9 DEF FoldWithin
  <2> HIDE DEF k, R
  <2>4. G[k][g[R]] \in U
    BY <2>3
  <2>5. g[S] = G[k][g[R]]
    BY <1>4, <2>1, <2>2, <2>4
  <2> QED
    BY <2>3, <2>5 DEF k, R
<1>10. ASSUME NEW k \in 1 .. n, k - 1 \in good
       PROVE  k \in good
  <2> SUFFICES ASSUME NEW S \in SUBSET (1 .. k)
               PROVE  g[S] \in T[S]
    BY <1>10
  <2>1. CASE S = {}
    BY <1>2, <1>6, <2>1
  <2>2. CASE S # {}
    <3>1. S \in SUBSET (1 .. n)
      OBVIOUS
    <3>2. Top(S) \in S /\ \A y \in S : Top(S) >= y
      <4>1. IsFiniteSet(1 .. k)
        <5>1. k \in Int
          OBVIOUS
        <5> QED
          BY <5>1, InitialSegment
      <4>2. IsFiniteSet(S)
        BY <4>1, FS_Subset
      <4>3. S \subseteq Int
        OBVIOUS
      <4>4. PICK y \in S : \A x \in S : y >= x
        BY <2>2, <4>2, <4>3, Extremes
      <4> QED
        BY <4>4 DEF Top
    <3>3. S \ {Top(S)} \in SUBSET (1 .. k - 1)
      <4> DEFINE t == Top(S)
      <4> HIDE DEF t
      <4>1. t \in 1 .. k /\ \A y \in S \ {t} : y \in 1 .. k /\ t >= y /\ y # t
        BY <3>2 DEF t
      <4>2. \A y \in S \ {t} : y \in 1 .. k - 1
        BY <4>1
      <4>3. S \ {t} \in SUBSET (1 .. k - 1)
        BY <4>2
      <4> QED
        BY <4>3 DEF t
    <3>4. g[S \ {Top(S)}] \in T[S \ {Top(S)}]
      BY <1>10, <3>3
    <3> QED
      BY <1>9, <2>2, <3>1, <3>4
  <2> QED
    BY <2>1, <2>2
<1> HIDE DEF good
<1>11. 0 .. n \subseteq good
  BY <1>7, <1>10, UpTo
<1>12. \A S \in SUBSET (1 .. n) : g[S] \in T[S]
  <2>1. n \in good
    BY <1>11
  <2> QED
    BY <2>1 DEF good
<1>13. ASSUME NEW S \in SUBSET (1 .. n)
       PROVE  g[S] = IF S = {} THEN b ELSE G[Top(S)][g[S \ {Top(S)}]]
  BY <1>6, <1>8, <1>9, <1>12
<1>14. Folds(g, n, b, G)
  BY <1>13 DEF Folds
<1> QED
  BY <1>5, <1>12, <1>14

(* Two running totals that start alike and grow alike are alike.           *)
GrowTogether(f, g, n) ==
  /\ f[0] = g[0]
  /\ \A k \in 1 .. n : f[k - 1] = g[k - 1] => f[k] = g[k]

LEMMA GrowAlike ==
  ASSUME NEW n \in Nat, NEW f, NEW g, GrowTogether(f, g, n)
  PROVE  f[n] = g[n]
<1> DEFINE S == {k \in 0 .. n : f[k] = g[k]}
<1>1. 0 \in S
  BY DEF GrowTogether
<1>2. \A k \in 1 .. n : k - 1 \in S => k \in S
  BY DEF GrowTogether
<1>3. 0 .. n \subseteq S
  BY <1>1, <1>2, UpTo
<1> QED
  BY <1>3

-----------------------------------------------------------------------------
(* Lists of batches, records with a list reqs *)

(* The batches of a pipeline hold nothing twice. *)
BatchesApart(q) ==
  /\ \A i \in DOMAIN q : Distinct(q[i].reqs)
  /\ \A i, j \in DOMAIN q : i # j => Items(q[i].reqs) \cap Items(q[j].reqs) = {}

InPipeline(q) == UNION {Items(q[i].reqs) : i \in DOMAIN q}

LEMMA PipelineMarked ==
  ASSUME NEW q, NEW p, DOMAIN p = DOMAIN q, \A i \in DOMAIN q : p[i].reqs = q[i].reqs
  PROVE  (BatchesApart(q) => BatchesApart(p)) /\ InPipeline(p) = InPipeline(q)
BY DEF BatchesApart, InPipeline

LEMMA PipelineAppended ==
  ASSUME NEW T, NEW q \in Seq(T), NEW b \in T
  PROVE  /\ InPipeline(Append(q, b)) = InPipeline(q) \cup Items(b.reqs)
         /\ BatchesApart(q) /\ Distinct(b.reqs) /\ Items(b.reqs) \cap InPipeline(q) = {}
              => BatchesApart(Append(q, b))
<1> DEFINE p == Append(q, b)
           n == Len(q)
<1>1. /\ n \in Nat /\ DOMAIN q = 1 .. n /\ DOMAIN p = 1 .. n + 1
      /\ p[n + 1] = b
      /\ \A i \in 1 .. n : p[i] = q[i]
  OBVIOUS
<1> HIDE DEF p, n
<1>2. InPipeline(p) = InPipeline(q) \cup Items(b.reqs)
  <2>1. \A i \in 1 .. n + 1 : i \in 1 .. n \/ i = n + 1
    BY <1>1
  <2>2. \A i \in 1 .. n : i \in 1 .. n + 1
    BY <1>1
  <2>3. n + 1 \in 1 .. n + 1
    BY <1>1
  <2> QED
    BY <1>1, <2>1, <2>2, <2>3 DEF InPipeline
<1>3. ASSUME BatchesApart(q), Distinct(b.reqs), Items(b.reqs) \cap InPipeline(q) = {}
      PROVE  BatchesApart(p)
  <2>1. ASSUME NEW i \in 1 .. n + 1 PROVE Distinct(p[i].reqs)
    BY <1>1, <1>3 DEF BatchesApart
  <2>2. ASSUME NEW i \in 1 .. n PROVE Items(q[i].reqs) \subseteq InPipeline(q)
    BY <1>1 DEF InPipeline
  <2>3. ASSUME NEW i \in 1 .. n + 1, NEW j \in 1 .. n + 1, i # j
        PROVE  Items(p[i].reqs) \cap Items(p[j].reqs) = {}
    <3>1. CASE i = n + 1
      BY <1>1, <1>3, <2>2, <2>3, <3>1
    <3>2. CASE j = n + 1
      BY <1>1, <1>3, <2>2, <2>3, <3>2
    <3>3. CASE i \in 1 .. n /\ j \in 1 .. n
      BY <1>1, <1>3, <2>3, <3>3 DEF BatchesApart
    <3> QED
      BY <1>1, <3>1, <3>2, <3>3
  <2> QED
    BY <1>1, <2>1, <2>3 DEF BatchesApart
<1> QED
  BY <1>2, <1>3 DEF p

LEMMA PipelineRemoved ==
  ASSUME NEW T, NEW q \in Seq(T), NEW i \in DOMAIN q, BatchesApart(q)
  PROVE  LET p == SubSeq(q, 1, i - 1) \o SubSeq(q, i + 1, Len(q))
         IN  BatchesApart(p) /\ InPipeline(p) = InPipeline(q) \ Items(q[i].reqs)
<1> DEFINE p == SubSeq(q, 1, i - 1) \o SubSeq(q, i + 1, Len(q))
           n == Len(q)
           at(j) == IF j < i THEN j ELSE j + 1
<1>1. n \in Nat /\ DOMAIN q = 1 .. n /\ i \in 1 .. n
  OBVIOUS
<1>2. p \in Seq(T) /\ Len(p) = n - 1 /\ \A j \in 1 .. n - 1 : p[j] = q[at(j)]
  <2>1. /\ p \in Seq(T) /\ Len(p) = n - 1
        /\ \A j \in 1 .. Len(p) : p[j] = IF j < i THEN q[j] ELSE q[j + 1]
    BY <1>1, RemovedAt
  <2> HIDE DEF p, n
  <2> QED
    BY <2>1
<1> HIDE DEF p, n
<1>3. DOMAIN p = 1 .. n - 1
  BY <1>1, <1>2
<1>4. \A j \in 1 .. n - 1 : at(j) \in 1 .. n /\ at(j) # i
  BY <1>1
<1>5. \A j, k \in 1 .. n - 1 : j # k => at(j) # at(k)
  BY <1>1
<1>6. \A k \in 1 .. n : k = i \/ \E j \in 1 .. n - 1 : k = at(j)
  <2> SUFFICES ASSUME NEW k \in 1 .. n, k # i
               PROVE  \E j \in 1 .. n - 1 : k = at(j)
    OBVIOUS
  <2>1. CASE k < i
    BY <1>1, <2>1
  <2>2. CASE k > i
    <3>1. k - 1 \in 1 .. n - 1 /\ k = at(k - 1)
      BY <1>1, <2>2
    <3> QED
      BY <3>1
  <2> QED
    BY <1>1, <2>1, <2>2
<1>7. \A j \in 1 .. n - 1 : p[j] = q[at(j)]
  BY <1>2 DEF at
<1>8. DOMAIN p = 1 .. n - 1
  BY <1>3
<1> HIDE DEF at
<1>9. BatchesApart(p)
  <2>1. ASSUME NEW j \in 1 .. n - 1 PROVE Distinct(p[j].reqs)
    BY <1>1, <1>4, <1>7, <2>1 DEF BatchesApart
  <2>2. ASSUME NEW j \in 1 .. n - 1, NEW k \in 1 .. n - 1, j # k
        PROVE  Items(p[j].reqs) \cap Items(p[k].reqs) = {}
    <3>1. p[j] = q[at(j)] /\ p[k] = q[at(k)] /\ at(j) \in DOMAIN q /\ at(k) \in DOMAIN q
      BY <1>1, <1>4, <1>7
    <3>2. at(j) # at(k)
      BY <1>5, <2>2
    <3>3. \A x, y \in DOMAIN q : x # y => Items(q[x].reqs) \cap Items(q[y].reqs) = {}
      BY DEF BatchesApart
    <3> QED
      BY <3>1, <3>2, <3>3
  <2> QED
    BY <1>8, <2>1, <2>2 DEF BatchesApart
<1>10. InPipeline(p) \subseteq InPipeline(q) \ Items(q[i].reqs)
  <2> SUFFICES ASSUME NEW x \in InPipeline(p)
               PROVE  x \in InPipeline(q) \ Items(q[i].reqs)
    OBVIOUS
  <2>1. PICK j \in 1 .. n - 1 : x \in Items(p[j].reqs)
    BY <1>8 DEF InPipeline
  <2>2. x \in Items(q[at(j)].reqs) /\ at(j) \in DOMAIN q /\ at(j) # i
    BY <1>1, <1>4, <1>7, <2>1
  <2>3. Items(q[at(j)].reqs) \cap Items(q[i].reqs) = {}
    BY <2>2 DEF BatchesApart
  <2> QED
    BY <2>2, <2>3 DEF InPipeline
<1>11. InPipeline(q) \ Items(q[i].reqs) \subseteq InPipeline(p)
  <2> SUFFICES ASSUME NEW x \in InPipeline(q), x \notin Items(q[i].reqs)
               PROVE  x \in InPipeline(p)
    OBVIOUS
  <2>1. PICK k \in 1 .. n : x \in Items(q[k].reqs)
    BY <1>1 DEF InPipeline
  <2>2. k # i
    BY <2>1
  <2>3. PICK j \in 1 .. n - 1 : k = at(j)
    BY <1>6, <2>2
  <2>4. j \in DOMAIN p /\ x \in Items(p[j].reqs)
    BY <1>7, <1>8, <2>1, <2>3
  <2> QED
    BY <2>4 DEF InPipeline
<1> QED
  BY <1>9, <1>10, <1>11 DEF p, n

(* Everything of the set all is in one of four places, once: it has not    *)
(* come yet, waits in a queue, is in a batch of the pipeline, or is done.  *)
QueuePlacement(all, pend, queue, pipe, fin) ==
  /\ Distinct(queue) /\ BatchesApart(pipe)
  /\ pend \cup Items(queue) \cup InPipeline(pipe) \cup fin = all
  /\ pend \cap (Items(queue) \cup InPipeline(pipe) \cup fin) = {}
  /\ Items(queue) \cap (InPipeline(pipe) \cup fin) = {}
  /\ InPipeline(pipe) \cap fin = {}
=============================================================================
