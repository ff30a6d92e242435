----------------------- MODULE PrefixScheduler_proofs -----------------------
(***************************************************************************)
(* Proofs about PrefixScheduler, for every dataset and all limits with     *)
(* chunked prefill: types, the place of every request, when it ends, and   *)
(* radix trees that keep their shape and agree with the byte counters.     *)
(***************************************************************************)
EXTENDS PrefixScheduler, Lists_proofs

-----------------------------------------------------------------------------
(* Prefixes *)

Keys == Seq(Nat)
Names == Keys \X Nat

(* Two lists agree on a prefix when they agree on its elements.            *)
LEMMA PrefixAlike ==
  ASSUME NEW p \in Keys, NEW q \in Keys, NEW n \in Nat, n <= Len(p), n <= Len(q)
  PROVE  Prefix(p, n) = Prefix(q, n) <=> \A i \in 1 .. n : p[i] = q[i]
<1>1. /\ Prefix(p, n) \in Keys /\ Len(Prefix(p, n)) = n
      /\ \A i \in 1 .. n : Prefix(p, n)[i] = p[i]
  BY PrefixProperties DEF Keys
<1>2. /\ Prefix(q, n) \in Keys /\ Len(Prefix(q, n)) = n
      /\ \A i \in 1 .. n : Prefix(q, n)[i] = q[i]
  BY PrefixProperties DEF Keys
<1> DEFINE a == Prefix(p, n)
           b == Prefix(q, n)
<1> HIDE DEF a, b
<1>3. ASSUME \A i \in 1 .. n : p[i] = q[i]
      PROVE  a = b
  <2>1. a \in Seq(Nat) /\ b \in Seq(Nat) /\ Len(a) = Len(b) /\ \A i \in 1 .. Len(a) : a[i] = b[i]
    BY <1>1, <1>2, <1>3 DEF a, b, Keys
  <2> QED
    BY <2>1, SeqEqual
<1>4. ASSUME a = b
      PROVE  \A i \in 1 .. n : p[i] = q[i]
  BY <1>1, <1>2, <1>4 DEF a, b
<1> QED
  BY <1>3, <1>4 DEF a, b

(* The whole list is its longest prefix. *)
LEMMA PrefixWhole ==
  ASSUME NEW p \in Keys
  PROVE  Prefix(p, Len(p)) = p
<1> DEFINE a == Prefix(p, Len(p))
<1>1. Len(p) \in 0 .. Len(p)
  BY DEF Keys
<1>2. a \in Seq(Nat) /\ Len(a) = Len(p) /\ \A i \in 1 .. Len(a) : a[i] = p[i]
  BY <1>1, PrefixProperties DEF Keys
<1> HIDE DEF a
<1>3. p \in Seq(Nat)
  BY DEF Keys
<1> QED
  BY <1>2, <1>3, SeqEqual DEF a

(* Two lists agree on what they have in common. *)
LEMMA CommonAgrees ==
  ASSUME NEW p \in Keys, NEW q \in Keys
  PROVE  /\ Common(p, q) \in Nat /\ Common(p, q) <= Len(p) /\ Common(p, q) <= Len(q)
         /\ \A i \in 1 .. Common(p, q) : p[i] = q[i]
<1> DEFINE top == Least(Len(p), Len(q))
           S == {i \in 1 .. top : Prefix(p, i) = Prefix(q, i)}
<1>1. Len(p) \in Nat /\ Len(q) \in Nat /\ top \in Nat /\ top <= Len(p) /\ top <= Len(q)
  BY DEF Keys, Least
<1>2. IsFiniteSet(1 .. top)
  BY <1>1, FS_Interval
<1>3. S \in SUBSET (1 .. top)
  OBVIOUS
<1> HIDE DEF S, top
<1>4. IsFiniteSet(S) /\ S \subseteq Int
  <2>1. IsFiniteSet(S)
    BY <1>2, <1>3, FS_Subset
  <2>2. S \subseteq Int
    BY <1>1, <1>3
  <2> QED
    BY <2>1, <2>2
<1>5. \A n \in 1 .. top : n \in S <=> \A i \in 1 .. n : p[i] = q[i]
  <2> SUFFICES ASSUME NEW n \in 1 .. top
               PROVE  Prefix(p, n) = Prefix(q, n) <=> \A i \in 1 .. n : p[i] = q[i]
    BY DEF S
  <2>1. n \in Nat /\ n <= Len(p) /\ n <= Len(q)
    BY <1>1
  <2> QED
    BY <2>1, PrefixAlike
<1>6. Common(p, q) = Cardinality(S)
  BY DEF Common, S, top
<1>7. CASE S = {}
  <2>1. Common(p, q) = 0
    BY <1>6, <1>7, FS_EmptySet
  <2> QED
    BY <1>1, <2>1
<1>8. CASE S # {}
  <2>1. PICK n \in S : \A i \in S : n >= i
    BY <1>4, <1>8, Extremes
  <2>2. n \in 1 .. top
    BY <1>3, <2>1
  <2>3. S = 1 .. n
    <3>1. S \subseteq 1 .. n
      BY <1>1, <1>3, <2>1
    <3>2. ASSUME NEW i \in 1 .. n
          PROVE  i \in S
      <4>1. i \in 1 .. top /\ \A j \in 1 .. i : j \in 1 .. n
        BY <1>1, <2>2
      <4> QED
        BY <1>5, <2>1, <2>2, <4>1
    <3> QED
      BY <3>1, <3>2
  <2>4. Cardinality(1 .. n) = n
    <3>1. n \in Int /\ 1 \in Int /\ ~(1 > n) /\ n - 1 + 1 = n
      BY <2>2
    <3> QED
      BY <3>1, FS_Interval
  <2> QED
    BY <1>1, <1>5, <1>6, <2>2, <2>3, <2>4
<1> QED
  BY <1>7, <1>8

(* Whole pages are no more than the tokens. *)
LEMMA PagedBounds ==
  ASSUME NEW n \in Nat, NEW page \in Nat \ {0}
  PROVE  Paged(n, page) \in 0 .. n
<1>1. (n \div page) \in Nat /\ page * (n \div page) <= n
  OBVIOUS
<1>2. (n \div page) * page = page * (n \div page) /\ (n \div page) * page \in Nat
  BY <1>1
<1> QED
  BY <1>1, <1>2 DEF Paged

(* A list starts another one when it is no longer and agrees with it.      *)
LEMMA StartsWith ==
  ASSUME NEW p \in Keys, NEW q \in Keys
  PROVE  IsPrefixOf(p, q) <=> Len(p) <= Len(q) /\ \A i \in 1 .. Len(p) : p[i] = q[i]
<1>1. Len(p) \in Nat /\ Len(q) \in Nat /\ Prefix(p, Len(p)) = p
  BY PrefixWhole DEF Keys
<1>2. CASE Len(p) <= Len(q)
  <2>1. Prefix(p, Len(p)) = Prefix(q, Len(p)) <=> \A i \in 1 .. Len(p) : p[i] = q[i]
    BY <1>1, <1>2, PrefixAlike
  <2> QED
    BY <1>1, <1>2, <2>1 DEF IsPrefixOf
<1>3. CASE ~(Len(p) <= Len(q))
  BY <1>3 DEF IsPrefixOf
<1> QED
  BY <1>2, <1>3

LEMMA PrefixOrder ==
  ASSUME NEW p \in Keys, NEW q \in Keys, NEW r \in Keys
  PROVE  /\ IsPrefixOf(p, q) /\ IsPrefixOf(q, r) => IsPrefixOf(p, r)
         /\ IsPrefixOf(p, r) /\ IsPrefixOf(q, r) /\ Len(p) <= Len(q) => IsPrefixOf(p, q)
         /\ IsPrefixOf(p, q) /\ Len(q) <= Len(p) => p = q
<1>1. Len(p) \in Nat /\ Len(q) \in Nat /\ Len(r) \in Nat
  BY DEF Keys
<1>2. /\ IsPrefixOf(p, q) <=> Len(p) <= Len(q) /\ \A i \in 1 .. Len(p) : p[i] = q[i]
      /\ IsPrefixOf(q, r) <=> Len(q) <= Len(r) /\ \A i \in 1 .. Len(q) : q[i] = r[i]
      /\ IsPrefixOf(p, r) <=> Len(p) <= Len(r) /\ \A i \in 1 .. Len(p) : p[i] = r[i]
  BY StartsWith
<1>3. ASSUME IsPrefixOf(p, q), IsPrefixOf(q, r)
      PROVE  IsPrefixOf(p, r)
  BY <1>1, <1>2, <1>3
<1>4. ASSUME IsPrefixOf(p, r), IsPrefixOf(q, r), Len(p) <= Len(q)
      PROVE  IsPrefixOf(p, q)
  BY <1>1, <1>2, <1>4
<1>5. ASSUME IsPrefixOf(p, q), Len(q) <= Len(p)
      PROVE  p = q
  <2>1. Len(p) = Len(q) /\ p = Prefix(q, Len(p))
    BY <1>1, <1>5 DEF IsPrefixOf
  <2>2. Prefix(q, Len(q)) = q
    BY PrefixWhole
  <2> QED
    BY <2>1, <2>2
<1> QED
  BY <1>3, <1>4, <1>5

(* What two lists have in common is the longest start they share.          *)
LEMMA CommonLongest ==
  ASSUME NEW p \in Keys, NEW q \in Keys, NEW n \in Nat, n <= Len(p), n <= Len(q),
         \A i \in 1 .. n : p[i] = q[i]
  PROVE  n <= Common(p, q)
<1> DEFINE top == Least(Len(p), Len(q))
           S == {i \in 1 .. top : Prefix(p, i) = Prefix(q, i)}
<1>1. Len(p) \in Nat /\ Len(q) \in Nat /\ top \in Nat /\ n <= top /\ top <= Len(p) /\ top <= Len(q)
  BY DEF Keys, Least
<1>2. IsFiniteSet(1 .. top)
  BY <1>1, InitialSegment
<1>3. S \in SUBSET (1 .. top)
  OBVIOUS
<1>4. ASSUME NEW i \in 1 .. n
      PROVE  i \in S
  <2>1. i \in 1 .. top /\ i \in Nat /\ i <= Len(p) /\ i <= Len(q) /\ \A j \in 1 .. i : p[j] = q[j]
    BY <1>1
  <2>2. Prefix(p, i) = Prefix(q, i)
    BY <2>1, PrefixAlike
  <2> QED
    BY <2>1, <2>2
<1>5. Common(p, q) = Cardinality(S)
  BY DEF Common
<1> HIDE DEF S, top
<1>6. IsFiniteSet(S)
  BY <1>2, <1>3, FS_Subset
<1>7. 1 .. n \in SUBSET S
  BY <1>4
<1>8. Cardinality(1 .. n) <= Cardinality(S)
  BY <1>6, <1>7, FS_Subset
<1> QED
  BY <1>5, <1>8, IntervalSize

(* A longer list has no less in common with another one.                   *)
LEMMA CommonGrows ==
  ASSUME NEW p \in Keys, NEW q \in Keys, NEW r \in Keys, IsPrefixOf(p, q)
  PROVE  Common(p, r) <= Common(q, r) /\ Common(r, p) <= Common(r, q)
<1>1. Len(p) \in Nat /\ Len(q) \in Nat /\ Len(p) <= Len(q) /\ \A i \in 1 .. Len(p) : p[i] = q[i]
  BY StartsWith DEF Keys
<1>2. Common(p, r) <= Common(q, r)
  <2>1. /\ Common(p, r) \in Nat /\ Common(p, r) <= Len(p) /\ Common(p, r) <= Len(r)
        /\ \A i \in 1 .. Common(p, r) : p[i] = r[i]
    BY CommonAgrees
  <2>2. Common(p, r) <= Len(q) /\ \A i \in 1 .. Common(p, r) : q[i] = r[i]
    BY <1>1, <2>1
  <2> QED
    BY <2>1, <2>2, CommonLongest
<1>3. Common(r, p) <= Common(r, q)
  <2>1. /\ Common(r, p) \in Nat /\ Common(r, p) <= Len(r) /\ Common(r, p) <= Len(p)
        /\ \A i \in 1 .. Common(r, p) : r[i] = p[i]
    BY CommonAgrees
  <2>2. Common(r, p) <= Len(q) /\ \A i \in 1 .. Common(r, p) : r[i] = q[i]
    BY <1>1, <2>1
  <2> QED
    BY <2>1, <2>2, CommonLongest
<1> QED
  BY <1>2, <1>3

(* Whole pages, and what is less than a page more.                         *)
LEMMA Multiples ==
  ASSUME NEW page \in Nat \ {0}, NEW k \in Int
  PROVE  (page * k) % page = 0
<1> DEFINE n == page * k
           q == n \div page
           r == n % page
           d == k - q
<1>1. n \in Int
  OBVIOUS
<1> HIDE DEF n
<1>2. q \in Int /\ r \in 0 .. page - 1 /\ n = page * q + r
  BY <1>1
<1> HIDE DEF q, r
<1>3. d \in Int /\ page * d = r
  <2>1. page * (k - q) = page * k - page * q
    BY <1>2
  <2> QED
    BY <1>2, <2>1 DEF n
<1> HIDE DEF d
<1>4. CASE d >= 1
  <2>1. page * d >= page
    BY <1>3, <1>4
  <2> QED
    BY <1>2, <1>3, <2>1
<1>5. CASE d <= -1
  <2>1. page * (-d) >= page
    BY <1>3, <1>5
  <2>2. page * (-d) = -(page * d)
    BY <1>3
  <2> QED
    BY <1>2, <1>3, <2>1, <2>2
<1>6. CASE d = 0
  <2>1. r = 0
    BY <1>3, <1>6
  <2> QED
    BY <2>1 DEF r, n
<1> QED
  BY <1>3, <1>4, <1>5, <1>6

LEMMA PagedIs ==
  ASSUME NEW n \in Nat, NEW page \in Nat \ {0}
  PROVE  Paged(n, page) % page = 0 /\ n < Paged(n, page) + page
<1> DEFINE q == n \div page
           r == n % page
<1>1. q \in Nat /\ r \in 0 .. page - 1 /\ n = page * q + r
  OBVIOUS
<1>2. Paged(n, page) = q * page
  BY DEF Paged
<1> HIDE DEF q, r
<1>3. q * page = page * q /\ page * q \in Nat
  BY <1>1
<1>4. (page * q) % page = 0
  BY <1>1, Multiples
<1>5. n < page * q + page
  BY <1>1, <1>3
<1>6. Paged(n, page) = page * q
  BY <1>2, <1>3
<1> QED
  BY <1>4, <1>5, <1>6

LEMMA MultiplesApart ==
  ASSUME NEW page \in Nat \ {0}, NEW a \in Nat, NEW b \in Nat, a % page = 0, b % page = 0
  PROVE  (a - b) % page = 0
<1>1. a = page * (a \div page) /\ b = page * (b \div page) /\ a \div page \in Int /\ b \div page \in Int
  OBVIOUS
<1> DEFINE x == a \div page
           y == b \div page
<1>2. a = page * x /\ b = page * y /\ x \in Int /\ y \in Int
  BY <1>1
<1> HIDE DEF x, y
<1>3. a - b = page * (x - y) /\ x - y \in Int
  BY <1>2
<1> QED
  BY <1>3, Multiples

-----------------------------------------------------------------------------
(* Radix trees *)

NodeType == [up : Names, lock : Int, live : BOOLEAN]
TreeType ==
  [node : UNION {[D -> NodeType] : D \in SUBSET Names},
   evictable : Int, protected : Int, stored : Nat, removed : Nat]

(* A tree has finitely many objects, and its root is never evicted.        *)
Trees == {t \in TreeType : IsFiniteSet(DOMAIN t.node) /\ Root \in Live(t)}

LEMMA TreeParts ==
  ASSUME NEW t \in Trees
  PROVE  /\ t \in TreeType
         /\ DOMAIN t.node \in SUBSET Names /\ t.node \in [DOMAIN t.node -> NodeType]
         /\ IsFiniteSet(DOMAIN t.node) /\ Root \in Live(t)
         /\ t.evictable \in Int /\ t.protected \in Int /\ t.stored \in Nat /\ t.removed \in Nat
<1>1. t \in TreeType /\ IsFiniteSet(DOMAIN t.node) /\ Root \in Live(t)
  BY DEF Trees
<1>2. t.node \in UNION {[D -> NodeType] : D \in SUBSET Names}
  BY <1>1 DEF TreeType
<1>3. PICK D \in SUBSET Names : t.node \in [D -> NodeType]
  BY <1>2
<1>4. DOMAIN t.node = D
  BY <1>3
<1>5. t.evictable \in Int /\ t.protected \in Int /\ t.stored \in Nat /\ t.removed \in Nat
  BY <1>1 DEF TreeType
<1> QED
  BY <1>1, <1>3, <1>4, <1>5

LEMMA TreeFrom ==
  ASSUME NEW t \in TreeType, NEW D \in SUBSET Names, IsFiniteSet(D), t.node \in [D -> NodeType],
         Root \in D, t.node[Root].live
  PROVE  t \in Trees
<1>1. DOMAIN t.node = D
  OBVIOUS
<1>2. Root \in Live(t)
  BY <1>1 DEF Live
<1> QED
  BY <1>1, <1>2 DEF Trees

(* Live nodes are objects with a name.                                     *)
LEMMA LiveNodes ==
  ASSUME NEW t \in Trees
  PROVE  /\ Live(t) \subseteq DOMAIN t.node /\ Live(t) \subseteq Names
         /\ IsFiniteSet(Live(t))
         /\ \A n \in Live(t) : Path(n) \in Keys
<1>1. DOMAIN t.node \in SUBSET Names /\ IsFiniteSet(DOMAIN t.node)
  BY TreeParts
<1>2. Live(t) \in SUBSET (DOMAIN t.node)
  BY DEF Live
<1>3. IsFiniteSet(Live(t))
  BY <1>1, <1>2, FS_Subset
<1>4. \A n \in Names : Path(n) \in Keys
  BY DEF Names, Path
<1> QED
  BY <1>1, <1>2, <1>3, <1>4

(* The tokens of any finite set of nodes can be counted.                   *)
LEMMA KeysLenNat ==
  ASSUME NEW t \in Trees, NEW S \in SUBSET (DOMAIN t.node)
  PROVE  KeysLen(t, S) \in Nat
<1> DEFINE f == [n \in S |-> 1 .. KeyLen(t, n)]
<1>1. IsFiniteSet(S)
  <2>1. IsFiniteSet(DOMAIN t.node)
    BY TreeParts
  <2> QED
    BY <2>1, FS_Subset
<1>2. ASSUME NEW n \in S
      PROVE  IsFiniteSet(1 .. KeyLen(t, n))
  <2>1. n \in Names /\ t.node[n].up \in Names
    BY TreeParts DEF NodeType
  <2>2. \A m \in Names : Len(Path(m)) \in Nat
    BY DEF Names, Path, Keys
  <2>3. KeyLen(t, n) \in Int
    BY <2>1, <2>2 DEF KeyLen
  <2> QED
    BY <2>3, FS_Interval
<1>3. DOMAIN f = S /\ \A n \in S : f[n] = 1 .. KeyLen(t, n)
  OBVIOUS
<1>4. KeysLen(t, S) = Cardinality(Pairs(f))
  BY DEF KeysLen
<1> HIDE DEF f
<1> QED
  BY <1>1, <1>2, <1>3, <1>4, PairsFinite

(* A radix tree: every node but the root hangs in the tree below a shorter *)
(* prefix of its own, prefixes are whole pages, and no two nodes start the *)
(* same page under one parent.                                             *)
Above(t, n) ==
  /\ t.node[n].up \in Live(t) /\ IsPrefixOf(Path(t.node[n].up), Path(n))
  /\ Len(Path(t.node[n].up)) < Len(Path(n))
Parted(t, n, m, page) == Common(Path(n), Path(m)) < Len(Path(t.node[n].up)) + page
Shaped(t, page) ==
  /\ t.node[Root].up = Root
  /\ \A n \in Live(t) : Len(Path(n)) % page = 0
  /\ \A n \in Live(t) \ {Root} : Above(t, n)
  /\ \A n, m \in Live(t) \ {Root} :
       n # m /\ t.node[n].up = t.node[m].up => Parted(t, n, m, page)
Sound(page) == {t \in Trees : Shaped(t, page)}

(* What the byte counters know of a tree: its size but for the events that *)
(* wait in its queue.                                                      *)
Booked(t) == Size(t) - t.stored + t.removed

LEMMA ShapedIsTree ==
  ASSUME NEW page \in Nat \ {0}, NEW t \in Sound(page)
  PROVE  IsTree(t, page)
<1>1. t \in Trees /\ Shaped(t, page)
  BY DEF Sound
<1>2. ASSUME NEW n \in Live(t) \ {Root}
      PROVE  /\ t.node[n].up \in Live(t) /\ IsPrefixOf(Path(t.node[n].up), Path(n))
             /\ KeyLen(t, n) > 0 /\ KeyLen(t, n) % page = 0
  <2>1. /\ t.node[n].up \in Live(t) /\ IsPrefixOf(Path(t.node[n].up), Path(n))
        /\ Len(Path(t.node[n].up)) < Len(Path(n))
        /\ Len(Path(n)) % page = 0 /\ Len(Path(t.node[n].up)) % page = 0
    BY <1>1 DEF Shaped, Above
  <2>2. Len(Path(n)) \in Nat /\ Len(Path(t.node[n].up)) \in Nat
    BY <1>1, <2>1, LiveNodes DEF Keys
  <2>3. (Len(Path(n)) - Len(Path(t.node[n].up))) % page = 0
    BY <2>1, <2>2, MultiplesApart
  <2> DEFINE a == Len(Path(n))
             b == Len(Path(t.node[n].up))
  <2>4. KeyLen(t, n) = a - b
    BY DEF KeyLen
  <2>5. a - b > 0
    <3> HIDE DEF a, b
    <3>1. a \in Nat /\ b \in Nat /\ b < a
      BY <2>1, <2>2 DEF a, b
    <3> QED
      BY <3>1
  <2> QED
    BY <2>1, <2>3, <2>4, <2>5
<1>3. \A n, m \in Live(t) \ {Root} :
        n # m /\ t.node[n].up = t.node[m].up =>
          Common(Path(n), Path(m)) < Len(Path(t.node[n].up)) + page
  BY <1>1 DEF Shaped, Parted
<1> QED
  BY <1>2, <1>3 DEF IsTree

(* The tokens of nodes: of one, of two sets together, and in two trees in  *)
(* which they hang alike.                                                  *)
LEMMA KeyLenIs ==
  ASSUME NEW t \in Trees, NEW n \in DOMAIN t.node
  PROVE  /\ Path(n) \in Keys /\ Path(t.node[n].up) \in Keys
         /\ KeyLen(t, n) = Len(Path(n)) - Len(Path(t.node[n].up)) /\ KeyLen(t, n) \in Int
<1>1. n \in Names /\ t.node[n] \in NodeType
  BY TreeParts
<1>2. n \in Names /\ t.node[n].up \in Names
  BY <1>1 DEF NodeType
<1>3. \A m \in Names : Path(m) \in Keys /\ Len(Path(m)) \in Nat
  BY DEF Names, Path, Keys
<1> QED
  BY <1>2, <1>3 DEF KeyLen

LEMMA KeysLenSum ==
  ASSUME NEW t \in Trees, NEW A \in SUBSET (DOMAIN t.node), NEW C \in SUBSET (DOMAIN t.node),
         A \cap C = {}
  PROVE  KeysLen(t, A \cup C) = KeysLen(t, A) + KeysLen(t, C)
<1> DEFINE f == [n \in A \cup C |-> 1 .. KeyLen(t, n)]
<1>1. IsFiniteSet(A \cup C)
  <2>1. IsFiniteSet(DOMAIN t.node) /\ A \cup C \in SUBSET (DOMAIN t.node)
    BY TreeParts
  <2> QED
    BY <2>1, FS_Subset
<1>2. \A n \in A \cup C : IsFiniteSet(1 .. KeyLen(t, n))
  BY KeyLenIs, InitialSegment
<1>3. DOMAIN f = A \cup C /\ \A n \in A \cup C : f[n] = 1 .. KeyLen(t, n)
  OBVIOUS
<1>4. KeysLen(t, A \cup C) = Cardinality(Pairs(f))
  BY DEF KeysLen
<1>5. /\ KeysLen(t, A) = Cardinality(Pairs([n \in A |-> f[n]]))
      /\ KeysLen(t, C) = Cardinality(Pairs([n \in C |-> f[n]]))
  <2>1. /\ [n \in A |-> f[n]] = [n \in A |-> 1 .. KeyLen(t, n)]
        /\ [n \in C |-> f[n]] = [n \in C |-> 1 .. KeyLen(t, n)]
    BY <1>3
  <2> QED
    BY <2>1 DEF KeysLen
<1> HIDE DEF f
<1>6. \A n \in DOMAIN f : IsFiniteSet(f[n])
  BY <1>2, <1>3
<1>7. Cardinality(Pairs(f)) = Cardinality(Pairs([n \in A |-> f[n]])) + Cardinality(Pairs([n \in C |-> f[n]]))
  BY <1>1, <1>3, <1>6, PairsSplit
<1> QED
  BY <1>4, <1>5, <1>7

LEMMA KeysLenOne ==
  ASSUME NEW t \in Trees, NEW n, KeyLen(t, n) \in Nat
  PROVE  KeysLen(t, {n}) = KeyLen(t, n)
<1> DEFINE f == [m \in {n} |-> 1 .. KeyLen(t, m)]
<1>1. DOMAIN f = {n} /\ f[n] = 1 .. KeyLen(t, n)
  OBVIOUS
<1>2. KeysLen(t, {n}) = Cardinality(Pairs(f))
  BY DEF KeysLen
<1> HIDE DEF f
<1> QED
  BY <1>1, <1>2, PairsSingle

LEMMA KeysLenAlike ==
  ASSUME NEW t, NEW u, NEW S, \A n \in S : KeyLen(t, n) = KeyLen(u, n)
  PROVE  KeysLen(t, S) = KeysLen(u, S)
<1>1. [n \in S |-> 1 .. KeyLen(t, n)] = [n \in S |-> 1 .. KeyLen(u, n)]
  OBVIOUS
<1> QED
  BY <1>1 DEF KeysLen

(* The size of a tree is a number, as that of a part of it. *)
LEMMA SizeNat ==
  ASSUME NEW t \in Trees
  PROVE  Size(t) \in Nat /\ Booked(t) \in Int
<1>1. Live(t) \in SUBSET (DOMAIN t.node)
  BY LiveNodes
<1>2. Size(t) \in Nat
  BY <1>1, KeysLenNat DEF Size
<1>3. t.stored \in Nat /\ t.removed \in Nat
  BY TreeParts
<1> QED
  BY <1>2, <1>3 DEF Booked

LEMMA EmptyTreeIs == EmptyTree \in Trees
<1> DEFINE t == EmptyTree
<1>1. Root \in Names
  <2>1. <<>> \in Seq(Nat) /\ 0 \in Nat
    OBVIOUS
  <2> QED
    BY <2>1 DEF Root, Names, Keys
<1>2. t.node \in [{Root} -> NodeType] /\ t.node[Root].live
  BY <1>1 DEF EmptyTree, NodeType
<1>3. {Root} \in SUBSET Names /\ IsFiniteSet({Root})
  BY <1>1, FS_Singleton
<1>4. t \in TreeType
  <2> DEFINE node == t.node
             S == UNION {[D -> NodeType] : D \in SUBSET Names}
  <2>1. node \in S
    BY <1>2, <1>3
  <2>2. t = [node |-> node, evictable |-> 0, protected |-> 0, stored |-> 0, removed |-> 0]
    BY DEF EmptyTree
  <2> HIDE DEF node, S, t
  <2>3. t \in [node : S, evictable : Int, protected : Int, stored : Nat, removed : Nat]
    BY <2>1, <2>2
  <2> QED
    BY <2>3 DEF TreeType, S
<1> HIDE DEF t
<1> QED
  BY <1>2, <1>3, <1>4, TreeFrom DEF t

(* A match ends at a prefix of the key that some node continues.           *)
LEMMA HitIsPrefix ==
  ASSUME NEW t \in Trees, NEW key \in Keys, NEW page \in Nat \ {0}
  PROVE  /\ HitLength(t, key, page) \in 0 .. Len(key)
         /\ Hit(t, key, page) \in Keys
         /\ Len(Hit(t, key, page)) = HitLength(t, key, page)
         /\ \E n \in Live(t) : IsPrefixOf(Hit(t, key, page), Path(n))
<1> DEFINE len(n) == Paged(Common(Path(n), key), page)
           S == {len(n) : n \in Live(t)}
           h == HitLength(t, key, page)
<1>1. Len(key) \in Nat
  BY DEF Keys
<1>2. ASSUME NEW n \in Live(t)
      PROVE  /\ Path(n) \in Keys
             /\ len(n) \in 0 .. Len(key) /\ len(n) <= Common(Path(n), key)
  <2>1. Path(n) \in Keys
    BY LiveNodes
  <2>2. Common(Path(n), key) \in Nat /\ Common(Path(n), key) <= Len(key)
    BY <2>1, CommonAgrees
  <2>3. len(n) \in 0 .. Common(Path(n), key)
    BY <2>2, PagedBounds
  <2> QED
    BY <1>1, <2>1, <2>2, <2>3
<1>3. S \in SUBSET (0 .. Len(key))
  BY <1>2
<1>4. S # {}
  BY TreeParts
<1>5. h = Max(S)
  BY DEF HitLength
<1> HIDE DEF S, h
<1>6. h \in S
  <2>1. IsFiniteSet(0 .. Len(key))
    BY <1>1, FS_Interval
  <2>2. IsFiniteSet(S)
    BY <1>3, <2>1, FS_Subset
  <2>3. S \subseteq Int
    BY <1>3
  <2>4. \E x \in S : \A y \in S : x >= y
    BY <1>4, <2>2, <2>3, Extremes
  <2> QED
    BY <1>5, <2>4 DEF Max
<1>7. PICK n \in Live(t) : h = len(n)
  BY <1>6 DEF S
<1>8. h \in 0 .. Len(key) /\ h <= Common(Path(n), key) /\ Path(n) \in Keys
  BY <1>2, <1>7
<1> DEFINE p == Path(n)
<1> HIDE DEF len, p
<1>9. h \in Nat /\ h <= Len(key) /\ h <= Len(p) /\ \A i \in 1 .. h : p[i] = key[i]
  <2>1. p \in Keys /\ h <= Common(p, key) /\ h \in Nat /\ h <= Len(key)
    BY <1>1, <1>8 DEF p
  <2>2. Common(p, key) \in Nat /\ Common(p, key) <= Len(p) /\ \A i \in 1 .. Common(p, key) : p[i] = key[i]
    BY <2>1, CommonAgrees
  <2>3. Len(p) \in Nat
    BY <2>1 DEF Keys
  <2> QED
    BY <2>1, <2>2, <2>3
<1>10. Prefix(p, h) = Prefix(key, h)
  BY <1>8, <1>9, PrefixAlike DEF p
<1>11. Prefix(key, h) \in Keys /\ Len(Prefix(key, h)) = h
  BY <1>8, PrefixProperties DEF Keys
<1>12. Hit(t, key, page) = Prefix(key, h)
  BY DEF Hit, h
<1>13. IsPrefixOf(Hit(t, key, page), Path(n))
  BY <1>9, <1>10, <1>11, <1>12 DEF IsPrefixOf, p
<1> QED
  BY <1>8, <1>11, <1>12, <1>13 DEF h


(* A name nobody has had.                                                  *)
LEMMA NewNodeIs ==
  ASSUME NEW t \in Trees, NEW p \in Keys
  PROVE  /\ NewNode(t, p) \in Names
         /\ NewNode(t, p) \notin DOMAIN t.node
         /\ Path(NewNode(t, p)) = p
<1> DEFINE D == DOMAIN t.node
           n == Cardinality(D)
           K == {k \in 0 .. n : <<p, k>> \notin D}
<1>1. IsFiniteSet(D) /\ n \in Nat
  BY TreeParts, FS_CardinalityType
<1>2. NewNode(t, p) = <<p, Min(K)>>
  BY DEF NewNode
<1>3. K \in SUBSET (0 .. n)
  OBVIOUS
<1>4. \A k \in 0 .. n : k \notin K => <<p, k>> \in D
  OBVIOUS
<1>5. \A k \in K : <<p, k>> \notin D
  OBVIOUS
<1> HIDE DEF K, D, n
<1>6. IsFiniteSet(0 .. n) /\ Cardinality(0 .. n) = n + 1
  <2>1. 0 \in Int /\ n \in Int /\ ~(0 > n) /\ n - 0 + 1 = n + 1
    BY <1>1
  <2> QED
    BY <2>1, FS_Interval
<1>7. K # {}
  <2> SUFFICES ASSUME K = {}
               PROVE  FALSE
    OBVIOUS
  <2> DEFINE f == [k \in 0 .. n |-> <<p, k>>]
  <2>1. f \in [0 .. n -> D]
    BY <1>4
  <2>2. \A x, y \in 0 .. n : x # y => f[x] # f[y]
    OBVIOUS
  <2>3. Cardinality(D) < Cardinality(0 .. n)
    BY <1>1, <1>6 DEF n
  <2> HIDE DEF f
  <2>4. \E x, y \in 0 .. n : x # y /\ f[x] = f[y]
    BY <1>1, <1>6, <2>1, <2>3, FS_PigeonHole
  <2> QED
    BY <2>2, <2>4
<1>8. Min(K) \in K
  <2>1. IsFiniteSet(K)
    BY <1>3, <1>6, FS_Subset
  <2>2. K \subseteq Int
    BY <1>3
  <2>3. \E x \in K : \A y \in K : x =< y
    BY <1>7, <2>1, <2>2, Extremes
  <2> QED
    BY <2>3 DEF Min
<1>9. PICK k \in K : k = Min(K)
  BY <1>8
<1>10. k \in Nat /\ <<p, k>> \notin D
  BY <1>3, <1>5
<1>11. NewNode(t, p) = <<p, k>>
  BY <1>2, <1>9
<1> QED
  BY <1>10, <1>11 DEF D, Names, Path

(* The highest of the nodes that continue p.                               *)
LEMMA HighestIs ==
  ASSUME NEW t \in Trees, NEW S \in SUBSET Live(t), S # {}
  PROVE  Highest(S) \in S /\ \A m \in S : Len(Path(Highest(S))) <= Len(Path(m))
<1> DEFINE len == [n \in S |-> Len(Path(n))]
           L == {len[n] : n \in S}
<1>1. len \in Surjection(S, L)
  <2>1. len \in [S -> L] /\ \A l \in L : \E n \in S : len[n] = l
    OBVIOUS
  <2> HIDE DEF len, L
  <2> QED
    BY <2>1, Fun_IsSurj
<1>2. IsFiniteSet(S)
  BY LiveNodes, FS_Subset
<1>3. \A n \in S : len[n] = Len(Path(n)) /\ len[n] \in Nat
  BY LiveNodes DEF Keys
<1> HIDE DEF len
<1>4. L \subseteq Int /\ L # {}
  BY <1>3
<1>5. \A n \in S : len[n] \in L
  OBVIOUS
<1>6. \A l \in L : \E n \in S : l = len[n]
  OBVIOUS
<1> HIDE DEF L
<1>7. IsFiniteSet(L)
  BY <1>1, <1>2, FS_Surjection
<1>8. PICK l \in L : \A k \in L : l =< k
  BY <1>4, <1>7, Extremes
<1>9. \E n \in S : \A m \in S : Len(Path(n)) <= Len(Path(m))
  <2>1. PICK n \in S : l = len[n]
    BY <1>6, <1>8
  <2>2. \A m \in S : l =< len[m]
    BY <1>5, <1>8
  <2> QED
    BY <1>3, <2>1, <2>2
<1> QED
  BY <1>9 DEF Highest

(* A new object does not change the others.                                *)
Nodes(D, node) ==
  D \in SUBSET Names /\ IsFiniteSet(D) /\ node \in [D -> NodeType]
Extends(node, D, new, record, big) ==
  /\ Nodes(D \cup {new}, big)
  /\ big[new] = record
  /\ \A n \in D : n # new => big[n] = node[n]

LEMMA WithIs ==
  ASSUME NEW D, NEW node, Nodes(D, node), NEW new \in Names, NEW record \in NodeType
  PROVE  Extends(node, D, new, record, With(node, new, record))
<1>1. DOMAIN node = D
  BY DEF Nodes
<1>2. IsFiniteSet(D \cup {new})
  BY FS_AddElement DEF Nodes
<1> QED
  BY <1>1, <1>2 DEF With, Nodes, Extends

(* A split: new comes above child, the highest node that continues p.      *)
SplitsAt(t, u, p, child, new) ==
  /\ child \in Live(t) /\ IsPrefixOf(p, Path(child))
  /\ \A n \in Live(t) : Path(n) # p /\ (IsPrefixOf(p, Path(n)) => Len(Path(child)) <= Len(Path(n)))
  /\ new \in Names /\ new \notin DOMAIN t.node /\ Path(new) = p
  /\ Live(u) = Live(t) \cup {new}
  /\ u.node[child].up = new /\ u.node[new].up = t.node[child].up
  /\ \A n \in Live(t) \ {child} : u.node[n].up = t.node[n].up

(* Splitting the node a match ends in: a node ends there, nobody leaves.   *)
LEMMA SplitIs ==
  ASSUME NEW t \in Trees, NEW p \in Keys, \E n \in Live(t) : IsPrefixOf(p, Path(n))
  PROVE  /\ Split(t, p) \in Trees
         /\ \E n \in Live(Split(t, p)) : Path(n) = p
         /\ Live(t) \subseteq Live(Split(t, p))
         /\ Split(t, p).stored = t.stored /\ Split(t, p).removed = t.removed
         /\ Split(t, p) = t \/ \E child, new : SplitsAt(t, Split(t, p), p, child, new)
<1>1. CASE \E n \in Live(t) : Path(n) = p
  BY <1>1 DEF Split
<1>2. CASE ~ \E n \in Live(t) : Path(n) = p
  <2> DEFINE S == {n \in Live(t) : IsPrefixOf(p, Path(n))}
             child == Highest(S)
             new == NewNode(t, p)
             D == DOMAIN t.node
             up == [t.node EXCEPT ![child].up = new]
             record == [up |-> t.node[child].up, lock |-> t.node[child].lock, live |-> TRUE]
             node == With(up, new, record)
             u == [t EXCEPT !.node = node]
  <2>1. Split(t, p) = u
    BY <1>2 DEF Split, SplitNode
  <2>2. /\ child \in Live(t) /\ IsPrefixOf(p, Path(child))
        /\ \A n \in Live(t) : IsPrefixOf(p, Path(n)) => Len(Path(child)) <= Len(Path(n))
    <3>1. S \in SUBSET Live(t) /\ S # {}
      OBVIOUS
    <3>2. \A n \in Live(t) : n \in S <=> IsPrefixOf(p, Path(n))
      OBVIOUS
    <3> HIDE DEF S
    <3>3. child \in S /\ \A n \in S : Len(Path(child)) <= Len(Path(n))
      BY <3>1, HighestIs
    <3> QED
      BY <3>1, <3>2, <3>3
  <2>3. new \in Names /\ new \notin D /\ Path(new) = p
    BY NewNodeIs
  <2>4. /\ D \in SUBSET Names /\ t.node \in [D -> NodeType] /\ IsFiniteSet(D)
        /\ Root \in Live(t) /\ t \in TreeType
    BY TreeParts
  <2>5. child \in D
    BY <2>2 DEF Live
  <2> HIDE DEF child, new, D
  <2>6. up \in [D -> NodeType] /\ \A n \in D : up[n].live = t.node[n].live
    BY <2>3, <2>4, <2>5 DEF NodeType
  <2>13. up[child].up = new /\ \A n \in D \ {child} : up[n].up = t.node[n].up
    BY <2>3, <2>4, <2>5 DEF NodeType
  <2>7. record \in NodeType /\ record.live /\ record.up = t.node[child].up
    BY <2>4, <2>5 DEF NodeType
  <2> HIDE DEF up, record
  <2>8. /\ node \in [D \cup {new} -> NodeType] /\ D \cup {new} \in SUBSET Names
        /\ IsFiniteSet(D \cup {new}) /\ node[new].live /\ node[new].up = t.node[child].up
        /\ \A n \in D : node[n].live = t.node[n].live /\ node[n] = up[n]
    <3>1. /\ node \in [D \cup {new} -> NodeType] /\ D \cup {new} \in SUBSET Names
          /\ IsFiniteSet(D \cup {new}) /\ node[new] = record
          /\ \A n \in D : n # new => node[n] = up[n]
      <4>1. Nodes(D, up) /\ new \in Names /\ record \in NodeType
        BY <2>3, <2>4, <2>6, <2>7 DEF Nodes
      <4>2. Extends(up, D, new, record, node)
        BY <4>1, WithIs
      <4> QED
        BY <4>2 DEF Extends, Nodes
    <3> QED
      BY <2>3, <2>6, <2>7, <3>1
  <2> HIDE DEF node
  <2>9. u \in TreeType /\ u.node = node /\ u.stored = t.stored /\ u.removed = t.removed
    BY <2>4, <2>8 DEF TreeType
  <2> HIDE DEF u
  <2>10. Root \in D /\ t.node[Root].live
    BY <2>4 DEF Live, D
  <2>11. u \in Trees
    BY <2>8, <2>9, <2>10, TreeFrom
  <2>12. Live(u) = Live(t) \cup {new}
    <3>1. DOMAIN u.node = D \cup {new}
      BY <2>8, <2>9
    <3>2. \A n \in D \cup {new} : u.node[n].live <=> n = new \/ t.node[n].live
      BY <2>3, <2>8, <2>9
    <3> QED
      BY <2>3, <2>8, <2>9, <3>1, <3>2 DEF Live, D
  <2>14. \A n \in Live(t) : n \in D
    BY DEF Live, D
  <2>15. /\ u.node[child].up = new /\ u.node[new].up = t.node[child].up
         /\ \A n \in Live(t) \ {child} : u.node[n].up = t.node[n].up
    BY <2>5, <2>8, <2>9, <2>13, <2>14
  <2>16. new \notin DOMAIN t.node
    BY <2>3 DEF D
  <2>17. SplitsAt(t, u, p, child, new)
    BY <1>2, <2>2, <2>3, <2>12, <2>15, <2>16 DEF SplitsAt
  <2> QED
    BY <2>1, <2>3, <2>9, <2>11, <2>12, <2>17
<1> QED
  BY <1>1, <1>2


LEMMA NodeAtIs ==
  ASSUME NEW t, NEW p, \E n \in Live(t) : Path(n) = p
  PROVE  NodeAt(t, p) \in Live(t) /\ Path(NodeAt(t, p)) = p
BY DEF NodeAt

(* What match_prefix leaves, and the node it returns.                      *)
LEMMA MatchedIs ==
  ASSUME NEW t \in Trees, NEW key \in Keys, NEW page \in Nat \ {0}
  PROVE  /\ Matched(t, key, page) \in Trees
         /\ \E n \in Live(Matched(t, key, page)) : Path(n) = Hit(t, key, page)
         /\ Live(t) \subseteq Live(Matched(t, key, page))
         /\ Matched(t, key, page).stored = t.stored /\ Matched(t, key, page).removed = t.removed
         /\ MatchNode(t, key, page) \in Names
         /\ \/ Matched(t, key, page) = t
            \/ \E child, new : SplitsAt(t, Matched(t, key, page), Hit(t, key, page), child, new)
<1>1. PICK p \in Keys : p = Hit(t, key, page) /\ \E n \in Live(t) : IsPrefixOf(p, Path(n))
  BY HitIsPrefix
<1>2. Matched(t, key, page) = Split(t, p)
  BY <1>1 DEF Matched
<1>3. /\ Split(t, p) \in Trees /\ \E n \in Live(Split(t, p)) : Path(n) = p
      /\ Live(t) \subseteq Live(Split(t, p))
      /\ Split(t, p).stored = t.stored /\ Split(t, p).removed = t.removed
      /\ Split(t, p) = t \/ \E child, new : SplitsAt(t, Split(t, p), p, child, new)
  BY <1>1, SplitIs
<1>4. NodeAt(Split(t, p), p) \in Names
  BY <1>3, NodeAtIs, LiveNodes
<1>5. MatchNode(t, key, page) = NodeAt(Split(t, p), p)
  BY <1>1, <1>2 DEF MatchNode
<1> QED
  BY <1>1, <1>2, <1>3, <1>4, <1>5

(* A leaf new for the rest of a key comes under the node a match ends at.  *)
GrowsAt(t, w, key, hit, new) ==
  /\ hit < Len(key) /\ new \in Names /\ new \notin DOMAIN t.node /\ Path(new) = key
  /\ Live(w) = Live(t) \cup {new}
  /\ w.node[new].up \in Live(t) /\ Path(w.node[new].up) = Prefix(key, hit)
  /\ \A n \in Live(t) : w.node[n].up = t.node[n].up
  /\ w.stored = t.stored + Len(key) - hit /\ w.removed = t.removed

(* insert: the tree has a node for the whole key, and what is new counts.  *)
LEMMA InsertIs ==
  ASSUME NEW t \in Trees, NEW key \in Keys, NEW page \in Nat \ {0}
  PROVE  /\ Insert(t, key, page) \in Trees
         /\ \E n \in Live(Insert(t, key, page)) : Path(n) = key
         /\ \/ Insert(t, key, page) = Matched(t, key, page)
            \/ \E new : GrowsAt(Matched(t, key, page), Insert(t, key, page), key,
                                HitLength(t, key, page), new)
<1> DEFINE hit == HitLength(t, key, page)
           u == Matched(t, key, page)
<1>1. /\ u \in Trees /\ \E n \in Live(u) : Path(n) = Prefix(key, hit)
      /\ hit \in 0 .. Len(key)
  BY MatchedIs, HitIsPrefix DEF Hit
<1>2. Insert(t, key, page) = Grown(u, key, hit)
  BY DEF Insert
<1> HIDE DEF u, hit
<1>3. Len(key) \in Nat
  BY DEF Keys
<1>4. CASE hit = Len(key)
  <2>1. Grown(u, key, hit) = u
    BY <1>4 DEF Grown
  <2>2. Prefix(key, hit) = key
    BY <1>4, PrefixWhole
  <2> QED
    BY <1>1, <1>2, <2>1, <2>2 DEF u
<1>5. CASE hit # Len(key)
  <2> DEFINE D == DOMAIN u.node
             new == NewNode(u, key)
             record == [up |-> NodeAt(u, Prefix(key, hit)), lock |-> 0, live |-> TRUE]
             node == With(u.node, new, record)
             k == Len(key) - hit
             v == [u EXCEPT !.node = node, !.evictable = @ + Len(key) - hit]
             w == [v EXCEPT !.stored = @ + k]
  <2>1. Grown(u, key, hit) = w
    BY <1>5 DEF Grown, RecordStore
  <2>2. new \in Names /\ new \notin D /\ Path(new) = key
    BY <1>1, NewNodeIs
  <2>3. u \in TreeType /\ Nodes(D, u.node) /\ Root \in Live(u) /\ u.stored \in Nat /\ u.evictable \in Int
    BY <1>1, TreeParts DEF Nodes
  <2>4. /\ NodeAt(u, Prefix(key, hit)) \in Live(u) /\ NodeAt(u, Prefix(key, hit)) \in Names
        /\ Path(NodeAt(u, Prefix(key, hit))) = Prefix(key, hit)
    BY <1>1, NodeAtIs, LiveNodes
  <2>5. record \in NodeType /\ record.live /\ record.up = NodeAt(u, Prefix(key, hit))
    BY <2>4 DEF NodeType
  <2> HIDE DEF new, D, record
  <2>6. Extends(u.node, D, new, record, node)
    BY <2>2, <2>3, <2>5, WithIs
  <2> HIDE DEF node
  <2>7. node \in [D \cup {new} -> NodeType] /\ D \cup {new} \in SUBSET Names /\ IsFiniteSet(D \cup {new})
    BY <2>6 DEF Extends, Nodes
  <2>8. k \in Nat /\ u.evictable + Len(key) - hit \in Int
    BY <1>1, <1>3, <1>5, <2>3
  <2>9. v \in TreeType /\ v.node = node /\ v.stored = u.stored /\ v.removed = u.removed
    BY <2>3, <2>7, <2>8 DEF TreeType
  <2>14. u.stored + k = u.stored + Len(key) - hit
    BY <1>1, <1>3, <2>3
  <2> HIDE DEF v, k
  <2>10. w \in TreeType /\ w.node = node /\ w.stored = u.stored + Len(key) - hit /\ w.removed = u.removed
    <3>1. v.stored + k \in Nat
      BY <2>3, <2>8, <2>9
    <3> QED
      BY <2>9, <2>14, <3>1 DEF TreeType
  <2> HIDE DEF w
  <2>11. Root \in D /\ node[Root].live
    BY <2>2, <2>3, <2>6 DEF Live, D, Extends
  <2>12. w \in Trees
    BY <2>7, <2>10, <2>11, TreeFrom
  <2>13. DOMAIN w.node = D \cup {new} /\ w.node[new] = record /\ \A n \in D : w.node[n] = u.node[n]
    BY <2>2, <2>6, <2>7, <2>10 DEF Extends
  <2>15. Live(w) = Live(u) \cup {new}
    BY <2>2, <2>5, <2>13 DEF Live, D
  <2>16. \A n \in Live(u) : w.node[n].up = u.node[n].up
    BY <2>13 DEF Live, D
  <2>17. hit < Len(key)
    BY <1>1, <1>3, <1>5
  <2>18. new \notin DOMAIN u.node
    BY <2>2 DEF D
  <2>19. w.node[new].up \in Live(u) /\ Path(w.node[new].up) = Prefix(key, hit)
    BY <2>4, <2>5, <2>13
  <2>20. GrowsAt(u, w, key, hit, new)
    BY <2>2, <2>10, <2>15, <2>16, <2>17, <2>18, <2>19 DEF GrowsAt
  <2> QED
    BY <1>2, <2>1, <2>2, <2>12, <2>15, <2>20 DEF u, hit
<1> QED
  BY <1>4, <1>5

(* The tree keeps its nodes where they are, and its queue.                 *)
Unmoved(t, u) ==
  /\ Live(u) = Live(t) /\ \A n \in Live(t) : u.node[n].up = t.node[n].up
  /\ u.stored = t.stored /\ u.removed = t.removed

(* Locks, whatever nodes they are on: objects stay as they are otherwise.  *)
Rehung(t, node) ==
  \A n \in DOMAIN t.node : node[n].live = t.node[n].live /\ node[n].up = t.node[n].up

LEMMA RelockIs ==
  ASSUME NEW t \in Trees, NEW S, NEW by \in Int
  PROVE  Relock(t, S, by) \in [DOMAIN t.node -> NodeType] /\ Rehung(t, Relock(t, S, by))
<1> DEFINE D == DOMAIN t.node
<1>1. t.node \in [D -> NodeType]
  BY TreeParts
<1>2. ASSUME NEW n \in D
      PROVE  /\ [t.node[n] EXCEPT !.lock = @ + by] \in NodeType
             /\ [t.node[n] EXCEPT !.lock = @ + by].live = t.node[n].live
             /\ [t.node[n] EXCEPT !.lock = @ + by].up = t.node[n].up
  <2>1. t.node[n] \in NodeType
    BY <1>1
  <2> QED
    BY <2>1 DEF NodeType
<1>3. \A n \in D : t.node[n] \in NodeType
  BY <1>1
<1> HIDE DEF D
<1>4. DOMAIN Relock(t, S, by) = D /\ \A n \in D : Relock(t, S, by)[n] \in {t.node[n], [t.node[n] EXCEPT !.lock = @ + by]}
  BY DEF Relock, D
<1> QED
  BY <1>2, <1>3, <1>4 DEF Relock, Rehung, D

LEMMA ProtectIs ==
  ASSUME NEW t \in Trees, NEW node \in [DOMAIN t.node -> NodeType], NEW k \in Int, Rehung(t, node)
  PROVE  /\ Protect([t EXCEPT !.node = node], k) \in Trees
         /\ Unmoved(t, Protect([t EXCEPT !.node = node], k))
<1> DEFINE D == DOMAIN t.node
           v == [t EXCEPT !.node = node]
           w == [v EXCEPT !.evictable = @ - k, !.protected = @ + k]
<1>1. t \in TreeType /\ Nodes(D, t.node) /\ Root \in Live(t)
  BY TreeParts DEF Nodes
<1>2. D \in SUBSET Names /\ IsFiniteSet(D) /\ node \in [D -> NodeType]
  BY <1>1 DEF Nodes
<1>3. Root \in D /\ node[Root].live
  BY <1>1 DEF Live, Rehung
<1>8. DOMAIN node = D /\ DOMAIN t.node = D /\ \A n \in D : node[n].live = t.node[n].live /\ node[n].up = t.node[n].up
  BY DEF Rehung
<1> HIDE DEF D
<1>4. v \in TreeType /\ v.node = node /\ v.stored = t.stored /\ v.removed = t.removed
  BY <1>1, <1>2 DEF TreeType
<1> HIDE DEF v
<1>5. v.evictable - k \in Int /\ v.protected + k \in Int
  BY <1>4 DEF TreeType
<1>6. w \in TreeType /\ w.node = node /\ w.stored = t.stored /\ w.removed = t.removed
  BY <1>4, <1>5 DEF TreeType
<1> HIDE DEF w
<1>7. w \in Trees
  BY <1>2, <1>3, <1>6, TreeFrom
<1>9. Live(w) = Live(t) /\ \A n \in Live(t) : w.node[n].up = t.node[n].up
  BY <1>6, <1>8 DEF Live
<1> QED
  BY <1>6, <1>7, <1>9 DEF Protect, Unmoved, w, v

LEMMA LockIs ==
  ASSUME NEW t \in Trees, NEW n
  PROVE  /\ IncLock(t, n) \in Trees /\ Unmoved(t, IncLock(t, n))
         /\ DecLock(t, n) \in Trees /\ Unmoved(t, DecLock(t, n))
<1> DEFINE S == Chain(t, n)
           zero == {m \in DOMAIN t.node : m \in S /\ t.node[m].lock = 0}
           one == {m \in DOMAIN t.node : m \in S /\ t.node[m].lock = 1}
<1>1. KeysLen(t, zero) \in Int /\ -KeysLen(t, one) \in Int
  <2>1. zero \in SUBSET (DOMAIN t.node) /\ one \in SUBSET (DOMAIN t.node)
    OBVIOUS
  <2> HIDE DEF zero, one
  <2>2. KeysLen(t, zero) \in Nat /\ KeysLen(t, one) \in Nat
    BY <2>1, KeysLenNat
  <2> QED
    BY <2>2
<1> HIDE DEF S, zero, one
<1> DEFINE up == Protect([t EXCEPT !.node = Relock(t, S, 1)], KeysLen(t, zero))
           down == Protect([t EXCEPT !.node = Relock(t, S, -1)], -KeysLen(t, one))
<1>2. up \in Trees /\ Unmoved(t, up)
  <2>1. 1 \in Int
    OBVIOUS
  <2> QED
    BY <1>1, <2>1, RelockIs, ProtectIs
<1>3. down \in Trees /\ Unmoved(t, down)
  <2>1. -1 \in Int
    OBVIOUS
  <2> QED
    BY <1>1, <2>1, RelockIs, ProtectIs
<1>4. IncLock(t, n) = up /\ DecLock(t, n) = down
  BY DEF IncLock, DecLock, IncLockOf, DecLockOf, S, zero, one
<1> HIDE DEF up, down
<1> QED
  BY <1>2, <1>3, <1>4

(* Eviction removes nodes of the tree, never the root.                     *)
LEMMA EvictionsAre ==
  ASSUME NEW t \in Trees, NEW k, NEW R \in Evictions(t, k)
  PROVE  R \in SUBSET (Live(t) \ {Root})
BY DEF Evictions, EvictionsAmong, Removable

(* R is gone from tree t, and its tokens are in the queue.                 *)
Loses(t, w, R) ==
  /\ Live(w) = Live(t) \ R /\ \A n \in Live(t) : w.node[n].up = t.node[n].up
  /\ w.stored = t.stored /\ w.removed = t.removed + KeysLen(t, R)

LEMMA DeleteIs ==
  ASSUME NEW t \in Trees, NEW R \in SUBSET (Live(t) \ {Root})
  PROVE  Delete(t, R) \in Trees /\ Loses(t, Delete(t, R), R)
<1> DEFINE D == DOMAIN t.node
           node == [n \in D |-> [t.node[n] EXCEPT !.live = @ /\ n \notin R]]
           k == KeysLen(t, R)
           v == [t EXCEPT !.node = node, !.evictable = @ - k]
           w == [v EXCEPT !.removed = @ + k]
<1>1. t \in TreeType /\ D \in SUBSET Names /\ IsFiniteSet(D) /\ t.node \in [D -> NodeType] /\ Root \in Live(t)
  BY TreeParts
<1>2. k \in Nat
  <2>1. R \in SUBSET D
    BY DEF Live
  <2> QED
    BY <2>1, KeysLenNat
<1>3. ASSUME NEW n \in D
      PROVE  [t.node[n] EXCEPT !.live = @ /\ n \notin R] \in NodeType
  <2>1. t.node[n] \in NodeType
    BY <1>1
  <2>2. t.node[n].live \in BOOLEAN /\ (t.node[n].live /\ n \notin R) \in BOOLEAN
    BY <2>1 DEF NodeType
  <2> QED
    BY <2>1, <2>2 DEF NodeType
<1>4. node \in [D -> NodeType]
  BY <1>3
<1>5. Root \in D /\ node[Root].live
  <2>1. Root \in D /\ t.node[Root].live /\ t.node[Root] \in NodeType /\ Root \notin R
    BY <1>1 DEF Live
  <2> QED
    BY <2>1 DEF NodeType
<1>6. Delete(t, R) = w
  BY DEF Delete, RecordRemove
<1>9. \A n \in D : (node[n].live <=> t.node[n].live /\ n \notin R) /\ node[n].up = t.node[n].up
  <2> SUFFICES ASSUME NEW n \in D
               PROVE  (node[n].live <=> t.node[n].live /\ n \notin R) /\ node[n].up = t.node[n].up
    OBVIOUS
  <2>1. t.node[n] \in NodeType
    BY <1>1
  <2> QED
    BY <2>1 DEF NodeType
<1>10. DOMAIN t.node = D /\ DOMAIN node = D /\ t.removed \in Nat
  BY <1>1 DEF TreeType
<1> HIDE DEF D, node
<1>11. k = KeysLen(t, R)
  OBVIOUS
<1> HIDE DEF k
<1>7. v \in TreeType /\ v.node = node /\ v.stored = t.stored /\ v.removed = t.removed
  <2>1. t.evictable - k \in Int
    BY <1>1, <1>2 DEF TreeType
  <2> QED
    BY <1>1, <1>4, <2>1 DEF TreeType
<1> HIDE DEF v
<1>8. w \in TreeType /\ w.node = node /\ w.stored = t.stored /\ w.removed = t.removed + k
  <2>1. v.removed + k \in Nat
    BY <1>2, <1>7 DEF TreeType
  <2> QED
    BY <1>7, <2>1 DEF TreeType
<1> HIDE DEF w
<1>12. Live(w) = Live(t) \ R /\ \A n \in Live(t) : w.node[n].up = t.node[n].up
  BY <1>8, <1>9, <1>10 DEF Live
<1>13. Loses(t, w, R)
  BY <1>8, <1>11, <1>12 DEF Loses
<1>14. w \in Trees
  BY <1>1, <1>4, <1>5, <1>8, TreeFrom
<1> QED
  BY <1>6, <1>13, <1>14

LEMMA TakenIs ==
  ASSUME NEW t \in Trees
  PROVE  /\ Taken(t) \in Trees /\ Live(Taken(t)) = Live(t) /\ Taken(t).node = t.node
         /\ Taken(t).stored = 0 /\ Taken(t).removed = 0
<1> DEFINE w == [t EXCEPT !.stored = 0, !.removed = 0]
<1>1. t \in TreeType /\ IsFiniteSet(DOMAIN t.node) /\ Root \in Live(t)
  BY TreeParts
<1>2. w \in TreeType /\ w.node = t.node /\ w.stored = 0 /\ w.removed = 0
  BY <1>1 DEF TreeType
<1> QED
  BY <1>1, <1>2 DEF Trees, Taken, Live

(* What is forgotten is not in the tree.                                   *)
LEMMA ReachableIs ==
  ASSUME NEW t \in Trees, NEW held
  PROVE  Reachable(t, held) \in Trees /\ Unmoved(t, Reachable(t, held))
<1> DEFINE kept == Live(t) \cup UNION {Chain(t, n) : n \in held}
           D == DOMAIN t.node \cap kept
           node == [n \in D |-> t.node[n]]
           w == [t EXCEPT !.node = node]
<1>1. /\ t \in TreeType /\ DOMAIN t.node \in SUBSET Names /\ IsFiniteSet(DOMAIN t.node)
      /\ t.node \in [DOMAIN t.node -> NodeType] /\ Root \in Live(t)
  BY TreeParts
<1>2. Reachable(t, held) = w
  BY DEF Reachable
<1>3. D \in SUBSET (DOMAIN t.node) /\ Root \in kept /\ Live(t) \subseteq D
  BY <1>1 DEF Live
<1> HIDE DEF kept
<1>4. IsFiniteSet(D)
  <2> HIDE DEF D
  <2> QED
    BY <1>1, <1>3, FS_Subset
<1>5. node \in [D -> NodeType] /\ D \in SUBSET Names
  BY <1>1, <1>3
<1>6. Root \in D /\ node[Root].live
  BY <1>1, <1>3 DEF Live
<1>8. DOMAIN node = D /\ \A n \in D : node[n] = t.node[n]
  OBVIOUS
<1> HIDE DEF D, node
<1>7. w \in TreeType /\ w.node = node /\ w.stored = t.stored /\ w.removed = t.removed
  BY <1>1, <1>5 DEF TreeType
<1> HIDE DEF w
<1>9. Unmoved(t, w)
  <2>1. Live(w) = Live(t)
    BY <1>3, <1>7, <1>8 DEF Live
  <2>2. \A n \in Live(t) : w.node[n].up = t.node[n].up
    BY <1>3, <1>7, <1>8
  <2> QED
    BY <1>7, <2>1, <2>2 DEF Unmoved
<1>10. w \in Trees
  BY <1>4, <1>5, <1>6, <1>7, TreeFrom
<1> QED
  BY <1>2, <1>9, <1>10

(* Trees that count as much as t, and those that leave its queue alone.    *)
Alike(t, page) == {u \in Sound(page) : Booked(u) = Booked(t)}
Settled(t, page) == {u \in Alike(t, page) : u.stored = t.stored /\ u.removed = t.removed}

(* The keys of the nodes of a tree have a length. *)
LEMMA SoundKeys ==
  ASSUME NEW page \in Nat \ {0}, NEW t \in Sound(page)
  PROVE  /\ t \in Trees /\ Shaped(t, page)
         /\ \A n \in Live(t) : /\ n \in DOMAIN t.node /\ KeyLen(t, n) \in Nat
                               /\ t.node[n].up \in Live(t)
                               /\ Path(n) \in Keys /\ Path(t.node[n].up) \in Keys
                               /\ KeyLen(t, n) = Len(Path(n)) - Len(Path(t.node[n].up))
<1>1. t \in Trees /\ Shaped(t, page)
  BY DEF Sound
<1>2. ASSUME NEW n \in Live(t)
      PROVE  /\ n \in DOMAIN t.node /\ KeyLen(t, n) \in Nat /\ t.node[n].up \in Live(t)
             /\ Path(n) \in Keys /\ Path(t.node[n].up) \in Keys
             /\ KeyLen(t, n) = Len(Path(n)) - Len(Path(t.node[n].up))
  <2>1. n \in DOMAIN t.node
    BY DEF Live
  <2>2. /\ Path(n) \in Keys /\ Path(t.node[n].up) \in Keys
        /\ KeyLen(t, n) = Len(Path(n)) - Len(Path(t.node[n].up)) /\ KeyLen(t, n) \in Int
    BY <1>1, <2>1, KeyLenIs
  <2>3. CASE n = Root
    <3>1. t.node[n].up = n /\ Root \in Live(t)
      BY <1>1, <2>3, TreeParts DEF Shaped
    <3>2. KeyLen(t, n) = 0
      BY <2>2, <3>1 DEF Keys
    <3> QED
      BY <2>1, <2>2, <3>1, <3>2
  <2>4. CASE n # Root
    <3>1. t.node[n].up \in Live(t) /\ Len(Path(t.node[n].up)) < Len(Path(n))
      BY <1>1, <2>4 DEF Shaped, Above
    <3>2. Len(Path(t.node[n].up)) \in Nat /\ Len(Path(n)) \in Nat
      BY <2>2 DEF Keys
    <3> DEFINE a == Len(Path(n))
               b == Len(Path(t.node[n].up))
    <3>3. a - b \in Nat
      <4> HIDE DEF a, b
      <4>1. a \in Nat /\ b \in Nat /\ b < a
        BY <3>1, <3>2 DEF a, b
      <4> QED
        BY <4>1
    <3> QED
      BY <2>1, <2>2, <3>1, <3>3
  <2> QED
    BY <2>3, <2>4
<1> QED
  BY <1>1, <1>2

LEMMA RootPath == Path(Root) = <<>> /\ Path(Root) \in Keys /\ Len(Path(Root)) = 0
BY DEF Root, Path, Keys

(* A tree whose nodes stay where they are. *)
LEMMA UnmovedSettled ==
  ASSUME NEW page \in Nat \ {0}, NEW t \in Sound(page), NEW u \in Trees, Unmoved(t, u)
  PROVE  u \in Settled(t, page)
<1>1. /\ t \in Trees /\ Shaped(t, page) /\ Root \in Live(t)
      /\ Live(u) = Live(t) /\ \A n \in Live(t) : u.node[n].up = t.node[n].up
      /\ u.stored = t.stored /\ u.removed = t.removed
  BY SoundKeys, TreeParts DEF Unmoved
<1>2. Shaped(u, page)
  BY <1>1 DEF Shaped, Above, Parted
<1>3. KeysLen(u, Live(t)) = KeysLen(t, Live(t))
  <2>1. \A n \in Live(t) : KeyLen(u, n) = KeyLen(t, n)
    BY <1>1 DEF KeyLen
  <2> QED
    BY <2>1, KeysLenAlike
<1>4. Booked(u) = Booked(t)
  BY <1>1, <1>3 DEF Booked, Size
<1> QED
  BY <1>1, <1>2, <1>4 DEF Settled, Alike, Sound

LEMMA EmptyTreeSound ==
  ASSUME NEW page \in Nat \ {0}
  PROVE  /\ EmptyTree \in Sound(page) /\ Booked(EmptyTree) = 0
         /\ EmptyTree.stored = 0 /\ EmptyTree.removed = 0
<1> DEFINE t == EmptyTree
<1>1. t \in Trees
  BY EmptyTreeIs
<1>2. t.node[Root].up = Root /\ Live(t) = {Root} /\ t.stored = 0 /\ t.removed = 0
  BY DEF EmptyTree, Live
<1> HIDE DEF t
<1>3. 0 % page = 0
  OBVIOUS
<1>4. Shaped(t, page)
  BY <1>2, <1>3, RootPath DEF Shaped
<1>5. KeyLen(t, Root) = 0
  BY <1>2, RootPath DEF KeyLen
<1>6. Size(t) = 0
  BY <1>1, <1>2, <1>5, KeysLenOne DEF Size
<1> QED
  BY <1>1, <1>2, <1>4, <1>6 DEF Sound, Booked, t

(* The events of a tree are taken: its size is what is booked.             *)
LEMMA TakenSound ==
  ASSUME NEW page \in Nat \ {0}, NEW t \in Sound(page)
  PROVE  /\ Taken(t) \in Sound(page) /\ Booked(Taken(t)) = Booked(t) + t.stored - t.removed
         /\ Taken(t).stored = 0 /\ Taken(t).removed = 0
<1> DEFINE u == Taken(t)
<1>1. t \in Trees /\ Shaped(t, page)
  BY SoundKeys
<1>2. u \in Trees /\ Live(u) = Live(t) /\ u.node = t.node /\ u.stored = 0 /\ u.removed = 0
  BY <1>1, TakenIs
<1> HIDE DEF u
<1>3. Shaped(u, page)
  BY <1>1, <1>2 DEF Shaped, Above, Parted
<1>4. Size(u) = Size(t)
  <2>1. \A n \in Live(t) : KeyLen(u, n) = KeyLen(t, n)
    BY <1>2 DEF KeyLen
  <2>2. KeysLen(u, Live(t)) = KeysLen(t, Live(t))
    BY <2>1, KeysLenAlike
  <2> QED
    BY <1>2, <2>2 DEF Size
<1>5. Size(t) \in Nat /\ t.stored \in Nat /\ t.removed \in Nat
  BY <1>1, SizeNat, TreeParts
<1>6. Booked(u) = Booked(t) + t.stored - t.removed
  BY <1>2, <1>4, <1>5 DEF Booked
<1> QED
  BY <1>2, <1>3, <1>6 DEF Sound, u

LEMMA CommonSymmetric ==
  ASSUME NEW p \in Keys, NEW q \in Keys
  PROVE  Common(p, q) = Common(q, p)
<1>1. /\ Common(p, q) \in Nat /\ Common(p, q) <= Len(p) /\ Common(p, q) <= Len(q)
      /\ \A i \in 1 .. Common(p, q) : p[i] = q[i]
  BY CommonAgrees
<1>2. /\ Common(q, p) \in Nat /\ Common(q, p) <= Len(q) /\ Common(q, p) <= Len(p)
      /\ \A i \in 1 .. Common(q, p) : q[i] = p[i]
  BY CommonAgrees
<1>3. Common(p, q) <= Common(q, p)
  BY <1>1, CommonLongest
<1>4. Common(q, p) <= Common(p, q)
  BY <1>2, CommonLongest
<1> QED
  BY <1>1, <1>2, <1>3, <1>4

(* The upper half of a split node hangs where the node hung. *)
LEMMA SplitSettled ==
  ASSUME NEW page \in Nat \ {0}, NEW t \in Sound(page), NEW u \in Trees,
         NEW p \in Keys, Len(p) % page = 0, NEW child, NEW new, SplitsAt(t, u, p, child, new),
         u.stored = t.stored, u.removed = t.removed
  PROVE  u \in Settled(t, page)
<1> DEFINE top == t.node[child].up
<1>1. /\ child \in Live(t) /\ IsPrefixOf(p, Path(child))
      /\ \A n \in Live(t) : Path(n) # p /\ (IsPrefixOf(p, Path(n)) => Len(Path(child)) <= Len(Path(n)))
      /\ new \in Names /\ new \notin DOMAIN t.node /\ Path(new) = p
      /\ Live(u) = Live(t) \cup {new}
      /\ u.node[child].up = new /\ u.node[new].up = top
      /\ \A n \in Live(t) \ {child} : u.node[n].up = t.node[n].up
  BY DEF SplitsAt
<1>2. /\ t \in Trees /\ Shaped(t, page) /\ Root \in Live(t) /\ Live(t) \in SUBSET (DOMAIN t.node)
      /\ \A n \in Live(t) : Path(n) \in Keys /\ Len(Path(n)) \in Nat
  BY SoundKeys, TreeParts, LiveNodes DEF Keys
<1>3. new \notin Live(t) /\ new # Root /\ new # child /\ Len(p) \in Nat
  BY <1>1, <1>2 DEF Keys
<1>4. child # Root
  <2> SUFFICES ASSUME child = Root
               PROVE  FALSE
    OBVIOUS
  <2>1. Len(Path(child)) <= Len(p)
    BY <1>3, RootPath
  <2>2. p = Path(child)
    BY <1>1, <1>2, <2>1, PrefixOrder
  <2> QED
    BY <1>1, <2>2
<1>5. /\ top \in Live(t) /\ IsPrefixOf(Path(top), Path(child)) /\ Len(Path(top)) < Len(Path(child))
      /\ Path(top) \in Keys /\ Path(child) \in Keys
  BY <1>1, <1>2, <1>4 DEF Shaped, Above
<1> HIDE DEF top
<1>6. Len(Path(top)) < Len(p) /\ IsPrefixOf(Path(top), p)
  <2>1. ASSUME Len(p) <= Len(Path(top))
        PROVE  FALSE
    <3>1. IsPrefixOf(p, Path(top))
      BY <1>1, <1>5, <2>1, PrefixOrder
    <3>2. Len(Path(child)) <= Len(Path(top))
      BY <1>1, <1>5, <3>1
    <3> QED
      BY <1>2, <1>5, <1>1, <3>2
  <2>2. Len(Path(top)) \in Nat
    BY <1>2, <1>5
  <2>3. Len(Path(top)) < Len(p)
    BY <1>3, <2>1, <2>2
  <2>4. Len(Path(top)) <= Len(p)
    BY <1>3, <2>2, <2>3
  <2> QED
    BY <1>1, <1>5, <2>3, <2>4, PrefixOrder
<1>7. Len(p) < Len(Path(child))
  <2>1. ASSUME Len(Path(child)) <= Len(p)
        PROVE  FALSE
    <3>1. p = Path(child)
      BY <1>1, <1>5, <2>1, PrefixOrder
    <3> QED
      BY <1>1, <3>1
  <2> QED
    BY <1>1, <1>2, <1>3, <2>1
<1>8. \A n \in Live(u) \ {Root} : Above(u, n)
  <2>1. Above(u, new)
    BY <1>1, <1>5, <1>6 DEF Above
  <2>2. Above(u, child)
    BY <1>1, <1>7 DEF Above
  <2>3. ASSUME NEW n \in Live(t) \ {Root, child}
        PROVE  Above(u, n)
    BY <1>1, <1>2, <2>3 DEF Above, Shaped
  <2> QED
    BY <1>1, <2>1, <2>2, <2>3
<1>9. \A n \in Live(t) \ {Root} : t.node[n].up \in Live(t)
  BY <1>2 DEF Shaped, Above
<1>10. ASSUME NEW n \in Live(t) \ {Root, child}, t.node[n].up = top
       PROVE  /\ Common(p, Path(n)) < Len(Path(top)) + page
              /\ Common(Path(n), p) < Len(Path(top)) + page
  <2>1. Path(n) \in Keys /\ n \in Live(t) \ {Root} /\ child \in Live(t) \ {Root} /\ n # child
    BY <1>1, <1>2, <1>4
  <2>2. t.node[child].up = top
    BY DEF top
  <2>3. Parted(t, child, n, page) /\ Parted(t, n, child, page)
    BY <1>2, <1>10, <2>1, <2>2 DEF Shaped
  <2>4. /\ Common(Path(child), Path(n)) < Len(Path(top)) + page
        /\ Common(Path(n), Path(child)) < Len(Path(top)) + page
    BY <1>10, <2>2, <2>3 DEF Parted
  <2>5. /\ Common(p, Path(n)) <= Common(Path(child), Path(n))
        /\ Common(Path(n), p) <= Common(Path(n), Path(child))
    BY <1>1, <1>5, <2>1, CommonGrows
  <2>6. /\ Common(p, Path(n)) \in Nat /\ Common(Path(child), Path(n)) \in Nat
        /\ Common(Path(n), p) \in Nat /\ Common(Path(n), Path(child)) \in Nat
    BY <1>5, <2>1, CommonAgrees
  <2>7. Len(Path(top)) \in Nat
    BY <1>2, <1>5
  <2> DEFINE a == Common(p, Path(n))
             b == Common(Path(child), Path(n))
             c == Common(Path(n), p)
             d == Common(Path(n), Path(child))
             e == Len(Path(top))
  <2>8. a \in Nat /\ b \in Nat /\ c \in Nat /\ d \in Nat /\ e \in Nat /\ a <= b /\ c <= d /\ b < e + page /\ d < e + page
    BY <2>4, <2>5, <2>6, <2>7
  <2> HIDE DEF a, b, c, d, e
  <2>9. a < e + page /\ c < e + page
    BY <2>8
  <2> QED
    BY <2>9 DEF a, c, e
<1>11. ASSUME NEW n \in Live(u) \ {Root}, NEW m \in Live(u) \ {Root},
              n # m, u.node[n].up = u.node[m].up
       PROVE  Parted(u, n, m, page)
  <2>1. CASE n = new
    <3>1. m \in Live(t) \ {Root, child} /\ t.node[m].up = top
      BY <1>1, <1>3, <1>5, <1>11, <2>1
    <3> QED
      BY <1>1, <1>10, <2>1, <3>1 DEF Parted
  <2>2. CASE m = new
    <3>1. n \in Live(t) \ {Root, child} /\ t.node[n].up = top
      BY <1>1, <1>3, <1>5, <1>11, <2>2
    <3> QED
      BY <1>1, <1>10, <2>2, <3>1 DEF Parted
  <2>3. CASE n # new /\ m # new
    <3>1. n \in Live(t) \ {Root, child} /\ m \in Live(t) \ {Root, child}
      <4>1. n \in Live(t) \ {Root} /\ m \in Live(t) \ {Root}
        BY <1>1, <2>3
      <4>2. ASSUME n = child PROVE FALSE
        BY <1>1, <1>3, <1>9, <1>11, <4>1, <4>2
      <4>3. ASSUME m = child PROVE FALSE
        BY <1>1, <1>3, <1>9, <1>11, <4>1, <4>3
      <4> QED
        BY <4>1, <4>2, <4>3
    <3>2. u.node[n].up = t.node[n].up /\ u.node[m].up = t.node[m].up
      BY <1>1, <3>1
    <3>3. Parted(t, n, m, page)
      BY <1>2, <1>11, <3>1, <3>2 DEF Shaped
    <3> QED
      BY <3>2, <3>3 DEF Parted
  <2> QED
    BY <2>1, <2>2, <2>3
<1>12. Shaped(u, page)
  <2>1. u.node[Root].up = Root
    BY <1>1, <1>2, <1>4 DEF Shaped
  <2>2. \A n \in Live(u) : Len(Path(n)) % page = 0
    BY <1>1, <1>2 DEF Shaped
  <2> QED
    BY <1>8, <1>11, <2>1, <2>2 DEF Shaped
<1>13. u \in Sound(page)
  BY <1>12 DEF Sound
<1>14. Size(u) = Size(t)
  <2> DEFINE S == Live(t) \ {child}
  <2>1. /\ Live(t) = S \cup {child} /\ Live(u) = S \cup {child, new}
        /\ S \cap {child} = {} /\ S \cap {child, new} = {} /\ {child} \cap {new} = {}
        /\ {child, new} = {child} \cup {new}
    BY <1>1, <1>3
  <2>2. /\ S \in SUBSET (DOMAIN t.node) /\ {child} \in SUBSET (DOMAIN t.node)
        /\ S \in SUBSET (DOMAIN u.node) /\ {child} \in SUBSET (DOMAIN u.node)
        /\ {new} \in SUBSET (DOMAIN u.node) /\ {child, new} \in SUBSET (DOMAIN u.node)
    BY <1>1, <1>2, <1>13, SoundKeys
  <2> HIDE DEF S
  <2>3. Size(t) = KeysLen(t, S) + KeysLen(t, {child})
    BY <1>2, <2>1, <2>2, KeysLenSum DEF Size
  <2>4. Size(u) = KeysLen(u, S) + KeysLen(u, {child, new})
    BY <2>1, <2>2, KeysLenSum DEF Size
  <2>5. KeysLen(u, {child, new}) = KeysLen(u, {child}) + KeysLen(u, {new})
    BY <2>1, <2>2, KeysLenSum
  <2>6. KeysLen(u, S) = KeysLen(t, S)
    <3>1. \A n \in S : KeyLen(u, n) = KeyLen(t, n)
      BY <1>1 DEF KeyLen, S
    <3> QED
      BY <3>1, KeysLenAlike
  <2>7. /\ KeysLen(t, {child}) = KeyLen(t, child)
        /\ KeysLen(u, {child}) = KeyLen(u, child) /\ KeysLen(u, {new}) = KeyLen(u, new)
    <3>1. KeyLen(t, child) \in Nat /\ KeyLen(u, child) \in Nat /\ KeyLen(u, new) \in Nat
      BY <1>1, <1>13, SoundKeys
    <3> QED
      BY <1>2, <3>1, KeysLenOne
  <2>8. KeyLen(t, child) = KeyLen(u, child) + KeyLen(u, new)
    <3>1. /\ KeyLen(t, child) = Len(Path(child)) - Len(Path(top))
          /\ KeyLen(u, child) = Len(Path(child)) - Len(p)
          /\ KeyLen(u, new) = Len(p) - Len(Path(top))
      BY <1>1 DEF KeyLen, top
    <3>2. Len(Path(child)) \in Nat /\ Len(Path(top)) \in Nat
      BY <1>1, <1>2, <1>5
    <3> QED
      BY <1>3, <3>1, <3>2
  <2>9. KeysLen(t, S) \in Nat /\ KeyLen(u, child) \in Nat /\ KeyLen(u, new) \in Nat
    BY <1>1, <1>2, <1>13, <2>2, KeysLenNat, SoundKeys
  <2> QED
    BY <2>3, <2>4, <2>5, <2>6, <2>7, <2>8, <2>9
<1>15. Booked(u) = Booked(t)
  BY <1>14 DEF Booked
<1> QED
  BY <1>13, <1>15 DEF Settled, Alike

(* match_prefix moves no tokens. *)
LEMMA HitPaged ==
  ASSUME NEW page \in Nat \ {0}, NEW t \in Trees, NEW key \in Keys
  PROVE  /\ HitLength(t, key, page) % page = 0
         /\ \A n \in Live(t) : Common(Path(n), key) < HitLength(t, key, page) + page
<1> DEFINE len(n) == Paged(Common(Path(n), key), page)
           S == {len(n) : n \in Live(t)}
           h == HitLength(t, key, page)
<1>1. ASSUME NEW n \in Live(t)
      PROVE  /\ len(n) \in 0 .. Len(key) /\ len(n) % page = 0
             /\ Common(Path(n), key) < len(n) + page /\ Common(Path(n), key) \in Nat
  <2>1. Path(n) \in Keys /\ Len(key) \in Nat
    BY LiveNodes DEF Keys
  <2>2. Common(Path(n), key) \in Nat /\ Common(Path(n), key) <= Len(key)
    BY <2>1, CommonAgrees
  <2>3. len(n) \in 0 .. Common(Path(n), key)
    BY <2>2, PagedBounds
  <2>4. len(n) % page = 0 /\ Common(Path(n), key) < len(n) + page
    BY <2>2, PagedIs
  <2> HIDE DEF len
  <2> QED
    BY <2>1, <2>2, <2>3, <2>4
<1>2. S \in SUBSET (0 .. Len(key)) /\ \A n \in Live(t) : len(n) \in S
  BY <1>1
<1>3. \A x \in S : x % page = 0
  BY <1>1
<1>4. S # {}
  BY TreeParts
<1>5. h = Max(S)
  BY DEF HitLength
<1> HIDE DEF S, h, len
<1>6. h \in S /\ \A x \in S : h >= x
  <2>1. Len(key) \in Nat
    BY DEF Keys
  <2>2. IsFiniteSet(0 .. Len(key))
    BY <2>1, FS_Interval
  <2>3. IsFiniteSet(S)
    BY <1>2, <2>2, FS_Subset
  <2>4. S \subseteq Int
    BY <1>2
  <2>5. \E x \in S : \A y \in S : x >= y
    BY <1>4, <2>3, <2>4, Extremes
  <2> QED
    BY <1>5, <2>5 DEF Max
<1>7. ASSUME NEW n \in Live(t)
      PROVE  Common(Path(n), key) < h + page
  <2>1. len(n) <= h /\ len(n) \in Nat /\ h \in Nat
    BY <1>1, <1>2, <1>6
  <2>2. Common(Path(n), key) < len(n) + page /\ Common(Path(n), key) \in Nat
    BY <1>1
  <2> QED
    BY <2>1, <2>2
<1> QED
  BY <1>3, <1>6, <1>7 DEF h

LEMMA MatchedSettled ==
  ASSUME NEW page \in Nat \ {0}, NEW t \in Sound(page), NEW key \in Keys
  PROVE  Matched(t, key, page) \in Settled(t, page)
<1> DEFINE u == Matched(t, key, page)
           p == Hit(t, key, page)
<1>1. t \in Trees
  BY SoundKeys
<1>2. /\ u \in Trees /\ u.stored = t.stored /\ u.removed = t.removed
      /\ u = t \/ \E child, new : SplitsAt(t, u, p, child, new)
  BY <1>1, MatchedIs
<1>3. p \in Keys /\ Len(p) % page = 0
  BY <1>1, HitIsPrefix, HitPaged
<1> HIDE DEF u, p
<1>4. CASE u = t
  BY <1>4 DEF Settled, Alike, u
<1>5. CASE \E child, new : SplitsAt(t, u, p, child, new)
  BY <1>2, <1>3, <1>5, SplitSettled DEF u
<1> QED
  BY <1>2, <1>4, <1>5

(* A new leaf has a page of its own, which is stored. *)
LEMMA GrownAlike ==
  ASSUME NEW page \in Nat \ {0}, NEW t \in Sound(page), NEW w \in Trees, NEW key \in Keys,
         NEW hit \in Nat, NEW new, GrowsAt(t, w, key, hit, new), Len(key) % page = 0,
         \A n \in Live(t) : Common(Path(n), key) < hit + page
  PROVE  w \in Alike(t, page)
<1> DEFINE up == w.node[new].up
<1>1. /\ hit < Len(key) /\ new \in Names /\ new \notin DOMAIN t.node /\ Path(new) = key
      /\ Live(w) = Live(t) \cup {new} /\ up \in Live(t) /\ Path(up) = Prefix(key, hit)
      /\ \A n \in Live(t) : w.node[n].up = t.node[n].up
      /\ w.stored = t.stored + Len(key) - hit /\ w.removed = t.removed
  BY DEF GrowsAt
<1>2. /\ t \in Trees /\ Shaped(t, page) /\ Root \in Live(t) /\ Live(t) \in SUBSET (DOMAIN t.node)
      /\ \A n \in Live(t) : Path(n) \in Keys /\ Len(Path(n)) \in Nat
  BY SoundKeys, TreeParts, LiveNodes DEF Keys
<1>3. Len(key) \in Nat /\ new \notin Live(t) /\ new # Root
  BY <1>1, <1>2 DEF Keys
<1>4. Len(Path(up)) = hit /\ Path(up) \in Keys
  <2>1. hit \in 0 .. Len(key)
    BY <1>1, <1>3
  <2> QED
    BY <1>1, <1>2, <2>1, PrefixProperties DEF Keys
<1>5. IsPrefixOf(Path(up), key)
  <2>1. hit <= Len(key)
    BY <1>1, <1>3
  <2> QED
    BY <1>1, <1>4, <2>1 DEF IsPrefixOf
<1> HIDE DEF up
<1>6. \A n \in Live(w) \ {Root} : Above(w, n)
  <2>1. Above(w, new)
    BY <1>1, <1>4, <1>5 DEF Above, up
  <2>2. ASSUME NEW n \in Live(t) \ {Root}
        PROVE  Above(w, n)
    BY <1>1, <1>2 DEF Above, Shaped
  <2> QED
    BY <1>1, <2>1, <2>2
<1>7. ASSUME NEW n \in Live(w) \ {Root}, NEW m \in Live(w) \ {Root},
             n # m, w.node[n].up = w.node[m].up
      PROVE  Parted(w, n, m, page)
  <2>1. CASE n = new
    <3>1. m \in Live(t) /\ Path(m) \in Keys
      BY <1>1, <1>2, <1>7, <2>1
    <3>2. Common(Path(m), key) < hit + page
      BY <3>1
    <3>3. Common(key, Path(m)) = Common(Path(m), key)
      BY <3>1, CommonSymmetric
    <3> QED
      BY <1>1, <1>4, <2>1, <3>2, <3>3 DEF Parted, up
  <2>2. CASE m = new
    <3>1. n \in Live(t)
      BY <1>1, <1>7, <2>2
    <3>2. Common(Path(n), key) < hit + page
      BY <3>1
    <3> QED
      BY <1>1, <1>4, <1>7, <2>2, <3>2 DEF Parted, up
  <2>3. CASE n # new /\ m # new
    <3>1. n \in Live(t) \ {Root} /\ m \in Live(t) \ {Root}
      BY <1>1, <2>3
    <3>2. w.node[n].up = t.node[n].up /\ w.node[m].up = t.node[m].up
      BY <1>1, <3>1
    <3>3. Parted(t, n, m, page)
      BY <1>2, <1>7, <3>1, <3>2 DEF Shaped
    <3> QED
      BY <3>2, <3>3 DEF Parted
  <2> QED
    BY <2>1, <2>2, <2>3
<1>8. Shaped(w, page)
  <2>1. w.node[Root].up = Root
    BY <1>1, <1>2 DEF Shaped
  <2>2. \A n \in Live(w) : Len(Path(n)) % page = 0
    BY <1>1, <1>2 DEF Shaped
  <2> QED
    BY <1>6, <1>7, <2>1, <2>2 DEF Shaped
<1>9. w \in Sound(page)
  BY <1>8 DEF Sound
<1>10. Size(w) = Size(t) + (Len(key) - hit)
  <2>1. /\ Live(t) \in SUBSET (DOMAIN w.node) /\ {new} \in SUBSET (DOMAIN w.node)
        /\ Live(t) \cap {new} = {}
    BY <1>1, <1>3, <1>9, SoundKeys
  <2>2. Size(w) = KeysLen(w, Live(t)) + KeysLen(w, {new})
    BY <1>1, <2>1, KeysLenSum DEF Size
  <2>3. KeysLen(w, Live(t)) = KeysLen(t, Live(t))
    <3>1. \A n \in Live(t) : KeyLen(w, n) = KeyLen(t, n)
      BY <1>1 DEF KeyLen
    <3> QED
      BY <3>1, KeysLenAlike
  <2>4. KeyLen(w, new) = Len(key) - hit /\ KeyLen(w, new) \in Nat
    <3>1. KeyLen(w, new) = Len(key) - hit
      BY <1>1, <1>4 DEF KeyLen, up
    <3> QED
      BY <1>1, <1>3, <3>1
  <2>5. KeysLen(w, {new}) = KeyLen(w, new)
    BY <2>4, KeysLenOne
  <2> QED
    BY <2>2, <2>3, <2>4, <2>5 DEF Size
<1>11. Booked(w) = Booked(t)
  <2>1. Size(t) \in Nat /\ t.stored \in Nat /\ t.removed \in Nat
    BY <1>2, SizeNat, TreeParts
  <2> QED
    BY <1>1, <1>3, <1>10, <2>1 DEF Booked
<1> QED
  BY <1>9, <1>11 DEF Alike

LEMMA AlikeAgain ==
  ASSUME NEW page, NEW t, NEW u \in Alike(t, page)
  PROVE  /\ u \in Sound(page) /\ Booked(u) = Booked(t) /\ Alike(u, page) \subseteq Alike(t, page)
         /\ t \in Sound(page) => t \in Alike(t, page)
         /\ \A w \in Settled(t, page) : w \in Alike(t, page)
BY DEF Alike, Settled

(* insert, of a key of whole pages: what it stores is what it adds.        *)
LEMMA InsertAlike ==
  ASSUME NEW page \in Nat \ {0}, NEW t \in Sound(page), NEW key \in Keys, Len(key) % page = 0
  PROVE  Insert(t, key, page) \in Alike(t, page)
<1> DEFINE u == Matched(t, key, page)
           w == Insert(t, key, page)
           p == Hit(t, key, page)
           hit == HitLength(t, key, page)
<1>1. t \in Trees
  BY SoundKeys
<1>2. u \in Alike(t, page) /\ u \in Sound(page) /\ Alike(u, page) \subseteq Alike(t, page)
  <2>1. u \in Alike(t, page)
    BY MatchedSettled DEF Settled
  <2> HIDE DEF u
  <2> QED
    BY <2>1, AlikeAgain
<1>3. w \in Trees /\ (w = u \/ \E new : GrowsAt(u, w, key, hit, new))
  BY <1>1, InsertIs
<1>4. hit \in Nat /\ p \in Keys /\ Len(p) = hit
  BY <1>1, HitIsPrefix
<1>5. \A n \in Live(u) : n \in Live(t) \/ Path(n) = p
  <2>1. u = t \/ \E child, new : SplitsAt(t, u, p, child, new)
    BY <1>1, MatchedIs
  <2> HIDE DEF u, p
  <2>2. ASSUME NEW child, NEW new, SplitsAt(t, u, p, child, new)
        PROVE  Live(u) = Live(t) \cup {new} /\ Path(new) = p
    BY <2>2 DEF SplitsAt
  <2> QED
    BY <2>1, <2>2
<1>6. ASSUME NEW n \in Live(u)
      PROVE  Common(Path(n), key) < hit + page
  <2>1. CASE n \in Live(t)
    BY <1>1, <2>1, HitPaged
  <2>2. CASE Path(n) = p
    <3>1. Common(p, key) <= Len(p) /\ Common(p, key) \in Nat
      BY <1>4, CommonAgrees
    <3> DEFINE c == Common(p, key)
    <3> HIDE DEF hit
    <3>2. c \in Nat /\ c <= hit /\ hit \in Nat
      BY <1>4, <3>1
    <3> HIDE DEF c
    <3>3. c < hit + page
      BY <3>2
    <3> QED
      BY <2>2, <3>3 DEF c
  <2> QED
    BY <1>5, <2>1, <2>2
<1> HIDE DEF u, w, hit
<1>7. CASE w = u
  BY <1>2, <1>7 DEF w
<1>8. CASE \E new : GrowsAt(u, w, key, hit, new)
  <2>1. w \in Alike(u, page)
    BY <1>2, <1>3, <1>4, <1>6, <1>8, GrownAlike
  <2> QED
    BY <1>2, <2>1 DEF w
<1> QED
  BY <1>3, <1>7, <1>8

(* Nothing that is evicted leaves a node that continues it.                *)
LEMMA EvictionsClosed ==
  ASSUME NEW page \in Nat \ {0}, NEW t \in Sound(page), NEW k, NEW R \in Evictions(t, k)
  PROVE  /\ R \in SUBSET (Live(t) \ {Root})
         /\ \A n \in R, m \in Live(t) : IsPrefixOf(Path(n), Path(m)) => m \in R
<1>1. t \in Trees /\ Shaped(t, page) /\ \A n \in Live(t) : Path(n) \in Keys
  BY SoundKeys
<1>2. R \in SUBSET (Live(t) \ {Root})
  BY <1>1, EvictionsAre
<1>3. CASE R = {}
  BY <1>3
<1>4. CASE R # {}
  <2>1. R \in EvictionsAmong(t, Removable(t), k)
    BY <1>4 DEF Evictions
  <2>2. /\ R \in SUBSET Removable(t)
        /\ \A n \in R, m \in Removable(t) : IsPrefixOf(Path(n), Path(m)) => m \in R
    BY <2>1 DEF EvictionsAmong
  <2>3. ASSUME NEW n \in R, NEW m \in Live(t), IsPrefixOf(Path(n), Path(m))
        PROVE  m \in R
    <3>1. /\ n \in Live(t) \ {Root} /\ Path(n) \in Keys /\ Path(m) \in Keys
          /\ \A l \in Live(t) : IsPrefixOf(Path(n), Path(l)) => ~Locked(t, l)
      BY <1>1, <2>2 DEF Removable
    <3>2. m # Root
      <4>1. ASSUME m = Root
            PROVE  FALSE
        <5>1. Len(Path(n)) \in Nat /\ Len(Path(n)) <= 0
          <6>1. Path(Root) \in Keys /\ Len(Path(Root)) = 0 /\ IsPrefixOf(Path(n), Path(Root))
            BY <2>3, <4>1, RootPath
          <6>2. Len(Path(n)) <= Len(Path(Root))
            BY <3>1, <6>1, StartsWith
          <6> QED
            BY <3>1, <6>1, <6>2 DEF Keys
        <5>2. /\ t.node[n].up \in Live(t) /\ Len(Path(t.node[n].up)) < Len(Path(n))
              /\ Path(t.node[n].up) \in Keys
          BY <1>1, <3>1 DEF Shaped, Above
        <5>3. Len(Path(t.node[n].up)) \in Nat
          BY <5>2 DEF Keys
        <5> DEFINE a == Len(Path(n))
                   b == Len(Path(t.node[n].up))
        <5>4. a \in Nat /\ b \in Nat
          BY <5>1, <5>3
        <5>5. a <= 0 /\ b < a
          BY <5>1, <5>2
        <5> HIDE DEF a, b
        <5> QED
          BY <5>4, <5>5
      <4> QED
        BY <4>1
    <3>3. ASSUME NEW l \in Live(t), IsPrefixOf(Path(m), Path(l))
          PROVE  ~Locked(t, l)
      <4>1. Path(l) \in Keys
        BY <1>1
      <4>2. IsPrefixOf(Path(n), Path(l))
        BY <2>3, <3>1, <3>3, <4>1, PrefixOrder
      <4> QED
        BY <3>1, <4>2
    <3>4. m \in Removable(t)
      BY <3>2, <3>3 DEF Removable
    <3> QED
      BY <2>2, <2>3, <3>4
  <2> QED
    BY <1>2, <2>3
<1> QED
  BY <1>2, <1>3, <1>4

(* ... so what is left is a tree, and what is gone is in the queue.        *)
LEMMA DeleteAlike ==
  ASSUME NEW page \in Nat \ {0}, NEW t \in Sound(page), NEW k, NEW R \in Evictions(t, k)
  PROVE  Delete(t, R) \in Alike(t, page)
<1> DEFINE w == Delete(t, R)
<1>1. /\ R \in SUBSET (Live(t) \ {Root})
      /\ \A n \in R, m \in Live(t) : IsPrefixOf(Path(n), Path(m)) => m \in R
  BY EvictionsClosed
<1>2. t \in Trees /\ Shaped(t, page) /\ Root \in Live(t) /\ Live(t) \in SUBSET (DOMAIN t.node)
  BY SoundKeys, TreeParts
<1>3. w \in Trees /\ Loses(t, w, R)
  BY <1>1, <1>2, DeleteIs
<1> HIDE DEF w
<1>4. /\ Live(w) = Live(t) \ R /\ \A n \in Live(t) : w.node[n].up = t.node[n].up
      /\ w.stored = t.stored /\ w.removed = t.removed + KeysLen(t, R)
  BY <1>3 DEF Loses
<1>5. ASSUME NEW n \in Live(w) \ {Root}
      PROVE  Above(w, n)
  <2>1. n \in Live(t) \ {Root} /\ n \notin R /\ w.node[n].up = t.node[n].up
    BY <1>4
  <2>2. Above(t, n)
    BY <1>2, <2>1 DEF Shaped
  <2>3. t.node[n].up \notin R
    BY <1>1, <2>1, <2>2 DEF Above
  <2> QED
    BY <1>4, <2>1, <2>2, <2>3 DEF Above
<1>6. ASSUME NEW n \in Live(w) \ {Root}, NEW m \in Live(w) \ {Root},
             n # m, w.node[n].up = w.node[m].up
      PROVE  Parted(w, n, m, page)
  <2>1. n \in Live(t) \ {Root} /\ m \in Live(t) \ {Root}
        /\ w.node[n].up = t.node[n].up /\ w.node[m].up = t.node[m].up
    BY <1>4
  <2>2. Parted(t, n, m, page)
    BY <1>2, <1>6, <2>1 DEF Shaped
  <2> QED
    BY <2>1, <2>2 DEF Parted
<1>7. Shaped(w, page)
  <2>1. w.node[Root].up = Root
    BY <1>2, <1>4 DEF Shaped
  <2>2. \A n \in Live(w) : Len(Path(n)) % page = 0
    BY <1>2, <1>4 DEF Shaped
  <2> QED
    BY <1>5, <1>6, <2>1, <2>2 DEF Shaped
<1>8. Size(t) = Size(w) + KeysLen(t, R)
  <2> DEFINE S == Live(t) \ R
  <2>1. /\ S \in SUBSET (DOMAIN t.node) /\ R \in SUBSET (DOMAIN t.node) /\ S \cap R = {}
        /\ Live(t) = S \cup R /\ Live(w) = S
    BY <1>1, <1>2, <1>4
  <2> HIDE DEF S
  <2>2. Size(t) = KeysLen(t, S) + KeysLen(t, R)
    BY <1>2, <2>1, KeysLenSum DEF Size
  <2>3. KeysLen(w, S) = KeysLen(t, S)
    <3>1. \A n \in S : KeyLen(w, n) = KeyLen(t, n)
      BY <1>4, <2>1 DEF KeyLen
    <3> QED
      BY <3>1, KeysLenAlike
  <2> QED
    BY <2>1, <2>2, <2>3 DEF Size
<1>9. Booked(w) = Booked(t)
  <2>1. R \in SUBSET (DOMAIN t.node)
    BY <1>1, <1>2
  <2>2. KeysLen(t, R) \in Nat
    BY <1>2, <2>1, KeysLenNat
  <2>3. Size(w) \in Nat /\ t.stored \in Nat /\ t.removed \in Nat
    BY <1>2, <1>3, SizeNat, TreeParts
  <2> QED
    BY <1>4, <1>8, <2>2, <2>3 DEF Booked
<1> QED
  BY <1>3, <1>7, <1>9 DEF Alike, Sound, w

LEMMA LockSettled ==
  ASSUME NEW page \in Nat \ {0}, NEW t \in Sound(page), NEW n
  PROVE  IncLock(t, n) \in Settled(t, page) /\ DecLock(t, n) \in Settled(t, page)
<1>1. t \in Trees
  BY SoundKeys
<1> QED
  BY <1>1, LockIs, UnmovedSettled

LEMMA ReachableSettled ==
  ASSUME NEW page \in Nat \ {0}, NEW t \in Sound(page), NEW held
  PROVE  Reachable(t, held) \in Settled(t, page)
<1>1. t \in Trees
  BY SoundKeys
<1> QED
  BY <1>1, ReachableIs, UnmovedSettled

-----------------------------------------------------------------------------
(* Folds over lists *)

LEMMA SeqParts ==
  ASSUME NEW T, NEW s \in Seq(T)
  PROVE  Len(s) \in Nat /\ DOMAIN s = 1 .. Len(s) /\ \A j \in 1 .. Len(s) : s[j] \in T
OBVIOUS

LEMMA MaxIsTop == \A S : Max(S) = Top(S)
BY DEF Max, Top

(* The members of a finite set stand in a list.                            *)
LEMMA SetToSeqIs ==
  ASSUME NEW S, IsFiniteSet(S)
  PROVE  SetToSeq(S) \in Seq(S)
<1> DEFINE n == Cardinality(S)
<1>1. n \in Nat /\ ExistsBijection(1 .. n, S)
  BY FS_CardinalityType
<1>2. \E f \in [1 .. n -> S] : IsInjective(f)
  BY <1>1 DEF ExistsBijection, Bijection, Injection
<1>3. SetToSeq(S) \in [1 .. n -> S]
  BY <1>2 DEF SetToSeq
<1> HIDE DEF n
<1> QED
  BY <1>1, <1>3

(* A tier counts tokens one by one: any prefix can enter it, ...           *)
LEMMA InsertOne ==
  ASSUME NEW t \in Sound(1), NEW key \in Keys
  PROVE  Insert(t, key, 1) \in Alike(t, 1)
<1>1. Len(key) \in Nat /\ 1 \in Nat \ {0}
  BY DEF Keys
<1>2. Len(key) % 1 = 0
  <2> DEFINE n == Len(key)
  <2> HIDE DEF n
  <2>1. n \in Nat => n % 1 = 0
    OBVIOUS
  <2> QED
    BY <1>1, <2>1 DEF n
<1> QED
  BY <1>1, <1>2, InsertAlike

(* ... and many of them one after the other.                               *)
LEMMA InsertAllAlike ==
  ASSUME NEW t \in Sound(1), NEW paths \in SUBSET Keys, IsFiniteSet(paths)
  PROVE  InsertAll(t, paths) \in Alike(t, 1) /\ (paths = {} => InsertAll(t, paths) = t)
<1> DEFINE T == Alike(t, 1)
           s == SetToSeq(paths)
           m == Len(s)
           G == [k \in 1 .. m |-> [u \in T |-> Insert(u, s[k], 1)]]
           P(f) == f = [S \in SUBSET (1 .. m) |-> IF S = {} THEN t ELSE Insert(f[S \ {Max(S)}], s[Max(S)], 1)]
           fold == CHOOSE f : P(f)
<1>0. t \in T
  <2>1. t \in Alike(t, 1)
    BY DEF Alike
  <2> QED
    BY <2>1
<1>1. /\ m \in Nat /\ DOMAIN s = 1 .. m /\ \A k \in 1 .. m : s[k] \in Keys
      /\ paths = {} => m = 0
  <2>1. s \in Seq(paths)
    BY SetToSeqIs
  <2> HIDE DEF s
  <2>2. m \in Nat /\ DOMAIN s = 1 .. m /\ \A k \in 1 .. m : s[k] \in paths
    BY <2>1
  <2>3. paths = {} => m = 0
    <3>1. m # 0 => s[1] \in paths
      BY <2>2
    <3> QED
      BY <3>1
  <2> QED
    BY <2>2, <2>3
<1>2. InsertAll(t, paths) = fold[1 .. m]
  BY <1>1 DEF InsertAll, FoldLeft, MapThenFoldSet
<1>3. \A k \in 1 .. m : \A u \in T : Insert(u, s[k], 1) \in T
  <2> SUFFICES ASSUME NEW k \in 1 .. m, NEW u \in T
               PROVE  Insert(u, s[k], 1) \in T
    OBVIOUS
  <2>1. s[k] \in Keys /\ u \in Sound(1) /\ Alike(u, 1) \subseteq T
    BY <1>1, AlikeAgain
  <2>2. Insert(u, s[k], 1) \in Alike(u, 1)
    BY <2>1, InsertOne
  <2> QED
    BY <2>1, <2>2
<1>4. G \in [1 .. m -> [T -> T]]
  BY <1>3
<1>5. \A k \in 1 .. m, u \in T : G[k][u] = Insert(u, s[k], 1)
  OBVIOUS
<1>6. \A S \in SUBSET (1 .. m) : S # {} => Top(S) \in S /\ S \ {Top(S)} \in SUBSET (1 .. m)
  BY <1>1, TopInside
<1> HIDE DEF G, m, s, T
<1>7. P(fold)
  <2>1. PICK g \in [SUBSET (1 .. m) -> T] : Folds(g, m, t, G)
    BY <1>0, <1>1, <1>4, FoldExists
  <2>2. \A S \in SUBSET (1 .. m) : g[S] = IF S = {} THEN t ELSE Insert(g[S \ {Max(S)}], s[Max(S)], 1)
    BY <1>5, <1>6, <2>1, MaxIsTop DEF Folds
  <2>3. P(g)
    BY <2>2
  <2> QED
    BY <2>3
<1> HIDE DEF fold
<1>8. FoldStep(fold, m, t, G, T)
  BY <1>5, <1>6, <1>7, MaxIsTop DEF FoldStep
<1>9. PICK run \in [0 .. m -> T] : FoldRun(run, fold, m, t, G)
  BY <1>0, <1>1, <1>4, <1>8, FoldRuns
<1>10. m = 0 => fold[1 .. m] = t
  <2>1. 1 .. 0 = {} /\ 1 .. 0 \in SUBSET (1 .. m)
    OBVIOUS
  <2> QED
    BY <1>7, <2>1
<1> QED
  BY <1>1, <1>2, <1>9, <1>10 DEF FoldRun, T

-----------------------------------------------------------------------------
(* Memory records.  Mem(P) are the well-typed ones whose computed tokens   *)
(* and chunks are in P, in which nobody is preempted before a token is     *)
(* computed, whose trees are radix trees with their size in the books, and *)
(* in which the NPU has no event left: most of what MemoryModel does stays *)
(* in any such set.  Midway(P, q, d) is for the middle of an operation: only *)
(* the events in q are none, and d tokens are still to be allocated.       *)

InfoType ==
  [hit : Nat, reload : Int, counted : BOOLEAN, node : Names \cup {NoNode},
   cpuNode : Names \cup {NoNode}, locked : BOOLEAN, isInit : BOOLEAN]
Depth == Len(sim.tierCaps)
MemType ==
  [computed : [Req -> Nat], chunk : [Req -> Nat], evict : [Req -> BOOLEAN],
   npuUsed : Nat, cpuUsed : Nat, failed : Reasons, npu : Sound(Page),
   tiers : [1 .. Depth -> Sound(1)], info : [Req -> InfoType]]
Private == Storage = "CPU" /\ ~Sharing
Balanced(npuBooks, cpuBooks, why, t, s) ==
  why = "none" => npuBooks = Booked(t) /\ (Private => cpuBooks = Booked(s[1]))
Quiet(q, why, t) ==
  why = "none" => ("stored" \in q => t.stored = 0) /\ ("removed" \in q => t.removed = 0)
Midway(P, q, d) ==
  {m \in MemType : /\ <<m.computed, m.chunk>> \in P
                   /\ \A r \in Req : m.evict[r] => m.computed[r] # 0
                   /\ Balanced(m.npuUsed + d, m.cpuUsed, m.failed, m.npu, m.tiers)
                   /\ Quiet(q, m.failed, m.npu)}
Both == {"stored", "removed"}
Mem(P) == Midway(P, Both, 0)

(* What the handlers of a simulation rely on.                              *)
Simulated ==
  /\ sim \in SimulationType
  /\ Page \in Nat \ {0} /\ 1 \in Nat \ {0} /\ Depth \in Nat /\ (Storage # "none" => Depth >= 1)
  /\ Private => sim.pooled = {}
  /\ \A r \in Req : /\ Ids(r) \in Keys /\ Len(Ids(r)) = B!Output(r)
                    /\ B!Input(r) \in Nat \ {0} /\ B!Output(r) \in Nat /\ B!Output(r) > B!Input(r)
  /\ B!MaxTokens \in Nat \ {0}
  /\ B!Threshold \in Nat

LEMMA SimulatedIs ==
  ASSUME sim \in Simulations
  PROVE  Simulated
<1>1. sim \in SimulationType
  BY PrefixAssumption
<1>2. Page \in Nat \ {0} /\ B!MaxTokens \in Nat \ {0} /\ B!Threshold \in Nat
  BY <1>1 DEF SimulationType, Page, B!BlockSize, B!MaxTokens, B!Threshold
<1>3. Depth \in Nat
  <2>1. sim.tierCaps \in Seq(Nat)
    BY <1>1 DEF SimulationType
  <2> QED
    BY <2>1 DEF Depth
<1>4. Storage # "none" => Depth >= 1
  <2>1. sim.tierCaps \in Seq(Nat) /\ (Storage # "none" => sim.tierCaps # <<>>)
    BY <1>1, PrefixAssumption DEF SimulationType, Storage
  <2> QED
    BY <2>1 DEF Depth
<1>5. ASSUME NEW r \in Req
      PROVE  /\ Ids(r) \in Keys /\ Len(Ids(r)) = B!Output(r)
             /\ B!Input(r) \in Nat \ {0} /\ B!Output(r) \in Nat /\ B!Output(r) > B!Input(r)
  <2>1. sim.work \in [Req -> [ids : Seq(Nat), input : Nat \ {0}, output : Nat, arrival : Nat]]
    BY <1>1 DEF SimulationType
  <2>2. sim.work[r].output > sim.work[r].input /\ Len(sim.work[r].ids) = sim.work[r].output
    BY PrefixAssumption
  <2> QED
    BY <2>1, <2>2 DEF Ids, Keys, B!Input, B!Output
<1>6. Private => sim.pooled = {}
  BY PrefixAssumption DEF Private, Storage, Sharing
<1> QED
  BY <1>1, <1>2, <1>3, <1>4, <1>5, <1>6 DEF Simulated

(* The parts of a record, and what may replace them.                       *)
LEMMA MidwayParts ==
  ASSUME NEW P, NEW q, NEW d, NEW m \in Midway(P, q, d)
  PROVE  /\ m.computed \in [Req -> Nat] /\ m.chunk \in [Req -> Nat] /\ m.evict \in [Req -> BOOLEAN]
         /\ m.npuUsed \in Nat /\ m.cpuUsed \in Nat /\ m.failed \in Reasons
         /\ m.npu \in Sound(Page) /\ m.tiers \in [1 .. Depth -> Sound(1)] /\ m.info \in [Req -> InfoType]
         /\ <<m.computed, m.chunk>> \in P
         /\ \A r \in Req : m.evict[r] => m.computed[r] # 0
         /\ Balanced(m.npuUsed + d, m.cpuUsed, m.failed, m.npu, m.tiers)
         /\ Quiet(q, m.failed, m.npu)
BY DEF Midway, MemType

LEMMA MemParts ==
  ASSUME NEW P, NEW m \in Mem(P)
  PROVE  /\ m.computed \in [Req -> Nat] /\ m.chunk \in [Req -> Nat] /\ m.evict \in [Req -> BOOLEAN]
         /\ m.npuUsed \in Nat /\ m.cpuUsed \in Nat /\ m.failed \in Reasons
         /\ m.npu \in Sound(Page) /\ m.tiers \in [1 .. Depth -> Sound(1)] /\ m.info \in [Req -> InfoType]
         /\ <<m.computed, m.chunk>> \in P
         /\ \A r \in Req : m.evict[r] => m.computed[r] # 0
         /\ m \in Midway(P, Both, 0) /\ m \in Midway(P, {}, 0)
<1>1. m \in Midway(P, Both, 0)
  BY DEF Mem
<1>2. m \in Midway(P, {}, 0)
  BY <1>1 DEF Midway, Quiet
<1> QED
  BY <1>1, <1>2, MidwayParts

LEMMA TierIs ==
  ASSUME NEW P, NEW q, NEW d, NEW m \in Midway(P, q, d), NEW i \in 1 .. Depth
  PROVE  m.tiers[i] \in Sound(1) /\ m.tiers[i] \in Trees
<1>1. m.tiers \in [1 .. Depth -> Sound(1)]
  BY DEF Midway, MemType
<1>2. m.tiers[i] \in Sound(1)
  BY <1>1
<1> QED
  BY <1>2 DEF Sound

LEMMA NpuIs ==
  ASSUME Simulated, NEW P, NEW q, NEW d, NEW m \in Midway(P, q, d)
  PROVE  m.npu \in Sound(Page) /\ m.npu \in Trees /\ Page \in Nat \ {0}
<1>1. m.npu \in Sound(Page)
  BY DEF Midway, MemType
<1>2. Page \in Nat \ {0}
  BY DEF Simulated
<1> QED
  BY <1>1, <1>2 DEF Sound

LEMMA InfoIs ==
  ASSUME NEW P, NEW q, NEW d, NEW m \in Midway(P, q, d), NEW r \in Req
  PROVE  m.info[r] \in InfoType
<1>1. m.info \in [Req -> InfoType]
  BY DEF Midway, MemType
<1> QED
  BY <1>1

LEMMA SoundTrees == \A page : Sound(page) \subseteq Trees
BY DEF Sound

(* A tier may become any tree of its weight, the NPU as well if it owes no *)
(* new events.                                                             *)
LEMMA MidwayTrees ==
  ASSUME Simulated, NEW P, NEW q, NEW d, NEW m \in Midway(P, q, d)
  PROVE  /\ \A t \in Alike(m.npu, Page) : [m EXCEPT !.npu = t] \in Midway(P, {}, d)
         /\ \A t \in Alike(m.npu, Page) :
              t.stored = m.npu.stored => [m EXCEPT !.npu = t] \in Midway(P, q \ {"removed"}, d)
         /\ \A t \in Settled(m.npu, Page) : [m EXCEPT !.npu = t] \in Midway(P, q, d)
         /\ \A i \in 1 .. Depth : \A t \in Alike(m.tiers[i], 1) : [m EXCEPT !.tiers[i] = t] \in Midway(P, q, d)
         /\ \A s \in [1 .. Depth -> Sound(1)] :
              (\A i \in 1 .. Depth : s[i] \in Alike(m.tiers[i], 1)) => [m EXCEPT !.tiers = s] \in Midway(P, q, d)
<1>0. /\ m \in MemType /\ m.npu \in Sound(Page) /\ m.tiers \in [1 .. Depth -> Sound(1)]
      /\ Balanced(m.npuUsed + d, m.cpuUsed, m.failed, m.npu, m.tiers)
      /\ Quiet(q, m.failed, m.npu)
      /\ <<m.computed, m.chunk>> \in P /\ \A r \in Req : m.evict[r] => m.computed[r] # 0
  BY MidwayParts DEF Midway
<1>1. ASSUME NEW t \in Alike(m.npu, Page)
      PROVE  [m EXCEPT !.npu = t] \in Midway(P, {}, d)
  <2>1. t \in Sound(Page) /\ Booked(t) = Booked(m.npu)
    BY DEF Alike
  <2>2. Balanced(m.npuUsed + d, m.cpuUsed, m.failed, t, m.tiers)
    BY <1>0, <2>1 DEF Balanced
  <2>3. [m EXCEPT !.npu = t] \in MemType
    BY <1>0, <2>1 DEF MemType
  <2>4. Quiet({}, m.failed, t)
    BY DEF Quiet
  <2> QED
    BY <1>0, <2>2, <2>3, <2>4 DEF Midway, MemType
<1>5. ASSUME NEW t \in Alike(m.npu, Page), t.stored = m.npu.stored
      PROVE  [m EXCEPT !.npu = t] \in Midway(P, q \ {"removed"}, d)
  <2>1. [m EXCEPT !.npu = t] \in Midway(P, {}, d)
    BY <1>1
  <2>2. Quiet(q \ {"removed"}, m.failed, t)
    BY <1>0, <1>5 DEF Quiet
  <2> QED
    BY <1>0, <2>1, <2>2 DEF Midway, MemType
<1>2. ASSUME NEW t \in Settled(m.npu, Page)
      PROVE  [m EXCEPT !.npu = t] \in Midway(P, q, d)
  <2>1. t \in Alike(m.npu, Page) /\ t.stored = m.npu.stored /\ t.removed = m.npu.removed
    BY DEF Settled
  <2>2. [m EXCEPT !.npu = t] \in Midway(P, {}, d)
    BY <1>1, <2>1
  <2>3. Quiet(q, m.failed, t)
    BY <1>0, <2>1 DEF Quiet
  <2> QED
    BY <1>0, <2>2, <2>3 DEF Midway, MemType
<1>3. ASSUME NEW s \in [1 .. Depth -> Sound(1)], \A i \in 1 .. Depth : s[i] \in Alike(m.tiers[i], 1)
      PROVE  [m EXCEPT !.tiers = s] \in Midway(P, q, d)
  <2>1. Private => Booked(s[1]) = Booked(m.tiers[1])
    <3>1. Private => 1 \in 1 .. Depth
      BY DEF Private, Simulated
    <3> QED
      BY <1>3, <3>1 DEF Alike
  <2>2. Balanced(m.npuUsed + d, m.cpuUsed, m.failed, m.npu, s)
    BY <1>0, <2>1 DEF Balanced
  <2>3. [m EXCEPT !.tiers = s] \in MemType
    BY <1>0 DEF MemType
  <2> QED
    BY <1>0, <2>2, <2>3 DEF Midway, MemType
<1>4. ASSUME NEW i \in 1 .. Depth, NEW t \in Alike(m.tiers[i], 1)
      PROVE  [m EXCEPT !.tiers[i] = t] \in Midway(P, q, d)
  <2> DEFINE s == [m.tiers EXCEPT ![i] = t]
  <2>1. s \in [1 .. Depth -> Sound(1)]
    BY <1>0 DEF Alike
  <2>2. \A j \in 1 .. Depth : s[j] \in Alike(m.tiers[j], 1)
    BY <1>0 DEF Alike
  <2> HIDE DEF s
  <2>3. [m EXCEPT !.tiers = s] \in Midway(P, q, d)
    BY <1>3, <2>1, <2>2
  <2> QED
    BY <2>3 DEF s
<1> QED
  BY <1>1, <1>2, <1>3, <1>4, <1>5

LEMMA MemTrees ==
  ASSUME Simulated, NEW P, NEW m \in Mem(P)
  PROVE  /\ \A t \in Alike(m.npu, Page) : [m EXCEPT !.npu = t] \in Midway(P, {}, 0)
         /\ \A t \in Settled(m.npu, Page) : [m EXCEPT !.npu = t] \in Mem(P)
         /\ \A i \in 1 .. Depth : \A t \in Alike(m.tiers[i], 1) : [m EXCEPT !.tiers[i] = t] \in Mem(P)
         /\ \A s \in [1 .. Depth -> Sound(1)] :
              (\A i \in 1 .. Depth : s[i] \in Alike(m.tiers[i], 1)) => [m EXCEPT !.tiers = s] \in Mem(P)
BY MidwayTrees DEF Mem

(* What is not in the books may be anything.                               *)
LEMMA MidwayRest ==
  ASSUME NEW P, NEW q, NEW d, NEW m \in Midway(P, q, d)
  PROVE  /\ \A e \in [Req -> BOOLEAN] :
              (\A r \in Req : e[r] => m.computed[r] # 0) => [m EXCEPT !.evict = e] \in Midway(P, q, d)
         /\ \A why \in Reasons \ {"none"} : Fail(m, why) \in Midway(P, q, d)
         /\ \A s \in [Req -> InfoType] : [m EXCEPT !.info = s] \in Midway(P, q, d)
         /\ \A r \in Req, i \in InfoType : [m EXCEPT !.info[r] = i] \in Midway(P, q, d)
<1>1. \A e \in [Req -> BOOLEAN] :
        (\A r \in Req : e[r] => m.computed[r] # 0) => [m EXCEPT !.evict = e] \in Midway(P, q, d)
  BY DEF Midway, MemType
<1>2. ASSUME NEW why \in Reasons \ {"none"}
      PROVE  Fail(m, why) \in Midway(P, q, d)
  <2>1. \A a, c, t, s : Balanced(a, c, why, t, s) /\ Quiet(q, why, t)
    BY DEF Balanced, Quiet
  <2> QED
    BY <2>1 DEF Midway, MemType, Fail
<1>3. \A s \in [Req -> InfoType] : [m EXCEPT !.info = s] \in Midway(P, q, d)
  BY DEF Midway, MemType
<1>4. ASSUME NEW r \in Req, NEW i \in InfoType
      PROVE  [m EXCEPT !.info[r] = i] \in Midway(P, q, d)
  <2>1. [m.info EXCEPT ![r] = i] \in [Req -> InfoType]
    BY MidwayParts
  <2>2. [m EXCEPT !.info = [m.info EXCEPT ![r] = i]] \in Midway(P, q, d)
    BY <1>3, <2>1
  <2> QED
    BY <2>2
<1> QED
  BY <1>1, <1>2, <1>3, <1>4

LEMMA MemCounts ==
  ASSUME NEW P, NEW m \in Mem(P)
  PROVE  /\ \A e \in [Req -> BOOLEAN] :
              (\A r \in Req : e[r] => m.computed[r] # 0) => [m EXCEPT !.evict = e] \in Mem(P)
         /\ \A why \in Reasons \ {"none"} : Fail(m, why) \in Mem(P)
         /\ \A s \in [Req -> InfoType] : [m EXCEPT !.info = s] \in Mem(P)
         /\ \A r \in Req, i \in InfoType : [m EXCEPT !.info[r] = i] \in Mem(P)
BY MidwayRest DEF Mem

(* The prefixes of evicted nodes can be put into the next tier.            *)
LEMMA EvictedPaths ==
  ASSUME NEW t \in Trees, NEW k, NEW R \in Evictions(t, k)
  PROVE  /\ {Path(n) : n \in R} \in SUBSET Keys
         /\ IsFiniteSet({Path(n) : n \in R})
<1> DEFINE f == [n \in R |-> Path(n)]
           S == {Path(n) : n \in R}
<1>1. R \in SUBSET Live(t)
  BY EvictionsAre
<1>2. IsFiniteSet(R)
  <2>1. IsFiniteSet(Live(t))
    BY LiveNodes
  <2> QED
    BY <1>1, <2>1, FS_Subset
<1>3. S \in SUBSET Keys
  BY <1>1, LiveNodes
<1>4. f \in Surjection(R, S)
  <2>1. f \in [R -> S] /\ \A x \in S : \E n \in R : f[n] = x
    OBVIOUS
  <2> HIDE DEF f, S
  <2> QED
    BY <2>1, Fun_IsSurj
<1>5. IsFiniteSet(S)
  BY <1>2, <1>4, FS_Surjection
<1> QED
  BY <1>3, <1>5

(* What leaves tier j of record x, and enters the next one.                *)
SpillOut(x, j, R) == [x EXCEPT !.tiers[j] = Delete(@, R)]
SpillDown(x, j, R) ==
  [SpillOut(x, j, R) EXCEPT !.tiers[j + 1] = InsertAll(@, {Path(n) : n \in R})]
Spilled(m, a, j) ==
  IF a.k <= 0 THEN {a}
  ELSE {IF j = Len(m.tiers) THEN [m |-> SpillOut(a.m, j, R), k |-> 0]
        ELSE [m |-> SpillDown(a.m, j, R),
              k |-> Size(SpillDown(a.m, j, R).tiers[j + 1]) - TierCap(j + 1)]
        : R \in Evictions(a.m.tiers[j], a.k)}

LEMMA SpillOutIs ==
  ASSUME Simulated, NEW P, NEW q, NEW d, NEW x \in Midway(P, q, d), NEW j \in 1 .. Depth, NEW k,
         NEW R \in Evictions(x.tiers[j], k)
  PROVE  SpillOut(x, j, R) \in Midway(P, q, d)
<1>1. x.tiers[j] \in Sound(1) /\ 1 \in Nat \ {0}
  BY TierIs DEF Simulated
<1>2. Delete(x.tiers[j], R) \in Alike(x.tiers[j], 1)
  BY <1>1, DeleteAlike
<1> QED
  BY <1>2, MidwayTrees DEF SpillOut

LEMMA SpillDownIs ==
  ASSUME Simulated, NEW P, NEW q, NEW d, NEW x \in Midway(P, q, d), NEW j \in 1 .. Depth, j + 1 \in 1 .. Depth,
         NEW k, NEW R \in Evictions(x.tiers[j], k)
  PROVE  SpillDown(x, j, R) \in Midway(P, q, d)
<1> DEFINE paths == {Path(n) : n \in R}
           out == SpillOut(x, j, R)
<1>1. paths \in SUBSET Keys /\ IsFiniteSet(paths)
  <2>1. x.tiers[j] \in Trees
    BY TierIs
  <2> QED
    BY <2>1, EvictedPaths
<1>2. out \in Midway(P, q, d)
  BY SpillOutIs
<1> HIDE DEF out, paths
<1>3. out.tiers[j + 1] \in Sound(1)
  BY <1>2, TierIs
<1>4. InsertAll(out.tiers[j + 1], paths) \in Alike(out.tiers[j + 1], 1)
  BY <1>1, <1>3, InsertAllAlike
<1>5. [out EXCEPT !.tiers[j + 1] = InsertAll(out.tiers[j + 1], paths)] \in Midway(P, q, d)
  BY <1>2, <1>4, MidwayTrees
<1> QED
  BY <1>5 DEF SpillDown, out, paths

(* The records on the way, with what is too much in the next tier.         *)
Spilling(P, q, d, k) ==
  [m : Midway(P, q, d), k : {k, 0} \cup {Size(t) - TierCap(j) : t \in Sound(1), j \in 1 .. Depth}]

LEMMA SpilledIs ==
  ASSUME Simulated, NEW P, NEW q, NEW d, NEW k, NEW m, Len(m.tiers) = Depth, NEW a \in Spilling(P, q, d, k),
         NEW j \in 1 .. Depth
  PROVE  Spilled(m, a, j) \in SUBSET Spilling(P, q, d, k)
<1>1. CASE a.k <= 0
  BY <1>1 DEF Spilled
<1>2. CASE ~(a.k <= 0)
  <2>1. a.m \in Midway(P, q, d)
    BY DEF Spilling
  <2>2. ASSUME NEW R \in Evictions(a.m.tiers[j], a.k), j = Depth
        PROVE  [m |-> SpillOut(a.m, j, R), k |-> 0] \in Spilling(P, q, d, k)
    <3>1. SpillOut(a.m, j, R) \in Midway(P, q, d)
      BY <2>1, SpillOutIs
    <3> QED
      BY <3>1 DEF Spilling
  <2>3. ASSUME NEW R \in Evictions(a.m.tiers[j], a.k), j # Depth
        PROVE  [m |-> SpillDown(a.m, j, R), k |-> Size(SpillDown(a.m, j, R).tiers[j + 1]) - TierCap(j + 1)]
                 \in Spilling(P, q, d, k)
    <3>1. j + 1 \in 1 .. Depth
      BY <2>3 DEF Simulated
    <3>2. SpillDown(a.m, j, R) \in Midway(P, q, d)
      BY <2>1, <3>1, SpillDownIs
    <3>3. SpillDown(a.m, j, R).tiers[j + 1] \in Sound(1)
      BY <3>1, <3>2, TierIs
    <3> QED
      BY <3>1, <3>2, <3>3 DEF Spilling
  <2>4. ASSUME NEW x \in Spilled(m, a, j)
        PROVE  x \in Spilling(P, q, d, k)
    <3>1. PICK R \in Evictions(a.m.tiers[j], a.k) :
            x = IF j = Len(m.tiers) THEN [m |-> SpillOut(a.m, j, R), k |-> 0]
                ELSE [m |-> SpillDown(a.m, j, R),
                      k |-> Size(SpillDown(a.m, j, R).tiers[j + 1]) - TierCap(j + 1)]
      BY <1>2, <2>4 DEF Spilled
    <3> QED
      BY <2>2, <2>3, <3>1
  <2> QED
    BY <2>4
<1> QED
  BY <1>1, <1>2

(* _evict_tier keeps the trees trees.                                      *)
LEMMA SpillIs ==
  ASSUME Simulated, NEW P, NEW q, NEW d, NEW m \in Midway(P, q, d), NEW i \in 1 .. Depth, NEW k
  PROVE  Spill(m, i, k) \in SUBSET Midway(P, q, d)
<1> DEFINE T == SUBSET Spilling(P, q, d, k)
           n == Len(m.tiers) - i + 1
           s == [j \in 1 .. Len(m.tiers) - i + 1 |-> j + i - 1]
           b == {[m |-> m, k |-> k]}
           step(S, j) == UNION {Spilled(m, a, j) : a \in S}
           G == [j \in 1 .. n |-> [S \in T |-> step(S, s[j])]]
           H(f) == f = [S \in SUBSET (1 .. n) |-> IF S = {} THEN b ELSE step(f[S \ {Max(S)}], s[Max(S)])]
           fold == CHOOSE f : H(f)
<1>1. Len(m.tiers) = Depth /\ n \in Nat /\ Depth \in Nat
  <2>1. m.tiers \in [1 .. Depth -> Sound(1)] /\ Depth \in Nat
    BY MidwayParts DEF Simulated
  <2>2. Len(m.tiers) = Depth
    BY <2>1
  <2> QED
    BY <2>1, <2>2
<1>2. DOMAIN s = 1 .. n /\ \A j \in 1 .. n : s[j] \in 1 .. Depth
  BY <1>1
<1>3. Spill(m, i, k) = {a.m : a \in fold[1 .. n]}
  BY <1>2 DEF Spill, FoldLeft, MapThenFoldSet, Spilled, SpillDown, SpillOut
<1>4. b \in T
  BY DEF Spilling
<1>5. \A j \in 1 .. Depth : \A S \in T : step(S, j) \in T
  <2> SUFFICES ASSUME NEW j \in 1 .. Depth, NEW S \in T
               PROVE  step(S, j) \in T
    OBVIOUS
  <2>1. \A a \in S : Spilled(m, a, j) \in SUBSET Spilling(P, q, d, k)
    BY <1>1, SpilledIs
  <2> QED
    BY <2>1
<1> HIDE DEF s, b, step, T
<1>6. G \in [1 .. n -> [T -> T]]
  BY <1>2, <1>5
<1>7. \A j \in 1 .. n, S \in T : G[j][S] = step(S, s[j])
  OBVIOUS
<1>8. \A S \in SUBSET (1 .. n) : S # {} => Top(S) \in S /\ S \ {Top(S)} \in SUBSET (1 .. n)
  BY <1>1, TopInside
<1> HIDE DEF G, n
<1>9. H(fold)
  <2>1. PICK g \in [SUBSET (1 .. n) -> T] : Folds(g, n, b, G)
    BY <1>1, <1>4, <1>6, FoldExists
  <2>2. \A S \in SUBSET (1 .. n) : g[S] = IF S = {} THEN b ELSE step(g[S \ {Max(S)}], s[Max(S)])
    BY <1>7, <1>8, <2>1, MaxIsTop DEF Folds
  <2>3. H(g)
    BY <2>2
  <2> QED
    BY <2>3
<1> HIDE DEF fold
<1>10. FoldStep(fold, n, b, G, T)
  BY <1>7, <1>8, <1>9, MaxIsTop DEF FoldStep
<1>11. PICK run \in [0 .. n -> T] : FoldRun(run, fold, n, b, G)
  BY <1>1, <1>4, <1>6, <1>10, FoldRuns
<1>12. fold[1 .. n] \in SUBSET Spilling(P, q, d, k)
  BY <1>1, <1>11 DEF FoldRun, T
<1>13. \A a \in Spilling(P, q, d, k) : a.m \in Midway(P, q, d)
  BY DEF Spilling
<1> QED
  BY <1>3, <1>12, <1>13


(* An evicted prefix enters the second tier, if there is room for it.      *)
Demoted(x, n) ==
  {IF Size(y.tiers[1]) + Len(Path(n)) <= TierCap(1)
   THEN [y EXCEPT !.tiers[1] = Insert(@, Path(n), 1)] ELSE y
   : y \in Spill(x, 1, Size(x.tiers[1]) + Len(Path(n)) - TierCap(1))}

LEMMA DemotedIs ==
  ASSUME Simulated, Depth >= 1, NEW P, NEW q, NEW d, NEW x \in Midway(P, q, d), NEW n \in Names
  PROVE  Demoted(x, n) \in SUBSET Midway(P, q, d)
<1>1. 1 \in 1 .. Depth /\ Path(n) \in Keys /\ 1 \in Nat \ {0}
  BY DEF Simulated, Path, Names
<1>2. Spill(x, 1, Size(x.tiers[1]) + Len(Path(n)) - TierCap(1)) \in SUBSET Midway(P, q, d)
  BY <1>1, SpillIs
<1>3. ASSUME NEW y \in Midway(P, q, d)
      PROVE  [y EXCEPT !.tiers[1] = Insert(@, Path(n), 1)] \in Midway(P, q, d)
  <2>1. y.tiers[1] \in Sound(1)
    BY <1>1, TierIs
  <2>2. Insert(y.tiers[1], Path(n), 1) \in Alike(y.tiers[1], 1)
    BY <1>1, <2>1, InsertOne
  <2> QED
    BY <1>1, <2>2, MidwayTrees
<1> QED
  BY <1>2, <1>3 DEF Demoted

(* ... one after the other.                                                *)
LEMMA DemotedEach ==
  ASSUME Simulated, Depth >= 1, NEW P, NEW q, NEW d, NEW S0 \in SUBSET Midway(P, q, d), NEW s \in Seq(Names)
  PROVE  ForEach(S0, s, Demoted) \in SUBSET Midway(P, q, d)
<1> DEFINE T == SUBSET Midway(P, q, d)
           n == Len(s)
           step(S, j) == UNION {IF x.failed = "none" THEN Demoted(x, j) ELSE {x} : x \in S}
           G == [j \in 1 .. n |-> [S \in T |-> step(S, s[j])]]
           H(f) == f = [S \in SUBSET (1 .. n) |-> IF S = {} THEN S0 ELSE step(f[S \ {Max(S)}], s[Max(S)])]
           fold == CHOOSE f : H(f)
<1>1. n \in Nat /\ DOMAIN s = 1 .. n /\ \A j \in 1 .. n : s[j] \in Names
  OBVIOUS
<1>2. ForEach(S0, s, Demoted) = fold[1 .. n]
  BY <1>1 DEF ForEach, Then, FoldLeft, MapThenFoldSet
<1>3. S0 \in T
  OBVIOUS
<1>4. \A x \in Midway(P, q, d), j \in Names : Demoted(x, j) \in SUBSET Midway(P, q, d)
  BY DemotedIs
<1>5. \A j \in Names : \A S \in T : step(S, j) \in T
  BY <1>4
<1> HIDE DEF n, step, T
<1>6. G \in [1 .. n -> [T -> T]]
  BY <1>1, <1>5
<1>7. \A j \in 1 .. n, S \in T : G[j][S] = step(S, s[j])
  OBVIOUS
<1>8. \A S \in SUBSET (1 .. n) : S # {} => Top(S) \in S /\ S \ {Top(S)} \in SUBSET (1 .. n)
  BY <1>1, TopInside
<1> HIDE DEF G
<1>9. H(fold)
  <2>1. PICK g \in [SUBSET (1 .. n) -> T] : Folds(g, n, S0, G)
    BY <1>1, <1>3, <1>6, FoldExists
  <2>2. \A S \in SUBSET (1 .. n) : g[S] = IF S = {} THEN S0 ELSE step(g[S \ {Max(S)}], s[Max(S)])
    BY <1>7, <1>8, <2>1, MaxIsTop DEF Folds
  <2>3. H(g)
    BY <2>2
  <2> QED
    BY <2>3
<1> HIDE DEF fold
<1>10. FoldStep(fold, n, S0, G, T)
  BY <1>7, <1>8, <1>9, MaxIsTop DEF FoldStep
<1>11. PICK run \in [0 .. n -> T] : FoldRun(run, fold, n, S0, G)
  BY <1>1, <1>3, <1>6, <1>10, FoldRuns
<1> QED
  BY <1>1, <1>2, <1>11 DEF FoldRun, T

LEMMA DeleteStores == \A t \in Trees : \A R : Delete(t, R).stored = t.stored
BY DEF Delete, RecordRemove, Trees, TreeType

(* _evict_npu                                                              *)
LEMMA EvictNpuIs ==
  ASSUME Simulated, NEW P, NEW q, NEW d, NEW m \in Midway(P, q, d), NEW k
  PROVE  EvictNpu(m, k) \in SUBSET Midway(P, q \ {"removed"}, d)
<1>1. ASSUME NEW R \in Evictions(m.npu, k)
      PROVE  /\ [m EXCEPT !.npu = Delete(@, R)] \in Midway(P, q \ {"removed"}, d)
             /\ R \in SUBSET Names
  <2>0. m.npu \in Sound(Page) /\ Page \in Nat \ {0}
    BY MidwayParts DEF Simulated
  <2>1. m.npu \in Trees
    BY <2>0, SoundTrees
  <2>2. R \in SUBSET (Live(m.npu) \ {Root})
    BY <2>1, EvictionsAre
  <2>3. Delete(m.npu, R) \in Alike(m.npu, Page) /\ Delete(m.npu, R).stored = m.npu.stored
    BY <2>0, <2>1, DeleteAlike, DeleteStores
  <2>4. R \in SUBSET Names
    BY <2>1, <2>2, LiveNodes
  <2> QED
    BY <2>3, <2>4, MidwayTrees
<1>2. CASE k <= 0
  <2>1. m \in Midway(P, q \ {"removed"}, d)
    BY DEF Midway, Quiet
  <2> QED
    BY <1>2, <2>1 DEF EvictNpu
<1>3. CASE ~(k <= 0) /\ Exclusive
  <2>1. Depth >= 1
    BY <1>3 DEF Exclusive, Simulated
  <2>2. ASSUME NEW R \in Evictions(m.npu, k), NEW s \in Collected(m.npu, R, k)
        PROVE  ForEach({[m EXCEPT !.npu = Delete(@, R)]}, s, Demoted) \in SUBSET Midway(P, q \ {"removed"}, d)
    <3>1. s \in Seq(Names)
      <4>1. IsFiniteSet(R)
        <5>1. m.npu \in Trees
          BY MidwayParts, SoundTrees
        <5>2. R \in SUBSET Live(m.npu) /\ IsFiniteSet(Live(m.npu))
          BY <5>1, EvictionsAre, LiveNodes
        <5> QED
          BY <5>2, FS_Subset
      <4>2. s \in Arrangements(R)
        BY DEF Collected
      <4> QED
        BY <1>1, <4>1, <4>2, ArrangementProperties
    <3>2. {[m EXCEPT !.npu = Delete(@, R)]} \in SUBSET Midway(P, q \ {"removed"}, d)
      BY <1>1
    <3> DEFINE S0 == {[m EXCEPT !.npu = Delete(@, R)]}
    <3> HIDE DEF S0
    <3>3. ForEach(S0, s, Demoted) \in SUBSET Midway(P, q \ {"removed"}, d)
      BY <2>1, <3>1, <3>2, DemotedEach DEF S0
    <3> QED
      BY <3>3 DEF S0, ForEach, Then, FoldLeft, MapThenFoldSet
  <2>3. EvictNpu(m, k) = UNION {UNION {ForEach({[m EXCEPT !.npu = Delete(@, R)]}, s, Demoted)
                                      : s \in Collected(m.npu, R, k)} : R \in Evictions(m.npu, k)}
    BY <1>3 DEF EvictNpu, Demote, Demoted, ForEach, Then, FoldLeft, MapThenFoldSet
  <2> DEFINE each(R, s) == ForEach({[m EXCEPT !.npu = Delete(@, R)]}, s, Demoted)
             K == Midway(P, q \ {"removed"}, d)
  <2>4. /\ \A R \in Evictions(m.npu, k) : \A s \in Collected(m.npu, R, k) : each(R, s) \in SUBSET K
        /\ EvictNpu(m, k) = UNION {UNION {each(R, s) : s \in Collected(m.npu, R, k)} : R \in Evictions(m.npu, k)}
    BY <2>2, <2>3 DEF ForEach, Then, FoldLeft, MapThenFoldSet
  <2> HIDE DEF each, K
  <2>5. EvictNpu(m, k) \in SUBSET K
    BY <2>4
  <2> QED
    BY <2>5 DEF K
<1>4. CASE ~(k <= 0) /\ ~Exclusive
  BY <1>1, <1>4 DEF EvictNpu
<1> QED
  BY <1>2, <1>3, <1>4


(* apply_kv_cache_events: what it frees, what it takes from the queues ... *)
LEMMA TierEventsAre ==
  ASSUME Simulated, NEW P, NEW q, NEW d, NEW m \in Midway(P, q, d), m.failed = "none"
  PROVE  TierEvents(m) \in SUBSET Midway(P, q, d)
<1>1. /\ m.tiers \in [1 .. Depth -> Sound(1)] /\ m.cpuUsed \in Nat
      /\ {"accounting", "cpu_full"} \subseteq Reasons \ {"none"}
      /\ Balanced(m.npuUsed + d, m.cpuUsed, m.failed, m.npu, m.tiers) /\ m \in MemType
      /\ Quiet(q, m.failed, m.npu)
      /\ <<m.computed, m.chunk>> \in P /\ \A r \in Req : m.evict[r] => m.computed[r] # 0
  BY MidwayParts DEF Midway, Reasons
<1>2. CASE Storage # "CPU" \/ Sharing
  <2> DEFINE s == [i \in DOMAIN m.tiers |-> Taken(m.tiers[i])]
             x == [m EXCEPT !.tiers = s]
  <2>1. s \in [1 .. Depth -> Sound(1)]
    BY <1>1, TakenSound DEF Simulated
  <2> HIDE DEF s
  <2>2. Balanced(m.npuUsed + d, m.cpuUsed, m.failed, m.npu, s)
    BY <1>1, <1>2 DEF Balanced, Private
  <2>3. x \in MemType
    BY <1>1, <2>1 DEF MemType
  <2>4. x \in Midway(P, q, d)
    BY <1>1, <2>2, <2>3 DEF Midway, MemType
  <2> HIDE DEF x
  <2> QED
    BY <1>2, <2>4 DEF TierEvents, s, x
<1>3. CASE ~(Storage # "CPU" \/ Sharing)
  <2> DEFINE t == m.tiers[1]
             used == m.cpuUsed - t.removed
             c == used + t.stored
             new == Taken(t)
             s == [m.tiers EXCEPT ![1] = new]
             x == [m EXCEPT !.cpuUsed = c]
             y == [x EXCEPT !.tiers = s]
  <2>1. 1 \in 1 .. Depth
    BY <1>3 DEF Simulated
  <2>2. t \in Sound(1) /\ Private
    BY <1>1, <1>3, <2>1 DEF Private
  <2>3. t.removed \in Nat /\ t.stored \in Nat /\ m.cpuUsed = Booked(t) /\ m.npuUsed + d = Booked(m.npu)
    BY <1>1, <2>2, SoundTrees, TreeParts DEF Balanced
  <2>4. new \in Sound(1) /\ Booked(new) = Booked(t) + t.stored - t.removed
    BY <2>2, TakenSound DEF Simulated
  <2> HIDE DEF t, new
  <2>5. ~(used < 0) => c \in Nat
    BY <1>1, <2>3
  <2>6. c = Booked(new)
    <3>1. m.cpuUsed \in Nat
      BY <1>1
    <3> QED
      BY <2>3, <2>4, <3>1
  <2>7. TierEvents(m) \in SUBSET ({Fail(m, "accounting"), Fail(m, "cpu_full")}
                                   \cup (IF used < 0 THEN {} ELSE {y}))
    BY <1>3 DEF TierEvents, t, new
  <2> HIDE DEF used, c
  <2>8. ASSUME ~(used < 0)
        PROVE  y \in Midway(P, q, d)
    <3>1. s \in [1 .. Depth -> Sound(1)] /\ s[1] = new
      BY <1>1, <2>1, <2>4
    <3> HIDE DEF s
    <3>2. Balanced(m.npuUsed + d, c, m.failed, m.npu, s)
      BY <2>3, <2>6, <3>1 DEF Balanced
    <3>3. y \in MemType
      BY <1>1, <2>5, <2>8, <3>1 DEF MemType
    <3> QED
      BY <1>1, <3>2, <3>3 DEF Midway, MemType
  <2>9. Fail(m, "accounting") \in Midway(P, q, d) /\ Fail(m, "cpu_full") \in Midway(P, q, d)
    BY <1>1, MidwayRest
  <2> HIDE DEF y
  <2> QED
    BY <2>7, <2>8, <2>9
<1> QED
  BY <1>2, <1>3

(* What is freed leaves the books; what was stored is still to be          *)
(* allocated.                                                              *)
LEMMA FreeRemovedIs ==
  ASSUME Simulated, NEW P, NEW q, NEW d \in Nat, NEW m \in Midway(P, q, d), m.failed = "none"
  PROVE  FreeRemoved(m) \in Midway(P, Both, d + m.npu.stored)
<1> DEFINE t == m.npu
           n == m.npuUsed - t.removed
           new == Taken(t)
           x == [m EXCEPT !.npuUsed = n]
           y == [x EXCEPT !.npu = new]
<1>1. /\ m.npuUsed \in Nat /\ t \in Sound(Page) /\ m \in MemType
      /\ Balanced(m.npuUsed + d, m.cpuUsed, m.failed, t, m.tiers)
      /\ <<m.computed, m.chunk>> \in P /\ \A r \in Req : m.evict[r] => m.computed[r] # 0
  BY MidwayParts DEF Midway
<1>2. t.removed \in Nat /\ t.stored \in Nat
  BY <1>1, SoundTrees, TreeParts
<1>3. /\ new \in Sound(Page) /\ Booked(new) = Booked(t) + t.stored - t.removed
      /\ new.stored = 0 /\ new.removed = 0
  BY <1>1, TakenSound DEF Simulated
<1>4. FreeRemoved(m) = IF m.npuUsed < t.removed THEN Fail(m, "accounting") ELSE y
  BY DEF FreeRemoved
<1> HIDE DEF t, new
<1>5. CASE m.npuUsed < t.removed
  <2>1. \A a, c, w, s : Balanced(a, c, "accounting", w, s) /\ Quiet(Both, "accounting", w)
    BY DEF Balanced, Quiet
  <2>2. Fail(m, "accounting") \in Midway(P, Both, d + t.stored)
    BY <1>1, <2>1 DEF Midway, MemType, Fail, Reasons
  <2> QED
    BY <1>4, <1>5, <2>2 DEF t
<1>6. CASE ~(m.npuUsed < t.removed)
  <2>1. n \in Nat
    BY <1>1, <1>2, <1>6
  <2>2. n + (d + t.stored) = Booked(new)
    <3>1. m.npuUsed + d = Booked(t)
      BY <1>1 DEF Balanced
    <3> QED
      BY <1>1, <1>2, <1>3, <3>1
  <2> HIDE DEF n
  <2>3. Balanced(n + (d + t.stored), m.cpuUsed, m.failed, new, m.tiers)
    BY <1>1, <2>2 DEF Balanced
  <2>4. y \in MemType
    BY <1>1, <1>3, <2>1 DEF MemType
  <2>5. Quiet(Both, m.failed, new)
    BY <1>3 DEF Quiet
  <2>6. y \in Midway(P, Both, d + t.stored)
    BY <1>1, <2>3, <2>4, <2>5 DEF Midway, MemType
  <2> HIDE DEF y
  <2> QED
    BY <1>4, <1>6, <2>6 DEF t
<1> QED
  BY <1>5, <1>6

(* ... and how it makes room for what was stored.                          *)
LEMMA ApplyIs ==
  ASSUME Simulated, NEW P, NEW m \in Midway(P, {}, 0)
  PROVE  m.failed = "none" => Apply(m) \in SUBSET Mem(P)
<1> SUFFICES ASSUME m.failed = "none"
             PROVE  Apply(m) \in SUBSET Mem(P)
  OBVIOUS
<1> DEFINE grown == m.npu.stored
           K == Midway(P, Both, grown)
           freed(x) == Then({FreeRemoved(x)}, TierEvents)
           room(x) == Then(EvictNpu(x, x.npuUsed + grown - NpuCap), LAMBDA y : Then({FreeRemoved(y)}, TierEvents))
           allocate(x) == IF x.npuUsed + grown > NpuCap THEN {Fail(x, "npu_full")}
                          ELSE TierEvents([x EXCEPT !.npuUsed = @ + grown])
<1>1. m.npu \in Trees
  BY MidwayParts, SoundTrees
<1>2. grown \in Nat
  BY <1>1, TreeParts
<1>3. ASSUME NEW q, NEW d \in Nat, NEW x \in Midway(P, q, d), x.failed = "none"
      PROVE  freed(x) \in SUBSET Midway(P, Both, d + x.npu.stored)
  <2> DEFINE y == FreeRemoved(x)
             L == Midway(P, Both, d + x.npu.stored)
  <2>1. y \in L
    BY <1>3, FreeRemovedIs
  <2>2. freed(x) = IF y.failed = "none" THEN TierEvents(y) ELSE {y}
    BY DEF Then
  <2> HIDE DEF y
  <2>3. y.failed = "none" => TierEvents(y) \in SUBSET L
    BY <2>1, TierEventsAre
  <2> HIDE DEF L, freed
  <2>4. freed(x) \in SUBSET L
    BY <2>1, <2>2, <2>3
  <2> QED
    BY <2>4 DEF L
<1>4. ASSUME NEW x \in K, x.failed = "none"
      PROVE  room(x) \in SUBSET K
  <2> DEFINE E == EvictNpu(x, x.npuUsed + grown - NpuCap)
             J == Midway(P, Both \ {"removed"}, grown)
  <2>1. E \in SUBSET J
    BY EvictNpuIs
  <2>2. room(x) = UNION {IF y.failed = "none" THEN freed(y) ELSE {y} : y \in E}
    BY DEF Then
  <2>3. ASSUME NEW y \in J
        PROVE  (IF y.failed = "none" THEN freed(y) ELSE {y}) \in SUBSET K
    <3>1. CASE y.failed = "none"
      <4>1. y.npu.stored = 0
        <5>1. Quiet(Both \ {"removed"}, y.failed, y.npu)
          BY MidwayParts
        <5> QED
          BY <3>1, <5>1 DEF Quiet, Both
      <4>2. freed(y) \in SUBSET Midway(P, Both, grown + y.npu.stored)
        BY <1>2, <1>3, <3>1
      <4>3. grown + y.npu.stored = grown
        BY <1>2, <4>1
      <4> HIDE DEF freed, grown
      <4> QED
        BY <3>1, <4>2, <4>3
    <3>2. CASE y.failed # "none"
      <4>1. \A a, c, t, s : Balanced(a, c, y.failed, t, s) /\ Quiet(Both, y.failed, t)
        BY <3>2 DEF Balanced, Quiet
      <4>2. y \in K
        <5> HIDE DEF grown
        <5> QED
          BY <4>1 DEF Midway
      <4> QED
        BY <3>2, <4>2
    <3> QED
      BY <3>1, <3>2
  <2> HIDE DEF E, J, K, freed, room
  <2> QED
    BY <2>1, <2>2, <2>3
<1>5. ASSUME NEW x \in K, x.failed = "none"
      PROVE  allocate(x) \in SUBSET Mem(P)
  <2> DEFINE n == x.npuUsed + grown
             y == [x EXCEPT !.npuUsed = n]
  <2>1. \A a, c, t, s : Balanced(a, c, "npu_full", t, s) /\ Quiet(Both, "npu_full", t)
    BY DEF Balanced, Quiet
  <2>2. Fail(x, "npu_full") \in Mem(P)
    <3> HIDE DEF grown
    <3> QED
      BY <2>1 DEF Mem, Midway, MemType, Fail, Reasons
  <2>3. n \in Nat
    <3>1. x.npuUsed \in Nat
      BY MidwayParts
    <3> HIDE DEF grown
    <3> QED
      BY <1>2, <3>1
  <2>4. Balanced(n, x.cpuUsed, x.failed, x.npu, x.tiers)
    BY MidwayParts
  <2>5. allocate(x) = IF n > NpuCap THEN {Fail(x, "npu_full")} ELSE TierEvents(y)
    OBVIOUS
  <2> HIDE DEF n
  <2>6. Balanced(n + 0, x.cpuUsed, x.failed, x.npu, x.tiers)
    BY <2>3, <2>4
  <2>7. y \in Mem(P) /\ y.failed = "none"
    <3> HIDE DEF grown
    <3>1. x.failed = "none" /\ Quiet(Both, x.failed, x.npu) /\ x \in MemType
      BY <1>5, MidwayParts DEF Midway, K
    <3>2. y \in MemType
      BY <2>3, <3>1 DEF MemType
    <3>3. y \in Midway(P, Both, 0)
      BY <2>6, <3>1, <3>2 DEF Midway, MemType
    <3> QED
      BY <3>1, <3>3 DEF Mem, MemType
  <2> HIDE DEF y, allocate
  <2>8. TierEvents(y) \in SUBSET Mem(P)
    BY <2>7, TierEventsAre DEF Mem
  <2> QED
    BY <2>2, <2>5, <2>8
<1>6. Apply(m) = IF grown = 0 THEN freed(m) ELSE Then(Then({FreeRemoved(m)}, room), allocate)
  BY DEF Apply, Then
<1>7. CASE grown = 0
  <2>1. freed(m) \in SUBSET Midway(P, Both, 0 + m.npu.stored)
    BY <1>3
  <2>2. 0 + m.npu.stored = 0
    BY <1>7
  <2> HIDE DEF freed
  <2> QED
    BY <1>6, <1>7, <2>1, <2>2 DEF Mem
<1>8. CASE grown # 0
  <2> DEFINE y == FreeRemoved(m)
             S == Then({y}, room)
  <2>1. y \in K
    <3>1. FreeRemoved(m) \in Midway(P, Both, 0 + m.npu.stored)
      BY FreeRemovedIs
    <3>2. 0 + m.npu.stored = m.npu.stored
      BY <1>2
    <3> QED
      BY <3>1, <3>2
  <2> HIDE DEF y
  <2>2. S \in SUBSET K
    <3>1. S = IF y.failed = "none" THEN room(y) ELSE {y}
      <4> HIDE DEF room
      <4> QED
        BY DEF Then
    <3> HIDE DEF room, S, K
    <3> QED
      BY <1>4, <2>1, <3>1
  <2>3. Apply(m) = UNION {IF x.failed = "none" THEN allocate(x) ELSE {x} : x \in S}
    BY <1>6, <1>8 DEF Then, y
  <2>4. ASSUME NEW x \in K
        PROVE  (IF x.failed = "none" THEN allocate(x) ELSE {x}) \in SUBSET Mem(P)
    <3>1. CASE x.failed = "none"
      <4> HIDE DEF allocate
      <4> QED
        BY <1>5, <3>1
    <3>2. CASE x.failed # "none"
      <4>1. \A a, c, t, s : Balanced(a, c, x.failed, t, s)
        BY <3>2 DEF Balanced
      <4>2. x \in Mem(P)
        <5> HIDE DEF grown
        <5> QED
          BY <4>1 DEF Midway, Mem
      <4> QED
        BY <3>2, <4>2
    <3> QED
      BY <3>1, <3>2
  <2> HIDE DEF S, allocate, K
  <2> QED
    BY <2>2, <2>3, <2>4
<1> QED
  BY <1>7, <1>8

LEMMA ApplyEach ==
  ASSUME Simulated, NEW P, NEW S \in SUBSET Midway(P, {}, 0)
  PROVE  Then(S, Apply) \in SUBSET Mem(P)
<1>1. ASSUME NEW x \in S
      PROVE  (IF x.failed = "none" THEN Apply(x) ELSE {x}) \in SUBSET Mem(P)
  <2>1. CASE x.failed = "none"
    BY <2>1, ApplyIs
  <2>2. CASE x.failed # "none"
    <3>1. \A t : Quiet(Both, x.failed, t)
      BY <2>2 DEF Quiet
    <3>2. x \in Mem(P)
      BY <3>1 DEF Mem, Midway
    <3> QED
      BY <2>2, <3>2
  <2> QED
    BY <2>1, <2>2
<1> QED
  BY <1>1 DEF Then

(* evict_prefix_cache                                                      *)
LEMMA EvictPrefixIs ==
  ASSUME Simulated, NEW P, NEW m \in Mem(P), NEW k
  PROVE  /\ EvictPrefixNpu(m, k) \in SUBSET Mem(P)
         /\ Storage # "none" => EvictPrefixStorage(m, k) \in SUBSET Mem(P)
<1>1. EvictPrefixNpu(m, k) \in SUBSET Mem(P)
  <2>1. EvictNpu(m, k) \in SUBSET Midway(P, {}, 0)
    <3>1. EvictNpu(m, k) \in SUBSET Midway(P, Both \ {"removed"}, 0)
      BY EvictNpuIs DEF Mem
    <3>2. Midway(P, Both \ {"removed"}, 0) \subseteq Midway(P, {}, 0)
      BY DEF Midway, Quiet
    <3> QED
      BY <3>1, <3>2
  <2> DEFINE S == Then(EvictNpu(m, k), Apply)
  <2>2. S \in SUBSET Mem(P)
    BY <2>1, ApplyEach DEF Then
  <2>3. EvictPrefixNpu(m, k) = IF k <= 0 THEN {m} ELSE S
    BY DEF EvictPrefixNpu, Then
  <2> HIDE DEF S
  <2> QED
    BY <2>2, <2>3
<1>2. ASSUME Storage # "none"
      PROVE  EvictPrefixStorage(m, k) \in SUBSET Mem(P)
  <2> DEFINE dropped == {[m EXCEPT !.tiers[1] = Delete(@, R)] : R \in Evictions(m.tiers[1], k)}
             out == IF Exclusive THEN Spill(m, 1, k) ELSE dropped
  <2>1. 1 \in 1 .. Depth
    BY <1>2 DEF Simulated
  <2>2. dropped \in SUBSET Mem(P)
    <3>1. m.tiers[1] \in Sound(1)
      BY <2>1, MemParts
    <3>2. \A R \in Evictions(m.tiers[1], k) : Delete(m.tiers[1], R) \in Alike(m.tiers[1], 1)
      BY <3>1, DeleteAlike DEF Simulated
    <3> QED
      BY <2>1, <3>2, MemTrees
  <2>3. out \in SUBSET Mem(P)
    BY <2>1, <2>2, SpillIs DEF Mem
  <2>4. EvictPrefixStorage(m, k) = IF k <= 0 THEN {m} ELSE IF Storage = "CXL" THEN {Fail(m, "unsupported")}
                                   ELSE Then(out, Apply)
    BY DEF EvictPrefixStorage, Then
  <2> HIDE DEF out
  <2>6. Then(out, Apply) \in SUBSET Mem(P)
    <3>1. out \in SUBSET Midway(P, {}, 0)
      BY <2>3, MemParts
    <3> QED
      BY <3>1, ApplyEach DEF Then
  <2>7. Fail(m, "unsupported") \in Mem(P)
    BY MemCounts DEF Reasons
  <2> QED
    BY <2>4, <2>6, <2>7 DEF Then
<1> QED
  BY <1>1, <1>2

(* make_room_deep_tiers                                                    *)
SpillOver(x, i) == Spill(x, i, Size(x.tiers[i]) - TierCap(i))
DropFor(x, i, total) ==
  {[x EXCEPT !.tiers[i] = Delete(@, R)] : R \in Evictions(x.tiers[i], total - AvailTier(x, i))}


LEMMA SpillOverEach ==
  ASSUME Simulated, NEW D, D = 1 .. Depth, NEW P, NEW S0 \in SUBSET Mem(P), NEW s \in Seq(D)
  PROVE  ForEach(S0, s, SpillOver) \in SUBSET Mem(P)
<1> DEFINE T == SUBSET Mem(P)
           n == Len(s)
           step(S, j) == UNION {IF x.failed = "none" THEN SpillOver(x, j) ELSE {x} : x \in S}
           G == [j \in 1 .. n |-> [S \in T |-> step(S, s[j])]]
           H(f) == f = [S \in SUBSET (1 .. n) |-> IF S = {} THEN S0 ELSE step(f[S \ {Max(S)}], s[Max(S)])]
           fold == CHOOSE f : H(f)
<1>1. n \in Nat /\ DOMAIN s = 1 .. n /\ \A j \in 1 .. n : s[j] \in D
  <2>1. s \in Seq(D)
    OBVIOUS
  <2> QED
    BY <2>1, SeqParts
<1>2. ForEach(S0, s, SpillOver) = fold[1 .. n]
  BY <1>1 DEF ForEach, Then, FoldLeft, MapThenFoldSet
<1>3. S0 \in T
  OBVIOUS
<1>4. \A x \in Mem(P), j \in D : SpillOver(x, j) \in SUBSET Mem(P)
  BY SpillIs DEF SpillOver, Mem
<1>5. \A j \in D : \A S \in T : step(S, j) \in T
  BY <1>4
<1> HIDE DEF n, step, T
<1>6. G \in [1 .. n -> [T -> T]]
  BY <1>1, <1>5
<1>7. \A j \in 1 .. n, S \in T : G[j][S] = step(S, s[j])
  OBVIOUS
<1>8. \A S \in SUBSET (1 .. n) : S # {} => Top(S) \in S /\ S \ {Top(S)} \in SUBSET (1 .. n)
  BY <1>1, TopInside
<1> HIDE DEF G
<1>9. H(fold)
  <2>1. PICK g \in [SUBSET (1 .. n) -> T] : Folds(g, n, S0, G)
    BY <1>1, <1>3, <1>6, FoldExists
  <2>2. \A S \in SUBSET (1 .. n) : g[S] = IF S = {} THEN S0 ELSE step(g[S \ {Max(S)}], s[Max(S)])
    BY <1>7, <1>8, <2>1, MaxIsTop DEF Folds
  <2>3. H(g)
    BY <2>2
  <2> QED
    BY <2>3
<1> HIDE DEF fold
<1>10. FoldStep(fold, n, S0, G, T)
  BY <1>7, <1>8, <1>9, MaxIsTop DEF FoldStep
<1>11. PICK run \in [0 .. n -> T] : FoldRun(run, fold, n, S0, G)
  BY <1>1, <1>3, <1>6, <1>10, FoldRuns
<1> QED
  BY <1>1, <1>2, <1>11 DEF FoldRun, T


DropAll(S0, s, total) == ForEach(S0, s, LAMBDA x, i : DropFor(x, i, total))

LEMMA DropForIs ==
  ASSUME Simulated, NEW total, NEW P, NEW x \in Mem(P), NEW i \in 1 .. Depth
  PROVE  DropFor(x, i, total) \in SUBSET Mem(P)
<1>1. x.tiers[i] \in Sound(1)
  BY MemParts
<1>2. \A R \in Evictions(x.tiers[i], total - AvailTier(x, i)) : Delete(x.tiers[i], R) \in Alike(x.tiers[i], 1)
  BY <1>1, DeleteAlike DEF Simulated
<1> QED
  BY <1>2, MemTrees DEF DropFor

LEMMA DropForEach ==
  ASSUME Simulated, NEW D, D = 1 .. Depth, NEW total, NEW P, NEW S0 \in SUBSET Mem(P), NEW s \in Seq(D)
  PROVE  DropAll(S0, s, total) \in SUBSET Mem(P)
<1> DEFINE T == SUBSET Mem(P)
           n == Len(s)
           step(S, j) == UNION {IF x.failed = "none" THEN DropFor(x, j, total) ELSE {x} : x \in S}
           G == [j \in 1 .. n |-> [S \in T |-> step(S, s[j])]]
           H(f) == f = [S \in SUBSET (1 .. n) |-> IF S = {} THEN S0 ELSE step(f[S \ {Max(S)}], s[Max(S)])]
           fold == CHOOSE f : H(f)
<1>1. n \in Nat /\ DOMAIN s = 1 .. n /\ \A j \in 1 .. n : s[j] \in D
  <2>1. s \in Seq(D)
    OBVIOUS
  <2> QED
    BY <2>1, SeqParts
<1>2. DropAll(S0, s, total) = fold[1 .. n]
  BY <1>1 DEF ForEach, Then, FoldLeft, MapThenFoldSet, DropAll
<1>3. S0 \in T
  OBVIOUS
<1>4. \A x \in Mem(P), j \in D : DropFor(x, j, total) \in SUBSET Mem(P)
  BY DropForIs
<1>5. \A j \in D : \A S \in T : step(S, j) \in T
  BY <1>4
<1> HIDE DEF n, step, T
<1>6. G \in [1 .. n -> [T -> T]]
  BY <1>1, <1>5
<1>7. \A j \in 1 .. n, S \in T : G[j][S] = step(S, s[j])
  OBVIOUS
<1>8. \A S \in SUBSET (1 .. n) : S # {} => Top(S) \in S /\ S \ {Top(S)} \in SUBSET (1 .. n)
  BY <1>1, TopInside
<1> HIDE DEF G
<1>9. H(fold)
  <2>1. PICK g \in [SUBSET (1 .. n) -> T] : Folds(g, n, S0, G)
    BY <1>1, <1>3, <1>6, FoldExists
  <2>2. \A S \in SUBSET (1 .. n) : g[S] = IF S = {} THEN S0 ELSE step(g[S \ {Max(S)}], s[Max(S)])
    BY <1>7, <1>8, <2>1, MaxIsTop DEF Folds
  <2>3. H(g)
    BY <2>2
  <2> QED
    BY <2>3
<1> HIDE DEF fold
<1>10. FoldStep(fold, n, S0, G, T)
  BY <1>7, <1>8, <1>9, MaxIsTop DEF FoldStep
<1>11. PICK run \in [0 .. n -> T] : FoldRun(run, fold, n, S0, G)
  BY <1>1, <1>3, <1>6, <1>10, FoldRuns
<1> QED
  BY <1>1, <1>2, <1>11 DEF FoldRun, T

LEMMA MakeRoomIs ==
  ASSUME Simulated, NEW P, NEW m \in Mem(P), NEW total
  PROVE  MakeRoomDeepTiers(m, total) \in SUBSET Mem(P)
<1>1. m.tiers \in [1 .. Depth -> Sound(1)] /\ Depth \in Nat
  BY MemParts DEF Simulated
<1>2. Len(m.tiers) = Depth /\ DOMAIN m.tiers = 1 .. Depth
  BY <1>1
<1>3. CASE Exclusive
  <2> DEFINE s == [i \in DOMAIN m.tiers |-> i]
  <2>1. s \in Seq(1 .. Depth)
    BY <1>1, <1>2
  <2>2. ForEach({m}, s, SpillOver) \in SUBSET Mem(P)
    <3> HIDE DEF s
    <3> DEFINE S0 == {m}
    <3>1. S0 \in SUBSET Mem(P)
      OBVIOUS
    <3> HIDE DEF S0
    <3>2. ForEach(S0, s, SpillOver) \in SUBSET Mem(P)
      BY <2>1, <3>1, SpillOverEach
    <3> QED
      BY <3>2 DEF S0, ForEach, Then, FoldLeft, MapThenFoldSet
  <2> QED
    BY <1>3, <2>2 DEF MakeRoomDeepTiers, SpillOver, ForEach, Then, FoldLeft, MapThenFoldSet
<1>4. CASE ~Exclusive
  <2> DEFINE s == [i \in 1 .. Len(m.tiers) - 1 |-> i + 1]
  <2>1. s \in Seq(1 .. Depth)
    <3>1. \A i \in 1 .. Depth - 1 : i + 1 \in 1 .. Depth
      BY <1>1
    <3>2. PICK d \in Int : d = Depth - 1
      BY <1>1
    <3>3. CASE d \in Nat
      <4>1. s \in [1 .. d -> 1 .. Depth]
        BY <1>2, <3>1, <3>2
      <4> QED
        BY <3>3, <4>1
    <3>4. CASE d \notin Nat
      <4>1. 1 .. d = 1 .. 0
        BY <3>4
      <4>2. s \in [1 .. 0 -> 1 .. Depth]
        BY <1>2, <3>1, <3>2, <4>1
      <4>3. 0 \in Nat
        OBVIOUS
      <4> HIDE DEF s
      <4> QED
        BY <4>2, <4>3
    <3> QED
      BY <3>3, <3>4
  <2>2. DropAll({m}, s, total) \in SUBSET Mem(P)
    <3> HIDE DEF s
    <3> DEFINE S0 == {m}
    <3>1. S0 \in SUBSET Mem(P)
      OBVIOUS
    <3> HIDE DEF S0
    <3>2. DropAll(S0, s, total) \in SUBSET Mem(P)
      BY <2>1, <3>1, DropForEach
    <3> QED
      BY <3>2 DEF S0
  <2> QED
    BY <1>4, <2>2 DEF MakeRoomDeepTiers, DropFor, DropAll, ForEach, Then, FoldLeft, MapThenFoldSet
<1> QED
  BY <1>3, <1>4

-----------------------------------------------------------------------------
(* A request and the cache *)

(* The longest of several matches.                                         *)
LEMMA MaxWithin ==
  ASSUME NEW n \in Nat, NEW S \in SUBSET (0 .. n), S # {}
  PROVE  Max(S) \in 0 .. n
<1>1. IsFiniteSet(0 .. n) /\ S \subseteq Int
  BY FS_Interval
<1>2. IsFiniteSet(S)
  BY <1>1, FS_Subset
<1>3. \E y \in S : \A x \in S : y >= x
  BY <1>1, <1>2, Extremes
<1> QED
  BY <1>3 DEF Max

(* A prefix of what a request will have computed.                          *)
LEMMA IdsPrefix ==
  ASSUME Simulated, NEW r \in Req, NEW n \in 0 .. B!Output(r)
  PROVE  Prefix(Ids(r), n) \in Keys /\ Len(Prefix(Ids(r), n)) = n
<1>1. Ids(r) \in Seq(Nat) /\ Len(Ids(r)) = B!Output(r)
  BY DEF Simulated, Keys
<1> QED
  BY <1>1, PrefixProperties DEF Keys

(* What prefix_match finds: no more than the prompt.                       *)
LEMMA MatchFinds ==
  ASSUME Simulated, NEW P, NEW m \in Mem(P), NEW r \in Req, NEW hit,
         hit = [i \in 0 .. Len(m.tiers) |-> IF i = 0 THEN HitLength(m.npu, Matchable(r), Page)
                                           ELSE HitLength(m.tiers[i], Matchable(r), 1)],
         NEW k \in 0 .. Len(m.tiers)
  PROVE  Max({hit[j] : j \in 0 .. k}) \in 0 .. B!Input(r)
<1> DEFINE key == Matchable(r)
           in == B!Input(r)
           S == {hit[j] : j \in 0 .. k}
<1>1. key \in Keys /\ Len(key) = in /\ in \in Nat
  <2>1. in \in 0 .. B!Output(r) /\ in \in Nat
    BY DEF Simulated
  <2> QED
    BY <2>1, IdsPrefix DEF Matchable
<1>2. Len(m.tiers) = Depth /\ Depth \in Nat /\ Page \in Nat \ {0} /\ 1 \in Nat \ {0}
  <2>1. m.tiers \in [1 .. Depth -> Sound(1)] /\ Depth \in Nat
    BY MemParts DEF Simulated
  <2> QED
    BY <2>1 DEF Simulated
<1> HIDE DEF key, in
<1>3. ASSUME NEW j \in 0 .. k
      PROVE  hit[j] \in 0 .. in
  <2>1. CASE j = 0
    <3>1. m.npu \in Trees
      BY MemParts, SoundTrees
    <3>2. HitLength(m.npu, key, Page) \in 0 .. Len(key)
      BY <1>1, <1>2, <3>1, HitIsPrefix
    <3> QED
      BY <1>1, <1>2, <2>1, <3>2 DEF key
  <2>2. CASE j # 0
    <3>1. j \in 1 .. Depth
      BY <1>2, <2>2
    <3>2. m.tiers[j] \in Trees
      BY <3>1, TierIs DEF Mem
    <3>3. HitLength(m.tiers[j], key, 1) \in 0 .. Len(key)
      BY <1>1, <1>2, <3>2, HitIsPrefix
    <3>4. j \in 0 .. Len(m.tiers)
      BY <1>2, <3>1
    <3> QED
      BY <1>1, <2>2, <3>3, <3>4 DEF key
  <2> QED
    BY <2>1, <2>2
<1>4. S \in SUBSET (0 .. in) /\ S # {}
  <2>1. 0 \in 0 .. k
    BY <1>2
  <2> QED
    BY <1>3, <2>1
<1> HIDE DEF S
<1>5. Max(S) \in 0 .. in
  BY <1>1, <1>4, MaxWithin
<1> QED
  BY <1>5 DEF S, in

(* prefix_match may set the computed tokens of a request that has none, to *)
(* no more than its prompt.                                                *)
MatchedTo(m, r, n) == [m.computed EXCEPT ![r] = IF @ = 0 THEN n ELSE @]

LEMMA PrefixMatchIs ==
  ASSUME Simulated, NEW P, NEW m \in Mem(P), NEW r \in Req, NEW Q,
         \A n \in 0 .. B!Input(r) : <<MatchedTo(m, r, n), m.chunk>> \in Q
  PROVE  PrefixMatch(m, r) \in Mem(Q)
<1> DEFINE key == Matchable(r)
           hit == [i \in 0 .. Len(m.tiers) |-> IF i = 0 THEN HitLength(m.npu, key, Page)
                                               ELSE HitLength(m.tiers[i], key, 1)]
           to(i) == Max({hit[j] : j \in 0 .. i})
           all == to(Len(m.tiers))
           deep == IF Len(m.tiers) > 1 THEN all - to(1) ELSE 0
           tree == Matched(m.npu, key, Page)
           below == [i \in DOMAIN m.tiers |-> Matched(m.tiers[i], key, 1)]
           one == [m.info[r] EXCEPT !.node = MatchNode(m.npu, key, Page), !.hit = all, !.reload = deep]
           y == [m EXCEPT !.npu = tree]
           z == [y EXCEPT !.tiers = below]
           u == [z EXCEPT !.info[r] = one]
           v == [u EXCEPT !.computed[r] = IF @ = 0 THEN all ELSE @]
<1>1. key \in Keys /\ Page \in Nat \ {0} /\ 1 \in Nat \ {0}
  <2>1. B!Input(r) \in 0 .. B!Output(r)
    BY DEF Simulated
  <2> QED
    BY <2>1, IdsPrefix DEF Matchable, Simulated
<1>2. /\ m.npu \in Sound(Page) /\ m.npu \in Trees /\ m.tiers \in [1 .. Depth -> Sound(1)]
      /\ m.info[r] \in InfoType /\ Len(m.tiers) = Depth /\ Depth \in Nat
  <2>1. /\ m.npu \in Sound(Page) /\ m.npu \in Trees /\ m.tiers \in [1 .. Depth -> Sound(1)]
        /\ m.info[r] \in InfoType /\ Depth \in Nat
    BY MemParts, NpuIs, InfoIs DEF Simulated, Mem
  <2> QED
    BY <2>1
<1>3. PrefixMatch(m, r) = v
  BY DEF PrefixMatch
<1>4. all \in 0 .. B!Input(r) /\ deep \in Int
  <2>1. Len(m.tiers) \in 0 .. Len(m.tiers)
    BY <1>2
  <2>2. all \in 0 .. B!Input(r)
    BY <2>1, MatchFinds
  <2>3. CASE Len(m.tiers) > 1
    <3>1. 1 \in 0 .. Len(m.tiers)
      BY <1>2, <2>3
    <3>2. to(1) \in 0 .. B!Input(r)
      BY <3>1, MatchFinds
    <3> HIDE DEF to
    <3> QED
      BY <2>2, <2>3, <3>2
  <2>4. CASE ~(Len(m.tiers) > 1)
    BY <2>2, <2>4
  <2> QED
    BY <2>2, <2>3, <2>4
<1>5. /\ tree \in Settled(m.npu, Page) /\ MatchNode(m.npu, key, Page) \in Names
      /\ below \in [1 .. Depth -> Sound(1)] /\ \A i \in 1 .. Depth : below[i] \in Alike(m.tiers[i], 1)
  <2>1. tree \in Settled(m.npu, Page) /\ MatchNode(m.npu, key, Page) \in Names
    BY <1>1, <1>2, MatchedIs, MatchedSettled
  <2>2. \A i \in 1 .. Depth : Matched(m.tiers[i], key, 1) \in Alike(m.tiers[i], 1)
    BY <1>1, <1>2, MatchedSettled DEF Settled
  <2>3. \A i \in 1 .. Depth : Matched(m.tiers[i], key, 1) \in Sound(1)
    BY <2>2 DEF Alike
  <2> QED
    BY <1>2, <2>1, <2>2, <2>3
<1> HIDE DEF all, deep, tree, below, to
<1>6. one \in InfoType
  <2>1. all \in Nat
    BY <1>4 DEF Simulated
  <2>2. MatchNode(m.npu, key, Page) \in Names \cup {NoNode}
    BY <1>5
  <2> QED
    BY <1>2, <1>4, <2>1, <2>2 DEF InfoType
<1> HIDE DEF one, hit, key
<1>7. y \in Mem(P) /\ y.computed = m.computed /\ y.chunk = m.chunk /\ y.tiers = m.tiers
  <2>1. y \in Mem(P)
    BY <1>5, MemTrees
  <2> QED
    BY <2>1 DEF Mem, Midway, MemType
<1> HIDE DEF y
<1>8. z \in Mem(P) /\ z.computed = m.computed /\ z.chunk = m.chunk
  <2>1. z \in Mem(P)
    BY <1>5, <1>7, MemTrees
  <2> QED
    BY <1>7, <2>1 DEF Mem, Midway, MemType
<1> HIDE DEF z
<1>9. u \in Mem(P) /\ u.computed = m.computed /\ u.chunk = m.chunk
  <2>1. u \in Mem(P)
    BY <1>6, <1>8, MemCounts
  <2> QED
    BY <1>8, <2>1 DEF Mem, Midway, MemType
<1> HIDE DEF u
<1>10. /\ v \in MemType /\ v.computed = MatchedTo(m, r, all) /\ v.chunk = m.chunk /\ v.evict = u.evict
       /\ v.npuUsed = u.npuUsed /\ v.cpuUsed = u.cpuUsed /\ v.failed = u.failed
       /\ v.npu = u.npu /\ v.tiers = u.tiers
  <2>1. all \in Nat /\ u \in MemType
    BY <1>4, <1>9 DEF Simulated, Mem, Midway
  <2>2. MatchedTo(m, r, all) \in [Req -> Nat]
    BY <2>1, MemParts DEF MatchedTo
  <2>3. v = [u EXCEPT !.computed = MatchedTo(m, r, all)]
    BY <1>9 DEF MatchedTo
  <2> QED
    BY <1>9, <2>1, <2>2, <2>3 DEF MemType
<1> HIDE DEF v
<1>11. \A q \in Req : v.evict[q] => v.computed[q] # 0
  <2>1. m.computed \in [Req -> Nat]
    BY MemParts
  <2>2. \A q \in Req : u.evict[q] => m.computed[q] # 0
    BY <1>9, MemParts
  <2> QED
    BY <1>10, <2>1, <2>2 DEF MatchedTo
<1>12. /\ Balanced(u.npuUsed + 0, u.cpuUsed, u.failed, u.npu, u.tiers) /\ Quiet(Both, u.failed, u.npu)
  BY <1>9 DEF Mem, Midway
<1> QED
  BY <1>3, <1>4, <1>10, <1>11, <1>12 DEF Mem, Midway

(* It leaves a request alone that has computed something.                  *)
LEMMA RematchIs ==
  ASSUME Simulated, NEW P, NEW m \in Mem(P), NEW r \in Req, m.computed[r] # 0
  PROVE  PrefixMatch(m, r) \in Mem(P)
<1>1. m.computed \in [Req -> Nat] /\ <<m.computed, m.chunk>> \in P
  BY MemParts
<1>2. \A n : MatchedTo(m, r, n) = m.computed
  BY <1>1 DEF MatchedTo
<1> QED
  BY <1>1, <1>2, PrefixMatchIs

(* Locks move, the rest stays.                                             *)
LEMMA LocksAre ==
  ASSUME Simulated, NEW P, NEW m \in Mem(P), NEW r \in Req
  PROVE  /\ Lock(m, r) \in Mem(P) /\ Unlock(m, r) \in Mem(P)
         /\ LockOnce(m, r) \in Mem(P) /\ Rollback(m, r) \in Mem(P)
<1>1. m.npu \in Sound(Page) /\ m.info \in [Req -> InfoType] /\ Page \in Nat \ {0}
  BY MemParts DEF Simulated
<1>2. /\ IncLock(m.npu, m.info[r].node) \in Settled(m.npu, Page)
      /\ DecLock(m.npu, m.info[r].node) \in Settled(m.npu, Page)
  BY <1>1, LockSettled
<1>3. Lock(m, r) \in Mem(P)
  BY <1>2, MemTrees DEF Lock
<1>4. Unlock(m, r) \in Mem(P)
  <2> DEFINE x == [m EXCEPT !.npu = DecLock(m.npu, m.info[r].node)]
             one == [x.info[r] EXCEPT !.node = NoNode, !.locked = FALSE]
  <2>1. x \in Mem(P)
    BY <1>2, MemTrees
  <2>2. Unlock(m, r) = [x EXCEPT !.info[r] = one]
    BY DEF Unlock
  <2> HIDE DEF x
  <2>3. one \in InfoType
    <3>1. x.info[r] \in InfoType
      BY <2>1, MemParts
    <3> QED
      BY <3>1 DEF InfoType
  <2> HIDE DEF one
  <2> QED
    BY <2>1, <2>2, <2>3, MemCounts
<1>5. LockOnce(m, r) \in Mem(P)
  <2> DEFINE x == Lock(m, r)
             one == [x.info[r] EXCEPT !.locked = TRUE]
  <2>1. one \in InfoType
    <3>1. x.info[r] \in InfoType
      BY <1>3, MemParts
    <3> HIDE DEF x
    <3> QED
      BY <3>1 DEF InfoType
  <2>2. [x EXCEPT !.info[r] = one] \in Mem(P)
    BY <1>3, <2>1, MemCounts
  <2>3. LockOnce(m, r) = IF m.info[r].node = NoNode \/ m.info[r].locked THEN m ELSE [x EXCEPT !.info[r] = one]
    <3> HIDE DEF x
    <3> QED
      BY DEF LockOnce, x
  <2> QED
    BY <2>2, <2>3
<1>6. Rollback(m, r) \in Mem(P)
  <2> DEFINE x == Unlock(m, r)
             one == [x.info[r] EXCEPT !.hit = 0]
  <2>1. one \in InfoType
    <3>1. x.info[r] \in InfoType
      BY <1>4, MemParts
    <3> HIDE DEF x
    <3> QED
      BY <3>1 DEF InfoType
  <2>2. [x EXCEPT !.info[r] = one] \in Mem(P)
    BY <1>4, <2>1, MemCounts
  <2>3. Rollback(m, r) = IF IsPrefill(m, r) /\ m.info[r].locked THEN [x EXCEPT !.info[r] = one] ELSE m
    <3> HIDE DEF x
    <3> QED
      BY DEF Rollback, x
  <2> QED
    BY <2>2, <2>3
<1> QED
  BY <1>3, <1>4, <1>5, <1>6

(* The matches of requests that were cut off are undone.                    *)
LEMMA RollbackAllIs ==
  ASSUME Simulated, NEW P, NEW m \in Mem(P), NEW s \in Seq(Req)
  PROVE  RollbackAll(m, s) \in Mem(P)
<1> DEFINE T == Mem(P)
           n == Len(s)
           b == m
           step(x, j) == Rollback(x, j)
           G == [j \in 1 .. n |-> [x \in T |-> step(x, s[j])]]
           H(f) == f = [S \in SUBSET (1 .. n) |-> IF S = {} THEN b ELSE step(f[S \ {Max(S)}], s[Max(S)])]
           fold == CHOOSE f : H(f)
<1>1. n \in Nat /\ DOMAIN s = 1 .. n /\ \A j \in 1 .. n : s[j] \in Req
  <2>1. s \in Seq(Req)
    OBVIOUS
  <2> QED
    BY <2>1, SeqParts
<1>2. RollbackAll(m, s) = fold[1 .. n]
  BY <1>1 DEF FoldLeft, MapThenFoldSet, RollbackAll
<1>3. b \in T
  OBVIOUS
<1>4. \A x \in T, j \in Req : step(x, j) \in T
  BY LocksAre
<1> HIDE DEF n, step, T, b
<1>5. G \in [1 .. n -> [T -> T]]
  BY <1>1, <1>4
<1>6. \A j \in 1 .. n, x \in T : G[j][x] = step(x, s[j])
  OBVIOUS
<1>7. \A S \in SUBSET (1 .. n) : S # {} => Top(S) \in S /\ S \ {Top(S)} \in SUBSET (1 .. n)
  BY <1>1, TopInside
<1> HIDE DEF G
<1>8. H(fold)
  <2>1. PICK g \in [SUBSET (1 .. n) -> T] : Folds(g, n, b, G)
    BY <1>1, <1>3, <1>5, FoldExists
  <2>2. \A S \in SUBSET (1 .. n) : g[S] = IF S = {} THEN b ELSE step(g[S \ {Max(S)}], s[Max(S)])
    BY <1>6, <1>7, <2>1, MaxIsTop DEF Folds
  <2>3. H(g)
    BY <2>2
  <2> QED
    BY <2>3
<1> HIDE DEF fold
<1>9. FoldStep(fold, n, b, G, T)
  BY <1>6, <1>7, <1>8, MaxIsTop DEF FoldStep
<1>10. PICK run \in [0 .. n -> T] : FoldRun(run, fold, n, b, G)
  BY <1>1, <1>3, <1>5, <1>9, FoldRuns
<1> QED
  BY <1>1, <1>2, <1>10 DEF FoldRun, T

(* Nobody has computed more than it will have at its end: its tokens have  *)
(* names, so what it has computed can enter a tree.                        *)
Within(P) == \A c \in P, r \in Req : c[1][r] <= B!Output(r)

LEMMA ComputedPrefix ==
  ASSUME Simulated, NEW P, Within(P), NEW m \in Mem(P), NEW r \in Req
  PROVE  /\ Prefix(Ids(r), m.computed[r]) \in Keys
         /\ Prefix(Ids(r), Paged(m.computed[r], Page)) \in Keys
         /\ Prefix(Ids(r), Paged(Len(Ids(r)) - 1, Page)) \in Keys
         /\ Prefix(Ids(r), Len(Ids(r)) - 1) \in Keys
         /\ Len(Prefix(Ids(r), Paged(m.computed[r], Page))) % Page = 0
         /\ Len(Prefix(Ids(r), Paged(Len(Ids(r)) - 1, Page))) % Page = 0
<1> DEFINE c == m.computed[r]
           out == B!Output(r)
<1>1. c \in Nat /\ <<m.computed, m.chunk>> \in P
  BY MemParts
<1>2. c <= out
  BY <1>1 DEF Within
<1>3. out \in Nat /\ Len(Ids(r)) = out /\ out - 1 \in Nat /\ Page \in Nat \ {0}
  BY DEF Simulated
<1> HIDE DEF c, out
<1>4. Paged(c, Page) \in 0 .. c /\ Paged(out - 1, Page) \in 0 .. out - 1
  BY <1>1, <1>3, PagedBounds
<1>5. c \in 0 .. out /\ Paged(c, Page) \in 0 .. out /\ Paged(out - 1, Page) \in 0 .. out /\ out - 1 \in 0 .. out
  BY <1>1, <1>2, <1>3, <1>4
<1>6. \A n \in 0 .. out : Prefix(Ids(r), n) \in Keys /\ Len(Prefix(Ids(r), n)) = n
  BY IdsPrefix DEF out
<1>7. Paged(c, Page) % Page = 0 /\ Paged(out - 1, Page) % Page = 0
  BY <1>1, <1>3, PagedIs
<1> QED
  BY <1>3, <1>5, <1>6, <1>7 DEF c

(* cache_unfinished_req                                                    *)
LEMMA CacheUnfinishedIs ==
  ASSUME Simulated, NEW P, Within(P), NEW m \in Mem(P), m.failed = "none", NEW r \in Req
  PROVE  CacheUnfinished(m, r) \in SUBSET Mem(P)
<1> DEFINE key == Prefix(Ids(r), Paged(m.computed[r], Page))
           t == Insert(m.npu, key, Page)
           n == NodeAt(t, key)
           old == m.info[r].node
           u == IF old # NoNode /\ m.info[r].locked THEN DecLock(t, old) ELSE t
           x == [m EXCEPT !.npu = IncLock(u, n)]
           one == [x.info[r] EXCEPT !.node = n, !.locked = TRUE]
           y == [x EXCEPT !.info[r] = one]
<1>1. key \in Keys /\ Len(key) % Page = 0 /\ m.npu \in Sound(Page) /\ m.npu \in Trees /\ Page \in Nat \ {0}
  BY ComputedPrefix, NpuIs DEF Mem
<1>2. CacheUnfinished(m, r) = Apply(y)
  BY DEF CacheUnfinished
<1> HIDE DEF key
<1>3. t \in Alike(m.npu, Page) /\ n \in Names
  <2>0. t \in Alike(m.npu, Page)
    BY <1>1, InsertAlike
  <2>1. t \in Trees /\ \E z \in Live(t) : Path(z) = key
    BY <1>1, InsertIs
  <2> HIDE DEF t
  <2>2. NodeAt(t, key) \in Live(t)
    BY <2>1, NodeAtIs
  <2> QED
    BY <2>0, <2>1, <2>2, LiveNodes
<1> HIDE DEF t, n, old
<1>4. u \in Sound(Page) /\ u \in Alike(m.npu, Page)
  <2>1. t \in Sound(Page) /\ Alike(t, Page) \subseteq Alike(m.npu, Page)
    BY <1>3, AlikeAgain
  <2>2. DecLock(t, old) \in Alike(t, Page)
    BY <1>1, <2>1, LockSettled DEF Settled
  <2>3. u \in Alike(m.npu, Page)
    BY <1>3, <2>1, <2>2
  <2> QED
    BY <2>3 DEF Alike
<1> HIDE DEF u
<1>5. x \in Midway(P, {}, 0)
  <2>1. IncLock(u, n) \in Alike(u, Page)
    BY <1>1, <1>4, LockSettled DEF Settled
  <2>2. Alike(u, Page) \subseteq Alike(m.npu, Page)
    BY <1>4, AlikeAgain
  <2> QED
    BY <2>1, <2>2, MemTrees
<1> HIDE DEF x
<1>6. one \in InfoType
  <2>1. x.info[r] \in InfoType
    BY <1>5, InfoIs
  <2> QED
    BY <1>3, <2>1 DEF InfoType
<1> HIDE DEF one
<1>7. y \in Midway(P, {}, 0)
  BY <1>5, <1>6, MidwayRest
<1>8. y.failed = "none"
  <2>1. x.failed = "none"
    BY DEF x
  <2> QED
    BY <2>1
<1> HIDE DEF y
<1> QED
  BY <1>2, <1>7, <1>8, ApplyIs

(* cache_finished_req                                                      *)
LEMMA CacheFinishedIs ==
  ASSUME Simulated, NEW P, Within(P), NEW m \in Mem(P), m.failed = "none", NEW r \in Req
  PROVE  CacheFinished(m, r) \in SUBSET Mem(P)
<1> DEFINE key == Prefix(Ids(r), Paged(Len(Ids(r)) - 1, Page))
           t == Insert(m.npu, key, Page)
           n == m.info[r].node
           u == IF m.info[r].locked /\ n # NoNode THEN DecLock(t, n) ELSE t
           x == [m EXCEPT !.npu = u]
           one == [x.info[r] EXCEPT !.node = IF m.info[r].locked THEN NoNode ELSE n, !.locked = FALSE]
           y == [x EXCEPT !.info[r] = one]
<1>1. key \in Keys /\ Len(key) % Page = 0 /\ m.npu \in Sound(Page) /\ m.npu \in Trees /\ Page \in Nat \ {0}
  BY ComputedPrefix, NpuIs DEF Mem
<1>2. CacheFinished(m, r) = Apply(y)
  BY DEF CacheFinished
<1> HIDE DEF key
<1>3. t \in Alike(m.npu, Page)
  BY <1>1, InsertAlike
<1> HIDE DEF t
<1>4. u \in Alike(m.npu, Page)
  <2>1. t \in Sound(Page) /\ Alike(t, Page) \subseteq Alike(m.npu, Page)
    BY <1>3, AlikeAgain
  <2>2. DecLock(t, n) \in Alike(t, Page)
    BY <1>1, <2>1, LockSettled DEF Settled
  <2> QED
    BY <1>3, <2>1, <2>2
<1> HIDE DEF u
<1>5. x \in Midway(P, {}, 0)
  BY <1>4, MemTrees
<1>6. one \in InfoType
  <2>1. x.info[r] \in InfoType /\ m.info[r] \in InfoType
    BY <1>5, InfoIs DEF Mem
  <2> HIDE DEF x
  <2> QED
    BY <2>1 DEF InfoType
<1> HIDE DEF one, x
<1>7. y \in Midway(P, {}, 0)
  BY <1>5, <1>6, MidwayRest
<1>8. y.failed = "none"
  <2>1. x.failed = "none"
    BY DEF x
  <2> QED
    BY <2>1
<1> HIDE DEF y
<1> QED
  BY <1>2, <1>7, <1>8, ApplyIs

LEMMA WriteThroughIs ==
  ASSUME Simulated, NEW P, NEW m \in Mem(P), m.failed = "none", NEW key \in Keys
  PROVE  WriteThrough(m, key) \in SUBSET Mem(P)
<1> DEFINE s == [i \in DOMAIN m.tiers |-> Insert(m.tiers[i], key, 1)]
           y == [m EXCEPT !.tiers = s]
<1>1. s \in [1 .. Depth -> Sound(1)] /\ \A i \in 1 .. Depth : s[i] \in Alike(m.tiers[i], 1)
  <2>1. m.tiers \in [1 .. Depth -> Sound(1)]
    BY MemParts
  <2>2. \A i \in 1 .. Depth : Insert(m.tiers[i], key, 1) \in Alike(m.tiers[i], 1)
    BY <2>1, InsertOne
  <2>3. \A i \in 1 .. Depth : Insert(m.tiers[i], key, 1) \in Sound(1)
    BY <2>2 DEF Alike
  <2> QED
    BY <2>1, <2>2, <2>3
<1> HIDE DEF s
<1>2. y \in Mem(P) /\ y.failed = "none"
  <2>1. y \in Mem(P)
    BY <1>1, MemTrees
  <2> QED
    BY <2>1
<1>3. WriteThrough(m, key) = IF Storage = "none" THEN {m} ELSE Apply(IF Exclusive THEN m ELSE y)
  BY DEF WriteThrough, y, s
<1> HIDE DEF y
<1>4. Apply(m) \in SUBSET Mem(P) /\ Apply(y) \in SUBSET Mem(P)
  <2>1. m \in Midway(P, {}, 0) /\ y \in Midway(P, {}, 0)
    BY <1>2, MemParts
  <2> QED
    BY <1>2, <2>1, ApplyIs
<1> QED
  BY <1>3, <1>4

LEMMA CacheAllIs ==
  ASSUME Simulated, NEW P, Within(P), NEW m \in Mem(P), m.failed = "none", NEW r \in Req
  PROVE  /\ CacheUnfinishedAll(m, r) \in SUBSET Mem(P)
         /\ CacheFinishedAll(m, r) \in SUBSET Mem(P)
<1>1. CacheUnfinishedAll(m, r) \in SUBSET Mem(P)
  <2> DEFINE next(x) == WriteThrough(x, Prefix(Ids(r), x.computed[r]))
  <2>1. CacheUnfinished(m, r) \in SUBSET Mem(P)
    BY CacheUnfinishedIs
  <2>2. \A x \in CacheUnfinished(m, r) : x.failed = "none" => next(x) \in SUBSET Mem(P)
    BY <2>1, ComputedPrefix, WriteThroughIs
  <2>3. CacheUnfinishedAll(m, r) = UNION {IF x.failed = "none" THEN next(x) ELSE {x} : x \in CacheUnfinished(m, r)}
    BY DEF CacheUnfinishedAll, Then
  <2> HIDE DEF next
  <2> QED
    BY <2>1, <2>2, <2>3
<1>2. CacheFinishedAll(m, r) \in SUBSET Mem(P)
  <2> DEFINE next(x) == WriteThrough(x, Prefix(Ids(r), Len(Ids(r)) - 1))
  <2>1. CacheFinished(m, r) \in SUBSET Mem(P)
    BY CacheFinishedIs
  <2>2. \A x \in CacheFinished(m, r) : x.failed = "none" => next(x) \in SUBSET Mem(P)
    BY <2>1, ComputedPrefix, WriteThroughIs
  <2>3. CacheFinishedAll(m, r) = UNION {IF x.failed = "none" THEN next(x) ELSE {x} : x \in CacheFinished(m, r)}
    BY DEF CacheFinishedAll, Then
  <2> HIDE DEF next
  <2> QED
    BY <2>1, <2>2, <2>3
<1> QED
  BY <1>1, <1>2

(* storage_cache_evicted_req                                               *)
LEMMA ParkIs ==
  ASSUME Simulated, Storage # "none", NEW P, Within(P), NEW m \in Mem(P), NEW r \in Req
  PROVE  Park(m, r) \in SUBSET Mem(P)
<1> DEFINE key == Prefix(Ids(r), m.computed[r])
           t == Insert(m.tiers[1], key, 1)
           n == NodeAt(t, key)
           x == [m EXCEPT !.tiers[1] = IncLock(t, n)]
           one == [x.info[r] EXCEPT !.cpuNode = n]
           y == [x EXCEPT !.info[r] = one]
           s == [i \in DOMAIN y.tiers |-> Insert(y.tiers[i], key, 1)]
           z == [y EXCEPT !.tiers = s]
           written == IF Exclusive THEN Spill(y, 1, Size(y.tiers[1]) - TierCap(1)) ELSE {z}
<1>1. 1 \in 1 .. Depth /\ 1 \in Nat \ {0}
  BY DEF Simulated
<1>2. key \in Keys /\ m.tiers[1] \in Sound(1) /\ m.tiers[1] \in Trees
  BY <1>1, ComputedPrefix, TierIs DEF Mem
<1>3. Park(m, r) = Then(written, Apply)
  BY DEF Park, Then
<1> HIDE DEF key
<1>4. t \in Alike(m.tiers[1], 1) /\ n \in Names
  <2>0. t \in Alike(m.tiers[1], 1)
    BY <1>2, InsertOne
  <2>1. t \in Trees /\ \E v \in Live(t) : Path(v) = key
    BY <1>1, <1>2, InsertIs
  <2> HIDE DEF t
  <2>2. NodeAt(t, key) \in Live(t)
    BY <2>1, NodeAtIs
  <2> QED
    BY <2>0, <2>1, <2>2, LiveNodes
<1> HIDE DEF t, n
<1>5. x \in Mem(P)
  <2>1. t \in Sound(1) /\ Alike(t, 1) \subseteq Alike(m.tiers[1], 1)
    BY <1>4, AlikeAgain
  <2>2. IncLock(t, n) \in Alike(t, 1)
    BY <1>1, <2>1, LockSettled DEF Settled
  <2> QED
    BY <1>1, <2>1, <2>2, MemTrees
<1> HIDE DEF x
<1>6. one \in InfoType
  <2>1. x.info[r] \in InfoType
    BY <1>5, MemParts
  <2> QED
    BY <1>4, <2>1 DEF InfoType
<1> HIDE DEF one
<1>7. y \in Mem(P)
  BY <1>5, <1>6, MemCounts
<1> HIDE DEF y
<1>8. z \in Mem(P)
  <2>1. y.tiers \in [1 .. Depth -> Sound(1)]
    BY <1>7, MemParts
  <2>2. \A i \in 1 .. Depth : Insert(y.tiers[i], key, 1) \in Alike(y.tiers[i], 1)
    BY <1>2, <2>1, InsertOne
  <2>3. s \in [1 .. Depth -> Sound(1)] /\ \A i \in 1 .. Depth : s[i] \in Alike(y.tiers[i], 1)
    BY <2>1, <2>2 DEF Alike
  <2> HIDE DEF s
  <2> QED
    BY <1>7, <2>3, MemTrees
<1> HIDE DEF z
<1>9. written \in SUBSET Mem(P)
  BY <1>1, <1>7, <1>8, SpillIs DEF Mem
<1> HIDE DEF written
<1>10. written \in SUBSET Midway(P, {}, 0)
  BY <1>9, MemParts
<1>11. Then(written, Apply) \in SUBSET Mem(P)
  BY <1>10, ApplyEach DEF Then
<1> QED
  BY <1>3, <1>11 DEF Then

(* A preempted request comes back.                                         *)
LEMMA ResumeIs ==
  ASSUME Simulated, NEW P, NEW m \in Mem(P), NEW r \in Req
  PROVE  Resume(m, r) \in SUBSET Mem(P)
<1> DEFINE n == m.info[r].cpuNode
           match == PrefixMatch(m, r)
           x == [Lock(match, r) EXCEPT !.evict[r] = FALSE]
           y == [x EXCEPT !.tiers[1] = DecLock(x.tiers[1], n)]
           one == [y.info[r] EXCEPT !.cpuNode = NoNode]
           z == [y EXCEPT !.info[r] = one]
<1>1. CASE ~m.evict[r]
  BY <1>1 DEF Resume
<1>2. CASE m.evict[r]
  <2>1. Resume(m, r) = {IF Storage = "none" THEN x ELSE IF n = NoNode THEN Fail(x, "unsupported") ELSE z}
    BY <1>2 DEF Resume
  <2>2. match \in Mem(P)
    <3>1. m.computed[r] # 0
      BY <1>2, MemParts
    <3> QED
      BY <3>1, RematchIs
  <2> HIDE DEF match
  <2>3. Lock(match, r) \in Mem(P)
    BY <2>2, LocksAre
  <2> DEFINE l == Lock(match, r)
  <2>4. x = [l EXCEPT !.evict = [l.evict EXCEPT ![r] = FALSE]]
    OBVIOUS
  <2> HIDE DEF l, x
  <2>5. x \in Mem(P)
    <3>1. l \in Mem(P) /\ l.evict \in [Req -> BOOLEAN] /\ \A q \in Req : l.evict[q] => l.computed[q] # 0
      BY <2>3, MemParts DEF l
    <3> DEFINE e == [l.evict EXCEPT ![r] = FALSE]
    <3>2. e \in [Req -> BOOLEAN] /\ \A q \in Req : e[q] => l.computed[q] # 0
      BY <3>1
    <3> HIDE DEF e
    <3>3. [l EXCEPT !.evict = e] \in Mem(P)
      BY <3>1, <3>2, MemCounts
    <3> QED
      BY <2>4, <3>3 DEF e
  <2>6. Fail(x, "unsupported") \in Mem(P)
    BY <2>5, MemCounts DEF Reasons
  <2>7. ASSUME Storage # "none"
        PROVE  z \in Mem(P)
    <3>1. 1 \in 1 .. Depth
      BY <2>7 DEF Simulated
    <3>2. x.tiers[1] \in Sound(1)
      BY <2>5, <3>1, TierIs DEF Mem
    <3>3. DecLock(x.tiers[1], n) \in Alike(x.tiers[1], 1)
      BY <3>2, LockSettled DEF Settled, Simulated
    <3>4. y \in Mem(P)
      BY <2>5, <3>1, <3>3, MemTrees
    <3> HIDE DEF y
    <3>5. one \in InfoType
      <4>1. y.info[r] \in InfoType
        BY <3>4, MemParts
      <4> QED
        BY <4>1 DEF InfoType
    <3> HIDE DEF one
    <3> QED
      BY <3>4, <3>5, MemCounts
  <2> HIDE DEF z
  <2> QED
    BY <2>1, <2>5, <2>6, <2>7
<1> QED
  BY <1>1, <1>2

(* The batch is taken one request after the other, ...                     *)
LEMMA ResumeEach ==
  ASSUME Simulated, NEW P, NEW S0 \in SUBSET Mem(P), NEW s \in Seq(Req)
  PROVE  ForEach(S0, s, Resume) \in SUBSET Mem(P)
<1> DEFINE T == SUBSET Mem(P)
           n == Len(s)
           step(S, j) == UNION {IF x.failed = "none" THEN Resume(x, j) ELSE {x} : x \in S}
           G == [j \in 1 .. n |-> [S \in T |-> step(S, s[j])]]
           H(f) == f = [S \in SUBSET (1 .. n) |-> IF S = {} THEN S0 ELSE step(f[S \ {Max(S)}], s[Max(S)])]
           fold == CHOOSE f : H(f)
<1>1. n \in Nat /\ DOMAIN s = 1 .. n /\ \A j \in 1 .. n : s[j] \in Req
  OBVIOUS
<1>2. ForEach(S0, s, Resume) = fold[1 .. n]
  BY <1>1 DEF ForEach, Then, FoldLeft, MapThenFoldSet
<1>3. S0 \in T
  OBVIOUS
<1>4. \A x \in Mem(P), j \in Req : Resume(x, j) \in SUBSET Mem(P)
  BY ResumeIs
<1>5. \A j \in Req : \A S \in T : step(S, j) \in T
  BY <1>4
<1> HIDE DEF n, step, T
<1>6. G \in [1 .. n -> [T -> T]]
  BY <1>1, <1>5
<1>7. \A j \in 1 .. n, S \in T : G[j][S] = step(S, s[j])
  OBVIOUS
<1>8. \A S \in SUBSET (1 .. n) : S # {} => Top(S) \in S /\ S \ {Top(S)} \in SUBSET (1 .. n)
  BY <1>1, TopInside
<1> HIDE DEF G
<1>9. H(fold)
  <2>1. PICK g \in [SUBSET (1 .. n) -> T] : Folds(g, n, S0, G)
    BY <1>1, <1>3, <1>6, FoldExists
  <2>2. \A S \in SUBSET (1 .. n) : g[S] = IF S = {} THEN S0 ELSE step(g[S \ {Max(S)}], s[Max(S)])
    BY <1>7, <1>8, <2>1, MaxIsTop DEF Folds
  <2>3. H(g)
    BY <2>2
  <2> QED
    BY <2>3
<1> HIDE DEF fold
<1>10. FoldStep(fold, n, S0, G, T)
  BY <1>7, <1>8, <1>9, MaxIsTop DEF FoldStep
<1>11. PICK run \in [0 .. n -> T] : FoldRun(run, fold, n, S0, G)
  BY <1>1, <1>3, <1>6, <1>10, FoldRuns
<1> QED
  BY <1>1, <1>2, <1>11 DEF FoldRun, T

(* ... and so are the preempted requests.                                  *)
LEMMA ParkEach ==
  ASSUME Simulated, Storage # "none", NEW P, Within(P), NEW S0 \in SUBSET Mem(P), NEW s \in Seq(Req)
  PROVE  ForEach(S0, s, Park) \in SUBSET Mem(P)
<1> DEFINE T == SUBSET Mem(P)
           n == Len(s)
           step(S, j) == UNION {IF x.failed = "none" THEN Park(x, j) ELSE {x} : x \in S}
           G == [j \in 1 .. n |-> [S \in T |-> step(S, s[j])]]
           H(f) == f = [S \in SUBSET (1 .. n) |-> IF S = {} THEN S0 ELSE step(f[S \ {Max(S)}], s[Max(S)])]
           fold == CHOOSE f : H(f)
<1>1. n \in Nat /\ DOMAIN s = 1 .. n /\ \A j \in 1 .. n : s[j] \in Req
  OBVIOUS
<1>2. ForEach(S0, s, Park) = fold[1 .. n]
  BY <1>1 DEF ForEach, Then, FoldLeft, MapThenFoldSet
<1>3. S0 \in T
  OBVIOUS
<1>4. \A x \in Mem(P), j \in Req : Park(x, j) \in SUBSET Mem(P)
  BY ParkIs
<1>5. \A j \in Req : \A S \in T : step(S, j) \in T
  BY <1>4
<1> HIDE DEF n, step, T
<1>6. G \in [1 .. n -> [T -> T]]
  BY <1>1, <1>5
<1>7. \A j \in 1 .. n, S \in T : G[j][S] = step(S, s[j])
  OBVIOUS
<1>8. \A S \in SUBSET (1 .. n) : S # {} => Top(S) \in S /\ S \ {Top(S)} \in SUBSET (1 .. n)
  BY <1>1, TopInside
<1> HIDE DEF G
<1>9. H(fold)
  <2>1. PICK g \in [SUBSET (1 .. n) -> T] : Folds(g, n, S0, G)
    BY <1>1, <1>3, <1>6, FoldExists
  <2>2. \A S \in SUBSET (1 .. n) : g[S] = IF S = {} THEN S0 ELSE step(g[S \ {Max(S)}], s[Max(S)])
    BY <1>7, <1>8, <2>1, MaxIsTop DEF Folds
  <2>3. H(g)
    BY <2>2
  <2> QED
    BY <2>3
<1> HIDE DEF fold
<1>10. FoldStep(fold, n, S0, G, T)
  BY <1>7, <1>8, <1>9, MaxIsTop DEF FoldStep
<1>11. PICK run \in [0 .. n -> T] : FoldRun(run, fold, n, S0, G)
  BY <1>1, <1>3, <1>6, <1>10, FoldRuns
<1> QED
  BY <1>1, <1>2, <1>11 DEF FoldRun, T

-----------------------------------------------------------------------------
(* schedule_with_prefix *)

(* Steps 2 to 5 for the first n requests of a batch.                       *)
LEMMA FormBatchIs ==
  ASSUME Simulated, NEW P, Within(P), NEW d, d.m \in Mem(P), d.s \in Seq(Req),
         NEW n \in 0 .. Len(d.s), NEW gone \in Seq(Req)
  PROVE  FormBatch(d, n, gone) \in SUBSET Mem(P)
<1> DEFINE batch == Prefix(d.s, n)
           news == {r \in Items(batch) : IsPrefill(d.m, r) /\ ~d.m.info[r].counted
                                         /\ d.m.info[r].reload > 0}
           reload == MapThenSumSet(LAMBDA r : d.m.info[r].reload, news)
           marked(m) == [r \in Req |-> IF r \in news THEN [m.info[r] EXCEPT !.counted = TRUE] ELSE m.info[r]]
           count(m) == {[m EXCEPT !.info = marked(m)]}
           total(m) == SumSeq([i \in DOMAIN batch |-> Aligned(m.computed[batch[i]])])
                         + SumSeq([i \in DOMAIN gone |-> Aligned(m.computed[gone[i]])])
           cut == {RollbackAll(d.m, SubSeq(d.s, n + 1, Len(d.s)))}
           evicted(m) == EvictPrefixNpu(m, Need(d, n) - AvailNpu(m))
           room == UNION {IF x.failed = "none" THEN evicted(x) ELSE {x} : x \in cut}
           counted == UNION {IF x.failed = "none" THEN count(x) ELSE {x} : x \in room}
           loaded == ForEach(counted, batch, Resume)
           reloaded(m) == EvictPrefixNpu(m, reload - AvailNpu(m))
           ready == UNION {IF x.failed = "none" THEN reloaded(x) ELSE {x} : x \in loaded}
           below(m) == EvictPrefixStorage(m, total(m) - AvailTier(m, 1))
           deeper(m) == UNION {IF x.failed = "none" THEN MakeRoomDeepTiers(x, total(x)) ELSE {x} : x \in below(m)}
           store(m) == IF Storage = "none" THEN {m} ELSE ForEach(deeper(m), gone, Park)
           stored == UNION {IF x.failed = "none" THEN store(x) ELSE {x} : x \in ready}
<1>1. FormBatch(d, n, gone) = stored
  BY DEF FormBatch, Then
<1>2. batch \in Seq(Req) /\ SubSeq(d.s, n + 1, Len(d.s)) \in Seq(Req)
  BY PrefixProperties
<1>3. cut \in SUBSET Mem(P)
  BY <1>2, RollbackAllIs
<1>4. \A x \in Mem(P) : evicted(x) \in SUBSET Mem(P) /\ reloaded(x) \in SUBSET Mem(P)
  BY EvictPrefixIs
<1>5. ASSUME NEW x \in Mem(P)
      PROVE  count(x) \in SUBSET Mem(P)
  <2>1. x.info \in [Req -> InfoType]
    BY MemParts
  <2>2. \A r \in Req : [x.info[r] EXCEPT !.counted = TRUE] \in InfoType
    BY <2>1 DEF InfoType
  <2>3. marked(x) \in [Req -> InfoType]
    <3> HIDE DEF news
    <3> QED
      BY <2>1, <2>2
  <2> HIDE DEF marked, news
  <2>4. [x EXCEPT !.info = marked(x)] \in Mem(P)
    BY <2>3, MemCounts
  <2> QED
    BY <2>4
<1>6. ASSUME NEW x \in Mem(P), Storage # "none"
      PROVE  deeper(x) \in SUBSET Mem(P)
  <2>1. below(x) \in SUBSET Mem(P)
    BY <1>6, EvictPrefixIs
  <2>2. \A y \in below(x) : MakeRoomDeepTiers(y, total(y)) \in SUBSET Mem(P)
    BY <2>1, MakeRoomIs
  <2> HIDE DEF below, total
  <2> QED
    BY <2>1, <2>2
<1> HIDE DEF batch, reload, news, count, evicted, reloaded, cut, deeper
<1>7. counted \in SUBSET Mem(P)
  <2>1. room \in SUBSET Mem(P)
    BY <1>3, <1>4
  <2> HIDE DEF room
  <2> QED
    BY <1>5, <2>1
<1> HIDE DEF counted
<1>8. loaded \in SUBSET Mem(P)
  BY <1>2, <1>7, ResumeEach
<1> HIDE DEF loaded
<1>9. ready \in SUBSET Mem(P)
  BY <1>4, <1>8
<1> HIDE DEF ready
<1>10. \A x \in Mem(P) : store(x) \in SUBSET Mem(P)
  BY <1>6, ParkEach
<1> HIDE DEF store
<1> QED
  BY <1>1, <1>9, <1>10

-----------------------------------------------------------------------------
(* The counts of the requests.  E have not finished, F have, and D were    *)
(* handed over to this instance.                                           *)

Ends(r) == CASE B!PdType = "none"    -> {B!Output(r) - 1, AfterWholeHit(r)}
             [] B!PdType = "prefill" -> {B!Input(r), B!Output(r) - 1, AfterWholeHit(r)}
             [] B!PdType = "decode"  -> {AfterWholeHit(r)}

(* Request r has n tokens computed and a chunk of k: a chunk ends with the *)
(* prompt at the latest, and a request that goes on is not at its end.     *)
CountIs(r, n, k, E, F, D) ==
  /\ n \in Nat /\ k \in Nat /\ k <= B!MaxTokens /\ n <= B!Output(r)
  /\ n < B!Input(r) => n + k <= B!Input(r)
  /\ r \in E => n <= Greatest(B!Output(r) - 2, B!Input(r))
  /\ r \in F => n \in Ends(r)
  /\ B!PdType = "decode" /\ r \in D => n >= B!Input(r)

Counts(E, F, D) ==
  {c \in [Req -> Nat] \X [Req -> Nat] : \A r \in Req : CountIs(r, c[1][r], c[2][r], E, F, D)}

(* ... where what was computed before still is all that is.                *)
Still(E, F, D) ==
  {c \in Counts(E, F, D) : \A r \in Req : computed[r] # 0 => c[1][r] = computed[r]}

LEMMA CountChanges ==
  ASSUME NEW E, NEW F, NEW D, NEW c \in Counts(E, F, D), NEW r \in Req, NEW n, NEW k,
         CountIs(r, n, k, E, F, D)
  PROVE  <<[c[1] EXCEPT ![r] = n], [c[2] EXCEPT ![r] = k]>> \in Counts(E, F, D)
<1>1. n \in Nat /\ k \in Nat
  BY DEF CountIs
<1>2. c[1] \in [Req -> Nat] /\ c[2] \in [Req -> Nat] /\ \A q \in Req : CountIs(q, c[1][q], c[2][q], E, F, D)
  BY DEF Counts
<1> QED
  BY <1>1, <1>2 DEF Counts

LEMMA CountsWithin ==
  ASSUME NEW E, NEW F, NEW D
  PROVE  Within(Counts(E, F, D)) /\ Within(Still(E, F, D))
BY DEF Within, Still, Counts, CountIs

(* Mem(P) for the counts a record has.                                     *)
LEMMA MemOf ==
  ASSUME NEW P, NEW Q, NEW m \in Mem(P), <<m.computed, m.chunk>> \in Q
  PROVE  m \in Mem(Q)
BY DEF Mem, Midway

(* Other counts with the same books and trees.                             *)
SameBooks(m, x) ==
  /\ x.npuUsed = m.npuUsed /\ x.cpuUsed = m.cpuUsed /\ x.failed = m.failed
  /\ x.npu = m.npu /\ x.tiers = m.tiers

LEMMA MemRecounted ==
  ASSUME NEW P, NEW m \in Mem(P), NEW Q, NEW x \in MemType, SameBooks(m, x),
         <<x.computed, x.chunk>> \in Q, \A r \in Req : x.evict[r] => x.computed[r] # 0
  PROVE  x \in Mem(Q)
<1>1. /\ Balanced(m.npuUsed + 0, m.cpuUsed, m.failed, m.npu, m.tiers)
      /\ Quiet(Both, m.failed, m.npu)
  BY DEF Mem, Midway
<1>2. /\ Balanced(x.npuUsed + 0, x.cpuUsed, x.failed, x.npu, x.tiers)
      /\ Quiet(Both, x.failed, x.npu)
  BY <1>1 DEF SameBooks
<1> QED
  BY <1>2 DEF Mem, Midway

(* A chunk is dealt to a request.                                          *)
LEMMA ChunkSet ==
  ASSUME NEW P, NEW Q, NEW m \in Mem(P), NEW r \in Req, NEW k \in Nat,
         <<m.computed, [m.chunk EXCEPT ![r] = k]>> \in Q
  PROVE  [m EXCEPT !.chunk[r] = k] \in Mem(Q)
<1> DEFINE c == [m.chunk EXCEPT ![r] = k]
           x == [m EXCEPT !.chunk = c]
<1>1. m \in MemType /\ c \in [Req -> Nat] /\ \A q \in Req : m.evict[q] => m.computed[q] # 0
  BY MemParts DEF Mem, Midway
<1>2. <<m.computed, c>> \in Q /\ [m EXCEPT !.chunk[r] = k] = x
  OBVIOUS
<1> HIDE DEF c
<1>3. x \in MemType /\ x.computed = m.computed /\ x.chunk = c /\ x.evict = m.evict
  BY <1>1 DEF MemType
<1>4. SameBooks(m, x)
  BY <1>1 DEF MemType, SameBooks
<1> QED
  BY <1>1, <1>2, <1>3, <1>4, MemRecounted

(* Matching a request that has nothing computed, and dealing it a chunk.   *)
LEMMA MatchNewIs ==
  ASSUME Simulated, NEW P, NEW m \in Mem(P), NEW r \in Req
  PROVE  \E n \in Nat : /\ MatchNew(m, r) \in Mem({<<[m.computed EXCEPT ![r] = n], m.chunk>>})
                        /\ m.computed[r] # 0 => n = m.computed[r]
                        /\ m.computed[r] = 0 => n <= B!Input(r)
<1> DEFINE c == m.computed[r]
<1>1. c \in Nat /\ m.computed \in [Req -> Nat]
  BY MemParts
<1>2. CASE c # 0
  <2>1. [m.computed EXCEPT ![r] = c] = m.computed
    BY <1>1
  <2>2. MatchNew(m, r) = m
    BY <1>2 DEF MatchNew
  <2>3. m \in Mem({<<m.computed, m.chunk>>})
    BY MemOf
  <2> QED
    BY <1>1, <1>2, <2>1, <2>2, <2>3
<1>3. CASE c = 0
  <2> DEFINE Q == {<<[m.computed EXCEPT ![r] = n], m.chunk>> : n \in 0 .. B!Input(r)}
  <2>1. \A n \in 0 .. B!Input(r) : <<MatchedTo(m, r, n), m.chunk>> \in Q
    BY <1>1, <1>3 DEF MatchedTo
  <2> HIDE DEF Q
  <2>2. PrefixMatch(m, r) \in Mem(Q)
    BY <2>1, PrefixMatchIs
  <2>3. MatchNew(m, r) \in Mem(Q)
    BY <1>3, <2>2 DEF MatchNew
  <2> DEFINE x == MatchNew(m, r)
  <2> HIDE DEF x
  <2>4. x \in Mem(Q) /\ <<x.computed, x.chunk>> \in Q
    BY <2>3, MemParts DEF x
  <2>5. PICK n \in 0 .. B!Input(r) : <<x.computed, x.chunk>> = <<[m.computed EXCEPT ![r] = n], m.chunk>>
    BY <2>4 DEF Q
  <2>6. x \in Mem({<<[m.computed EXCEPT ![r] = n], m.chunk>>})
    BY <2>4, <2>5, MemOf
  <2>7. n \in Nat /\ n <= B!Input(r)
    BY DEF Simulated
  <2> QED
    BY <1>3, <2>6, <2>7 DEF x
<1> QED
  BY <1>2, <1>3

(* What dealing the budget out goes through.                               *)
Dealing(P) ==
  [m : Mem(P), s : Seq(Req), tokens : [Req -> Nat], left : {i \in Int : i <= B!MaxTokens},
   open : BOOLEAN]

LEMMA ChunkIs ==
  ASSUME Simulated, NEW E, NEW F, NEW D, NEW a \in Dealing(Still(E, F, D)), NEW r \in Req \ F,
         a.left > 0, IsPrefill(a.m, r)
  PROVE  /\ Chunk(a, MatchNew(a.m, r), r) \in Dealing(Still(E, F, D))
         /\ Chunk(a, MatchNew(a.m, r), r).s \in {a.s, Append(a.s, r)}
<1> DEFINE P == Still(E, F, D)
           x == MatchNew(a.m, r)
           in == B!Input(r)
           rest == in - x.computed[r]
           capped == IF 0 < B!Threshold /\ B!Threshold < rest THEN B!Threshold ELSE rest
           k == Least(capped, a.left)
           y == [x EXCEPT !.chunk[r] = k]
           old == a.m.computed[r]
           c == a.m.computed
           ch == a.m.chunk
<1>1. /\ a.m \in Mem(P) /\ a.s \in Seq(Req) /\ a.tokens \in [Req -> Nat]
      /\ a.left \in Int /\ a.left <= B!MaxTokens /\ a.open \in BOOLEAN
  BY DEF Dealing
<1>2. /\ c \in [Req -> Nat] /\ ch \in [Req -> Nat] /\ <<c, ch>> \in P
  BY <1>1, MemParts
<1>3. /\ <<c, ch>> \in Counts(E, F, D) /\ CountIs(r, c[r], ch[r], E, F, D)
      /\ \A q \in Req : computed[q] # 0 => c[q] = computed[q]
  BY <1>2 DEF Still, Counts
<1>4. in \in Nat \ {0} /\ B!Threshold \in Nat /\ B!MaxTokens \in Nat /\ B!Output(r) \in Nat /\ B!Output(r) > in
  BY DEF Simulated
<1>5. PICK n \in Nat : /\ x \in Mem({<<[c EXCEPT ![r] = n], ch>>})
                       /\ c[r] # 0 => n = c[r]
                       /\ c[r] = 0 => n <= in
  BY <1>1, MatchNewIs
<1>6. x.computed = [c EXCEPT ![r] = n] /\ x.chunk = ch
  <2>1. <<x.computed, x.chunk>> \in {<<[c EXCEPT ![r] = n], ch>>}
    BY <1>5, MemParts
  <2> QED
    BY <2>1
<1>7. n <= in /\ c[r] < in /\ rest = in - n
  BY <1>2, <1>4, <1>5, <1>6 DEF IsPrefill
<1>8. /\ k \in Int /\ k <= rest /\ k <= a.left
      /\ k <= 0 => rest = 0
  <2>1. rest \in Nat
    BY <1>4, <1>7
  <2> HIDE DEF rest
  <2>2. capped \in Nat /\ capped <= rest /\ (capped <= 0 => rest = 0)
    BY <1>4, <2>1
  <2> HIDE DEF capped
  <2> QED
    BY <1>1, <2>1, <2>2 DEF Least
<1>9. \A l \in Nat : n + l <= in /\ l <= B!MaxTokens => CountIs(r, n, l, E, F, D)
  <2> SUFFICES ASSUME NEW l \in Nat, n + l <= in, l <= B!MaxTokens
               PROVE  CountIs(r, n, l, E, F, D)
    OBVIOUS
  <2>1. n <= Greatest(B!Output(r) - 2, in)
    BY <1>4, <1>7 DEF Greatest
  <2>2. ~(B!PdType = "decode" /\ r \in D)
    BY <1>2, <1>3, <1>4, <1>7 DEF CountIs
  <2>3. n <= B!Output(r)
    BY <1>4, <1>7
  <2> QED
    BY <2>1, <2>2, <2>3 DEF CountIs
<1>10. ASSUME NEW l \in Nat, n + l <= in, l <= B!MaxTokens
       PROVE  <<[c EXCEPT ![r] = n], [ch EXCEPT ![r] = l]>> \in P
  <2>1. CountIs(r, n, l, E, F, D)
    BY <1>9, <1>10
  <2>2. <<c, ch>>[1] = c /\ <<c, ch>>[2] = ch
    OBVIOUS
  <2>3. <<[c EXCEPT ![r] = n], [ch EXCEPT ![r] = l]>> \in Counts(E, F, D)
    BY <1>3, <2>1, <2>2, CountChanges
  <2>4. \A q \in Req : computed[q] # 0 => [c EXCEPT ![r] = n][q] = computed[q]
    BY <1>2, <1>3, <1>5
  <2> QED
    BY <2>3, <2>4 DEF Still
<1> HIDE DEF x, P, rest, capped, in
<1>11. CASE k <= 0
  <2>1. Chunk(a, x, r) = [a EXCEPT !.m = x, !.open = FALSE]
    BY <1>11 DEF Chunk, k, capped, rest, in
  <2>2. n = in /\ n + 0 <= in
    BY <1>4, <1>7, <1>8, <1>11
  <2>3. ch[r] <= B!MaxTokens /\ ch[r] \in Nat
    BY <1>3 DEF CountIs
  <2>4. <<[c EXCEPT ![r] = n], ch>> \in P
    <3>1. CountIs(r, n, ch[r], E, F, D)
      <4>1. CountIs(r, n, 0, E, F, D)
        <5>1. 0 \in Nat /\ 0 <= B!MaxTokens
          BY <1>4
        <5> QED
          BY <1>9, <2>2, <5>1
      <4>2. ~(n < in)
        BY <1>4, <2>2
      <4> QED
        BY <2>3, <4>1, <4>2 DEF CountIs, in
    <3>2. <<c, ch>>[1] = c /\ <<c, ch>>[2] = ch /\ [ch EXCEPT ![r] = ch[r]] = ch
      BY <1>2
    <3>3. <<[c EXCEPT ![r] = n], [ch EXCEPT ![r] = ch[r]]>> \in Counts(E, F, D)
      BY <1>3, <3>1, <3>2, CountChanges
    <3>4. \A q \in Req : computed[q] # 0 => [c EXCEPT ![r] = n][q] = computed[q]
      BY <1>2, <1>3, <1>5
    <3> QED
      BY <3>2, <3>3, <3>4 DEF Still, P
  <2>5. x \in Mem(P)
    BY <1>5, <1>6, <2>4, MemOf
  <2> QED
    BY <1>1, <2>1, <2>5 DEF Dealing, x, P
<1>12. CASE k > 0
  <2> DEFINE z == [a EXCEPT !.m = y, !.s = Append(@, r), !.tokens[r] = k, !.left = @ - k]
  <2>1. Chunk(a, x, r) = z
    BY <1>8, <1>12 DEF Chunk, k, capped, rest, in
  <2> HIDE DEF k
  <2>2. k \in Nat /\ k <= B!MaxTokens /\ n + k <= in
    BY <1>1, <1>4, <1>7, <1>8, <1>12
  <2>3. <<x.computed, [x.chunk EXCEPT ![r] = k]>> \in P
    BY <1>6, <1>10, <2>2
  <2>4. y \in Mem(P)
    BY <1>5, <2>2, <2>3, ChunkSet
  <2> HIDE DEF y
  <2>5. Append(a.s, r) \in Seq(Req)
    BY <1>1
  <2>6. a.left - k \in {i \in Int : i <= B!MaxTokens}
    BY <1>1, <1>4, <2>2
  <2>7. [a.tokens EXCEPT ![r] = k] \in [Req -> Nat]
    BY <1>1, <2>2
  <2> DEFINE tk == [a.tokens EXCEPT ![r] = k]
             sq == Append(a.s, r)
             lf == a.left - k
  <2>8. z = [a EXCEPT !.m = y, !.s = sq, !.tokens = tk, !.left = lf]
    OBVIOUS
  <2> HIDE DEF z, tk, sq, lf
  <2>9. z \in Dealing(P) /\ z.s = sq
    <3>1. tk \in [Req -> Nat] /\ sq \in Seq(Req) /\ lf \in {i \in Int : i <= B!MaxTokens}
      BY <2>5, <2>6, <2>7 DEF tk, sq, lf
    <3> QED
      BY <2>4, <2>8, <3>1 DEF Dealing
  <2> QED
    BY <2>1, <2>9 DEF sq, x, P
<1> QED
  BY <1>8, <1>11, <1>12

LEMMA DealChunkIs ==
  ASSUME Simulated, NEW E, NEW F, NEW D, NEW a \in Dealing(Still(E, F, D)), NEW r \in Req \ F
  PROVE  /\ DealChunk(a, r) \in Dealing(Still(E, F, D))
         /\ DealChunk(a, r).s \in {a.s, Append(a.s, r)}
<1> DEFINE P == Still(E, F, D)
<1>1. /\ a.m \in Mem(P) /\ a.s \in Seq(Req) /\ a.tokens \in [Req -> Nat]
      /\ a.left \in Int /\ a.left <= B!MaxTokens /\ a.open \in BOOLEAN /\ B!MaxTokens \in Nat
  BY DEF Dealing, Simulated
<1>2. CASE a.left <= 0 \/ ~a.open
  BY <1>2 DEF DealChunk
<1>3. CASE a.left > 0 /\ a.open /\ IsPrefill(a.m, r)
  <2>1. DealChunk(a, r) = Chunk(a, MatchNew(a.m, r), r)
    BY <1>1, <1>3 DEF DealChunk
  <2> QED
    BY <1>3, <2>1, ChunkIs
<1>4. CASE a.left > 0 /\ a.open /\ ~IsPrefill(a.m, r)
  <2> DEFINE tk == [a.tokens EXCEPT ![r] = 1]
             sq == Append(a.s, r)
             lf == a.left - 1
  <2>1. DealChunk(a, r) = [a EXCEPT !.s = sq, !.tokens = tk, !.left = lf]
    BY <1>1, <1>4 DEF DealChunk
  <2>2. tk \in [Req -> Nat] /\ sq \in Seq(Req) /\ lf \in {i \in Int : i <= B!MaxTokens}
    BY <1>1
  <2> HIDE DEF tk, sq, lf, P
  <2>3. [a EXCEPT !.s = sq, !.tokens = tk, !.left = lf] \in Dealing(P)
    BY <2>2 DEF Dealing, P
  <2>4. [a EXCEPT !.s = sq, !.tokens = tk, !.left = lf].s = sq
    BY DEF Dealing
  <2> QED
    BY <2>1, <2>3, <2>4 DEF sq, P
<1> QED
  BY <1>1, <1>2, <1>3, <1>4

LockPrefill(m, r) == IF IsPrefill(m, r) THEN LockOnce(m, r) ELSE m

LockAll(m, s) == FoldLeft(LockPrefill, m, s)

(* The prefixes of the prefills of a batch are locked.                     *)
LEMMA LockAllIs ==
  ASSUME Simulated, NEW P, NEW m \in Mem(P), NEW s \in Seq(Req)
  PROVE  LockAll(m, s) \in Mem(P)
<1> DEFINE T == Mem(P)
           n == Len(s)
           b == m
           step(x, j) == LockPrefill(x, j)
           G == [j \in 1 .. n |-> [x \in T |-> step(x, s[j])]]
           H(f) == f = [S \in SUBSET (1 .. n) |-> IF S = {} THEN b ELSE step(f[S \ {Max(S)}], s[Max(S)])]
           fold == CHOOSE f : H(f)
<1>1. n \in Nat /\ DOMAIN s = 1 .. n /\ \A j \in 1 .. n : s[j] \in Req
  <2>1. s \in Seq(Req)
    OBVIOUS
  <2> QED
    BY <2>1, SeqParts
<1>2. LockAll(m, s) = fold[1 .. n]
  BY <1>1 DEF LockAll, FoldLeft, MapThenFoldSet
<1>3. b \in T
  OBVIOUS
<1>4. \A x \in T, j \in Req : step(x, j) \in T
  BY LocksAre DEF LockPrefill
<1> HIDE DEF n, step, T, b
<1>5. G \in [1 .. n -> [T -> T]]
  BY <1>1, <1>4
<1>6. \A j \in 1 .. n, x \in T : G[j][x] = step(x, s[j])
  OBVIOUS
<1>7. \A S \in SUBSET (1 .. n) : S # {} => Top(S) \in S /\ S \ {Top(S)} \in SUBSET (1 .. n)
  BY <1>1, TopInside
<1> HIDE DEF G
<1>8. H(fold)
  <2>1. PICK g \in [SUBSET (1 .. n) -> T] : Folds(g, n, b, G)
    BY <1>1, <1>3, <1>5, FoldExists
  <2>2. \A S \in SUBSET (1 .. n) : g[S] = IF S = {} THEN b ELSE step(g[S \ {Max(S)}], s[Max(S)])
    BY <1>6, <1>7, <2>1, MaxIsTop DEF Folds
  <2>3. H(g)
    BY <2>2
  <2> QED
    BY <2>3
<1> HIDE DEF fold
<1>9. FoldStep(fold, n, b, G, T)
  BY <1>6, <1>7, <1>8, MaxIsTop DEF FoldStep
<1>10. PICK run \in [0 .. n -> T] : FoldRun(run, fold, n, b, G)
  BY <1>1, <1>3, <1>5, <1>9, FoldRuns
<1> QED
  BY <1>1, <1>2, <1>10 DEF FoldRun, T

DealAll(a, s) == FoldLeft(DealChunk, a, s)

(* The queue is dealt out: nobody is dealt to twice.                        *)
LEMMA DealAllIs ==
  ASSUME Simulated, NEW E, NEW F, NEW D, NEW a \in Dealing(Still(E, F, D)), a.s = <<>>, NEW s \in Seq(Req \ F), Distinct(s)
  PROVE  /\ DealAll(a, s) \in Dealing(Still(E, F, D))
         /\ Items(DealAll(a, s).s) \subseteq Items(s) /\ Distinct(DealAll(a, s).s)
<1> DEFINE T == Dealing(Still(E, F, D))
           n == Len(s)
           b == a
           step(x, j) == DealChunk(x, j)
           G == [j \in 1 .. n |-> [x \in T |-> step(x, s[j])]]
           H(f) == f = [S \in SUBSET (1 .. n) |-> IF S = {} THEN b ELSE step(f[S \ {Max(S)}], s[Max(S)])]
           fold == CHOOSE f : H(f)
<1>1. n \in Nat /\ DOMAIN s = 1 .. n /\ \A j \in 1 .. n : s[j] \in Req \ F
  <2>1. s \in Seq(Req \ F)
    OBVIOUS
  <2> QED
    BY <2>1, SeqParts
<1>2. DealAll(a, s) = fold[1 .. n]
  BY <1>1 DEF DealAll, FoldLeft, MapThenFoldSet
<1>3. b \in T
  OBVIOUS
<1>4. \A x \in T, j \in Req \ F : step(x, j) \in T
  BY DealChunkIs
<1>5. \A x \in T, j \in Req \ F : step(x, j).s \in {x.s, Append(x.s, j)}
  BY DealChunkIs
<1>6. \A x \in T : x.s \in Seq(Req)
  BY DEF Dealing
<1>7. b.s = <<>> /\ \A i, j \in 1 .. n : s[i] = s[j] => i = j
  BY <1>1 DEF Distinct
<1>8. Items(s) = {s[j] : j \in 1 .. n}
  BY <1>1 DEF Items
<1> HIDE DEF n, step, T, b
<1>9. G \in [1 .. n -> [T -> T]]
  BY <1>1, <1>4
<1>10. \A j \in 1 .. n, x \in T : G[j][x] = step(x, s[j])
  OBVIOUS
<1>11. \A S \in SUBSET (1 .. n) : S # {} => Top(S) \in S /\ S \ {Top(S)} \in SUBSET (1 .. n)
  BY <1>1, TopInside
<1> HIDE DEF G
<1>12. H(fold)
  <2>1. PICK g \in [SUBSET (1 .. n) -> T] : Folds(g, n, b, G)
    BY <1>1, <1>3, <1>9, FoldExists
  <2>2. \A S \in SUBSET (1 .. n) : g[S] = IF S = {} THEN b ELSE step(g[S \ {Max(S)}], s[Max(S)])
    BY <1>10, <1>11, <2>1, MaxIsTop DEF Folds
  <2>3. H(g)
    BY <2>2
  <2> QED
    BY <2>3
<1> HIDE DEF fold
<1>13. FoldStep(fold, n, b, G, T)
  BY <1>10, <1>11, <1>12, MaxIsTop DEF FoldStep
<1>14. PICK run \in [0 .. n -> T] : FoldRun(run, fold, n, b, G)
  BY <1>1, <1>3, <1>9, <1>13, FoldRuns
<1> DEFINE ok == {k \in 0 .. n : Distinct(run[k].s) /\ Items(run[k].s) \subseteq {s[j] : j \in 1 .. k}}
<1>15. \A k \in 1 .. n : run[k - 1] \in T /\ run[k] = step(run[k - 1], s[k])
  BY <1>1, <1>10, <1>14 DEF FoldRun
<1>16. 0 \in ok
  <2>1. run[0].s = <<>>
    BY <1>14, <1>7 DEF FoldRun
  <2> QED
    BY <1>1, <2>1 DEF Distinct, Items
<1>17. ASSUME NEW k \in 1 .. n, k - 1 \in ok
       PROVE  k \in ok
  <2> DEFINE p == run[k - 1].s
             q == run[k].s
  <2>1. p \in Seq(Req) /\ s[k] \in Req /\ q \in {p, Append(p, s[k])}
    BY <1>1, <1>15, <1>5, <1>6
  <2>2. Distinct(p) /\ Items(p) \subseteq {s[j] : j \in 1 .. k - 1}
    BY <1>17
  <2>3. s[k] \notin Items(p) /\ {s[j] : j \in 1 .. k - 1} \subseteq {s[j] : j \in 1 .. k} /\ s[k] \in {s[j] : j \in 1 .. k}
    <3>1. \A j \in 1 .. k - 1 : j \in 1 .. n /\ j # k /\ j \in 1 .. k
      BY <1>1
    <3> QED
      BY <1>7, <2>2, <3>1
  <2> HIDE DEF p, q
  <2>4. q = p \/ (Items(q) = Items(p) \cup {s[k]} /\ Distinct(q))
    <3> DEFINE e == s[k]
    <3>1. p \in Seq(Req) /\ e \in Req /\ q \in {p, Append(p, e)} /\ Distinct(p) /\ e \notin Items(p)
      BY <2>1, <2>2, <2>3
    <3> HIDE DEF e
    <3>2. Items(Append(p, e)) = Items(p) \cup {e} /\ Distinct(Append(p, e))
      BY <3>1, AppendItems
    <3>3. q = p \/ (Items(q) = Items(p) \cup {e} /\ Distinct(q))
      BY <3>1, <3>2
    <3> QED
      BY <3>3 DEF e
  <2>5. Distinct(q) /\ Items(q) \subseteq {s[j] : j \in 1 .. k}
    BY <2>2, <2>3, <2>4
  <2> QED
    BY <2>5 DEF q
<1> HIDE DEF ok
<1>18. 0 .. n \subseteq ok
  BY <1>1, <1>16, <1>17, UpTo
<1>19. n \in ok
  BY <1>1, <1>18
<1> DEFINE d == run[n]
<1>20. d \in T /\ d = DealAll(a, s)
  BY <1>1, <1>2, <1>14 DEF FoldRun
<1>21. Distinct(d.s) /\ Items(d.s) \subseteq Items(s)
  BY <1>19, <1>8 DEF ok
<1> HIDE DEF d
<1> QED
  BY <1>20, <1>21 DEF T

(* Step 1: the batch, and what dealing it out leaves of the counts.        *)
LEMMA DealtIs ==
  ASSUME Simulated, B!Chunked, NEW E, NEW F, NEW D, M \in Mem(Still(E, F, D)),
         NEW s \in Seq(Req \ F), Distinct(s)
  PROVE  /\ Dealt(s).m \in Mem(Still(E, F, D)) /\ Dealt(s).s \in Seq(Req)
         /\ Items(Dealt(s).s) \subseteq Items(s) /\ Distinct(Dealt(s).s)
         /\ \A m : [Dealt(s) EXCEPT !.m = m].m = m /\ [Dealt(s) EXCEPT !.m = m].s = Dealt(s).s
<1> DEFINE P == Still(E, F, D)
           start == [m |-> M, s |-> <<>>, tokens |-> [r \in Req |-> 0], left |-> B!MaxTokens, open |-> TRUE]
           d == DealAll(start, s)
           x == LockAll(d.m, d.s)
<1>1. start \in Dealing(P) /\ start.s = <<>>
  <2>1. B!MaxTokens \in Nat /\ [r \in Req |-> 0] \in [Req -> Nat] /\ <<>> \in Seq(Req)
    BY DEF Simulated
  <2>2. B!MaxTokens \in {i \in Int : i <= B!MaxTokens}
    BY <2>1
  <2> QED
    BY <2>1, <2>2 DEF Dealing
<1>2. Dealt(s) = [d EXCEPT !.m = x]
  BY DEF Dealt, DealAll, LockAll, LockPrefill, FoldLeft, MapThenFoldSet
<1> HIDE DEF start, P
<1>3. d \in Dealing(P) /\ Items(d.s) \subseteq Items(s) /\ Distinct(d.s)
  <2>1. start \in Dealing(Still(E, F, D)) /\ start.s = <<>>
    BY <1>1 DEF P
  <2>2. /\ DealAll(start, s) \in Dealing(Still(E, F, D))
        /\ Items(DealAll(start, s).s) \subseteq Items(s) /\ Distinct(DealAll(start, s).s)
    BY <2>1, DealAllIs
  <2> QED
    BY <2>2 DEF P, d
<1> HIDE DEF d
<1>4. d.m \in Mem(P) /\ d.s \in Seq(Req)
  BY <1>3 DEF Dealing
<1>5. x \in Mem(P)
  BY <1>4, LockAllIs
<1> HIDE DEF x
<1> DEFINE e == [d EXCEPT !.m = x]
<1>6. e.m = x /\ e.s = d.s
  BY <1>3 DEF Dealing
<1>7. \A m : [e EXCEPT !.m = m].m = m /\ [e EXCEPT !.m = m].s = d.s
  BY <1>3 DEF Dealing
<1> HIDE DEF e
<1>8. Dealt(s) = e
  BY <1>2 DEF e
<1> QED
  BY <1>3, <1>4, <1>5, <1>6, <1>7, <1>8 DEF P

(* The requests preempted from the back of a list.                         *)
LEMMA PreemptedIs ==
  ASSUME NEW gen \in Seq(Req), NEW k \in 0 .. Len(gen)
  PROVE  Preempted(gen, k) \in Seq(Req) /\ Items(Preempted(gen, k)) \subseteq Items(gen)
<1> DEFINE n == Len(gen)
           q == [i \in 1 .. k |-> gen[n + 1 - i]]
           S == {r \in Req : ~evict[r]}
<1>1. n \in Nat /\ k \in Nat /\ k <= n /\ DOMAIN gen = 1 .. n
  OBVIOUS
<1>2. \A i \in 1 .. k : n + 1 - i \in 1 .. n
  BY <1>1
<1>3. \A i \in 1 .. k : gen[n + 1 - i] \in Req /\ gen[n + 1 - i] \in Items(gen)
  BY <1>1, <1>2 DEF Items
<1>4. q \in [1 .. k -> Req] /\ DOMAIN q = 1 .. k
  BY <1>3
<1>5. q \in Seq(Req) /\ Items(q) \subseteq Items(gen)
  <2>1. \A i \in 1 .. k : q[i] \in Items(gen)
    BY <1>3
  <2> HIDE DEF q
  <2>2. q \in Seq(Req)
    BY <1>1, <1>4, SeqDef
  <2>3. Items(q) \subseteq Items(gen)
    BY <1>4, <2>1 DEF Items
  <2> QED
    BY <2>2, <2>3
<1>6. Preempted(gen, k) = Keep(q, S)
  BY DEF Preempted
<1> HIDE DEF q, S
<1>7. Keep(q, S) \in Seq(Req) /\ Items(Keep(q, S)) = Items(q) \cap S
  BY <1>5, KeepProperties
<1> QED
  BY <1>5, <1>6, <1>7

LEMMA LimitIs ==
  ASSUME NEW d, d.s \in Seq(Req), NEW gen \in Seq(Req), NEW k \in 0 .. Len(gen)
  PROVE  Limit(d, gen, k) \in 0 .. Len(d.s)
<1> DEFINE gone == Preempted(gen, k)
           x == gone[Len(gone)]
           p == Pos(gen, x)
           n == Len(d.s)
<1>1. n \in Nat /\ gone \in Seq(Req) /\ Items(gone) \subseteq Items(gen)
  BY PreemptedIs
<1>2. CASE gone = <<>>
  BY <1>1, <1>2 DEF Limit
<1>3. CASE gone # <<>>
  <2>1. Limit(d, gen, k) = Least(n, p - 1)
    BY <1>3 DEF Limit
  <2> HIDE DEF gone
  <2>2. x \in Items(gen)
    <3>1. DOMAIN gone = 1 .. Len(gone) /\ Len(gone) \in DOMAIN gone
      BY <1>1, <1>3
    <3>2. x \in Items(gone)
      BY <3>1 DEF Items
    <3> QED
      BY <1>1, <3>2
  <2> HIDE DEF x
  <2>3. p \in DOMAIN gen
    BY <2>2 DEF Pos, Items
  <2> HIDE DEF p, n
  <2>4. p \in Nat /\ p >= 1
    BY <2>3
  <2> QED
    BY <1>1, <2>1, <2>4 DEF Least, n
<1> QED
  BY <1>2, <1>3

LEMMA FitLengthIs ==
  ASSUME NEW d, NEW top \in Nat
  PROVE  FitLength(d, top) \in 0 .. top
<1> DEFINE fits == {n \in 0 .. top : Need(d, n) <= Usable(d.m)}
<1>1. fits \in SUBSET (0 .. top)
  OBVIOUS
<1>2. FitLength(d, top) = IF fits = {} THEN top ELSE Max(fits)
  BY DEF FitLength
<1> HIDE DEF fits
<1> QED
  BY <1>1, <1>2, MaxWithin

-----------------------------------------------------------------------------
(* The inductive invariant: nobody is lost or doubled, and what a request  *)
(* has computed fits the place it is in.                                   *)

(* Requests that go on: none after a RuntimeError. *)
Going(why, fin) == IF why = "none" THEN Req \ fin ELSE {}

AllChunked == \A x \in Simulations : x.chunked

Places ==
  /\ sim \in Simulations
  /\ request \in Seq(Req) /\ inflight \in Seq(B!BatchType) /\ batchIds \in Nat
  /\ pending \subseteq Req /\ finished \subseteq Req
  /\ B!OnePlace
Counted == M \in Mem(Counts(Going(failed, finished), finished, Req \ pending))
Inv == Places /\ Counted

-----------------------------------------------------------------------------
(* add_done: what a step computes of a request *)

Computes(m, r) == IF IsPrefill(m, r) THEN m.computed[r] + Step(m, r) ELSE m.computed[r] + 1
Rests(m, r)    == IF IsPrefill(m, r) THEN 0 ELSE m.chunk[r]

(* What holds of a count holds of it for fewer requests. *)
LEMMA CountWeaker ==
  ASSUME NEW E, NEW F, NEW D, NEW r, NEW n, NEW k, CountIs(r, n, k, E, F, D),
         NEW E2, NEW F2, NEW D2, r \in E2 => r \in E, r \in F2 => r \in F, r \in D2 => r \in D
  PROVE  CountIs(r, n, k, E2, F2, D2)
BY DEF CountIs

(* A step never computes beyond the end of a request, and a request leaves *)
(* with the tokens it should have.                                         *)
LEMMA StepEnds ==
  ASSUME Simulated, NEW P, NEW m \in Mem(P), NEW r \in Req, NEW E, NEW F, NEW D,
         CountIs(r, m.computed[r], m.chunk[r], E, F, D), r \in E, r \in D
  PROVE  LET n == Computes(m, r)
         IN  /\ CountIs(r, n, Rests(m, r), {}, {}, D)
             /\ n < B!Output(r) - 1 => n <= Greatest(B!Output(r) - 2, B!Input(r))
             /\ n >= B!Output(r) - 1 => n \in Ends(r)
             /\ HandsOver(m, r) => n \in Ends(r)
<1> DEFINE n == Computes(m, r)
           c == m.computed[r]
           k == m.chunk[r]
           in == B!Input(r)
           out == B!Output(r)
<1>1. c \in Nat /\ k \in Nat /\ in \in Nat \ {0} /\ out \in Nat /\ out > in /\ B!MaxTokens \in Nat
  <2>1. m.computed \in [Req -> Nat] /\ m.chunk \in [Req -> Nat]
    BY MemParts
  <2> QED
    BY <2>1 DEF Simulated
<1>2. /\ k <= B!MaxTokens /\ (c < in => c + k <= in) /\ c <= Greatest(out - 2, in)
      /\ B!PdType = "decode" => c >= in
  BY DEF CountIs
<1>3. B!PdType \in {"none", "prefill", "decode"}
  BY DEF Simulated, SimulationType, B!PdType
<1>4. AfterWholeHit(r) = Greatest(out - 1, in + 1)
  BY DEF AfterWholeHit
<1>5. /\ B!PdType = "none" => Ends(r) = {out - 1, AfterWholeHit(r)}
      /\ B!PdType = "prefill" => Ends(r) = {in, out - 1, AfterWholeHit(r)}
      /\ B!PdType = "decode" => Ends(r) = {AfterWholeHit(r)}
  BY DEF Ends
<1>6. CASE c < in
  <2>1. n = c + Step(m, r) /\ Rests(m, r) = 0 /\ Step(m, r) = IF k > 0 THEN k ELSE in - c
    BY <1>6 DEF Computes, Rests, IsPrefill, Step
  <2> HIDE DEF n
  <2>2. HandsOver(m, r) => B!PdType = "prefill" /\ c + k >= in
    BY DEF HandsOver
  <2> HIDE DEF c, k, in, out
  <2>3. n \in Nat /\ n <= in /\ (c + k >= in => n = in)
    BY <1>1, <1>2, <1>6, <2>1
  <2>4. B!PdType # "decode"
    BY <1>1, <1>2, <1>6
  <2>5. CountIs(r, n, Rests(m, r), {}, {}, D)
    BY <1>1, <2>1, <2>3, <2>4 DEF CountIs, in, out
  <2>6. n >= out - 1 => n = out - 1
    BY <1>1, <2>3
  <2>7. n < out - 1 => n <= Greatest(out - 2, in)
    BY <1>1, <2>3 DEF Greatest
  <2>8. n >= out - 1 => n \in Ends(r)
    BY <1>3, <1>5, <2>4, <2>6
  <2>9. HandsOver(m, r) => n \in Ends(r)
    BY <1>5, <2>2, <2>3
  <2> QED
    BY <2>5, <2>7, <2>8, <2>9 DEF n, in, out
<1>7. CASE ~(c < in)
  <2>1. n = c + 1 /\ Rests(m, r) = k /\ ~HandsOver(m, r)
    BY <1>7 DEF Computes, Rests, IsPrefill, HandsOver
  <2> HIDE DEF n, c, k, in, out
  <2>2. n \in Nat /\ n > in /\ n <= out /\ n <= Greatest(out - 1, in + 1)
    BY <1>1, <1>2, <1>7, <2>1 DEF Greatest
  <2>3. CountIs(r, n, Rests(m, r), {}, {}, D)
    BY <1>1, <1>2, <2>1, <2>2 DEF CountIs, in, out
  <2>4. n >= out - 1 => n = AfterWholeHit(r)
    BY <1>1, <1>4, <2>2 DEF Greatest
  <2>5. n < out - 1 => n <= Greatest(out - 2, in)
    BY <1>1, <2>2 DEF Greatest
  <2>6. n >= out - 1 => n \in Ends(r)
    BY <1>3, <1>5, <2>4
  <2> QED
    BY <2>1, <2>3, <2>5, <2>6 DEF n, in, out
<1> QED
  BY <1>6, <1>7

(* The counts a step leaves, and the records an error may leave instead.   *)
Stepped(m, r) == <<[m.computed EXCEPT ![r] = Computes(m, r)], [m.chunk EXCEPT ![r] = Rests(m, r)]>>
Broken(m) == {x \in Mem({<<m.computed, m.chunk>>}) : x.failed # "none"}

(* Computed tokens of one request, and its chunk, are set.                 *)
LEMMA ComputedSet ==
  ASSUME NEW P, NEW m \in Mem(P), NEW r \in Req, NEW n \in Nat \ {0}, NEW Q
  PROVE  /\ <<[m.computed EXCEPT ![r] = n], m.chunk>> \in Q => [m EXCEPT !.computed[r] = n] \in Mem(Q)
         /\ \A k \in Nat : <<[m.computed EXCEPT ![r] = n], [m.chunk EXCEPT ![r] = k]>> \in Q =>
              [m EXCEPT !.computed[r] = n, !.chunk[r] = k] \in Mem(Q)
<1> DEFINE c == [m.computed EXCEPT ![r] = n]
           x == [m EXCEPT !.computed = c]
<1>1. m \in MemType /\ c \in [Req -> Nat] /\ \A q \in Req : m.evict[q] => m.computed[q] # 0
  BY MemParts DEF Mem, Midway
<1>2. \A q \in Req : m.evict[q] => c[q] # 0
  BY <1>1, MemParts
<1>3. [m EXCEPT !.computed[r] = n] = x
  OBVIOUS
<1> HIDE DEF c
<1>4. x \in MemType /\ x.computed = c /\ x.chunk = m.chunk /\ x.evict = m.evict /\ SameBooks(m, x)
  BY <1>1 DEF MemType, SameBooks
<1>5. \A R : <<c, m.chunk>> \in R => x \in Mem(R)
  BY <1>2, <1>4, MemRecounted
<1>6. ASSUME NEW k \in Nat, <<c, [m.chunk EXCEPT ![r] = k]>> \in Q
      PROVE  [m EXCEPT !.computed[r] = n, !.chunk[r] = k] \in Mem(Q)
  <2>1. x \in Mem({<<c, m.chunk>>})
    BY <1>5
  <2> DEFINE y == [x EXCEPT !.chunk[r] = k]
  <2>2. y = [m EXCEPT !.computed[r] = n, !.chunk[r] = k]
    BY DEF c
  <2> HIDE DEF x
  <2>3. <<x.computed, [x.chunk EXCEPT ![r] = k]>> \in Q
    BY <1>4, <1>6
  <2>4. y \in Mem(Q)
    BY <2>1, <2>3, ChunkSet
  <2> QED
    BY <2>2, <2>4
<1> HIDE DEF x
<1> QED
  BY <1>3, <1>5, <1>6 DEF c

(* The cache learns a prompt.                                              *)
LEMMA LearnPromptIs ==
  ASSUME Simulated, NEW P, Within(P), NEW m \in Mem(P), m.failed = "none", NEW r \in Req
  PROVE  LearnPrompt(m, r) \in SUBSET Mem(P)
<1> DEFINE S == CacheUnfinishedAll(m, r)
           known(x) == {[x EXCEPT !.info[r].isInit = FALSE]}
           learned == UNION {IF x.failed = "none" THEN known(x) ELSE {x} : x \in S}
<1>1. LearnPrompt(m, r) = IF IsPrefill(m, r) \/ ~m.info[r].isInit THEN {m} ELSE learned
  BY DEF LearnPrompt, Then
<1>2. S \in SUBSET Mem(P)
  BY CacheAllIs
<1>3. ASSUME NEW x \in Mem(P)
      PROVE  known(x) \in SUBSET Mem(P)
  <2> DEFINE one == [x.info[r] EXCEPT !.isInit = FALSE]
  <2>1. one \in InfoType
    <3>1. x.info[r] \in InfoType
      BY MemParts
    <3> QED
      BY <3>1 DEF InfoType
  <2>2. known(x) = {[x EXCEPT !.info[r] = one]}
    OBVIOUS
  <2> HIDE DEF one
  <2> QED
    BY <2>1, <2>2, MemCounts
<1> HIDE DEF S, known
<1>4. learned \in SUBSET Mem(P)
  BY <1>2, <1>3
<1> HIDE DEF learned
<1> QED
  BY <1>1, <1>4

(* A prefill or a decode step of one request.                              *)
LEMMA EndPhaseIs ==
  ASSUME Simulated, NEW P, Within(P), NEW m \in Mem(P), NEW r \in Req, NEW E, NEW F, NEW D,
         CountIs(r, m.computed[r], m.chunk[r], E, F, D), r \in E, r \in D
  PROVE  EndPhase(m, r) \in SUBSET (Mem({Stepped(m, r)}) \cup Broken(m))
<1> DEFINE c == m.computed
           k == m.chunk
           n == Computes(m, r)
           c1 == [c EXCEPT ![r] = n]
           k1 == [k EXCEPT ![r] = Rests(m, r)]
           begun == CASE IsPrefill(m, r) -> EndPrefill(m, r)
                      [] ~IsPrefill(m, r) /\ m.info[r].isInit -> LockOnce(m, r)
                      [] OTHER -> m
           learned == UNION {IF x.failed = "none" THEN LearnPrompt(x, r) ELSE {x} : x \in {begun}}
           last(x) == {IF IsPrefill(m, r) THEN x ELSE [x EXCEPT !.computed[r] = @ + 1]}
           ended == UNION {IF x.failed = "none" THEN last(x) ELSE {x} : x \in learned}
<1>1. EndPhase(m, r) = ended
  BY DEF EndPhase, Then
<1>2. c \in [Req -> Nat] /\ k \in [Req -> Nat] /\ <<c, k>> \in P
  BY MemParts
<1>3. CountIs(r, n, Rests(m, r), {}, {}, D)
  BY StepEnds
<1>4. n \in Nat /\ Rests(m, r) \in Nat /\ n <= B!Output(r)
  BY <1>3 DEF CountIs
<1>5. m \in Mem({<<c, k>>})
  BY MemOf
<1>6. Within({<<c, k>>}) /\ Within({<<c1, k1>>})
  <2>1. \A q \in Req : c[q] <= B!Output(q)
    BY <1>2 DEF Within
  <2>2. \A q \in Req : c1[q] <= B!Output(q)
    BY <1>2, <1>4, <2>1
  <2> HIDE DEF c1, k1, c
  <2> QED
    BY <2>1, <2>2 DEF Within
<1>7. Stepped(m, r) = <<c1, k1>>
  BY DEF Stepped
<1>8. CASE IsPrefill(m, r)
  <2>1. begun = IF Step(m, r) > B!MaxTokens THEN Fail(m, "accounting")
                ELSE [m EXCEPT !.computed[r] = @ + Step(m, r), !.chunk[r] = 0]
    BY <1>8 DEF EndPrefill
  <2>2. n = m.computed[r] + Step(m, r) /\ Rests(m, r) = 0
    BY <1>8 DEF Computes, Rests
  <2>3. CASE Step(m, r) > B!MaxTokens
    <3>1. begun \in Mem({<<c, k>>}) /\ begun.failed # "none"
      <4>1. Fail(m, "accounting") \in Mem({<<c, k>>})
        <5>1. "accounting" \in Reasons \ {"none"}
          BY DEF Reasons
        <5> QED
          BY <1>5, <5>1, MemCounts
      <4>2. Fail(m, "accounting").failed = "accounting"
        BY DEF Fail, Mem, Midway, MemType
      <4> QED
        BY <2>1, <2>3, <4>1, <4>2
    <3> HIDE DEF begun
    <3>2. ended = {begun}
      BY <3>1
    <3> HIDE DEF ended
    <3> QED
      BY <1>1, <3>1, <3>2 DEF Broken
  <2>4. CASE ~(Step(m, r) > B!MaxTokens)
    <3>1. begun = [m EXCEPT !.computed[r] = n, !.chunk[r] = 0]
      BY <2>1, <2>2, <2>4
    <3>2. n # 0
      <4>1. Step(m, r) = IF k[r] > 0 THEN k[r] ELSE B!Input(r) - c[r]
        BY DEF Step
      <4>2. B!Input(r) \in Nat /\ c[r] < B!Input(r) /\ c[r] \in Nat /\ k[r] \in Nat
        BY <1>2, <1>8 DEF IsPrefill, Simulated
      <4> QED
        BY <2>2, <4>1, <4>2
    <3> HIDE DEF begun, n
    <3>3. begun \in Mem({<<c1, k1>>})
      <4>1. 0 \in Nat /\ n \in Nat \ {0} /\ <<c1, k1>> \in {<<c1, k1>>} /\ k1 = [k EXCEPT ![r] = 0]
        BY <1>4, <2>2, <3>2
      <4> QED
        BY <3>1, <4>1, ComputedSet
    <3>4. begun.failed = "none" => LearnPrompt(begun, r) \in SUBSET Mem({<<c1, k1>>})
      BY <1>6, <3>3, LearnPromptIs
    <3>5. learned \in SUBSET Mem({<<c1, k1>>})
      BY <3>3, <3>4
    <3> HIDE DEF learned
    <3>6. ended = learned
      BY <1>8
    <3> QED
      BY <1>1, <1>7, <3>5, <3>6
  <2> QED
    BY <2>3, <2>4
<1>9. CASE ~IsPrefill(m, r)
  <2>1. begun \in Mem({<<c, k>>})
    <3>1. begun \in {LockOnce(m, r), m}
      BY <1>9
    <3> HIDE DEF begun
    <3> QED
      BY <1>5, <3>1, LocksAre
  <2> HIDE DEF begun
  <2>2. begun.failed = "none" => LearnPrompt(begun, r) \in SUBSET Mem({<<c, k>>})
    BY <1>6, <2>1, LearnPromptIs
  <2>3. learned \in SUBSET Mem({<<c, k>>})
    BY <2>1, <2>2
  <2> HIDE DEF learned
  <2>4. n = c[r] + 1 /\ k1 = k
    BY <1>2, <1>9 DEF Computes, Rests
  <2>5. ASSUME NEW x \in Mem({<<c, k>>})
        PROVE  last(x) \in SUBSET Mem({<<c1, k1>>})
    <3>1. <<x.computed, x.chunk>> \in {<<c, k>>}
      BY MemParts
    <3>2. x.computed = c /\ x.chunk = k
      BY <3>1
    <3>3. [x EXCEPT !.computed[r] = @ + 1] = [x EXCEPT !.computed[r] = n]
      BY <2>4, <3>2
    <3> HIDE DEF n
    <3>4. n \in Nat \ {0}
      BY <1>2, <2>4
    <3>5. <<[x.computed EXCEPT ![r] = n], x.chunk>> \in {<<c1, k1>>}
      BY <2>4, <3>2
    <3>6. [x EXCEPT !.computed[r] = n] \in Mem({<<c1, k1>>})
      BY <3>4, <3>5, ComputedSet
    <3> QED
      BY <1>9, <3>3, <3>6
  <2> HIDE DEF last
  <2>6. ended \in SUBSET (Mem({<<c1, k1>>}) \cup Broken(m))
    BY <2>3, <2>5 DEF Broken
  <2> QED
    BY <1>1, <1>7, <2>6
<1> QED
  BY <1>8, <1>9

(* The batch is gone through: m is the memory, left who leaves with it.    *)
(* The requests that go on, and those that have left, have the counts they *)
(* should have.                                                            *)
Ended(F, D) ==
  {a \in [m : MemType, left : SUBSET Req] :
     a.m \in Mem(Counts(Going(a.m.failed, F \cup a.left), F \cup a.left, D))}

LEMMA EndRequestIs ==
  ASSUME Simulated, NEW F, NEW D, NEW a \in Ended(F, D), NEW r \in Req, r \in D, r \notin F \cup a.left
  PROVE  /\ EndRequest(a, r) \in SUBSET Ended(F, D)
         /\ \A b \in EndRequest(a, r) : b.left \subseteq a.left \cup {r}
<1> DEFINE m == a.m
           fin == F \cup a.left
           E == Going(m.failed, fin)
           P == Counts(E, fin, D)
           c == m.computed
           k == m.chunk
           n == Computes(m, r)
           c1 == [c EXCEPT ![r] = n]
           k1 == [k EXCEPT ![r] = Rests(m, r)]
           S == EndPhase(m, r)
           next(x) == IF HandsOver(m, r) THEN {Unlock(x, r)}
                      ELSE IF Over(x, r) THEN CacheFinishedAll(x, r) ELSE CacheUnfinishedAll(x, r)
           after == UNION {IF x.failed = "none" THEN next(x) ELSE {x} : x \in S}
           leaves(x) == x.failed = "none" /\ (HandsOver(m, r) \/ Over(x, r))
           result(x) == [m |-> x, left |-> IF leaves(x) THEN a.left \cup {r} ELSE a.left]
<1>1. m \in Mem(P) /\ a.left \in SUBSET Req
  BY DEF Ended
<1>2. EndRequest(a, r) = IF m.failed # "none" THEN {a} ELSE {result(x) : x \in after}
  BY DEF EndRequest, Then
<1>3. CASE m.failed # "none"
  BY <1>2, <1>3
<1>4. CASE m.failed = "none"
  <2>1. /\ c \in [Req -> Nat] /\ k \in [Req -> Nat] /\ <<c, k>> \in P
        /\ \A q \in Req : CountIs(q, c[q], k[q], E, fin, D)
    <3>1. c \in [Req -> Nat] /\ k \in [Req -> Nat] /\ <<c, k>> \in P
      BY <1>1, MemParts
    <3> QED
      BY <3>1 DEF Counts
  <2>2. E = Req \ fin /\ r \in E
    BY <1>4 DEF Going
  <2>3. /\ CountIs(r, n, Rests(m, r), {}, {}, D)
        /\ n < B!Output(r) - 1 => n <= Greatest(B!Output(r) - 2, B!Input(r))
        /\ n >= B!Output(r) - 1 => n \in Ends(r)
        /\ HandsOver(m, r) => n \in Ends(r)
    <3>1. CountIs(r, m.computed[r], m.chunk[r], E, fin, D)
      BY <2>1
    <3> HIDE DEF m, E, fin, P
    <3> QED
      BY <1>1, <2>2, <3>1, StepEnds
  <2>4. S \in SUBSET (Mem({<<c1, k1>>}) \cup Broken(m))
    <3>1. CountIs(r, m.computed[r], m.chunk[r], E, fin, D) /\ Within(P)
      BY <2>1, CountsWithin
    <3> HIDE DEF m, E, fin, P
    <3>2. S \in SUBSET (Mem({Stepped(m, r)}) \cup Broken(m))
      BY <1>1, <2>2, <3>1, EndPhaseIs
    <3> QED
      BY <3>2 DEF Stepped
  <2>5. n \in Nat /\ Rests(m, r) \in Nat /\ n <= B!Output(r) /\ B!Output(r) \in Nat
    BY <2>3 DEF CountIs, Simulated
  <2>6. c1[r] = n /\ k1[r] = Rests(m, r) /\ \A q \in Req \ {r} : c1[q] = c[q] /\ k1[q] = k[q]
    BY <2>1
  <2>7. c1 \in [Req -> Nat] /\ k1 \in [Req -> Nat]
    BY <2>1, <2>5
  <2>8. Within({<<c1, k1>>})
    <3>1. \A q \in Req : c1[q] <= B!Output(q)
      BY <2>1, <2>5, <2>6 DEF CountIs
    <3> HIDE DEF c1, k1
    <3> QED
      BY <3>1 DEF Within
  <2> HIDE DEF n
  <2>9. ASSUME NEW E2, NEW F2, CountIs(r, n, Rests(m, r), E2, F2, D), E2 \subseteq E, F2 \subseteq fin \cup {r}
        PROVE  <<c1, k1>> \in Counts(E2, F2, D)
    <3>1. ASSUME NEW q \in Req
          PROVE  CountIs(q, c1[q], k1[q], E2, F2, D)
      <4>1. CASE q = r
        BY <2>6, <2>9, <4>1
      <4>2. CASE q # r
        <5>1. CountIs(q, c[q], k[q], E, fin, D) /\ (q \in E2 => q \in E) /\ (q \in F2 => q \in fin)
          BY <2>1, <2>9, <4>2
        <5>2. CountIs(q, c[q], k[q], E2, F2, D)
          BY <5>1, CountWeaker
        <5> QED
          BY <2>6, <4>2, <5>2
      <4> QED
        BY <4>1, <4>2
    <3> HIDE DEF c1, k1
    <3> QED
      BY <2>7, <3>1 DEF Counts
  <2>10. ASSUME NEW x \in Mem({<<c1, k1>>}), x.failed = "none"
         PROVE  next(x) \in SUBSET Mem({<<c1, k1>>})
    <3> HIDE DEF c1, k1, m
    <3>1. Unlock(x, r) \in Mem({<<c1, k1>>})
      BY LocksAre
    <3>2. /\ CacheFinishedAll(x, r) \in SUBSET Mem({<<c1, k1>>})
          /\ CacheUnfinishedAll(x, r) \in SUBSET Mem({<<c1, k1>>})
      BY <2>8, <2>10, CacheAllIs
    <3> QED
      BY <3>1, <3>2
  <2> HIDE DEF next, S
  <2>11. after \in SUBSET (Mem({<<c1, k1>>}) \cup Broken(m))
    BY <2>4, <2>10 DEF Broken
  <2> HIDE DEF after
  <2>12. ASSUME NEW x \in after
         PROVE  result(x) \in Ended(F, D) /\ result(x).left \subseteq a.left \cup {r}
    <3> DEFINE l == IF leaves(x) THEN a.left \cup {r} ELSE a.left
    <3>1. l \in SUBSET Req /\ l \subseteq a.left \cup {r} /\ result(x).left = l /\ result(x).m = x
      BY <1>1
    <3>2. x \in MemType
      BY <2>11 DEF Mem, Midway, Broken
    <3>3. x \in Mem(Counts(Going(x.failed, F \cup l), F \cup l, D))
      <4>1. CASE x \in Broken(m)
        <5>1. x \in Mem({<<c, k>>}) /\ x.failed # "none"
          BY <4>1 DEF Broken
        <5>2. Going(x.failed, F \cup l) = {} /\ F \cup l = fin
          BY <5>1 DEF Going
        <5>3. <<c, k>> \in Counts({}, fin, D)
          <6>1. \A q \in Req : CountIs(q, c[q], k[q], {}, fin, D)
            BY <2>1, CountWeaker
          <6> HIDE DEF c, k, fin
          <6> QED
            BY <2>1, <6>1 DEF Counts
        <5>4. <<x.computed, x.chunk>> \in {<<c, k>>}
          BY <5>1, MemParts
        <5> QED
          BY <5>1, <5>2, <5>3, <5>4, MemOf
      <4>2. CASE x \in Mem({<<c1, k1>>})
        <5>1. <<x.computed, x.chunk>> \in {<<c1, k1>>}
          BY <4>2, MemParts
        <5>2. x.computed[r] = n
          BY <2>6, <5>1
        <5>3. Over(x, r) <=> n >= B!Output(r) - 1
          BY <5>2 DEF Over
        <5>4. CountIs(r, n, Rests(m, r), Going(x.failed, F \cup l), F \cup l, D)
          <6>1. CASE leaves(x)
            <7>1. l = a.left \cup {r} /\ n \in Ends(r)
              BY <2>3, <5>3, <6>1
            <7>2. r \notin Going(x.failed, F \cup l)
              BY <7>1 DEF Going
            <7> QED
              BY <2>3, <7>1, <7>2 DEF CountIs
          <6>2. CASE ~leaves(x)
            <7>1. l = a.left /\ r \notin F \cup l
              BY <6>2
            <7>2. CASE x.failed # "none"
              <8>1. r \notin Going(x.failed, F \cup l)
                BY <7>2 DEF Going
              <8> QED
                BY <2>3, <7>1, <8>1 DEF CountIs
            <7>3. CASE x.failed = "none"
              <8>1. n < B!Output(r) - 1
                BY <2>5, <5>3, <6>2, <7>3
              <8> QED
                BY <2>3, <7>1, <8>1 DEF CountIs
            <7> QED
              BY <7>2, <7>3
          <6> QED
            BY <6>1, <6>2
        <5>5. Going(x.failed, F \cup l) \subseteq E /\ F \cup l \subseteq fin \cup {r}
          BY <2>2, <3>1 DEF Going
        <5>6. <<c1, k1>> \in Counts(Going(x.failed, F \cup l), F \cup l, D)
          BY <2>9, <5>4, <5>5
        <5> QED
          BY <4>2, <5>1, <5>6, MemOf
      <4> QED
        BY <2>11, <4>1, <4>2
    <3> HIDE DEF l, leaves
    <3>4. result(x) = [m |-> x, left |-> l]
      BY DEF l
    <3> HIDE DEF result
    <3> QED
      BY <3>1, <3>2, <3>3, <3>4 DEF Ended
  <2> HIDE DEF result
  <2> QED
    BY <1>2, <1>4, <2>12
<1> QED
  BY <1>3, <1>4


EndAll(S0, s) == FoldLeft(LAMBDA S, r : UNION {EndRequest(a, r) : a \in S}, S0, s)

(* A batch is gone through: only its requests leave.                       *)
LEMMA EndAllIs ==
  ASSUME Simulated, NEW F, NEW D \in SUBSET Req, NEW S0 \in SUBSET Ended(F, D), \A a \in S0 : a.left = {},
         NEW s \in Seq(Req), Distinct(s), Items(s) \subseteq D \ F
  PROVE  /\ EndAll(S0, s) \in SUBSET Ended(F, D)
         /\ \A a \in EndAll(S0, s) : a.left \subseteq Items(s)
<1> DEFINE n == Len(s)
           U == SUBSET Ended(F, D)
           b == S0
           of(S) == {s[j] : j \in S}
           step(A, r) == UNION {EndRequest(a, r) : a \in A}
           T == [S \in SUBSET (1 .. n) |-> {A \in U : \A a \in A : a.left \subseteq of(S)}]
           G == [j \in 1 .. n |-> [A \in U |-> step(A, s[j])]]
           H(f) == f = [S \in SUBSET (1 .. n) |-> IF S = {} THEN b ELSE step(f[S \ {Max(S)}], s[Max(S)])]
           fold == CHOOSE f : H(f)
<1>1. n \in Nat /\ DOMAIN s = 1 .. n /\ \A j \in 1 .. n : s[j] \in Req
  BY SeqParts
<1>2. EndAll(S0, s) = fold[1 .. n]
  BY <1>1 DEF EndAll, FoldLeft, MapThenFoldSet
<1>3. \A j \in 1 .. n : s[j] \in Items(s)
  BY <1>1 DEF Items
<1>4. \A i, j \in 1 .. n : s[i] = s[j] => i = j
  BY <1>1 DEF Distinct
<1>5. Items(s) = of(1 .. n)
  BY <1>1 DEF Items
<1>6. \A S \in SUBSET (1 .. n) : S # {} => Top(S) \in S /\ S \ {Top(S)} \in SUBSET (1 .. n)
  BY <1>1, TopInside
<1>7. b \in T[{}] /\ b \in U
  OBVIOUS
<1>8. ASSUME NEW S \in SUBSET (1 .. n), NEW k \in S, NEW A \in T[S \ {k}]
      PROVE  A \in U /\ step(A, s[k]) \in T[S]
  <2> DEFINE r == s[k]
             R == S \ {k}
  <2>1. k \in 1 .. n /\ R \in SUBSET (1 .. n) /\ r \in Req /\ r \in D /\ r \notin F
    BY <1>1, <1>3
  <2>2. r \notin of(R) /\ of(R) \cup {r} \subseteq of(S)
    BY <1>4
  <2>3. A \in U /\ \A a \in A : a.left \subseteq of(R)
    BY <2>1
  <2> HIDE DEF of, R, r
  <2>4. ASSUME NEW a \in A
        PROVE  /\ EndRequest(a, r) \in SUBSET Ended(F, D)
               /\ \A c \in EndRequest(a, r) : c.left \subseteq of(S)
    <3>1. a \in Ended(F, D) /\ r \notin F \cup a.left /\ a.left \subseteq of(R)
      BY <2>1, <2>2, <2>3
    <3>2. /\ EndRequest(a, r) \in SUBSET Ended(F, D)
          /\ \A c \in EndRequest(a, r) : c.left \subseteq a.left \cup {r}
      BY <2>1, <3>1, EndRequestIs
    <3> QED
      BY <2>2, <3>1, <3>2
  <2>5. step(A, r) \in U /\ \A c \in step(A, r) : c.left \subseteq of(S)
    BY <2>4
  <2> HIDE DEF step
  <2>6. step(A, r) \in T[S]
    BY <2>5
  <2> QED
    BY <2>3, <2>6 DEF r
<1>9. \A S \in SUBSET (1 .. n) : T[S] \subseteq U
  OBVIOUS
<1>10. \A S \in SUBSET (1 .. n) : \A A \in T[S] : \A a \in A : a.left \subseteq of(S)
  OBVIOUS
<1> HIDE DEF n, step, T, b, U, of
<1>11. \A j \in 1 .. n, A \in U : G[j][A] = step(A, s[j])
  OBVIOUS
<1> HIDE DEF G
<1>12. FoldWithin(T, n, b, G)
  <2>1. ASSUME NEW S \in SUBSET (1 .. n), S # {}, NEW A \in T[S \ {Top(S)}]
        PROVE  G[Top(S)][A] \in T[S]
    <3>1. Top(S) \in S
      BY <1>6, <2>1
    <3>2. A \in U /\ step(A, s[Top(S)]) \in T[S]
      BY <1>8, <2>1, <3>1
    <3> QED
      BY <1>11, <3>1, <3>2
  <2> QED
    BY <1>7, <2>1 DEF FoldWithin
<1>13. PICK g \in [SUBSET (1 .. n) -> U] : Folds(g, n, b, G) /\ \A S \in SUBSET (1 .. n) : g[S] \in T[S]
  BY <1>1, <1>9, <1>12, FoldGrows
<1>14. H(g)
  <2>1. \A S \in SUBSET (1 .. n) : g[S] = IF S = {} THEN b ELSE step(g[S \ {Max(S)}], s[Max(S)])
    BY <1>6, <1>11, <1>13, MaxIsTop DEF Folds
  <2> QED
    BY <2>1
<1>15. H(fold)
  BY <1>14
<1> HIDE DEF fold
<1> DEFINE good == {k \in 0 .. n : fold[1 .. k] \in T[1 .. k]}
<1>16. 0 \in good
  <2>1. 1 .. 0 = {} /\ 1 .. 0 \in SUBSET (1 .. n)
    OBVIOUS
  <2>2. fold[1 .. 0] = b
    BY <1>15, <2>1
  <2> QED
    BY <1>1, <1>7, <2>1, <2>2
<1>17. ASSUME NEW k \in 1 .. n, k - 1 \in good
       PROVE  k \in good
  <2> DEFINE S == 1 .. k
             R == 1 .. k - 1
  <2>1. Max(S) = k
    <3>1. k \in 1 .. k /\ \A y \in 1 .. k : y \in Int /\ y <= k
      OBVIOUS
    <3>2. Top(1 .. k) = k
      BY <3>1, TopIs
    <3> QED
      BY <3>2, MaxIsTop
  <2>2. S \in SUBSET (1 .. n) /\ S # {} /\ S \ {k} = R /\ k \in S
    <3>1. k \in Int /\ k >= 1 /\ k <= n
      BY <1>1
    <3>2. \A y : y \in (1 .. k) \ {k} <=> y \in 1 .. k - 1
      BY <3>1
    <3>3. k \in 1 .. k /\ \A y \in 1 .. k : y \in 1 .. n
      BY <1>1, <3>1
    <3> QED
      BY <3>2, <3>3
  <2>3. fold[R] \in T[R]
    BY <1>17
  <2> HIDE DEF S, R
  <2>4. fold[S] = step(fold[R], s[k])
    BY <1>15, <2>1, <2>2
  <2>5. step(fold[R], s[k]) \in T[S]
    BY <1>8, <2>2, <2>3
  <2>6. fold[S] \in T[S]
    BY <2>4, <2>5
  <2>7. k \in 0 .. n
    OBVIOUS
  <2> QED
    BY <2>6, <2>7 DEF S
<1>18. 0 .. n \subseteq good
  BY <1>1, <1>16, <1>17, UpTo
<1>19. fold[1 .. n] \in T[1 .. n]
  <2>1. n \in good
    BY <1>1, <1>18
  <2> QED
    BY <2>1
<1>20. 1 .. n \in SUBSET (1 .. n)
  OBVIOUS
<1> DEFINE A == fold[1 .. n]
<1> HIDE DEF A
<1>21. A \in U /\ \A a \in A : a.left \subseteq of(1 .. n)
  BY <1>9, <1>10, <1>19, <1>20 DEF A
<1> QED
  BY <1>2, <1>5, <1>21 DEF A, U


-----------------------------------------------------------------------------
(* What the base scheduler does for this one: the lists it builds, and     *)
(* where the requests are.                                                 *)

LEMMA SameLists ==
  /\ \A s : B!Items(s) = Items(s) /\ (B!Distinct(s) <=> Distinct(s))
  /\ \A s, S : B!Keep(s, S) = Keep(s, S)
  /\ \A s, n : B!Prefix(s, n) = Prefix(s, n)
  /\ \A a, b : B!Least(a, b) = Least(a, b) /\ B!Greatest(a, b) = Greatest(a, b)
  /\ \A f : B!Pairs(f) = Pairs(f)
  /\ \A S : B!Cardinality(S) = Cardinality(S) /\ B!Arrangements(S) = Arrangements(S)
<1>1. \A s : B!Items(s) = Items(s) /\ (B!Distinct(s) <=> Distinct(s))
  BY DEF B!Items, Items, B!Distinct, Distinct
<1>2. \A s, S : B!Keep(s, S) = Keep(s, S)
  BY DEF B!Keep, Keep, B!Nth, Nth, B!Cardinality, Cardinality
<1>3. \A s, n : B!Prefix(s, n) = Prefix(s, n)
  BY DEF B!Prefix, Prefix
<1>4. \A a, b : B!Least(a, b) = Least(a, b) /\ B!Greatest(a, b) = Greatest(a, b)
  BY DEF B!Least, Least, B!Greatest, Greatest
<1>5. \A f : B!Pairs(f) = Pairs(f)
  BY DEF B!Pairs, Pairs
<1>6. \A S : B!Cardinality(S) = Cardinality(S)
  BY DEF B!Cardinality, Cardinality
<1>7. \A S : B!Arrangements(S) = Arrangements(S)
  BY DEF B!Arrangements, Arrangements, B!Items, Items, B!Distinct, Distinct, B!Cardinality, Cardinality
<1> QED
  BY <1>1, <1>2, <1>3, <1>4, <1>5, <1>6, <1>7

LEMMA RunningSeqsNat ==
  ASSUME inflight \in Seq(B!BatchType)
  PROVE  B!RunningSeqs \in Nat
<1> DEFINE f == [i \in DOMAIN inflight |-> DOMAIN inflight[i].reqs]
<1>1. Len(inflight) \in Nat /\ DOMAIN inflight = 1 .. Len(inflight) /\ \A i \in DOMAIN inflight : inflight[i] \in B!BatchType
  BY SeqParts
<1>2. IsFiniteSet(DOMAIN f)
  BY <1>1, FS_Interval
<1>3. ASSUME NEW i \in DOMAIN f PROVE \E a, b \in Int : f[i] = a .. b
  <2>1. inflight[i].reqs \in Seq(Req)
    BY <1>1 DEF B!BatchType
  <2> DEFINE n == Len(inflight[i].reqs)
  <2>2. f[i] = 1 .. n /\ n \in Int
    BY <2>1
  <2> HIDE DEF n, f
  <2> QED
    BY <2>2
<1>4. B!RunningSeqs = Cardinality(Pairs(f))
  <2>1. B!RunningSeqs = B!Cardinality(B!Pairs(f))
    BY DEF B!RunningSeqs
  <2> HIDE DEF f
  <2> QED
    BY <2>1, SameLists
<1> HIDE DEF f
<1>5. Cardinality(Pairs(f)) \in Nat
  BY <1>2, <1>3, PairsOfIntervals
<1> QED
  BY <1>4, <1>5

LEMMA CandidatesProperties ==
  ASSUME Places
  PROVE  /\ B!Candidates \in Seq(Req)
         /\ Items(B!Candidates) \subseteq Items(request)
         /\ Distinct(request) => Distinct(B!Candidates)
<1> DEFINE S == {r \in Req : B!Arrival(r) <= now}
           A == Keep(request, S)
           n == Least(Len(A), B!Slots)
<1>1. request \in Seq(Req)
  BY DEF Places
<1>2. B!Candidates = Prefix(A, n)
  BY SameLists DEF B!Candidates
<1> HIDE DEF S
<1>3. A \in Seq(Req) /\ Items(A) \subseteq Items(request) /\ (Distinct(request) => Distinct(A))
  BY <1>1, KeepProperties
<1>4. B!Slots \in Nat
  <2>1. B!RunningSeqs \in Nat
    BY RunningSeqsNat DEF Places
  <2>2. B!MaxNumSeqs \in Nat
    BY PrefixAssumption DEF Places, SimulationType, B!MaxNumSeqs
  <2> QED
    BY <2>1, <2>2 DEF B!Slots, B!Greatest
<1> HIDE DEF A
<1>5. Len(A) \in Nat
  BY <1>3
<1>6. n \in 0 .. Len(A)
  BY <1>4, <1>5 DEF Least
<1> HIDE DEF n
<1>7. /\ Prefix(A, n) \in Seq(Req) /\ Items(Prefix(A, n)) \subseteq Items(A)
      /\ Distinct(A) => Distinct(Prefix(A, n))
  BY <1>3, <1>6, PrefixProperties
<1> QED
  BY <1>2, <1>3, <1>7

LEMMA OrderedProperties ==
  ASSUME NEW s \in Seq(Req)
  PROVE  /\ B!Ordered(s) \in Seq(Req)
         /\ Items(B!Ordered(s)) \subseteq Items(s)
         /\ Distinct(s) => Distinct(B!Ordered(s))
<1> DEFINE d == Keep(s, B!Decodes)
           p == Keep(s, B!Prefills)
<1>1. d \in Seq(Req) /\ Items(d) = Items(s) \cap B!Decodes /\ (Distinct(s) => Distinct(d))
  BY KeepProperties
<1>2. p \in Seq(Req) /\ Items(p) = Items(s) \cap B!Prefills /\ (Distinct(s) => Distinct(p))
  BY KeepProperties
<1>3. B!Ordered(s) \in {d \o p, p, s}
  BY SameLists DEF B!Ordered
<1> HIDE DEF d, p
<1>4. B!Decodes \cap B!Prefills = {}
  BY DEF B!Decodes
<1>5. /\ d \o p \in Seq(Req) /\ Items(d \o p) = Items(d) \cup Items(p)
      /\ Distinct(d) /\ Distinct(p) /\ Items(d) \cap Items(p) = {} => Distinct(d \o p)
  BY <1>1, <1>2, ConcatItems
<1>6. Items(d) \cap Items(p) = {}
  BY <1>1, <1>2, <1>4
<1> QED
  BY <1>1, <1>2, <1>3, <1>5, <1>6

LEMMA GenReqProperties ==
  ASSUME NEW s \in Seq(Req)
  PROVE  B!GenReq(s) \in Seq(Req) /\ Items(B!GenReq(s)) \subseteq B!Decodes
<1>1. B!GenReq(s) = Keep(s, B!Decodes)
  BY SameLists DEF B!GenReq
<1>2. Keep(s, B!Decodes) \in Seq(Req) /\ Items(Keep(s, B!Decodes)) = Items(s) \cap B!Decodes
  BY KeepProperties
<1> QED
  BY <1>1, <1>2

LEMMA RequeueProperties ==
  ASSUME NEW pool \in Seq(Req), request \in Seq(Req), B!Requeue(pool)
  PROVE  /\ request' \in Seq(Req)
         /\ Items(request') = Items(pool) \cup Items(request)
         /\ Distinct(pool) /\ Distinct(request) /\ Items(pool) \cap Items(request) = {}
              => Distinct(request')
<1>1. CASE B!PrioritizePrefill
  <2> DEFINE S == Items(pool) \cup Items(request)
  <2>1. S \in SUBSET Req
    BY DEF Items
  <2>2. IsFiniteSet(S)
    BY <2>1, PrefixReqAssumption, FS_Subset
  <2>3. request' \in B!Arrangements(B!Items(pool) \cup B!Queued)
    BY <1>1 DEF B!Requeue
  <2>4. B!Items(pool) \cup B!Queued = S
    BY SameLists DEF B!Queued
  <2>5. B!Arrangements(S) = Arrangements(S)
    BY SameLists
  <2>6. request' \in Arrangements(S)
    BY <2>3, <2>4, <2>5
  <2> HIDE DEF S
  <2>7. request' \in Seq(Req) /\ Items(request') = S /\ Distinct(request')
    BY <2>1, <2>2, <2>6, ArrangementProperties
  <2> QED
    BY <2>7 DEF S
<1>2. CASE ~B!PrioritizePrefill
  <2>1. request' = pool \o request
    BY <1>2 DEF B!Requeue
  <2>2. /\ pool \o request \in Seq(Req)
        /\ Items(pool \o request) = Items(pool) \cup Items(request)
        /\ Distinct(pool) /\ Distinct(request) /\ Items(pool) \cap Items(request) = {}
             => Distinct(pool \o request)
    BY ConcatItems
  <2> QED
    BY <2>1, <2>2
<1> QED
  BY <1>1, <1>2

(* OnePlace, as a relation between the four places. *)
LEMMA OnePlaceIsPlacement ==
  /\ B!OnePlace <=> QueuePlacement(Req, pending, request, inflight, finished)
  /\ B!OnePlace' <=> QueuePlacement(Req, pending', request', inflight', finished')
<1>1. B!OnePlace <=> QueuePlacement(Req, pending, request, inflight, finished)
  BY DEF B!OnePlace, QueuePlacement, BatchesApart, InPipeline, B!Running, B!Queued, B!Batched,
         B!Items, Items, B!Distinct, Distinct
<1>2. B!OnePlace' <=> QueuePlacement(Req, pending', request', inflight', finished')
  BY DEF B!OnePlace, QueuePlacement, BatchesApart, InPipeline, B!Running, B!Queued, B!Batched,
         B!Items, Items, B!Distinct, Distinct
<1> QED
  BY <1>1, <1>2

LEMMA StageMarked ==
  ASSUME Places, NEW s \in Npus, NEW i \in DOMAIN inflight
  PROVE  /\ inflight[i] \in B!BatchType
         /\ [inflight EXCEPT ![i].fired = @ \cup {s}] \in Seq(B!BatchType)
         /\ [inflight EXCEPT ![i].end = @ \cup {s}] \in Seq(B!BatchType)
<1>1. inflight \in Seq(B!BatchType) /\ inflight[i] \in B!BatchType /\ i \in 1 .. Len(inflight)
  BY ElementOfSeq DEF Places
<1>2. /\ [inflight[i] EXCEPT !.fired = @ \cup {s}] \in B!BatchType
      /\ [inflight[i] EXCEPT !.end = @ \cup {s}] \in B!BatchType
  BY <1>1 DEF B!BatchType
<1> QED
  BY <1>1, <1>2, ExceptSeq

(* A step that only marks a stage, moves the clock or does nothing.        *)
LEMMA NobodyMoves ==
  ASSUME Places, UNCHANGED <<sim, pending, request, finished, batchIds>>,
         inflight' \in Seq(B!BatchType), DOMAIN inflight' = DOMAIN inflight,
         \A i \in DOMAIN inflight : inflight'[i].reqs = inflight[i].reqs
  PROVE  Places'
<1>1. (BatchesApart(inflight) => BatchesApart(inflight')) /\ InPipeline(inflight') = InPipeline(inflight)
  BY PipelineMarked
<1>2. QueuePlacement(Req, pending, request, inflight, finished)
  BY OnePlaceIsPlacement DEF Places
<1>3. B!OnePlace'
  BY <1>1, <1>2, OnePlaceIsPlacement DEF QueuePlacement
<1> QED
  BY <1>3 DEF Places

(* A request comes to the queue.                                           *)
LEMMA ArrivalPlaces ==
  ASSUME Places, UNCHANGED <<sim, inflight, finished, batchIds>>, NEW r \in pending,
         pending' = pending \ {r}, request' = Append(request, r)
  PROVE  Places'
<1>1. QueuePlacement(Req, pending, request, inflight, finished) /\ request \in Seq(Req) /\ r \in Req
  BY OnePlaceIsPlacement DEF Places
<1>2. r \notin Items(request)
  BY <1>1 DEF QueuePlacement
<1>3. request' \in Seq(Req) /\ Items(request') = Items(request) \cup {r} /\ (Distinct(request) => Distinct(request'))
  BY <1>1, <1>2, AppendItems
<1>4. QueuePlacement(Req, pending', request', inflight, finished)
  BY <1>1, <1>3 DEF QueuePlacement
<1>5. B!OnePlace'
  BY <1>4, OnePlaceIsPlacement
<1> QED
  BY <1>3, <1>5 DEF Places


-----------------------------------------------------------------------------
(* What a step makes of the counts *)

(* The memory a step leaves is the record m but for the trees, from which  *)
(* it may forget what nobody refers to, and for the events of a tier that  *)
(* no counter follows.                                                     *)
Leaves(m) ==
  /\ computed' = m.computed /\ chunk' = m.chunk /\ evict' = m.evict
  /\ npuUsed' = m.npuUsed /\ cpuUsed' = m.cpuUsed /\ failed' = m.failed /\ info' = m.info
  /\ npu' \in Settled(m.npu, Page) /\ tiers' \in [1 .. Depth -> Sound(1)]
  /\ Private => Booked(tiers'[1]) = Booked(m.tiers[1])

BooksHold == Balanced(npuUsed + 0, cpuUsed, failed, npu, tiers) /\ Quiet(Both, failed, npu)

CountsHold == \A r \in Req : CountIs(r, computed[r], chunk[r], Going(failed, finished), finished, Req \ pending)

LEMMA CountedNext ==
  ASSUME sim' = sim, NEW m, Leaves(m),
         m \in Mem(Counts(Going(m.failed, finished'), finished', Req \ pending'))
  PROVE  Counted'
<1> DEFINE F == finished'
           E == Going(m.failed, F)
           D == Req \ pending'
<1>1. /\ m.computed \in [Req -> Nat] /\ m.chunk \in [Req -> Nat] /\ m.evict \in [Req -> BOOLEAN]
      /\ m.npuUsed \in Nat /\ m.cpuUsed \in Nat /\ m.failed \in Reasons
      /\ m.info \in [Req -> InfoType]
      /\ <<m.computed, m.chunk>> \in Counts(E, F, D)
      /\ \A r \in Req : m.evict[r] => m.computed[r] # 0
  BY MemParts
<1>2. \A r \in Req : CountIs(r, m.computed[r], m.chunk[r], E, F, D)
  BY <1>1 DEF Counts
<1>3. /\ computed' = m.computed /\ chunk' = m.chunk /\ evict' = m.evict
      /\ npuUsed' = m.npuUsed /\ cpuUsed' = m.cpuUsed /\ failed' = m.failed /\ info' = m.info
      /\ npu' \in Sound(Page) /\ tiers' \in [1 .. Depth -> Sound(1)]
      /\ Booked(npu') = Booked(m.npu) /\ npu'.stored = m.npu.stored /\ npu'.removed = m.npu.removed
      /\ Private => Booked(tiers'[1]) = Booked(m.tiers[1])
  BY DEF Leaves, Settled, Alike
<1>4. Depth' = Depth /\ Page' = Page /\ Private' = Private
  BY DEF Depth, Page, B!BlockSize, Private, Storage, Sharing
<1>6. BooksHold'
  <2>1. /\ Balanced(m.npuUsed + 0, m.cpuUsed, m.failed, m.npu, m.tiers)
        /\ Quiet(Both, m.failed, m.npu)
    BY DEF Mem, Midway
  <2>2. m.failed = "none" => /\ m.npuUsed + 0 = Booked(m.npu)
                             /\ Private => m.cpuUsed = Booked(m.tiers[1])
    BY <2>1 DEF Balanced
  <2>3. m.failed = "none" => m.npu.stored = 0 /\ m.npu.removed = 0
    BY <2>1 DEF Quiet, Both
  <2> QED
    BY <1>3, <1>4, <2>2, <2>3 DEF BooksHold, Balanced, Quiet
<1>5. CountsHold'
  <2> SUFFICES ASSUME NEW r \in Req
               PROVE  CountIs(r, computed[r], chunk[r], Going(failed, finished), finished, Req \ pending)'
    BY DEF CountsHold
  <2>1. CountIs(r, computed'[r], chunk'[r], Going(failed', finished'), finished', Req \ pending')
    BY <1>2, <1>3
  <2>2. UNCHANGED <<B!Input(r), B!Output(r), B!PdType, B!MaxTokens>>
    BY DEF B!Input, B!Output, B!PdType, B!MaxTokens
  <2>3. AfterWholeHit(r)' = AfterWholeHit(r)
    BY <2>2 DEF AfterWholeHit
  <2>4. Ends(r)' = Ends(r)
    BY <2>2, <2>3 DEF Ends
  <2> QED
    BY <2>1, <2>2, <2>4 DEF CountIs, Going
<1> QED
  BY <1>1, <1>3, <1>4, <1>5, <1>6 DEF Counted, M, Mem, Midway, MemType, Counts, CountsHold, BooksHold


LEMMA BecomesCounted ==
  ASSUME Simulated, sim' = sim, NEW m, Becomes(m),
         m \in Mem(Counts(Going(m.failed, finished'), finished', Req \ pending'))
  PROVE  Counted'
<1> DEFINE P == Counts(Going(m.failed, finished'), finished', Req \ pending')
           parked(i) == {m.info[r].cpuNode : r \in {q \in Req : i = 1}} \ {NoNode}
           t(i) == IF i = 1 THEN m.tiers[1] ELSE Taken(m.tiers[i])
<1>1. /\ m.npu \in Sound(Page) /\ m.tiers \in [1 .. Depth -> Sound(1)]
      /\ Page \in Nat \ {0} /\ 1 \in Nat \ {0}
  BY MemParts DEF Simulated
<1>2. npu' \in Settled(m.npu, Page)
  BY <1>1, ReachableSettled DEF Becomes
<1>3. tiers' = [i \in 1 .. Depth |-> Reachable(t(i), parked(i))]
  BY <1>1 DEF Becomes
<1>4. ASSUME NEW i \in 1 .. Depth
      PROVE  /\ t(i) \in Sound(1)
             /\ Reachable(t(i), parked(i)) \in Sound(1)
             /\ Booked(Reachable(t(i), parked(i))) = Booked(t(i))
  <2>1. m.tiers[i] \in Sound(1)
    BY <1>1
  <2>2. Taken(m.tiers[i]) \in Sound(1)
    BY <1>1, <2>1, TakenSound
  <2>3. t(i) \in Sound(1)
    BY <2>1, <2>2
  <2> HIDE DEF t, parked
  <2>4. Reachable(t(i), parked(i)) \in Settled(t(i), 1)
    BY <1>1, <2>3, ReachableSettled
  <2> QED
    BY <2>3, <2>4 DEF Settled, Alike
<1>5. t(1) = m.tiers[1]
  OBVIOUS
<1> HIDE DEF t, parked
<1>6. tiers' \in [1 .. Depth -> Sound(1)]
  BY <1>3, <1>4
<1>7. Private => Booked(tiers'[1]) = Booked(m.tiers[1])
  <2>1. Private => 1 \in 1 .. Depth
    BY DEF Private, Simulated
  <2> QED
    BY <1>3, <1>4, <1>5, <2>1
<1>8. Leaves(m)
  BY <1>2, <1>6, <1>7 DEF Becomes, Leaves
<1> QED
  BY <1>8, CountedNext

(* The counts of the state.                                                *)
LEMMA CountedParts ==
  ASSUME Counted
  PROVE  /\ M \in Mem(Counts(Going(failed, finished), finished, Req \ pending))
         /\ computed \in [Req -> Nat] /\ chunk \in [Req -> Nat] /\ evict \in [Req -> BOOLEAN]
         /\ npuUsed \in Nat /\ cpuUsed \in Nat /\ failed \in Reasons /\ info \in [Req -> InfoType]
         /\ npu \in Sound(Page) /\ tiers \in [1 .. Depth -> Sound(1)]
         /\ CountsHold /\ BooksHold
         /\ \A r \in Req : evict[r] => computed[r] # 0
<1> DEFINE P == Counts(Going(failed, finished), finished, Req \ pending)
           m == M
<1>1. /\ m.computed = computed /\ m.chunk = chunk /\ m.evict = evict /\ m.npuUsed = npuUsed
      /\ m.cpuUsed = cpuUsed /\ m.failed = failed /\ m.npu = npu /\ m.tiers = tiers /\ m.info = info
  BY DEF M
<1>2. m \in Mem(P)
  BY DEF Counted
<1> HIDE DEF m
<1>3. /\ m.computed \in [Req -> Nat] /\ m.chunk \in [Req -> Nat] /\ m.evict \in [Req -> BOOLEAN]
      /\ m.npuUsed \in Nat /\ m.cpuUsed \in Nat /\ m.failed \in Reasons
      /\ m.npu \in Sound(Page) /\ m.tiers \in [1 .. Depth -> Sound(1)] /\ m.info \in [Req -> InfoType]
      /\ <<m.computed, m.chunk>> \in P
      /\ \A r \in Req : m.evict[r] => m.computed[r] # 0
  BY <1>2, MemParts
<1>5. /\ Balanced(m.npuUsed + 0, m.cpuUsed, m.failed, m.npu, m.tiers)
      /\ Quiet(Both, m.failed, m.npu)
  BY <1>2 DEF Mem, Midway
<1>6. BooksHold
  BY <1>1, <1>5 DEF BooksHold
<1>4. \A r \in Req : CountIs(r, m.computed[r], m.chunk[r], Going(failed, finished), finished, Req \ pending)
  BY <1>3 DEF Counts
<1> QED
  BY <1>1, <1>2, <1>3, <1>4, <1>6 DEF m, CountsHold

(* A step that counts nothing: a prompt that was computed elsewhere comes  *)
(* with a count.                                                           *)
LEMMA NothingCounted ==
  ASSUME Counted, UNCHANGED <<sim, finished, cache>>,
         pending' \subseteq pending, B!PdType = "decode" => pending' = pending
  PROVE  Counted'
<1> DEFINE m == M
           P == Counts(Going(m.failed, finished'), finished', Req \ pending')
<1>1. /\ m.computed = computed /\ m.chunk = chunk /\ m.evict = evict /\ m.npuUsed = npuUsed
      /\ m.cpuUsed = cpuUsed /\ m.failed = failed /\ m.npu = npu /\ m.tiers = tiers /\ m.info = info
  BY DEF M
<1>2. /\ m \in Mem(Counts(Going(failed, finished), finished, Req \ pending))
      /\ computed \in [Req -> Nat] /\ chunk \in [Req -> Nat] /\ CountsHold
      /\ npu \in Sound(Page) /\ tiers \in [1 .. Depth -> Sound(1)]
  BY CountedParts
<1> HIDE DEF m
<1>3. ASSUME NEW r \in Req
      PROVE  CountIs(r, computed[r], chunk[r], Going(failed, finished), finished, Req \ pending')
  <2>1. CountIs(r, computed[r], chunk[r], Going(failed, finished), finished, Req \ pending)
    BY <1>2 DEF CountsHold
  <2> QED
    BY <2>1 DEF CountIs
<1>4. <<m.computed, m.chunk>> \in P
  BY <1>1, <1>2, <1>3 DEF Counts
<1>5. m \in Mem(P)
  BY <1>2, <1>4, MemOf
<1>6. Leaves(m)
  <2>1. npu \in Settled(npu, Page)
    BY <1>2 DEF Settled, Alike
  <2> QED
    BY <1>1, <1>2, <2>1 DEF Leaves, cache
<1> QED
  BY <1>5, <1>6, CountedNext

LEMMA InitInv ==
  ASSUME Init
  PROVE  Inv
<1>1. /\ sim \in Simulations /\ pending = Req /\ request = <<>> /\ inflight = <<>> /\ finished = {}
      /\ computed = [r \in Req |-> 0] /\ chunk = [r \in Req |-> 0] /\ evict = [r \in Req |-> FALSE]
      /\ npuUsed = 0 /\ cpuUsed = 0 /\ batchIds = 0 /\ failed = "none"
      /\ npu = EmptyTree /\ tiers = [i \in DOMAIN sim.tierCaps |-> Taken(InsertAll(EmptyTree, sim.pooled))]
      /\ info = [r \in Req |-> NewInfo]
  BY DEF Init, B!Init
<1>2. Simulated
  BY <1>1, SimulatedIs
<1>3. Places
  <2>1. Items(request) = {} /\ Distinct(request)
    BY <1>1 DEF Items, Distinct
  <2>2. InPipeline(inflight) = {} /\ BatchesApart(inflight)
    BY <1>1 DEF InPipeline, BatchesApart
  <2>3. QueuePlacement(Req, pending, request, inflight, finished)
    BY <1>1, <2>1, <2>2 DEF QueuePlacement
  <2>4. B!OnePlace
    BY <2>3, OnePlaceIsPlacement
  <2> QED
    BY <1>1, <2>4 DEF Places
<1>4. /\ npu \in Sound(Page) /\ tiers \in [1 .. Depth -> Sound(1)]
      /\ Booked(npu) = 0 /\ npu.stored = 0 /\ npu.removed = 0
      /\ Private => Booked(tiers[1]) = 0
  <2> DEFINE full == InsertAll(EmptyTree, sim.pooled)
             t == Taken(full)
  <2>1. sim.pooled \in SUBSET Keys /\ IsFiniteSet(sim.pooled)
    BY <1>1, PrefixAssumption DEF SimulationType, Keys
  <2>2. Page \in Nat \ {0} /\ 1 \in Nat \ {0} /\ Depth \in Nat
    BY <1>2 DEF Simulated
  <2>3. /\ EmptyTree \in Sound(1) /\ EmptyTree \in Sound(Page) /\ Booked(EmptyTree) = 0
        /\ EmptyTree.stored = 0 /\ EmptyTree.removed = 0
    BY <2>2, EmptyTreeSound
  <2>4. full \in Sound(1) /\ (sim.pooled = {} => full = EmptyTree)
    BY <2>1, <2>3, InsertAllAlike DEF Alike
  <2> HIDE DEF full
  <2>5. t \in Sound(1) /\ Booked(t) = Booked(full) + full.stored - full.removed
    BY <2>2, <2>4, TakenSound
  <2>6. DOMAIN sim.tierCaps = 1 .. Depth
    BY <1>2 DEF Simulated, SimulationType, Depth
  <2>7. tiers = [i \in 1 .. Depth |-> t]
    BY <1>1, <2>6 DEF full
  <2> HIDE DEF t
  <2>8. ASSUME Private
        PROVE  Booked(tiers[1]) = 0
    <3>1. full = EmptyTree /\ 1 \in 1 .. Depth
      BY <1>2, <2>4, <2>8 DEF Simulated, Private
    <3>2. Booked(t) = 0 + 0 - 0
      BY <2>3, <2>5, <3>1
    <3> QED
      BY <2>7, <3>1, <3>2
  <2> QED
    BY <1>1, <2>3, <2>5, <2>7, <2>8
<1>5. info \in [Req -> InfoType]
  <2>1. NewInfo \in InfoType
    BY DEF NewInfo, InfoType
  <2> QED
    BY <1>1, <2>1
<1>6. ASSUME NEW r \in Req
      PROVE  CountIs(r, 0, 0, Req, {}, {})
  <2>1. B!Input(r) \in Nat \ {0} /\ B!Output(r) \in Nat /\ B!MaxTokens \in Nat
    BY <1>2 DEF Simulated
  <2>2. 0 <= Greatest(B!Output(r) - 2, B!Input(r))
    BY <2>1 DEF Greatest
  <2> QED
    BY <2>1, <2>2 DEF CountIs
<1>7. <<computed, chunk>> \in Counts(Going(failed, finished), finished, Req \ pending)
  <2>1. Going(failed, finished) = Req /\ finished = {} /\ Req \ pending = {}
    BY <1>1 DEF Going
  <2>2. <<computed, chunk>> \in Counts(Req, {}, {})
    BY <1>1, <1>6 DEF Counts
  <2> QED
    BY <2>1, <2>2
<1>8. /\ computed \in [Req -> Nat] /\ chunk \in [Req -> Nat] /\ evict \in [Req -> BOOLEAN]
      /\ npuUsed \in Nat /\ cpuUsed \in Nat /\ failed \in Reasons
      /\ \A r \in Req : ~evict[r]
  BY <1>1 DEF Reasons
<1>9. BooksHold
  BY <1>1, <1>4 DEF BooksHold, Balanced, Quiet
<1>10. Counted
  BY <1>4, <1>5, <1>7, <1>8, <1>9 DEF Counted, M, Mem, Midway, MemType, BooksHold
<1> QED
  BY <1>3, <1>10 DEF Inv


(* A record whose counts fit those that go on fits what its failure says.  *)
LEMMA Settles ==
  ASSUME NEW F, NEW D, NEW m \in Mem(Counts(Req \ F, F, D))
  PROVE  m \in Mem(Counts(Going(m.failed, F), F, D))
<1> DEFINE c == m.computed
           k == m.chunk
<1>1. c \in [Req -> Nat] /\ k \in [Req -> Nat] /\ <<c, k>> \in Counts(Req \ F, F, D)
  BY MemParts
<1>2. \A r \in Req : CountIs(r, c[r], k[r], Req \ F, F, D)
  BY <1>1 DEF Counts
<1>3. Going(m.failed, F) \subseteq Req \ F
  BY DEF Going
<1>4. \A r \in Req : CountIs(r, c[r], k[r], Going(m.failed, F), F, D)
  BY <1>2, <1>3 DEF CountIs
<1> HIDE DEF c, k
<1>5. <<c, k>> \in Counts(Going(m.failed, F), F, D)
  BY <1>1, <1>4 DEF Counts
<1> QED
  BY <1>5, MemOf DEF c, k

LEMMA StillCounts ==
  ASSUME NEW E, NEW F, NEW D
  PROVE  Mem(Still(E, F, D)) \subseteq Mem(Counts(E, F, D))
BY DEF Mem, Midway, Still

(* Preempted requests are decodes, so they have computed tokens.           *)
LEMMA PreemptIs ==
  ASSUME Simulated, Counted, NEW E, NEW F, NEW D, NEW m \in Mem(Still(E, F, D)),
         NEW gone, Items(gone) \subseteq B!Decodes
  PROVE  Preempt(m, gone) \in Mem(Still(E, F, D))
<1> DEFINE e == [r \in Req |-> m.evict[r] \/ r \in Items(gone)]
<1>1. /\ m.computed \in [Req -> Nat] /\ m.evict \in [Req -> BOOLEAN]
      /\ <<m.computed, m.chunk>> \in Still(E, F, D)
      /\ \A r \in Req : m.evict[r] => m.computed[r] # 0
  BY MemParts
<1>2. \A r \in Req : computed[r] # 0 => m.computed[r] = computed[r]
  BY <1>1 DEF Still
<1>3. ASSUME NEW r \in Items(gone)
      PROVE  computed[r] # 0
  <2>1. r \in Req /\ ~(computed[r] < B!Input(r))
    BY DEF B!Decodes, B!Prefills, B!IsPrefill
  <2>2. computed[r] \in Nat /\ B!Input(r) \in Nat \ {0}
    BY <2>1, CountedParts DEF Simulated
  <2> QED
    BY <2>1, <2>2
<1>4. e \in [Req -> BOOLEAN] /\ \A r \in Req : e[r] => m.computed[r] # 0
  <2>1. \A r \in Req : e[r] => m.evict[r] \/ r \in Items(gone)
    OBVIOUS
  <2>2. e \in [Req -> BOOLEAN]
    BY <1>1
  <2> HIDE DEF e
  <2> QED
    BY <1>1, <1>2, <1>3, <2>1, <2>2
<1>5. Preempt(m, gone) = [m EXCEPT !.evict = e]
  BY DEF Preempt
<1> HIDE DEF e
<1> QED
  BY <1>4, <1>5, MemCounts

LEMMA SeqOver ==
  ASSUME NEW T, NEW s \in Seq(T), NEW S, Items(s) \subseteq S
  PROVE  s \in Seq(S)
<1>1. Len(s) \in Nat /\ DOMAIN s = 1 .. Len(s) /\ s = [j \in 1 .. Len(s) |-> s[j]]
  OBVIOUS
<1>2. \A j \in 1 .. Len(s) : s[j] \in S
  BY <1>1 DEF Items
<1> DEFINE n == Len(s)
<1> HIDE DEF n
<1>3. s \in [1 .. n -> S] /\ n \in Nat
  BY <1>1, <1>2 DEF n
<1> QED
  BY <1>3

(* What a call of schedule_with_prefix on the start NPU leaves: the counts *)
(* as they were, and a batch b from the queue or none.                     *)
Called(m, b) ==
  /\ m \in Mem(Counts(Req \ finished, finished, Req \ pending))
  /\ b \in Seq(Req) /\ Distinct(b) /\ Items(b) \subseteq Items(request)
  /\ Becomes(m)
  /\ UNCHANGED <<sim, pending, finished>>
  /\ \/ UNCHANGED <<request, inflight, batchIds>>
     \/ /\ inflight' = Append(inflight, [id |-> batchIds, reqs |-> b, fired |-> {StartNpu}, end |-> {}])
        /\ request' = Keep(request, Req \ Items(b))
        /\ batchIds' = batchIds + 1

LEMMA ScheduleOutcome ==
  ASSUME ScheduleWithPrefix
  PROVE  LET s       == B!Ordered(B!Candidates)
             d       == Dealt(s)
             gen     == B!GenReq(s)
             gone(k) == Preempted(gen, k)
             left(k) == [d EXCEPT !.m = Preempt(@, gone(k))]
         IN  \E k \in 0 .. Len(gen) :
               \/ Launch(left(k), FitLength(d, Limit(d, gen, k)), gone(k))
               \/ GiveUp(left(k), Limit(d, gen, k))
BY DEF ScheduleWithPrefix

LEMMA ScheduleCalled ==
  ASSUME AllChunked, Inv, ScheduleWithPrefix
  PROVE  \E m, b : Called(m, b)
<1> DEFINE s == B!Ordered(B!Candidates)
           d == Dealt(s)
           gen == B!GenReq(s)
           gone(k) == Preempted(gen, k)
           fit(k) == FitLength(d, Limit(d, gen, k))
           left(k) == [d EXCEPT !.m = Preempt(@, gone(k))]
           E == Req \ finished
           D == Req \ pending
           P == Still(E, finished, D)
<1>1. PICK k \in 0 .. Len(gen) : Launch(left(k), fit(k), gone(k)) \/ GiveUp(left(k), Limit(d, gen, k))
  BY ScheduleOutcome
<1>2. UNCHANGED <<sim, pending, finished>> /\ failed = "none"
  <2>1. UNCHANGED <<sim, pending>> /\ failed = "none"
    BY DEF ScheduleWithPrefix, B!CanSchedule
  <2>2. UNCHANGED finished
    BY <1>1 DEF Launch, GiveUp
  <2> QED
    BY <2>1, <2>2
<1>3. Simulated /\ B!Chunked /\ Places /\ Counted
  <2>1. Places /\ Counted /\ sim \in Simulations
    BY DEF Inv, Places
  <2>2. sim.chunked
    BY <2>1 DEF AllChunked
  <2> QED
    BY <2>1, <2>2, SimulatedIs DEF B!Chunked
<1>4. /\ s \in Seq(Req) /\ Items(s) \subseteq Items(request) /\ Distinct(s)
      /\ Items(request) \cap finished = {}
  <2>1. QueuePlacement(Req, pending, request, inflight, finished)
    BY <1>3, OnePlaceIsPlacement DEF Places
  <2>2. Distinct(request) /\ Items(request) \cap finished = {}
    BY <2>1 DEF QueuePlacement
  <2>3. /\ B!Candidates \in Seq(Req) /\ Items(B!Candidates) \subseteq Items(request)
        /\ Distinct(B!Candidates)
    BY <1>3, <2>2, CandidatesProperties
  <2> QED
    BY <2>2, <2>3, OrderedProperties
<1>5. gen \in Seq(Req) /\ Items(gen) \subseteq B!Decodes
  BY <1>4, GenReqProperties
<1>6. s \in Seq(Req \ finished)
  <2>1. Items(s) \subseteq Req \ finished
    <3>1. Items(s) \subseteq Req
      BY <1>4 DEF Items
    <3> QED
      BY <1>4, <3>1
  <2> HIDE DEF s
  <2> QED
    BY <1>4, <2>1, SeqOver
<1> HIDE DEF s, gen
<1>7. M \in Mem(P)
  <2>1. M \in Mem(Counts(E, finished, D)) /\ computed \in [Req -> Nat]
    BY <1>2, <1>3, CountedParts DEF Going
  <2>2. <<M.computed, M.chunk>> \in Counts(E, finished, D) /\ M.computed = computed
    BY <2>1, MemParts DEF M
  <2>3. <<M.computed, M.chunk>> \in P
    BY <2>2 DEF Still
  <2> HIDE DEF P
  <2> QED
    BY <2>1, <2>3, MemOf
<1>8. /\ d.m \in Mem(P) /\ d.s \in Seq(Req) /\ Items(d.s) \subseteq Items(s) /\ Distinct(d.s)
      /\ \A m : [d EXCEPT !.m = m].m = m /\ [d EXCEPT !.m = m].s = d.s
  BY <1>3, <1>4, <1>6, <1>7, DealtIs
<1> HIDE DEF d
<1>9. gone(k) \in Seq(Req) /\ Items(gone(k)) \subseteq B!Decodes
  BY <1>5, PreemptedIs
<1>10. fit(k) \in 0 .. Len(d.s)
  <2>1. Limit(d, gen, k) \in 0 .. Len(d.s)
    BY <1>5, <1>8, LimitIs
  <2>2. Len(d.s) \in Nat
    BY <1>8
  <2>3. Limit(d, gen, k) \in Nat /\ Limit(d, gen, k) <= Len(d.s)
    BY <2>1, <2>2
  <2>4. FitLength(d, Limit(d, gen, k)) \in 0 .. Limit(d, gen, k)
    BY <2>3, FitLengthIs
  <2> QED
    BY <2>2, <2>3, <2>4
<1> DEFINE n == fit(k)
           g == gone(k)
           top == Limit(d, gen, k)
           e == left(k)
           b == Prefix(d.s, n)
<1>11. e.m \in Mem(P) /\ e.s = d.s
  <2>1. Preempt(d.m, gone(k)) \in Mem(P)
    BY <1>3, <1>8, <1>9, PreemptIs
  <2> QED
    BY <1>8, <2>1
<1>12. Launch(e, n, g) \/ GiveUp(e, top)
  BY <1>1
<1> HIDE DEF n, g, e, top, P
<1>13. n \in 0 .. Len(d.s) /\ g \in Seq(Req)
  BY <1>9, <1>10 DEF n, g
<1>14. b \in Seq(Req) /\ Distinct(b) /\ Items(b) \subseteq Items(request)
  <2>1. b \in Seq(Req) /\ Items(b) \subseteq Items(d.s) /\ (Distinct(d.s) => Distinct(b))
    BY <1>8, <1>13, PrefixProperties
  <2> QED
    BY <1>4, <1>8, <2>1
<1>15. Mem(P) \subseteq Mem(Counts(E, finished, D))
  BY StillCounts DEF P
<1>16. CASE GiveUp(e, top)
  <2> DEFINE m == RollbackAll(e.m, e.s)
  <2>1. m \in Mem(P)
    BY <1>3, <1>8, <1>11, RollbackAllIs
  <2>2. Fail(m, "deadlock") \in Mem(P)
    <3>1. "deadlock" \in Reasons \ {"none"}
      BY DEF Reasons
    <3> HIDE DEF m
    <3> QED
      BY <2>1, <3>1, MemCounts
  <2>3. UNCHANGED <<request, inflight, batchIds>> /\ (Becomes(m) \/ Becomes(Fail(m, "deadlock")))
    BY <1>16 DEF GiveUp
  <2> HIDE DEF m, b
  <2>4. PICK x \in Mem(P) : Becomes(x)
    BY <2>1, <2>2, <2>3
  <2>5. Called(x, b)
    BY <1>2, <1>14, <1>15, <2>3, <2>4 DEF Called
  <2> QED
    BY <2>5
<1>17. CASE Launch(e, n, g)
  <2>1. FormBatch(e, n, g) \in SUBSET Mem(P)
    <3>1. Within(P)
      BY CountsWithin DEF P
    <3>2. e.s \in Seq(Req) /\ n \in 0 .. Len(e.s)
      BY <1>8, <1>11, <1>13
    <3> QED
      BY <1>3, <1>11, <1>13, <3>1, <3>2, FormBatchIs
  <2>2. PICK m \in FormBatch(e, n, g) :
          /\ IF m.failed = "none"
             THEN /\ inflight' = Append(inflight,
                       [id |-> batchIds, reqs |-> Prefix(e.s, n), fired |-> {StartNpu}, end |-> {}])
                  /\ request' = Keep(request, Req \ Items(Prefix(e.s, n)))
                  /\ batchIds' = batchIds + 1
             ELSE UNCHANGED <<request, inflight, batchIds>>
          /\ Becomes(m)
    BY <1>17 DEF Launch
  <2>3. m \in Mem(Counts(E, finished, D)) /\ Prefix(e.s, n) = b
    BY <1>11, <1>15, <2>1, <2>2
  <2> HIDE DEF b
  <2>4. Called(m, b)
    BY <1>2, <1>14, <2>2, <2>3 DEF Called
  <2> QED
    BY <2>4
<1> QED
  BY <1>12, <1>16, <1>17


LEMMA ScheduleInv ==
  ASSUME AllChunked, Inv, ScheduleWithPrefix
  PROVE  Inv'
<1>1. PICK m, b : Called(m, b)
  BY ScheduleCalled
<1> DEFINE batch == [id |-> batchIds, reqs |-> b, fired |-> {StartNpu}, end |-> {}]
<1>2. /\ m \in Mem(Counts(Req \ finished, finished, Req \ pending))
      /\ b \in Seq(Req) /\ Distinct(b) /\ Items(b) \subseteq Items(request)
      /\ Becomes(m)
      /\ UNCHANGED <<sim, pending, finished>>
      /\ \/ UNCHANGED <<request, inflight, batchIds>>
         \/ /\ inflight' = Append(inflight, batch)
            /\ request' = Keep(request, Req \ Items(b))
            /\ batchIds' = batchIds + 1
  BY <1>1 DEF Called
<1>3. Places /\ Simulated
  BY SimulatedIs DEF Inv, Places
<1>4. Counted'
  <2>1. m \in Mem(Counts(Going(m.failed, finished), finished, Req \ pending))
    BY <1>2, Settles
  <2>2. m \in Mem(Counts(Going(m.failed, finished'), finished', Req \ pending'))
    BY <1>2, <2>1
  <2> QED
    BY <1>2, <1>3, <2>2, BecomesCounted
<1>5. CASE UNCHANGED <<request, inflight, batchIds>>
  <2>1. Places'
    BY <1>2, <1>3, <1>5, NobodyMoves DEF Places
  <2> QED
    BY <1>4, <2>1 DEF Inv
<1>6. CASE /\ inflight' = Append(inflight, batch)
           /\ request' = Keep(request, Req \ Items(b))
           /\ batchIds' = batchIds + 1
  <2>1. batch \in B!BatchType /\ batch.reqs = b /\ batchIds' \in Nat
    BY <1>2, <1>3, <1>6, PrefixReqAssumption DEF Places, B!BatchType
  <2> HIDE DEF batch
  <2>2. /\ QueuePlacement(Req, pending, request, inflight, finished)
        /\ request \in Seq(Req) /\ inflight \in Seq(B!BatchType)
    BY <1>3, OnePlaceIsPlacement DEF Places
  <2>3. /\ request' \in Seq(Req) /\ Items(request') = Items(request) \ Items(b)
        /\ Distinct(request')
    <3>1. /\ request' \in Seq(Req) /\ Items(request') = Items(request) \cap (Req \ Items(b))
          /\ Distinct(request) => Distinct(request')
      BY <1>6, <2>2, KeepProperties
    <3>2. Items(request) \subseteq Req
      BY <2>2 DEF Items
    <3> QED
      BY <2>2, <3>1, <3>2 DEF QueuePlacement
  <2>4. InPipeline(inflight') = InPipeline(inflight) \cup Items(b) /\ BatchesApart(inflight')
    <3>1. Items(b) \cap InPipeline(inflight) = {} /\ BatchesApart(inflight)
      BY <1>2, <2>2 DEF QueuePlacement
    <3> QED
      BY <1>2, <1>6, <2>1, <2>2, <3>1, PipelineAppended
  <2>5. inflight' \in Seq(B!BatchType)
    BY <1>6, <2>1, <2>2, AppendItems
  <2>6. QueuePlacement(Req, pending, request', inflight', finished)
    BY <1>2, <2>2, <2>3, <2>4 DEF QueuePlacement
  <2>7. B!OnePlace'
    BY <1>2, <2>6, OnePlaceIsPlacement
  <2>8. Places'
    BY <1>2, <1>3, <2>1, <2>3, <2>5, <2>7 DEF Places
  <2> QED
    BY <1>4, <2>8 DEF Inv
<1> QED
  BY <1>2, <1>5, <1>6

LEMMA AddDoneInv ==
  ASSUME AllChunked, Inv, NEW s \in Npus, NEW i \in DOMAIN inflight, AddDone(s, i)
  PROVE  Inv'
<1> DEFINE reqs == inflight[i].reqs
           S0 == {[m |-> M, left |-> {}]}
           D == Req \ pending
<1>1. Places /\ Counted /\ Simulated /\ failed = "none"
  BY SimulatedIs DEF Inv, Places, AddDone
<1>2. PICK a \in EndAll(S0, reqs) :
        /\ finished' = finished \cup a.left
        /\ B!Requeue(Keep(reqs, Req \ a.left))
        /\ Becomes(a.m)
  BY DEF AddDone, EndAll, FoldLeft, MapThenFoldSet
<1>3. /\ UNCHANGED <<sim, pending, batchIds>>
      /\ inflight' = SubSeq(inflight, 1, i - 1) \o SubSeq(inflight, i + 1, Len(inflight))
  BY DEF AddDone
<1>4. /\ inflight \in Seq(B!BatchType) /\ inflight[i] \in B!BatchType /\ i \in 1 .. Len(inflight)
      /\ reqs \in Seq(Req)
  <2>1. inflight \in Seq(B!BatchType) /\ i \in 1 .. Len(inflight)
    BY <1>1 DEF Places
  <2>2. inflight[i] \in B!BatchType
    BY <2>1, ElementOfSeq
  <2> QED
    BY <2>1, <2>2 DEF B!BatchType
<1>5. QueuePlacement(Req, pending, request, inflight, finished)
  BY <1>1, OnePlaceIsPlacement DEF Places
<1>6. Distinct(reqs) /\ Items(reqs) \subseteq InPipeline(inflight) /\ Items(reqs) \subseteq Req
  <2>1. Items(reqs) \subseteq Req
    BY <1>4 DEF Items
  <2> QED
    BY <1>5, <2>1 DEF QueuePlacement, BatchesApart, InPipeline
<1> HIDE DEF reqs
<1>7. D \in SUBSET Req /\ Items(reqs) \subseteq D \ finished
  BY <1>5, <1>6 DEF QueuePlacement
<1>8. S0 \in SUBSET Ended(finished, D) /\ \A x \in S0 : x.left = {}
  <2> DEFINE x == [m |-> M, left |-> {}]
             m == M
  <2>1. m \in Mem(Counts(Going(failed, finished), finished, D)) /\ m.failed = failed
    BY <1>1, CountedParts DEF M
  <2> HIDE DEF m, D
  <2>2. m \in MemType /\ finished \cup {} = finished
    BY <2>1 DEF Mem, Midway
  <2>3. x.m = m /\ x.left = {} /\ x = [m |-> m, left |-> {}]
    BY DEF m
  <2> HIDE DEF x
  <2>4. x \in Ended(finished, D)
    BY <2>1, <2>2, <2>3 DEF Ended
  <2> QED
    BY <2>3, <2>4 DEF x
<1> HIDE DEF S0, D
<1>9. a \in Ended(finished, D) /\ a.left \subseteq Items(reqs)
  BY <1>1, <1>2, <1>4, <1>6, <1>7, <1>8, EndAllIs
<1>10. Counted'
  <2>1. a.m \in Mem(Counts(Going(a.m.failed, finished'), finished', D))
    BY <1>2, <1>9 DEF Ended
  <2>2. D = Req \ pending'
    BY <1>3 DEF D
  <2> QED
    BY <1>1, <1>2, <1>3, <2>1, <2>2, BecomesCounted
<1> DEFINE pool == Keep(reqs, Req \ a.left)
<1>11. pool \in Seq(Req) /\ Items(pool) = Items(reqs) \ a.left /\ Distinct(pool)
  <2>1. /\ pool \in Seq(Req) /\ Items(pool) = Items(reqs) \cap (Req \ a.left)
        /\ Distinct(reqs) => Distinct(pool)
    BY <1>4, KeepProperties
  <2> QED
    BY <1>6, <2>1
<1> HIDE DEF pool
<1>12. request' \in Seq(Req) /\ Items(request') = Items(pool) \cup Items(request) /\ Distinct(request')
  <2>1. request \in Seq(Req) /\ B!Requeue(pool)
    BY <1>1, <1>2 DEF Places, pool
  <2>2. Items(pool) \cap Items(request) = {} /\ Distinct(request)
    BY <1>5, <1>6, <1>11 DEF QueuePlacement
  <2> QED
    BY <1>11, <2>1, <2>2, RequeueProperties
<1>13. BatchesApart(inflight') /\ InPipeline(inflight') = InPipeline(inflight) \ Items(reqs)
  <2>1. BatchesApart(inflight)
    BY <1>5 DEF QueuePlacement
  <2> QED
    BY <1>3, <1>4, <2>1, PipelineRemoved DEF reqs
<1>14. inflight' \in Seq(B!BatchType)
  BY <1>3, <1>4, RemovedAt
<1>15. finished' \subseteq Req
  BY <1>1, <1>2, <1>6, <1>9 DEF Places
<1>16. QueuePlacement(Req, pending', request', inflight', finished')
  BY <1>2, <1>3, <1>5, <1>6, <1>9, <1>11, <1>12, <1>13 DEF QueuePlacement
<1>17. B!OnePlace'
  BY <1>16, OnePlaceIsPlacement
<1>18. Places'
  BY <1>1, <1>3, <1>12, <1>14, <1>15, <1>17 DEF Places
<1> QED
  BY <1>10, <1>18 DEF Inv


(* A request whose prompt was computed elsewhere comes with its KV.        *)
LEMMA DecodeCounted ==
  ASSUME Inv, NEW r \in pending, B!PdType = "decode", failed = "none"
  PROVE  PrefixMatch([M EXCEPT !.computed[r] = B!Input(r), !.info[r].isInit = FALSE], r)
           \in Mem(Counts(Req \ finished, finished, Req \ (pending \ {r})))
<1> DEFINE m == M
           n == B!Input(r)
           D == Req \ pending
           D2 == Req \ (pending \ {r})
           E == Req \ finished
           c == [m.computed EXCEPT ![r] = n]
           Q == Counts(E, finished, D2)
           x == [m EXCEPT !.computed[r] = n]
           one == [x.info[r] EXCEPT !.isInit = FALSE]
           y == [x EXCEPT !.info[r] = one]
<1>1. Places /\ Counted /\ Simulated /\ r \in Req /\ r \notin finished
  <2>1. Places /\ Counted
    BY DEF Inv
  <2>2. QueuePlacement(Req, pending, request, inflight, finished)
    BY <2>1, OnePlaceIsPlacement DEF Places
  <2> QED
    BY <2>1, <2>2, SimulatedIs DEF Places, QueuePlacement
<1>2. m \in Mem(Counts(E, finished, D))
  BY <1>1, CountedParts DEF Going
<1>3. n \in Nat \ {0} /\ B!Output(r) \in Nat /\ n < B!Output(r)
  BY <1>1 DEF Simulated
<1>4. <<c, m.chunk>> \in Q
  <2>1. /\ m.computed \in [Req -> Nat] /\ m.chunk \in [Req -> Nat]
        /\ \A q \in Req : CountIs(q, m.computed[q], m.chunk[q], E, finished, D)
    <3>1. <<m.computed, m.chunk>> \in Counts(E, finished, D)
      BY <1>2, MemParts
    <3> QED
      BY <3>1 DEF Counts
  <2> DEFINE k == m.chunk
             old == m.computed
  <2> HIDE DEF m, n, D, E
  <2>2. c \in [Req -> Nat] /\ c[r] = n /\ \A q \in Req : q # r => c[q] = m.computed[q]
    BY <1>1, <1>3, <2>1
  <2>3. CountIs(r, n, k[r], E, finished, D2)
    <3>1. CountIs(r, old[r], k[r], E, finished, D)
      BY <1>1, <2>1
    <3>2. n <= Greatest(B!Output(r) - 2, n)
      BY <1>3 DEF Greatest
    <3> QED
      BY <1>1, <1>3, <3>1, <3>2 DEF CountIs, n
  <2>4. \A q \in Req : q # r => CountIs(q, c[q], k[q], E, finished, D2)
    <3>1. SUFFICES ASSUME NEW q \in Req, q # r
                   PROVE  CountIs(q, old[q], k[q], E, finished, D2)
      BY <2>2
    <3>2. CountIs(q, old[q], k[q], E, finished, D)
      BY <2>1
    <3>3. q \in D2 <=> q \in D
      BY <3>1 DEF D
    <3> QED
      BY <3>2, <3>3, CountWeaker
  <2> HIDE DEF c, k, old, D2
  <2>5. \A q \in Req : CountIs(q, c[q], k[q], E, finished, D2)
    BY <2>2, <2>3, <2>4
  <2> QED
    BY <2>1, <2>2, <2>5 DEF Counts, k
<1>5. x \in Mem(Q) /\ x.computed = c /\ x.chunk = m.chunk
  <2>1. x \in Mem(Q)
    <3> HIDE DEF m, n, Q
    <3> QED
      BY <1>1, <1>2, <1>3, <1>4, ComputedSet DEF c
  <2> QED
    BY <2>1 DEF M
<1>6. x \in MemType
  BY <1>5 DEF Mem, Midway
<1>7. [M EXCEPT !.computed[r] = n, !.info[r].isInit = FALSE] = y
  BY <1>1, <1>6 DEF M, MemType
<1> HIDE DEF Q, c
<1>8. one \in InfoType
  <2> HIDE DEF x
  <2>1. x.info[r] \in InfoType
    BY <1>1, <1>6 DEF MemType
  <2> QED
    BY <2>1 DEF InfoType
<1>9. y \in Mem(Q) /\ y.computed = x.computed
  <2> HIDE DEF x, one
  <2>1. y \in Mem(Q)
    BY <1>1, <1>5, <1>8, MemCounts
  <2> QED
    BY <1>6, <2>1 DEF MemType
<1>10. y.computed[r] # 0
  <2>1. r \in DOMAIN M.computed
    BY <1>1, <1>2 DEF m, Mem, Midway, MemType
  <2> QED
    BY <1>3, <1>5, <1>9, <2>1 DEF c
<1> HIDE DEF y, m
<1>11. PrefixMatch(y, r) \in Mem(Q)
  BY <1>1, <1>9, <1>10, RematchIs
<1> QED
  BY <1>7, <1>11 DEF Q, n, E, D2

LEMMA AddDecodeInv ==
  ASSUME AllChunked, Inv, NEW r \in Req, AddDecode(r)
  PROVE  Inv'
<1> DEFINE P == Counts(Req \ finished, finished, Req \ (pending \ {r}))
<1>1. Places /\ Counted /\ Simulated /\ r \in pending /\ failed = "none" /\ B!PdType = "decode"
  BY SimulatedIs DEF Inv, Places, AddDecode
<1> DEFINE x == PrefixMatch([M EXCEPT !.computed[r] = B!Input(r), !.info[r].isInit = FALSE], r)
           y == HitLength(npu, Prefix(Ids(r), B!Input(r)), Page)
<1>2. PICK m \in Then(EvictPrefixNpu(x, Aligned(B!Input(r) - y) - AvailNpu(x)),
                      LAMBDA z : CacheUnfinished(z, r)) :
        UNCHANGED finished /\ Becomes(m)
  BY DEF AddDecode
<1>3. /\ UNCHANGED <<sim, inflight, batchIds, finished>>
      /\ pending' = pending \ {r} /\ request' = Append(request, r)
  BY <1>2 DEF AddDecode
<1>4. x \in Mem(P) /\ Within(P)
  BY <1>1, <1>2, DecodeCounted, CountsWithin
<1> DEFINE k == Aligned(B!Input(r) - y) - AvailNpu(x)
           S == EvictPrefixNpu(x, k)
<1>5. m \in UNION {IF z.failed = "none" THEN CacheUnfinished(z, r) ELSE {z} : z \in S}
  BY <1>2 DEF Then
<1> HIDE DEF P, k, x, y
<1>6. S \in SUBSET Mem(P)
  BY <1>1, <1>4, EvictPrefixIs
<1> HIDE DEF S
<1>7. \A z \in S : z.failed = "none" => CacheUnfinished(z, r) \in SUBSET Mem(P)
  BY <1>1, <1>4, <1>6, CacheUnfinishedIs
<1>8. m \in Mem(P)
  BY <1>5, <1>6, <1>7
<1>9. m \in Mem(Counts(Going(m.failed, finished), finished, Req \ (pending \ {r})))
  BY <1>8, Settles DEF P
<1>10. m \in Mem(Counts(Going(m.failed, finished'), finished', Req \ pending'))
  BY <1>3, <1>9
<1>11. Counted'
  BY <1>1, <1>2, <1>3, <1>10, BecomesCounted
<1>12. Places'
  BY <1>1, <1>3, ArrivalPlaces
<1> QED
  BY <1>11, <1>12 DEF Inv

(* The steps that leave the memory alone.                                  *)
LEMMA OthersInv ==
  ASSUME Inv
  PROVE  /\ Tick => Inv'
         /\ \A r \in Req : AddRequest(r) => Inv'
         /\ \A s \in Npus : ScheduleExisting(s) => Inv'
         /\ \A s \in Npus, i \in DOMAIN inflight : Report(s, i) => Inv'
         /\ UNCHANGED vars => Inv'
<1>1. Places /\ Counted
  BY DEF Inv
<1>2. ASSUME UNCHANGED <<sim, pending, request, inflight, finished, batchIds, cache>>
      PROVE  Inv'
  <2>1. Counted'
    BY <1>1, <1>2, NothingCounted
  <2>2. Places'
    BY <1>1, <1>2, NobodyMoves DEF Places
  <2> QED
    BY <2>1, <2>2 DEF Inv
<1>3. Tick => Inv'
  BY <1>2 DEF Tick, B!Tick, B!memory, cache
<1>4. ASSUME NEW r \in Req, AddRequest(r)
      PROVE  Inv'
  <2>1. /\ B!PdType # "decode" /\ r \in pending /\ pending' = pending \ {r}
        /\ request' = Append(request, r)
        /\ UNCHANGED <<sim, inflight, finished, batchIds, cache>>
    BY <1>4 DEF AddRequest, B!AddRequest, B!memory, cache
  <2>2. Counted'
    BY <1>1, <2>1, NothingCounted
  <2>3. Places'
    BY <1>1, <2>1, ArrivalPlaces
  <2> QED
    BY <2>2, <2>3 DEF Inv
<1>5. ASSUME NEW s \in Npus, NEW i \in DOMAIN inflight,
             UNCHANGED <<sim, pending, request, finished, batchIds, cache>>,
             \/ inflight' = [inflight EXCEPT ![i].fired = @ \cup {s}]
             \/ inflight' = [inflight EXCEPT ![i].end = @ \cup {s}]
      PROVE  Inv'
  <2>1. Counted'
    BY <1>1, <1>5, NothingCounted
  <2>2. inflight' \in Seq(B!BatchType) /\ DOMAIN inflight' = DOMAIN inflight
    BY <1>1, <1>5, StageMarked
  <2>3. \A j \in DOMAIN inflight : inflight'[j].reqs = inflight[j].reqs
    <3>1. \A j \in DOMAIN inflight : inflight[j] \in B!BatchType
      BY <1>1, StageMarked
    <3> QED
      BY <1>5, <3>1 DEF B!BatchType
  <2>4. Places'
    BY <1>1, <1>5, <2>2, <2>3, NobodyMoves
  <2> QED
    BY <2>1, <2>4 DEF Inv
<1>6. ASSUME NEW s \in Npus, ScheduleExisting(s)
      PROVE  Inv'
  BY <1>5, <1>6 DEF ScheduleExisting, B!ScheduleExisting, B!memory, cache
<1>7. ASSUME NEW s \in Npus, NEW i \in DOMAIN inflight, Report(s, i)
      PROVE  Inv'
  BY <1>5, <1>7 DEF Report, B!Report, B!memory, cache
<1>8. UNCHANGED vars => Inv'
  BY <1>2 DEF vars
<1> QED
  BY <1>3, <1>4, <1>6, <1>7, <1>8

LEMMA StepInv ==
  ASSUME AllChunked, Inv, [Next]_vars
  PROVE  Inv'
<1>1. Tick => Inv'
  BY OthersInv
<1>2. (\E r \in Req : AddRequest(r) \/ AddDecode(r)) => Inv'
  BY OthersInv, AddDecodeInv
<1>3. ScheduleWithPrefix => Inv'
  BY ScheduleInv
<1>4. (\E s \in Npus : ScheduleExisting(s)) => Inv'
  BY OthersInv
<1>5. (\E s \in Npus : \E i \in DOMAIN inflight : Report(s, i) \/ AddDone(s, i)) => Inv'
  BY OthersInv, AddDoneInv
<1>6. Stopped => Inv'
  BY OthersInv DEF Stopped
<1> QED
  BY <1>1, <1>2, <1>3, <1>4, <1>5, <1>6, OthersInv DEF Next

LEMMA InvHolds == AllChunked => (Spec => []Inv)
<1> SUFFICES ASSUME AllChunked PROVE Spec => []Inv
  OBVIOUS
<1>1. Init => Inv
  BY InitInv
<1>2. Inv /\ [Next]_vars => Inv'
  BY StepInv
<1> QED
  BY <1>1, <1>2, PTL DEF Spec

-----------------------------------------------------------------------------
(* Where prefills are chunked, the scheduler's state has its types and     *)
(* each request is in one place: nothing that is matched, spilled, evicted *)
(* or preempted drives a byte counter below zero, a count of tokens beyond *)
(* its request, or a chunk beyond the token budget.                        *)
THEOREM PrefixTypeCorrect == AllChunked => (Spec => []TypeOK)
<1> SUFFICES ASSUME AllChunked PROVE Spec => []TypeOK
  OBVIOUS
<1>1. Inv => TypeOK
  <2> SUFFICES ASSUME Inv PROVE TypeOK
    OBVIOUS
  <2>1. Places /\ Counted /\ Simulated
    BY SimulatedIs DEF Inv, Places
  <2>2. failed \in Reasons /\ npuUsed \in Nat /\ cpuUsed \in Nat /\ CountsHold
    BY <2>1, CountedParts
  <2>3. \A r \in Req : computed[r] \in 0 .. B!Output(r) /\ chunk[r] \in 0 .. B!MaxTokens
    BY <2>1, <2>2 DEF CountsHold, CountIs, Simulated
  <2> QED
    BY <2>1, <2>2, <2>3 DEF TypeOK, Places
<1>2. Spec => []Inv
  BY InvHolds
<1> QED
  BY <1>1, <1>2, PTL

(* Where prefills are chunked, whatever the caches held, evicted or gave   *)
(* back: a request that add_done lets go has run until the token before    *)
(* its last one, or through its prompt and one decode step if the prompt   *)
(* was found whole, or was handed over with its prompt.                    *)
THEOREM PrefixFinishesExactly == AllChunked => (Spec => []FinishesExactly)
<1> SUFFICES ASSUME AllChunked PROVE Spec => []FinishesExactly
  OBVIOUS
<1>1. Inv => FinishesExactly
  <2> SUFFICES ASSUME Inv, NEW r \in finished PROVE computed[r] \in Ends(r)
    BY DEF FinishesExactly, Ends
  <2>1. CountsHold /\ r \in Req
    BY CountedParts DEF Inv, Places
  <2> QED
    BY <2>1 DEF CountsHold, CountIs
<1>2. Spec => []Inv
  BY InvHolds
<1> QED
  BY <1>1, <1>2, PTL

(* Where prefills are chunked, the trees stay radix trees and the byte     *)
(* counters follow them: after every step NPU memory is the size of its    *)
(* tree and no event of it waits, and a private host cache is its counter  *)
(* but for the events it is still owed, whatever was split, spilled,       *)
(* evicted or demoted in between.                                          *)
THEOREM PrefixKvAccounted == AllChunked => (Spec => []KvAccounted)
<1> SUFFICES ASSUME AllChunked PROVE Spec => []KvAccounted
  OBVIOUS
<1>1. Inv => KvAccounted
  <2> SUFFICES ASSUME Inv PROVE KvAccounted
    OBVIOUS
  <2>1. Simulated /\ npu \in Sound(Page) /\ tiers \in [1 .. Depth -> Sound(1)] /\ BooksHold
    BY SimulatedIs, CountedParts DEF Inv, Places
  <2>2. Page \in Nat \ {0} /\ 1 \in Nat \ {0} /\ Depth \in Nat /\ (Storage # "none" => Depth >= 1)
    BY <2>1 DEF Simulated
  <2>3. TreesWellFormed
    <3>1. IsTree(npu, Page)
      BY <2>1, <2>2, ShapedIsTree
    <3>2. ASSUME NEW i \in DOMAIN tiers PROVE IsTree(tiers[i], 1)
      <4>1. tiers[i] \in Sound(1)
        BY <2>1
      <4> QED
        BY <2>2, <4>1, ShapedIsTree
    <3> QED
      BY <3>1, <3>2 DEF TreesWellFormed
  <2>4. ASSUME failed = "none" PROVE npuUsed = Size(npu)
    <3>1. npuUsed + 0 = Booked(npu) /\ npu.stored = 0 /\ npu.removed = 0
      BY <2>1, <2>4 DEF BooksHold, Balanced, Quiet, Both
    <3>2. Size(npu) \in Nat /\ npuUsed \in Nat
      BY <2>1, SoundTrees, SizeNat, CountedParts DEF Inv
    <3> QED
      BY <3>1, <3>2 DEF Booked
  <2>5. ASSUME failed = "none", Storage = "CPU" /\ ~Sharing
        PROVE  cpuUsed + tiers[1].stored - tiers[1].removed = Size(tiers[1])
    <3> DEFINE t == tiers[1]
    <3>1. cpuUsed = Booked(t)
      BY <2>1, <2>5 DEF BooksHold, Balanced, Private
    <3>2. 1 \in 1 .. Depth
      BY <2>2, <2>5
    <3>3. t \in Trees
      BY <2>1, <3>2, SoundTrees
    <3> HIDE DEF t
    <3>4. Size(t) \in Nat /\ t.stored \in Nat /\ t.removed \in Nat
      BY <3>3, SizeNat, TreeParts
    <3>5. cpuUsed = Size(t) - t.stored + t.removed
      BY <3>1 DEF Booked
    <3>6. cpuUsed + t.stored - t.removed = Size(t)
      BY <3>4, <3>5
    <3> QED
      BY <3>6 DEF t
  <2> QED
    BY <2>3, <2>4, <2>5 DEF KvAccounted, KvCounted
<1>2. Spec => []Inv
  BY InvHolds
<1> QED
  BY <1>1, <1>2, PTL
=============================================================================
