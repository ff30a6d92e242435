----------------------------- MODULE RadixTree -----------------------------
(***************************************************************************)
(* The radix tree of cached prefixes, RadixCache in                        *)
(* serving/core/radix_tree.py, as operators on a tree value.               *)
(*                                                                         *)
(* A node is named <<p, k>>: p is its full prefix (the keys from the root  *)
(* down to it) and k tells apart the objects that have had that prefix.    *)
(* An object keeps its prefix for life: a split puts a new node above the  *)
(* old one, which is left with the rest of the key.  An evicted node stays *)
(* an object as long as a request refers to it; `live' says whether it is  *)
(* in the tree.                                                            *)
(*                                                                         *)
(* Keys are lists of token ids, pages groups of `page' of them (1 in every *)
(* tier below the NPU).  Sizes count tokens.  The event queue is its       *)
(* summary: the tokens stored and removed since it was taken.  Access      *)
(* times are left out: any unlocked leaf may be the least recently used.   *)
(***************************************************************************)
EXTENDS Lists, FiniteSetsExt

Root == <<<<>>, 0>>
Path(n) == n[1]

(* RadixCache.reset *)
EmptyTree ==
  [node |-> [n \in {Root} |-> [up |-> Root, lock |-> 1, live |-> TRUE]],
   evictable |-> 0, protected |-> 0, stored |-> 0, removed |-> 0]

IsPrefixOf(p, q) == Len(p) <= Len(q) /\ p = Prefix(q, Len(p))

Live(t) == {n \in DOMAIN t.node : t.node[n].live}
Locked(t, n) == t.node[n].lock > 0

(* len(node.key), of one node and of the nodes in S together. *)
KeyLen(t, n) == Len(Path(n)) - Len(Path(t.node[n].up))
KeysLen(t, S) == Cardinality(Pairs([n \in S |-> 1 .. KeyLen(t, n)]))

(* total_size *)
Size(t) == KeysLen(t, Live(t))

(* Tokens p and q share at their start, and whole pages of them. *)
Common(p, q) ==
  Cardinality({i \in 1 .. Least(Len(p), Len(q)) : Prefix(p, i) = Prefix(q, i)})
Paged(n, page) == (n \div page) * page

(* The walk of _match_prefix_helper and _insert_helper descends as long as *)
(* a page of the key is a child, so it ends at the longest match.          *)
HitLength(t, key, page) == Max({Paged(Common(Path(n), key), page) : n \in Live(t)})

NodeAt(t, p) == CHOOSE n \in Live(t) : Path(n) = p

(* A new object for the prefix p. *)
NewNode(t, p) ==
  <<p, Min({k \in 0 .. Cardinality(DOMAIN t.node) : <<p, k>> \notin DOMAIN t.node})>>

With(node, new, record) ==
  [n \in DOMAIN node \cup {new} |-> IF n = new THEN record ELSE node[n]]

(* _split_node of child: the new node, the upper half, inherits the locks. *)
SplitUnlocked(t, child, new) ==
  [t EXCEPT !.node = With([@ EXCEPT ![child].up = new], new,
                          [up |-> @[child].up, lock |-> 0, live |-> TRUE])]
SplitNode(t, child, new) ==
  [t EXCEPT !.node = With([@ EXCEPT ![child].up = new], new,
                          [up |-> @[child].up, lock |-> @[child].lock, live |-> TRUE])]

(* A node shall end at p, where some node continues p. *)
Highest(S) == CHOOSE n \in S : \A m \in S : Len(Path(n)) <= Len(Path(m))
Split(t, p) ==
  IF \E n \in Live(t) : Path(n) = p THEN t
  ELSE SplitNode(t, Highest({n \in Live(t) : IsPrefixOf(p, Path(n))}), NewNode(t, p))

(* match_prefix: the tree it leaves, and the last node. *)
Hit(t, key, page) == Prefix(key, HitLength(t, key, page))
Matched(t, key, page) == Split(t, Hit(t, key, page))
MatchNode(t, key, page) == NodeAt(Matched(t, key, page), Hit(t, key, page))

(* The events of a node that comes and of one that goes. *)
RecordStore(t, k)  == [t EXCEPT !.stored = @ + k]
RecordRemove(t, k) == [t EXCEPT !.removed = @ + k]

(* insert: what did not match becomes one leaf, which nobody has locked. *)
Grown(t, key, hit) ==
  IF hit = Len(key) THEN t
  ELSE RecordStore([t EXCEPT !.node = With(@, NewNode(t, key),
                                [up |-> NodeAt(t, Prefix(key, hit)), lock |-> 0, live |-> TRUE]),
                             !.evictable = @ + Len(key) - hit], Len(key) - hit)
Insert(t, key, page) == Grown(Matched(t, key, page), key, HitLength(t, key, page))

(* The nodes from n up to the root, which is left out. *)
Chain(t, n) ==
  LET up[m \in DOMAIN t.node] == IF m = Root THEN {} ELSE {m} \cup up[t.node[m].up]
  IN  up[n]

Relock(t, S, by) == [n \in DOMAIN t.node |->
                       IF n \in S THEN [t.node[n] EXCEPT !.lock = @ + by] ELSE t.node[n]]

(* inc_lock_ref, dec_lock_ref *)
Protect(t, k) == [t EXCEPT !.evictable = @ - k, !.protected = @ + k]
IncLockOf(t, S) ==
  Protect([t EXCEPT !.node = Relock(t, S, 1)], KeysLen(t, {m \in DOMAIN t.node : m \in S /\ t.node[m].lock = 0}))
DecLockOf(t, S) ==
  Protect([t EXCEPT !.node = Relock(t, S, -1)], -KeysLen(t, {m \in DOMAIN t.node : m \in S /\ t.node[m].lock = 1}))
IncLock(t, n) == IncLockOf(t, Chain(t, n))
DecLock(t, n) == DecLockOf(t, Chain(t, n))

(* What eviction can reach: leaves that are not locked, and nodes that     *)
(* become such leaves.                                                     *)
RemovableLeaves(t) ==
  {n \in Live(t) \ {Root} : \A m \in Live(t) : IsPrefixOf(Path(n), Path(m)) => m = n}
Removable(t) ==
  {n \in Live(t) \ {Root} : \A m \in Live(t) : IsPrefixOf(Path(n), Path(m)) => ~Locked(t, m)}

(* The sets of nodes evict(k) may remove: it goes on until k tokens are    *)
(* gone, so without the node removed last they were not, or until nothing  *)
(* is left to remove.                                                      *)
Enough(t, R, len, k) ==
  /\ len >= k
  /\ \E n \in R : /\ \A m \in R : IsPrefixOf(Path(m), Path(n)) => m = n
                  /\ len - KeyLen(t, n) < k
EvictionsAmong(t, all, k) ==
  {R \in SUBSET all :
     /\ \A n \in R, m \in all : IsPrefixOf(Path(n), Path(m)) => m \in R
     /\ (R = all /\ KeysLen(t, R) < k) \/ Enough(t, R, KeysLen(t, R), k)}
Evictions(t, k) == IF k <= 0 THEN {{}} ELSE EvictionsAmong(t, Removable(t), k)

(* _delete_leaf of every node of R. *)
Delete(t, R) ==
  RecordRemove([t EXCEPT !.node = [n \in DOMAIN t.node |-> [t.node[n] EXCEPT !.live = @ /\ n \notin R]],
                         !.evictable = @ - KeysLen(t, R)], KeysLen(t, R))

(* The orders in which evict_and_collect may return R: children come       *)
(* before their parents, and the last one is what made it enough.          *)
Collected(t, R, k) ==
  {s \in Arrangements(R) :
     /\ \A i, j \in DOMAIN s : IsPrefixOf(Path(s[i]), Path(s[j])) => j <= i
     /\ s # <<>> => KeysLen(t, R \ {s[Len(s)]}) < k}

(* take_events *)
Taken(t) == [t EXCEPT !.stored = 0, !.removed = 0]

(* Objects nobody can reach any more are no part of the state. *)
Reachable(t, held) ==
  LET kept == Live(t) \cup UNION {Chain(t, n) : n \in held}
  IN  [t EXCEPT !.node = [n \in DOMAIN @ \cap kept |-> @[n]]]
-----------------------------------------------------------------------------
(* What a tree is worth: the prefixes it can serve. *)
Cached(t) == UNION {{Prefix(Path(n), i) : i \in 1 .. Len(Path(n))} : n \in Live(t)}

(* No two nodes of a tree start the same page under one parent, and a      *)
(* parent is in the tree and ends before its child.                        *)
IsTree(t, page) ==
  /\ \A n \in Live(t) \ {Root} : /\ t.node[n].up \in Live(t)
                                 /\ IsPrefixOf(Path(t.node[n].up), Path(n))
                                 /\ KeyLen(t, n) > 0 /\ KeyLen(t, n) % page = 0
  /\ \A n, m \in Live(t) \ {Root} :
       n # m /\ t.node[n].up = t.node[m].up =>
         Common(Path(n), Path(m)) < Len(Path(t.node[n].up)) + page

(* "evictable size refers to the size of the cache that is not locked and  *)
(* can be evicted", protected size to the size of what is locked.          *)
CountersExact(t) ==
  /\ t.evictable = KeysLen(t, {n \in Live(t) : ~Locked(t, n)})
  /\ t.protected = KeysLen(t, {n \in Live(t) : Locked(t, n)})
=============================================================================
