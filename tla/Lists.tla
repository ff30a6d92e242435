------------------------------- MODULE Lists -------------------------------
(***************************************************************************)
(* Python's list idioms used by the serving code, written without          *)
(* recursion so that the modules built on them can be reasoned about:      *)
(* list comprehensions with an if, slices and order-preserving removal.    *)
(***************************************************************************)
EXTENDS Integers, Sequences, FiniteSets

(* The elements that occur in the list s. *)
Items(s) == {s[i] : i \in DOMAIN s}

(* s[:n] *)
Prefix(s, n) == SubSeq(s, 1, n)

(* No element occurs twice in the list. *)
Distinct(s) == \A i, j \in DOMAIN s : s[i] = s[j] => i = j

(* The index at which x stands in a list of distinct elements. *)
Pos(s, x) == CHOOSE i \in DOMAIN s : s[i] = x

(* The k-th smallest number of the set K. *)
Nth(K, k) == CHOOSE i \in K : Cardinality({j \in K : j <= i}) = k

(* [x for x in s if x in S] *)
Keep(s, S) ==
  LET K == {i \in DOMAIN s : s[i] \in S}
  IN  [k \in 1 .. Cardinality(K) |-> s[Nth(K, k)]]

(* The lists that hold each element of the finite set S exactly once. *)
Arrangements(S) == {s \in [1 .. Cardinality(S) -> S] : Items(s) = S /\ Distinct(s)}

(* The disjoint union of the sets f[x]: its cardinality is the sum of      *)
(* theirs, sum(len(f[x]) for x in f).                                      *)
Pairs(f) == UNION {{x} \X f[x] : x \in DOMAIN f}

(* The smaller, the larger of two numbers. *)
Least(a, b)    == IF a <= b THEN a ELSE b
Greatest(a, b) == IF a >= b THEN a ELSE b
=============================================================================
