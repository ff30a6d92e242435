------------------------------ MODULE Sessions ------------------------------
(***************************************************************************)
(* What the serving system promises about a workload, whatever routes and  *)
(* schedules it: a session is a chain of requests, the next one becomes    *)
(* open when the one before is complete, and no request completes twice.   *)
(* An independent request is a chain of length one.                        *)
(*                                                                         *)
(* Request <<s, k>> is the k-th request of session s, counted from 0.      *)
(***************************************************************************)
EXTENDS Integers, Sequences

CONSTANT Workloads   \* each a sequence with the lengths of its sessions

VARIABLES
  lengths,   \* the workload that is served, one of Workloads
  open,      \* requests that somebody waits for
  complete   \* requests that have been answered

sessionVars == <<lengths, open, complete>>

Chain(s) == {s} \X (0 .. lengths[s] - 1)

Init ==
  /\ lengths \in Workloads
  /\ open = {<<s, 0>> : s \in {t \in DOMAIN lengths : lengths[t] > 0}}
  /\ complete = {}

(* Request <<s, k>> completes and opens the next one of its session. *)
Complete(s, k) ==
  /\ <<s, k>> \in open
  /\ complete' = complete \cup {<<s, k>>}
  /\ open' = (open \ {<<s, k>>}) \cup ({<<s, k + 1>>} \cap Chain(s))
  /\ UNCHANGED lengths

Next == \E s \in DOMAIN lengths : \E k \in 0 .. lengths[s] - 1 : Complete(s, k)

Spec == Init /\ [][Next]_sessionVars
=============================================================================
