------------------------------ MODULE MoEGate ------------------------------
(***************************************************************************)
(* GateRouter of serving/core/gate_function.py: which experts the tokens   *)
(* of a batch go to, and how many of them reach each expert-parallel rank. *)
(*                                                                         *)
(* A gate is a record of the number of experts, k (the experts of a token),*)
(* policy and copy (one block's trace may stand for all).                  *)
(***************************************************************************)
EXTENDS Integers
LOCAL INSTANCE FiniteSetsExt

K(gate) == Max({1, Min({gate.k, gate.experts})})
ExpertOwner(gate, expert, ep) == Min({(expert * ep) \div gate.experts, ep - 1})
ExpertsOf(gate, rank, ep) == {e \in 0..(gate.experts - 1) : ExpertOwner(gate, e, ep) = rank}

(* _rr_routing, _rand_routing: the sets of experts a token may select.     *)
(* route_ep asks for every token with the token number 0.                  *)
Selections(gate, token) ==
  IF gate.policy = "RR" THEN {{(token + o) % gate.experts : o \in 0..(K(gate) - 1)}}
  ELSE kSubset(K(gate), 0..(gate.experts - 1))

(* What the ranks get when token t selects the experts sel[t]: a token is  *)
(* sent once to each rank that owns one of them.                           *)
Dispatch(gate, sel, ep) ==
  [r \in 0..(ep - 1) |->
     LET mine == ExpertsOf(gate, r, ep)
     IN [tokens |-> Cardinality({t \in DOMAIN sel : sel[t] \cap mine # {}}),
         activated |-> Cardinality(mine \cap UNION {sel[t] : t \in DOMAIN sel})]]

(* n/d rounded to an integer, a half to the even one *)
Rounded(n, d) == IF 2 * (n % d) > d \/ (2 * (n % d) = d /\ (n \div d) % 2 = 1)
                 THEN n \div d + 1 ELSE n \div d

(* _balanced_route_ep: each rank the same share; a token reaches a rank    *)
(* with probability 1 - ((ep-1)/ep)^k.                                     *)
Balanced(gate, len, ep) ==
  LET all == ep ^ K(gate)
  IN [r \in 0..(ep - 1) |->
        [tokens |-> Rounded(len * (all - (ep - 1) ^ K(gate)), all),
         activated |-> Min({Rounded(len * K(gate), ep), Max({1, gate.experts \div ep})})]]

(* route_ep: the results routing a batch of `len' tokens can have *)
RouteEp(gate, len, ep) ==
  IF gate.policy = "BALANCED" THEN {Balanced(gate, len, ep)}
  ELSE {Dispatch(gate, sel, ep) : sel \in [1..len -> Selections(gate, 0)]}
=============================================================================
