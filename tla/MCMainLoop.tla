---------------------------- MODULE MCMainLoop ----------------------------
(***************************************************************************)
(* Small simulations for the main loop.                                    *)
(***************************************************************************)
EXTENDS MainLoop

Instance(role, npus, group, pp) == [role |-> role, npus |-> npus, group |-> group, pp |-> pp]
Request(i, arrival, after, prompt, gen) ==
  [inst |-> i, decode |-> 0, arrival |-> arrival, after |-> after, prompt |-> prompt, gen |-> gen]
Handed(i, d, arrival, gen) ==
  [inst |-> i, decode |-> d, arrival |-> arrival, after |-> 0, prompt |-> 1, gen |-> gen]
Simulation(inst, reqs) == [inst |-> inst, reqs |-> reqs]

(* Independent instances of one and two NPUs, with a pipeline. *)
Independent ==
  {Simulation(<<Instance("none", 2, 0, pp), Instance("none", 1, 0, 1)>>, reqs) :
     pp \in {1, 2},
     reqs \in {<<Request(1, 0, 0, 1, 1), Request(1, 1, 0, 1, 1), Request(2, 1, 0, 1, 1)>>,
               <<Request(1, 0, 0, 1, 1), Request(2, 1, 1, 1, 1)>>}}

(* A data-parallel group, alone or beside an independent instance; one     *)
(* member has more to do than the other, or nothing.                       *)
Grouped ==
  {Simulation(<<Instance("none", 1, 1, 1), Instance("none", 1, 1, 1)>>, reqs) :
     reqs \in {<<Request(1, 0, 0, 1, 2), Request(2, 1, 0, 1, 1)>>,
               <<Request(2, 0, 0, 1, 1), Request(2, 1, 0, 1, 1)>>,
               <<Request(1, 0, 0, 1, 1), Request(2, 1, 1, 1, 1)>>}}
  \cup {Simulation(<<Instance("none", 1, 1, 1), Instance("none", 2, 0, 1), Instance("none", 1, 1, 1)>>,
                   <<Request(1, 0, 0, 1, 1), Request(2, 0, 1, 1, 0), Request(3, 1, 0, 1, 1)>>)}

(* Prefill and decode instances. *)
Disaggregated ==
  {Simulation(<<Instance("prefill", 1, 0, 1), Instance("decode", 1, 0, 1)>>,
              <<Handed(1, 2, 0, 2), Handed(1, 2, 1, 1)>>),
   Simulation(<<Instance("prefill", 1, 0, 1), Instance("prefill", 1, 0, 1), Instance("decode", 2, 0, 1)>>,
              <<Handed(1, 3, 0, 1), Handed(2, 3, 1, 1)>>)}

MCSimulations == Independent \cup Grouped \cup Disaggregated

(* A group whose members have two NPUs each. *)
MCTwoNpus ==
  {Simulation(<<Instance("none", 2, 1, 1), Instance("none", 2, 1, 1)>>,
              <<Request(1, 0, 0, 1, 1), Request(2, 0, 0, 1, 1)>>)}

(* A group of three, of which two have a request, one of them late.        *)
MCThreeMembers ==
  {Simulation(<<Instance("none", 1, 1, 1), Instance("none", 1, 1, 1), Instance("none", 1, 1, 1)>>,
              <<Request(1, 0, 0, 1, 0), Request(2, 1, 0, 1, 0)>>)}
=============================================================================
