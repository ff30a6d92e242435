------------------------ MODULE MCParallelInstances ------------------------
(***************************************************************************)
(* Small simulations for the drivers of --parallel-instances.              *)
(***************************************************************************)
EXTENDS ParallelInstances

Instance(npus) == [role |-> "none", npus |-> npus, group |-> 0, pp |-> 1]
Request(i, arrival, after, gen, loads) ==
  [inst |-> i, decode |-> 0, arrival |-> arrival, after |-> after, prompt |-> 1, gen |-> gen,
   loads |-> loads]
Simulation(mode, contention, inst, reqs) ==
  [mode |-> mode, contention |-> contention, inst |-> inst, reqs |-> reqs]

(* Channels: the deep tier of a rack and the store of the pod. *)
None == <<>>
Rack(d) == [rack |-> d]
Both(d) == [rack |-> d, pod |-> d]

(* Three instances reload over one channel at a time; a session whose      *)
(* later requests go to another instance.                                  *)
Merged ==
  {Simulation("B", c, <<Instance(1), Instance(1), Instance(1)>>,
              <<Request(1, 0, 0, 0, Rack(2)), Request(2, 0, 0, 0, Both(2)), Request(3, 1, 0, 0, Both(1)),
                Request(1, 5, 0, 0, None)>>) : c \in BOOLEAN}
  \cup {Simulation("B", TRUE, <<Instance(1), Instance(1)>>,
              <<Request(1, 0, 0, 1, Rack(3)), Request(2, 2, 1, 0, Rack(1)), Request(2, 1, 0, 0, Rack(2))>>)}

(* Instances of two NPUs, of which both report. *)
MergedTp ==
  {Simulation("B", TRUE, <<Instance(2), Instance(1)>>,
              <<Request(1, 0, 0, 1, Rack(2)), Request(2, 0, 0, 0, Rack(2)), Request(1, 3, 2, 0, None)>>)}

OneByOne ==
  {Simulation("A", FALSE, <<Instance(1), Instance(2)>>,
              <<Request(1, 0, 0, 1, None), Request(2, 0, 0, 0, None), Request(2, 2, 0, 1, None)>>)}

MCSimulations == Merged \cup MergedTp \cup OneByOne
=============================================================================
