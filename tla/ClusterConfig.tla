--------------------------- MODULE ClusterConfig ---------------------------
(***************************************************************************)
(* build_cluster_config in serving/core/config_builder.py: from the        *)
(* cluster file the user writes to the instances, NPU ids, network         *)
(* dimensions, memory blocks and placements the simulator runs with.       *)
(*                                                                         *)
(* `input' holds the file and the command-line flags; `cluster' grows into *)
(* the dictionary the function returns.  Nodes are read one at a time.  An *)
(* exception ends the program: phase "error".                              *)
(*                                                                         *)
(* A memory block of the file is None when it is absent, Partial when a    *)
(* required key is missing, and else a record with a size.  Nodes and      *)
(* instances are numbered from 1 (from 0 in the code); NPU and device      *)
(* numbers start from 0 as in the code.  Sizes are chosen so that they     *)
(* divide evenly: the code keeps them as floats.                           *)
(*                                                                         *)
(* An operator named after another (GroupOkAnyShare) is a plausible        *)
(* mistake in it; the specification does not use it.                       *)
(***************************************************************************)
EXTENDS Placements

CONSTANTS Partial,
          Inputs      \* the cluster files and flags the program is started with

VARIABLES input, phase, cluster

file == input.file
flags == input.flags
AllRaw == UNION {Range(file.nodes[n].insts) : n \in DOMAIN file.nodes}

(* A feature is built in when the flag or any instance asks for it. *)
Wanted(f) == flags.runtime[f] \/ \E i \in AllRaw : f \in DOMAIN i.over /\ i.over[f]

(* What the file's reader hands over: lists, and degrees that are whole    *)
(* numbers where they are given.  Whether they fit together is checked.    *)
WellFormed(f) ==
  /\ f.nodes \in Seq(Items(f.nodes))
  /\ \A nd \in Items(f.nodes) :
       /\ nd.insts \in Seq(Items(nd.insts))
       /\ \A i \in Items(nd.insts) :
            /\ {"npus", "tp", "pp", "ep"} \subseteq DOMAIN i
            /\ {i.npus, i.tp, i.pp, i.ep} \subseteq Int \cup {None}
            /\ i.place.blocks \in Seq(Items(i.place.blocks))

ASSUME InputAssumption ==
  /\ None \notin Int \cup {<<TRUE, FALSE>>, <<FALSE, TRUE>>, <<TRUE, TRUE>>}
  /\ None # "prefill"
  /\ \A start \in Inputs : WellFormed(start.file)

DeepTiers == <<"FLASH", "JBOF", "COLDSTORE">>
PodTiers == {"JBOF", "COLDSTORE"}

SeqSum(s) == FoldLeft(+, 0, s)
SeqMap(Op(_), s) == [k \in DOMAIN s |-> Op(s[k])]

-----------------------------------------------------------------------------
(* Parallelism of one instance. *)

Divides(d, n) == n % d = 0

(* _resolve_parallelism: what is missing is inferred; a pp_size given as 1 *)
(* gives way to num_npus and tp_size.                                      *)
ResolveParallelism(i) ==
  LET pp0 == IF i.pp = None THEN 1 ELSE i.pp
      both == i.npus # None /\ i.tp # None
      pp == IF both /\ i.npus # i.tp * pp0 THEN i.npus \div i.tp ELSE pp0
      tp == IF i.tp # None THEN i.tp
            ELSE IF i.npus # None THEN i.npus \div pp0 ELSE 1
      npus == IF i.npus # None THEN i.npus
              ELSE IF i.tp # None THEN tp * pp ELSE 1
      ep == IF i.ep # None THEN i.ep ELSE IF Models[i.model].experts > 0 THEN tp ELSE 1
  IN [i EXCEPT !.npus = npus, !.tp = tp, !.pp = pp, !.ep = ep]

(* The errors of _resolve_parallelism. *)
ParallelismOk(i) ==
  LET r == ResolveParallelism(i)
      experts == Models[i.model].experts
  IN /\ i.npus # None /\ i.tp # None => Divides(i.tp, i.npus)
     /\ i.npus # None /\ i.tp # None /\ i.pp # None => i.pp \in {1, r.pp}
     /\ r.npus = r.tp * r.pp
     /\ r.tp >= 1 /\ r.pp >= 1 /\ r.ep >= 1
     /\ r.ep > r.tp => i.dp # None
     /\ experts > 0 => Divides(r.ep, experts)

(* A prefill instance has a second set of NPUs that sends its KV away. *)
EffectiveNpus(i) == IF i.pd = "prefill" THEN 2 * i.npus ELSE i.npus
EffectivePp(i) == IF i.pd = "prefill" THEN 2 * i.pp ELSE i.pp

-----------------------------------------------------------------------------
(* The instances together: DP groups and the network's dimensions. *)

Groups(is) == {is[k].dp : k \in DOMAIN is} \ {None}
Members(is, g) == {k \in DOMAIN is : is[k].dp = g}
FirstMember(is) == is[Min({k \in DOMAIN is : is[k].dp # None})]

(* _compute_network_dims: the first DP group decides for everybody; a last *)
(* dimension of one is dropped.                                            *)
NetworkDims(is) ==
  LET npus == SeqSum(SeqMap(EffectiveNpus, is))
      pps == SeqSum(SeqMap(EffectivePp, is))
      n == Len(is) + Cardinality({k \in DOMAIN is : is[k].pd = "prefill"})
      first == FirstMember(is)
      dims == IF Groups(is) # {} THEN <<first.tp, Cardinality(Members(is, first.dp))>>
              ELSE IF npus = pps THEN <<npus \div n, n>>
              ELSE <<npus \div pps, pps>>
  IN IF dims[2] = 1 THEN <<dims[1]>> ELSE dims

GroupOkAnyShare(is, g) ==
  \A j, k \in Members(is, g) :
    /\ is[j].tp = is[k].tp /\ is[j].ep = is[k].ep
    /\ Divides(Cardinality(Members(is, g)), is[k].ep)

(* The errors of _resolve_dp_groups. *)
GroupOk(is, g) ==
  LET size == Cardinality(Members(is, g))
  IN \A j, k \in Members(is, g) :
       /\ is[j].tp = is[k].tp /\ is[j].ep = is[k].ep
       /\ Divides(size, is[k].ep)
       /\ is[k].ep \div size <= is[k].tp

(* _resolve_dp_groups: the share of the experts of each member and the     *)
(* dimensions its collectives run on (None: on all of them).               *)
ResolveGroup(is, i) ==
  LET size == IF i.dp = None THEN 1 ELSE Cardinality(Members(is, i.dp))
      local == IF Len(NetworkDims(is)) > 1 THEN <<TRUE, FALSE>> ELSE None
      spread == IF i.ep <= i.tp THEN <<TRUE, FALSE>> ELSE <<i.tp > 1, TRUE>>
  IN [group_size |-> size, local_ep |-> i.ep \div size, ep_total |-> i.ep,
      tp_dim |-> IF i.dp = None THEN local ELSE <<TRUE, FALSE>>,
      ep_dim |-> IF i.dp # None THEN spread ELSE IF i.ep > 1 THEN local ELSE None]

(* _normalize_network_dim_values: one number for all dimensions (here not  *)
(* a list), or a list with one per dimension.                              *)
DimValuesOk(values, dims) == values = <<>> \/ Len(values) = Len(dims)

-----------------------------------------------------------------------------
(* Where weights and KV live: the blocks of memory there are. *)

(* _validate_memory_config *)
Allowed(memory) == UNION {{<<b, d>> : d \in 0..(memory[b] - 1)} : b \in DOMAIN memory}
EntryOk(entry, memory) ==
  \A k \in DOMAIN entry : \/ entry[k] \in Allowed(memory)
                          \/ entry[k][1] = "LOCAL" /\ ~Wanted("local")
MemoryOkDefaults(places, memory) == \A k \in DOMAIN places : EntryOk(places[k].default, memory)
MemoryOk(places, memory) ==
  \A k \in DOMAIN places :
    /\ EntryOk(places[k].default, memory)
    /\ \A b \in DOMAIN places[k].block : EntryOk(places[k].block[b], memory)
    /\ \A l \in DOMAIN places[k].layer : EntryOk(places[k].layer[l], memory)

-----------------------------------------------------------------------------
(* One node. *)

PowerModeling == \A n \in DOMAIN file.nodes : file.nodes[n].power # None

(* The CPU memory of a node; without one, the sum of the instances'. *)
NodeCpu(nd) ==
  IF nd.cpu # None THEN nd.cpu.size ELSE SeqSum(SeqMap(LAMBDA i : i.cpu.size, nd.insts))

(* Without a block of its own every instance has one, one with its speed.  *)
(* Attention offloading needs the node's block and a PIM device in it.     *)
NodeCpuOk(nd) ==
  /\ nd.cpu # Partial
  /\ nd.cpu = None => /\ ~Wanted("attn")
                      /\ \A k \in DOMAIN nd.insts : nd.insts[k].cpu # None
                      /\ \E k \in DOMAIN nd.insts : nd.insts[k].cpu # Partial /\ nd.insts[k].cpu.speed # None
  /\ Wanted("attn") /\ nd.cpu # None => nd.cpu.pim # None

InstanceOk(i) ==
  /\ i.complete /\ ParallelismOk(i)
  /\ i.npu_mem # Partial /\ i.cpu # Partial
  /\ i.pd \in {"prefill", "decode", None}
  /\ PlacementOk(i)

NodeOk(nd) ==
  /\ Len(nd.insts) = nd.num_instances
  /\ \A k \in DOMAIN nd.insts : InstanceOk(nd.insts[k])
  /\ NodeCpuOk(nd)
  /\ \A t \in DOMAIN nd.tiers : nd.tiers[t] # Partial /\ (nd.tiers[t] # None => file.top[t] = None)

TakeNpusOnce(c, i) ==
  LET first == Len(c.npu2inst)
  IN [c EXCEPT !.npu2inst = @ \o [j \in 1..i.npus |-> i.id],
               !.inst2npu = Append(@, first),
               !.starts = Append(@, first),
               !.ends = IF i.npus > 1 THEN Append(@, first + i.npus - 1) ELSE @]

(* The NPU ids an instance takes: the next ones, told to ASTRA-Sim as a    *)
(* first and, when there are several, a last id.                           *)
TakeNpus(c, i) ==
  LET first == Len(c.npu2inst)
      n == EffectiveNpus(i)
  IN [c EXCEPT !.npu2inst = @ \o [j \in 1..n |-> i.id],
               !.inst2npu = Append(@, first),
               !.starts = Append(@, first),
               !.ends = IF n > 1 THEN Append(@, first + n - 1) ELSE @]

Instance(raw, id, n) ==
  LET r == ResolveParallelism(raw)
  IN [id |-> id, node |-> n, model |-> r.model, hw |-> r.hw, over |-> r.over,
      npu_mem |-> r.npu_mem, npus |-> r.npus, tp |-> r.tp, pp |-> r.pp, ep |-> r.ep,
      dp |-> r.dp, pd |-> r.pd]

AddInstance(c, raw, n) ==
  LET i == Instance(raw, Len(c.insts) + 1, n)
  IN [TakeNpus(c, i) EXCEPT !.insts = Append(@, i),
                            !.inst_cpu = Append(@, IF raw.cpu = None THEN None ELSE raw.cpu.size),
                            !.placement = Append(@, Placement(raw, n))]

(* The NPUs whose idle power a node pays for, by hardware. *)
PowerNpus(nd) ==
  [hw \in {nd.insts[k].hw : k \in DOMAIN nd.insts} |->
     SeqSum(SeqMap(LAMBDA i : ResolveParallelism(i).npus, SelectSeq(nd.insts, LAMBDA i : i.hw = hw)))]

AddInstances(c, raws, n) == FoldLeft(LAMBDA d, i : AddInstance(d, i, n), c, raws)
AddNode(c, nd, n) ==
  [AddInstances(c, nd.insts, n)
     EXCEPT !.cpu = Append(@, NodeCpu(nd)),
            !.tiers = [t \in DOMAIN @ |-> Append(@[t], nd.tiers[t])],
            !.power_npus = IF PowerModeling THEN Append(@, PowerNpus(nd)) ELSE @]

-----------------------------------------------------------------------------
(* The whole file. *)

PowerOk(nd) == nd.power # Partial /\ \A k \in DOMAIN nd.insts : nd.insts[k].hw \in nd.power.hw

FileOk ==
  /\ Len(file.nodes) = file.num_nodes
  /\ file.link # None /\ file.cxl # Partial
  /\ \A t \in DOMAIN file.top : file.top[t] # Partial
  /\ \A n \in DOMAIN file.nodes : file.nodes[n].complete
  /\ PowerModeling => \A n \in DOMAIN file.nodes : PowerOk(file.nodes[n])

(* A tier of the whole pod is split evenly over the nodes. *)
PodShares(tiers) ==
  [t \in DOMAIN tiers |->
     IF file.top[t] = None THEN tiers[t]
     ELSE [n \in 1..file.num_nodes |-> [file.top[t] EXCEPT !.size = @ \div file.num_nodes]]]

TierSize(block) == IF block = None THEN 0 ELSE block.size

(* memory_expansion.json: block -> its number of devices.  A deep tier     *)
(* takes the values of the first node that has it.                         *)
MemoryConfig(tiers) ==
  LET Has(t) == {n \in DOMAIN tiers[t] : TierSize(tiers[t][n]) > 0}
      Devices(t) == LET d == tiers[t][Min(Has(t))].devices
                    IN IF d = None THEN file.num_nodes ELSE d
      base == {"REMOTE"} \cup (IF file.cxl # None THEN {"CXL"} ELSE {})
                         \cup (IF Wanted("local") THEN {"LOCAL"} ELSE {})
  IN [b \in base \cup {t \in DOMAIN tiers : Has(t) # {}} |->
        CASE b = "REMOTE" -> file.num_nodes
          [] b = "CXL" -> file.cxl.devices
          [] b = "LOCAL" -> 1
          [] OTHER -> Devices(b)]

GroupsOk(is) == \A g \in Groups(is) : GroupOk(is, g)

(* f with the entries of g. *)
Updated(f, g) == [x \in DOMAIN f \cup DOMAIN g |-> IF x \in DOMAIN g THEN g[x] ELSE f[x]]

Finished(c) ==
  LET tiers == PodShares(c.tiers)
      Resolved(k) == Updated(c.insts[k], ResolveGroup(c.insts, c.insts[k]))
  IN [c EXCEPT !.tiers = tiers, !.insts = [k \in DOMAIN @ |-> Resolved(k)],
               !.total_npu = SeqSum(SeqMap(EffectiveNpus, c.insts)),
               !.dims = NetworkDims(c.insts), !.memory = MemoryConfig(tiers)]

(* build_per_instance_inputs: the topology of an instance with a process   *)
(* of its own, and where its NPUs start in the whole cluster.              *)
PerInstance(c, k) == [dims |-> NetworkDims(<<c.insts[k]>>), npus |-> c.insts[k].npus,
                      base |-> c.inst2npu[k], of |-> {k}]

-----------------------------------------------------------------------------
EmptyCluster ==
  [insts |-> <<>>, npu2inst |-> <<>>, inst2npu |-> <<>>, starts |-> <<>>, ends |-> <<>>,
   cpu |-> <<>>, inst_cpu |-> <<>>, placement |-> <<>>, power_npus |-> <<>>,
   tiers |-> [t \in Range(DeepTiers) |-> <<>>],
   total_npu |-> 0, dims |-> <<>>, memory |-> <<>>]

ConfigInit ==
  /\ input \in Inputs
  /\ phase = "file"
  /\ cluster = EmptyCluster

CheckFile ==
  /\ phase = "file"
  /\ phase' = IF FileOk THEN "nodes" ELSE "error"
  /\ UNCHANGED <<input, cluster>>

ReadNode ==
  LET n == Len(cluster.cpu) + 1
  IN /\ phase = "nodes" /\ n <= Len(file.nodes)
     /\ IF NodeOk(file.nodes[n])
        THEN cluster' = AddNode(cluster, file.nodes[n], n) /\ phase' = phase
        ELSE cluster' = cluster /\ phase' = "error"
     /\ UNCHANGED input

(* Without an instance the network dimensions divide by zero. *)
FinishCluster ==
  /\ phase = "nodes" /\ Len(cluster.cpu) = Len(file.nodes)
  /\ IF cluster.insts # <<>> /\ GroupsOk(cluster.insts) /\ DimValuesOk(file.link, NetworkDims(cluster.insts))
     THEN /\ cluster' = Finished(cluster)
          /\ phase' = IF MemoryOk(cluster.placement, cluster'.memory) THEN "built" ELSE "error"
     ELSE cluster' = cluster /\ phase' = "error"
  /\ UNCHANGED input

ConfigNext == CheckFile \/ ReadNode \/ FinishCluster
=============================================================================
