----------------------------- MODULE Deployment -----------------------------
(***************************************************************************)
(* What main() in serving/__main__.py makes of a built cluster before the  *)
(* first batch: the runtime settings of every instance, the prefix-cache   *)
(* pools of each memory tier, the schedulers' memory and the processes     *)
(* that simulate the instances.                                            *)
(*                                                                         *)
(* A pool is named <<tier, key>>: the key is the instance or the node it   *)
(* belongs to, or 0 for a pool of the whole pod.                           *)
(***************************************************************************)
EXTENDS ClusterConfig

CONSTANTS Unlimited,   \* float('inf')
          DtypeBits    \* the dtypes there are -> bits

VARIABLE deploy

insts == cluster.insts
Insts == DOMAIN insts
Nodes == DOMAIN cluster.cpu
On(n) == {i \in Insts : insts[i].node = n}
Config(i) == Models[insts[i].model]

-----------------------------------------------------------------------------
(* Runtime settings. *)

(* _resolve_instance_dtype *)
Dtype(i, asked) == IF asked # None THEN asked
                   ELSE IF Config(i).dtype \in DOMAIN DtypeBits THEN Config(i).dtype
                   ELSE "bfloat16"

(* _runtime_limit *)
RuntimeLimit(v) == IF v = 0 THEN Unlimited ELSE v

(* _build_instance_runtime_configs: the instance's value, else the flag's. *)
RuntimeConfig(i) ==
  LET r == Overlay(flags.runtime, insts[i].over)
  IN [r EXCEPT !.max_num_seqs = RuntimeLimit(@),
               !.max_num_batched_tokens = RuntimeLimit(@),
               !.dtype = Dtype(i, @)]

RuntimeOk(r) == /\ r.dtype \in DOMAIN DtypeBits
                /\ r.kv_cache_dtype \in {"auto", "fp8"}
                /\ r.interleave => r.attn

Bytes(i) == DtypeBits[deploy.runtime[i].dtype] \div 8
AnyCaching == \E i \in Insts : deploy.runtime[i].caching

-----------------------------------------------------------------------------
(* CPU memory.  The pools take the instance's own or its part of the       *)
(* node's; a scheduler without a pool takes all of the node's.             *)

SchedCpu(i) ==
  IF cluster.inst_cpu[i] # None THEN cluster.inst_cpu[i] ELSE cluster.cpu[insts[i].node]
PoolCpu(i) ==
  IF cluster.inst_cpu[i] # None THEN cluster.inst_cpu[i]
  ELSE cluster.cpu[insts[i].node] \div Cardinality(On(insts[i].node))

(* One shared CPU pool per node: the sum of its parts once an instance     *)
(* declared its own, else the node's memory.                               *)
NodePoolCpu(n) ==
  IF \E i \in On(n) : cluster.inst_cpu[i] # None
  THEN MapThenSumSet(PoolCpu, On(n)) ELSE cluster.cpu[n]

-----------------------------------------------------------------------------
(* The tiers below the CPU. *)

TierInConfig(t) == \A n \in Nodes : TierSize(cluster.tiers[t][n]) > 0

Chain == <<"CPU">> \o DeepTiers
Medium == IF flags.storage \in Range(Chain) THEN "CPU" ELSE flags.storage

(* The deep tiers in use: those of the file, down to the one asked for. *)
ActiveTiers ==
  IF Medium # "CPU" THEN <<>>
  ELSE LET cap == CHOOSE k \in DOMAIN Chain : Chain[k] = flags.storage
       IN SelectSeq(SubSeq(Chain, 2, cap), TierInConfig)

Sharing == AnyCaching /\ flags.sharing /\ Medium # None

TierPool(t, i) == IF t \in PodTiers THEN <<t, 0>> ELSE <<t, insts[i].node>>
CpuPool(i) == IF flags.scope = "per_instance" THEN <<"CPU", i>> ELSE <<"CPU", insts[i].node>>
SecondTier(i) == IF Medium = "CPU" THEN CpuPool(i) ELSE <<"CXL", 0>>

(* The pools of an instance, from the nearest down. *)
PoolsOf(i) ==
  <<SecondTier(i)>> \o [k \in DOMAIN ActiveTiers |-> TierPool(ActiveTiers[k], i)]

Capacity(p) ==
  CASE p[1] = "CXL" -> TierSize(file.cxl)
    [] p[1] = "CPU" /\ flags.scope = "per_instance" -> PoolCpu(p[2])
    [] p[1] = "CPU" /\ flags.scope = "per_node" -> NodePoolCpu(p[2])
    [] p[1] \in PodTiers -> MapThenSumSet(LAMBDA n : cluster.tiers[p[1]][n].size, Nodes)
    [] OTHER -> cluster.tiers[p[1]][p[2]].size

Pools == UNION {Range(PoolsOf(i)) : i \in Insts}
UsersOf(p) == {i \in Insts : p \in Range(PoolsOf(i))}

(* The shape of an instance's KV: a pool is for instances of one shape. *)
KvShape(i) == <<insts[i].model, deploy.runtime[i].dtype, deploy.runtime[i].kv_cache_dtype>>
SameShape(is) == \A i, j \in is : LET a == KvShape(i)
                                      b == KvShape(j)
                                  IN /\ a[1] = b[1] /\ a[3] = b[3]
                                     /\ DtypeBits[a[2]] = DtypeBits[b[2]]

(* _pool_kv_bytes_per_token *)
PoolKv(p) == LET i == Min(UsersOf(p))
             IN FullKv(Config(i), Bytes(i), deploy.runtime[i].kv_cache_dtype)

-----------------------------------------------------------------------------
(* The schedulers' memory: MemoryModel.__init__ *)

WeightOf(i) == GetWeight(Config(i), insts[i].tp, insts[i].pp, insts[i].ep_total, Bytes(i))

(* The tier under an instance's own NPU cache: the pool it shares, else    *)
(* one of its own.                                                         *)
Memory(i) ==
  [weight |-> WeightOf(i), kv |-> GetKv(Config(i), 1, insts[i].npus, Bytes(i), deploy.runtime[i].kv_cache_dtype),
   room |-> insts[i].npu_mem.size - WeightOf(i),
   second |-> IF ~deploy.runtime[i].caching \/ Medium = None \/ Sharing THEN None
              ELSE IF Medium = "CPU" THEN SchedCpu(i) ELSE TierSize(file.cxl)]

-----------------------------------------------------------------------------
(* Which driver runs the simulation. *)

Independent ==
  /\ flags.backend # "ns3" /\ Len(insts) > 1
  /\ \A i \in Insts : insts[i].dp = None /\ insts[i].pd = None /\ insts[i].pp = 1

Driver ==
  IF flags.parallel /\ Independent /\ ~flags.sharing /\ flags.policy \in {"RR", "RAND", "CUSTOM"} THEN "A"
  ELSE IF flags.parallel /\ Independent /\ flags.sharing /\ Medium = "CPU" THEN "B"
  ELSE "single"

(* The simulator processes: their network and the instances in them. *)
Processes ==
  IF Driver = "single" THEN {[dims |-> cluster.dims, npus |-> cluster.total_npu, base |-> 0, of |-> Insts]}
  ELSE {PerInstance(cluster, i) : i \in Insts}

-----------------------------------------------------------------------------
vars == <<input, phase, cluster, deploy>>

Init == /\ ConfigInit
        /\ deploy = [runtime |-> <<>>, pools |-> <<>>, poolsOf |-> <<>>,
                     memory |-> <<>>, processes |-> {}]

BuildCluster == ConfigNext /\ UNCHANGED deploy

ResolveRuntime ==
  LET runtime == [i \in Insts |-> RuntimeConfig(i)]
  IN /\ phase = "built"
     /\ phase' = IF \A i \in Insts : RuntimeOk(runtime[i]) THEN "runtime" ELSE "error"
     /\ deploy' = [deploy EXCEPT !.runtime = runtime]
     /\ UNCHANGED <<input, cluster>>

PoolsOk ==
  /\ ActiveTiers # <<>> => AnyCaching /\ flags.sharing
  /\ Sharing => \A p \in Pools : Capacity(p) > 0 /\ SameShape(UsersOf(p))

BuildPools ==
  /\ phase = "runtime"
  /\ IF PoolsOk
     THEN /\ phase' = "pools"
          /\ deploy' = IF ~Sharing THEN deploy
                       ELSE [deploy EXCEPT
                              !.pools = [p \in Pools |-> [size |-> Capacity(p), kv |-> PoolKv(p)]],
                              !.poolsOf = [i \in Insts |-> PoolsOf(i)]]
     ELSE phase' = "error" /\ deploy' = deploy
  /\ UNCHANGED <<input, cluster>>

(* A model that does not fit the NPUs ends the program. *)
StartSchedulers ==
  /\ phase = "pools"
  /\ IF \A i \in Insts : Memory(i).room >= 0
     THEN /\ phase' = "schedulers"
          /\ deploy' = [deploy EXCEPT !.memory = [i \in Insts |-> Memory(i)]]
     ELSE phase' = "error" /\ deploy' = deploy
  /\ UNCHANGED <<input, cluster>>

StartProcesses ==
  /\ phase = "schedulers"
  /\ phase' = "running"
  /\ deploy' = [deploy EXCEPT !.processes = Processes]
  /\ UNCHANGED <<input, cluster>>

Next == BuildCluster \/ ResolveRuntime \/ BuildPools \/ StartSchedulers \/ StartProcesses

Spec == Init /\ [][Next]_vars

-----------------------------------------------------------------------------
(* Properties of a program that got as far as its processes. *)

Running == phase = "running"

Product(dims) == FoldLeft(LAMBDA a, b : a * b, 1, dims)

(* NPUs one collective reaches: the dimensions it involves, all if None.   *)
Span(dims, involved) ==
  Product([d \in DOMAIN dims |->
             IF involved = None \/ (d \in DOMAIN involved /\ involved[d]) THEN dims[d] ELSE 1])

(* Clusters the two-dimensional network is made for: instances of one      *)
(* shape, and a DP group only if everybody is in it.                       *)
Regular ==
  /\ \A i, j \in Insts : insts[i].tp = insts[j].tp /\ insts[i].pp = insts[j].pp /\ insts[i].dp = insts[j].dp
  /\ (\E i \in Insts : insts[i].dp # None) => \A i \in Insts : insts[i].pp = 1 /\ insts[i].pd # "prefill"

(* Every process is given a network with exactly the NPUs of its           *)
(* instances, and a TP or EP collective of an instance reaches the ranks   *)
(* that share the layer and no others - although the dimensions come from  *)
(* the totals of the cluster, the involved ones from the instance and its  *)
(* group, and a process of its own gets a network of its own.              *)
NetworkFits ==
  Running => \A p \in deploy.processes :
    Regular \/ Driver # "single" =>
      /\ Product(p.dims) = p.npus
      /\ \A i \in p.of :
           LET group == insts[i].tp * insts[i].group_size
           IN /\ insts[i].tp > 1 => Span(p.dims, insts[i].tp_dim) = insts[i].tp
              /\ insts[i].ep > 1 => /\ Span(p.dims, insts[i].ep_dim) >= insts[i].ep
                                    /\ Span(p.dims, insts[i].ep_dim) <= group

(* The NPU ids form one run per instance, in order and without a gap - two *)
(* sets for a prefill instance - and ASTRA-Sim, main's maps and the        *)
(* per-process offsets all name the same ids.                              *)
NpusPartitioned ==
  Running =>
    /\ Len(cluster.npu2inst) = cluster.total_npu
    /\ cluster.starts = cluster.inst2npu
    /\ \A i \in Insts :
         LET first == cluster.inst2npu[i]
             mine == {n \in DOMAIN cluster.npu2inst : cluster.npu2inst[n] = i}
         IN /\ mine = (first + 1)..(first + EffectiveNpus(insts[i]))
            /\ EffectiveNpus(insts[i]) > 1 => (first + EffectiveNpus(insts[i]) - 1) \in Range(cluster.ends)
    /\ \A p, q \in deploy.processes :
         p # q => p.base + p.npus <= q.base \/ q.base + q.npus <= p.base

(* The network is laid out over the ids as the instances are. *)
NpusLaidOut == NetworkFits /\ NpusPartitioned

(* Wherever the trace generator looks up a layer's weights or KV, in any   *)
(* block, it gets a device of the memory file ASTRA-Sim was started with.  *)
PlacementServed ==
  Running => \A i \in Insts, kind \in Kinds :
    \A b \in 0..(Config(i).layers - 1), l \in DOMAIN cluster.placement[i].layer \cup {"any"} :
      LET loc == GetDevice(cluster.placement[i], b, l, kind)
      IN loc \in Allowed(cluster.memory) \/ loc[1] = "LOCAL"

(* The CPU pools of a node hold the node's memory between them, in either  *)
(* scope and however its instances declared theirs; a pod-wide tier holds  *)
(* what its nodes bring or what the file gives it once; a token takes in a *)
(* pool what it takes on the NPUs of every instance that uses it; and      *)
(* every tier a prefix can be reloaded from is in the memory file.         *)
PoolsSound ==
  Running /\ deploy.pools # <<>> =>
    LET pools == DOMAIN deploy.pools
        cpu(n) == {p \in pools : p[1] = "CPU" /\ \E i \in On(n) : p \in Range(deploy.poolsOf[i])}
        own(n) == {i \in On(n) : cluster.inst_cpu[i] # None}
    IN /\ \A n \in Nodes : cpu(n) # {} =>
            MapThenSumSet(LAMBDA p : deploy.pools[p].size, cpu(n)) * Cardinality(On(n)) =
              MapThenSumSet(LAMBDA i : cluster.inst_cpu[i], own(n)) * Cardinality(On(n))
              + cluster.cpu[n] * Cardinality(On(n) \ own(n))
       /\ \A p \in pools : p[1] \in PodTiers /\ file.top[p[1]] # None =>
            deploy.pools[p].size = file.top[p[1]].size
       /\ \A p \in pools : p[1] \in Range(DeepTiers) => p[1] \in DOMAIN cluster.memory
       /\ \A i \in Insts : \A k \in DOMAIN deploy.poolsOf[i] :
            LET whole == deploy.pools[deploy.poolsOf[i][k]].kv
            IN /\ deploy.memory[i].kv * insts[i].npus <= whole
               /\ whole < (deploy.memory[i].kv + 1) * insts[i].npus

(* The NPUs of an instance hold all of its dense weights and KV, those of  *)
(* its DP group every expert: the check of the memory model is not passed  *)
(* by leaving a part of the model out.  (For heads and layers that divide; *)
(* the shares are rounded down.)                                           *)
ModelHeld ==
  Running => \A i \in Insts :
    LET c == Config(i)
        ranks == insts[i].tp * insts[i].group_size
        whole == GetWeight(c, 1, 1, 1, Bytes(i))
    IN Divides(insts[i].pp, c.layers) /\ Divides(insts[i].tp, c.kv_heads) =>
         /\ c.experts = 0 => insts[i].npus * deploy.memory[i].weight >= whole
         /\ c.experts > 0 => ranks * (c.experts \div insts[i].ep_total) >= c.experts
         /\ c.experts > 0 => ranks * insts[i].pp * deploy.memory[i].weight >= whole

(* What is measured against memory is the whole of it: pools and weights. *)
MemorySound == PoolsSound /\ ModelHeld
=============================================================================
