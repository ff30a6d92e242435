---------------------------- MODULE MCDeployment ----------------------------
(* Cluster files for ClusterConfig and Deployment: shapes of instances on  *)
(* one and two nodes, memory tiers under every storage and scope, and      *)
(* placements, each with correct and with faulty variants.                 *)
EXTENDS Deployment

Dense == [hidden |-> 4, layers |-> 2, heads |-> 4, kv_heads |-> 2, head_dim |-> 1, vocab |-> 8,
          ffn |-> 8, moe_ffn |-> 8, experts |-> 0, dtype |-> "float16"]
MoE   == [Dense EXCEPT !.experts = 4, !.dtype = "unknown"]
MCModels == [dense |-> Dense, moe |-> MoE]
MCDtypeBits == [float16 |-> 16, bfloat16 |-> 16, fp8 |-> 8]

Block(n) == [size |-> n, speed |-> 1, devices |-> None, pim |-> None]
NoRules  == <<>>
Nowhere  == [default |-> NoRules, blocks |-> <<>>, layers |-> <<>>]
Inst ==
  [complete |-> TRUE, model |-> "dense", hw |-> "gpu", npus |-> None, tp |-> 1, pp |-> None, ep |-> None,
   dp |-> None, pd |-> None, npu_mem |-> Block(4000), cpu |-> None, place |-> Nowhere, over |-> <<>>]
Node(is) ==
  [complete |-> TRUE, num_instances |-> Len(is), insts |-> is, cpu |-> Block(12), power |-> None,
   tiers |-> [FLASH |-> None, JBOF |-> None, COLDSTORE |-> None]]
File(nodes) ==
  [num_nodes |-> Len(nodes), nodes |-> nodes, link |-> <<>>, cxl |-> None,
   top |-> [JBOF |-> None, COLDSTORE |-> None, FLASH |-> None]]
Runtime ==
  [max_num_seqs |-> 0, max_num_batched_tokens |-> 8, dtype |-> None, kv_cache_dtype |-> "auto",
   caching |-> TRUE, local |-> FALSE, attn |-> FALSE, interleave |-> FALSE]
Flags ==
  [runtime |-> Runtime, sharing |-> TRUE, storage |-> None, scope |-> "per_node", parallel |-> FALSE,
   policy |-> "RR", backend |-> "analytical"]
Start(f, g) == [file |-> f, flags |-> g]

(* Degrees of parallelism given in part, inconsistently, or not at all. *)
Degrees == {[Inst EXCEPT !.model = m, !.npus = n, !.tp = t, !.pp = p, !.ep = e] :
              m \in {"dense", "moe"}, n \in {None, 2, 4}, t \in {None, 1, 2}, p \in {None, 1, 2},
              e \in {None, 1, 2, 4}}
Alone == {Start(File(<<Node(<<i>>)>>), Flags) : i \in Degrees}

Shapes == {[Inst EXCEPT !.model = "moe", !.tp = t, !.pp = p, !.ep = e, !.dp = d, !.pd = r] :
             t \in {1, 2}, p \in {1, 2}, e \in {1, 2, 4}, d \in {None, "g"}, r \in {None, "prefill"}}
         \cup {[Inst EXCEPT !.tp = t, !.pd = "decode"] : t \in {1, 2}}
Couples == {Start(File(<<Node(<<i, j>>)>>), [Flags EXCEPT !.parallel = TRUE, !.sharing = FALSE]) :
            i \in Shapes, j \in {k \in Shapes : k.pp = 1 /\ k.ep # 1}}
Triples == {Start(File(<<Node(<<i, i>>), Node(<<i>>)>>), [Flags EXCEPT !.parallel = TRUE, !.storage = s, !.sharing = h]) :
            i \in Shapes, s \in {None, "CPU"}, h \in BOOLEAN}

(* Memory of every tier, per node and for the pod. *)
Cpus == {[Inst EXCEPT !.cpu = c, !.over = o] :
           c \in {None, Block(8), Partial}, o \in {<<>>, [kv_cache_dtype |-> "fp8"]}}
Tiers == {[FLASH |-> f, JBOF |-> j, COLDSTORE |-> c] :
            f \in {None, Block(4)}, j \in {None, Block(6)}, c \in {None, Block(2), Partial}}
MemoryNode(is, t, c) == [Node(is) EXCEPT !.tiers = t, !.cpu = c]
Storages == {[Flags EXCEPT !.storage = s, !.scope = c, !.parallel = TRUE, !.policy = "LOAD"] :
               s \in {None, "CPU", "FLASH", "JBOF", "COLDSTORE", "CXL"}, c \in {"per_node", "per_instance"}}
TwoNodes(i, j, t, c, p) ==
  [File(<<MemoryNode(<<i, j>>, t, c), MemoryNode(<<i>>, t, Block(12))>>)
     EXCEPT !.top.JBOF = p, !.cxl = [Block(20) EXCEPT !.devices = 2]]
NoTiers == Node(<<>>).tiers
Memories ==
  {Start(TwoNodes(i, j, NoTiers, c, None), g) :
     i \in Cpus, j \in Cpus, c \in {None, Block(12)}, g \in {g \in Storages : g.storage = "CPU"}}
    \cup {Start(TwoNodes(Inst, Inst, t, Block(12), p), g) :
            t \in Tiers, p \in {None, Block(10)}, g \in Storages}

(* Placements. *)
Locs == {<<"npu", 0>>, <<"cpu", 0>>, <<"cxl", 1>>, <<"cxl", 2>>, <<"disk", 0>>}
Rules == {<<>>, [kv_loc |-> <<"cxl", 1>>]} \cup {[weights |-> l] : l \in Locs}
Places == {[default |-> d, blocks |-> b, layers |-> l] :
             d \in {<<>>, [kv_evict_loc |-> <<"cxl", 0>>]},
             b \in {<<>>} \cup {<<[ids |-> x, rule |-> r]>> : r \in Rules, x \in {<<<<0, 0>>>>, <<<<5, 1>>>>, <<<<7, 9>>>>}},
             l \in {[o_proj |-> r] : r \in {<<>>, [kv_loc |-> <<"npu", 0>>], [weights |-> <<"disk", 0>>]}}}
Placed == {Start([File(<<Node(<<Inst>>), Node(<<[Inst EXCEPT !.place = p, !.over = o]>>)>>)
                    EXCEPT !.cxl = c], [Flags EXCEPT !.sharing = FALSE]) :
             p \in Places, c \in {None, [Block(20) EXCEPT !.devices = 2]},
             o \in {<<>>, [local |-> TRUE]}}

(* Files and flags that end the program, each in its own way. *)
Good == File(<<Node(<<Inst>>), Node(<<Inst>>)>>)
Faulty ==
  {[Good EXCEPT !.num_nodes = 3], [Good EXCEPT !.link = None], [Good EXCEPT !.cxl = Partial],
   [Good EXCEPT !.link = <<1, 1>>], [Good EXCEPT !.link = <<1>>],
   [Good EXCEPT !.top.JBOF = Partial], [Good EXCEPT !.nodes[1].complete = FALSE],
   [Good EXCEPT !.nodes[2].num_instances = 2], [Good EXCEPT !.nodes[2].insts[1].complete = FALSE],
   [Good EXCEPT !.nodes[1].power = [hw |-> {"gpu"}]], [Good EXCEPT !.nodes[2].cpu = Partial],
   [Good EXCEPT !.nodes[1].power = [hw |-> {"gpu"}], !.nodes[2].power = Partial],
   [Good EXCEPT !.nodes[1].power = [hw |-> {"gpu"}], !.nodes[2].power = [hw |-> {"gpu"}]],
   [Good EXCEPT !.nodes[1].insts[1].npu_mem = Block(100)],
   [Good EXCEPT !.nodes[1].insts[1].pd = "both"]}
Settings ==
  {[Flags EXCEPT !.runtime = r] :
     r \in {Runtime, [Runtime EXCEPT !.dtype = "int3"], [Runtime EXCEPT !.dtype = "fp8"],
            [Runtime EXCEPT !.interleave = TRUE], [Runtime EXCEPT !.attn = TRUE],
            [Runtime EXCEPT !.kv_cache_dtype = "fp4"]}}
Pim == [Good EXCEPT !.nodes[1].cpu.pim = "ddr", !.nodes[2].cpu.pim = "ddr"]
Faults == {Start(f, g) : f \in Faulty \cup {Pim}, g \in Settings}

MCInputs == Alone \cup Couples \cup Triples \cup Memories \cup Placed \cup Faults
=============================================================================
