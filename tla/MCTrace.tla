------------------------------ MODULE MCTrace ------------------------------
(* Batches on instances of a dense and of an MoE model of two and three    *)
(* blocks, profiled on grids smaller than the batches.                     *)
EXTENDS Trace, TLC

Dense == [hidden |-> 4, layers |-> 3, heads |-> 4, kv_heads |-> 2, head_dim |-> 2, vocab |-> 8,
          ffn |-> 8, moe_ffn |-> 4, experts |-> 0, k |-> 1, dtype |-> "float16"]
MCModels == [dense |-> Dense, moe |-> [Dense EXCEPT !.layers = 2, !.experts = 4, !.k = 2], old |-> Dense]

YamlSequence(moe) ==
  [prologue |-> <<"embedding">>,
   pre_attn |-> <<"layernorm", "qkv_proj">> \o (IF moe THEN <<"qk_norm">> ELSE <<>>)
                \o <<"rotary_emb", "attention">>,
   post_attn |-> <<"o_proj", "layernorm">>,
   mlp_dense |-> IF moe THEN <<>> ELSE <<"gate_up_proj", "act_fn", "down_proj">>,
   mlp_moe |-> IF moe THEN <<"moe">> ELSE <<>>,
   head |-> <<"final_layernorm", "lm_head", "sampler">>]
MCArchitecture == [dense |-> YamlSequence(FALSE), moe |-> YamlSequence(TRUE), old |-> YamlSequence(FALSE)]

(* The MoE profile is older than qk_norm: the layer is in the catalog, not *)
(* in the tables.  The profile of the old model also lacks the sampler.    *)
DenseLayers == <<"embedding", "layernorm", "qkv_proj", "rotary_emb", "o_proj", "gate_up_proj",
                 "act_fn", "down_proj", "final_layernorm">>
Number(name, s) == CHOOSE i \in DOMAIN s : s[i] = name
Tables(tp) ==
  [dense |-> [k \in {DenseLayers[i] : i \in DOMAIN DenseLayers} \X {1, 2, 4} |->
                Number(k[1], DenseLayers) + (8 * k[2]) \div tp],
   per_sequence |-> [k \in {"lm_head", "sampler"} \X {1, 2} |->
                       IF k[1] = "lm_head" THEN 6 * k[2] ELSE 3 + k[2]],
   attention |-> [k \in {g \in {0, 2, 4} \X {0, 4} \X {0, 1, 2} \X {0, 2, 4} :
                            /\ g[1] + g[3] > 0 /\ (g[1] = 0 => g[2] = 0)
                            /\ (g[3] = 0) <=> (g[4] = 0)} |->
                    (4 * k[1] + k[1] * k[2] + 4 * k[3] * k[4]) \div tp + 1],
   moe |-> [k \in {1, 2, 4} \X {1, 2} |-> 4 * k[1] + 2 * k[2]]]
Profile ==
  [tps |-> {1, 2}, stable |-> {"layernorm", "final_layernorm", "sampler"},
   catalog |-> [per_sequence |-> {"lm_head", "sampler"}, attention |-> {"attention"}, moe |-> {"moe"}],
   tables |-> [tp \in {1, 2} |-> Tables(tp)],
   skew |-> [enabled |-> TRUE,
             axes |-> [n |-> {2}, rate |-> {40, 70}, big |-> {4}, kp |-> {0}],
             per_tp |-> [tp \in {1} |-> [default |-> 25,
               alphas |-> (<<0, <<"upto", 2>>, <<"upto", 70>>, <<"upto", 4>>, <<"upto", 0>>>> :> 50)
                          @@ (<<2, <<"upto", 2>>, <<"upto", 40>>, <<"above", 4>>, <<"upto", 0>>>> :> 0)]]]]
Without(table, name) == [k \in {p \in DOMAIN table : p[1] # name} |-> table[k]]
MCProfiles ==
  [dense |-> Profile, moe |-> Profile,
   old |-> [Profile EXCEPT !.tables = [tp \in DOMAIN @ |-> [@[tp] EXCEPT !.per_sequence = Without(@, "sampler")]]]]
MCLog(x) == CASE x = 1 -> 0 [] x = 2 -> 2 [] x = 3 -> 3 [] x = 4 -> 4 [] x = 5 -> 5
              [] x \in 6..7 -> 6 [] x \in 8..11 -> 7 [] OTHER -> 8
MCFallback == 9
MCPim == [rank |-> 2, channel |-> 1, slope |-> 8, intercept |-> 16,
          base |-> [heads |-> 4, kv_heads |-> 2, head_dim |-> 2], size |-> 6]
MCWatts == [npu_idle |-> 1, npu_standby |-> 2, npu_active |-> 4, cpu_idle |-> 1, cpu_active |-> 3, cpu_util |-> 5,
            dram_idle |-> 1, pim_active |-> 3, dram_bit |-> 1, link_bit |-> 2, standby_duration |-> 3]

NoRules == <<>>
Nowhere == [default |-> NoRules, blocks |-> <<>>, layers |-> <<>>]
(* All weights, those of the second block, or those of one layer on the host *)
Host == [weights |-> <<"cpu", 0>>]
Rules(ids) == [ids |-> ids, rule |-> Host]
Places == {Nowhere, [Nowhere EXCEPT !.blocks = <<Rules(<<<<1, 1>>>>)>>],
           [Nowhere EXCEPT !.default = Host], [Nowhere EXCEPT !.layers = "moe" :> Host @@ "o_proj" :> Host]}

(* As the scheduler hands them out: init is cleared once the prompt is     *)
(* complete. After a hit on the whole prompt a request is a decode already *)
(* and init is cleared after its first step; with --skip-prefill it is     *)
(* never set.                                                              *)
Request(id, arrival, input, computed, chunk) ==
  [id |-> id, arrival |-> arrival, input |-> input, original |-> input, computed |-> computed,
   chunk |-> chunk, init |-> computed < input]
WholeHit(id, arrival, input) == [Request(id, arrival, input, input, 0) EXCEPT !.init = TRUE]
SkipPrefill(request) == [request EXCEPT !.init = FALSE]
(* One request; decodes of unequal lengths; chunks beside decodes. *)
Batches ==
  {<<Request(1, 0, 3, 0, 2)>>,
   <<Request(1, 0, 2, 2, 0), Request(2, 1, 5, 6, 0)>>,
   <<Request(1, 0, 2, 3, 0), Request(2, 1, 5, 2, 3), Request(3, 2, 3, 1, 2), Request(4, 3, 3, 5, 0)>>}
(* Hits alone and beside a decode and a chunk; chunks under --skip-prefill *)
OddBatches ==
  {<<WholeHit(1, 0, 3)>>,
   <<WholeHit(1, 0, 4), Request(2, 1, 2, 3, 0), Request(3, 2, 3, 1, 2), WholeHit(4, 3, 2)>>,
   <<SkipPrefill(Request(1, 0, 3, 0, 2))>>,
   <<SkipPrefill(Request(1, 0, 5, 2, 3)), Request(2, 1, 3, 5, 0), SkipPrefill(Request(3, 2, 4, 0, 1))>>}
Inst == [model |-> "dense", tp |-> 1, pp |-> 1, local_ep |-> 1, ep_total |-> 1, tp_dim |-> <<TRUE>>,
         ep_dim |-> <<TRUE>>, pd |-> None, place |-> Nowhere, node |-> 1, tpu |-> FALSE]
Job == [reqs |-> <<>>, inst |-> Inst, policy |-> "BALANCED", copy |-> TRUE, offload |-> FALSE,
        interleave |-> FALSE, pad |-> 0, load |-> 0, evict |-> 0, tiers |-> <<>>]

Dims == {[Inst EXCEPT !.tp = 2, !.place = p] : p \in Places}
        \cup {[Inst EXCEPT !.pp = 2, !.pd = "prefill", !.tpu = TRUE]}
DenseJobs ==
  {[Job EXCEPT !.reqs = b, !.inst = i, !.offload = o, !.interleave = v] :
     b \in Batches, i \in Dims, o \in BOOLEAN, v \in BOOLEAN}
OddJobs ==
  {[Job EXCEPT !.reqs = b, !.inst = i, !.offload = o, !.interleave = v] :
     b \in OddBatches, i \in {Inst, [Inst EXCEPT !.tp = 2, !.place = [Nowhere EXCEPT !.blocks = <<Rules(<<<<1, 1>>>>)>>]]},
     o \in BOOLEAN, v \in BOOLEAN}
  \cup {[Job EXCEPT !.reqs = <<Request(1, 0, 3, 0, 2)>>, !.inst.model = "old"]}
MoeInsts == {[Inst EXCEPT !.model = "moe", !.ep_total = e, !.local_ep = 2, !.place = p] :
               e \in {2, 4}, p \in Places}
MoeJobs ==
  {[Job EXCEPT !.reqs = b, !.inst = i, !.policy = r, !.copy = c, !.interleave = r = "RR"] :
     b \in Batches, i \in MoeInsts, r \in {"BALANCED", "RR"}, c \in BOOLEAN}
  \cup {[Job EXCEPT !.reqs = <<Request(1, 0, 2, 1, 1)>>, !.inst = i, !.policy = "RAND", !.copy = FALSE] :
          i \in MoeInsts}
Moved == {[Job EXCEPT !.reqs = b, !.load = 4, !.evict = 6, !.pad = 5, !.interleave = TRUE,
                      !.tiers = <<[tier |-> "FLASH", device |-> 0, bytes |-> 8]>>] : b \in Batches}
MCJobs == DenseJobs \cup OddJobs \cup MoeJobs \cup Moved
=============================================================================
