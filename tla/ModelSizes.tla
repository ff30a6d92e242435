----------------------------- MODULE ModelSizes -----------------------------
(***************************************************************************)
(* Sizes in bytes of a model's layers, weights and KV: calculate_sizes,    *)
(* MemoryModel.get_weight and get_kv, full_cluster_kv_bytes_per_token in   *)
(* serving/core/memory_model.py, and the timing of PIM attention in        *)
(* serving/core/pim_model.py.                                              *)
(*                                                                         *)
(* A model is the record of its config file: hidden, layers, heads,        *)
(* kv_heads, head_dim, vocab, ffn, moe_ffn, experts (0: dense), positions. *)
(***************************************************************************)
EXTENDS Integers, Sequences, FiniteSetsExt

CONSTANT Models    \* name -> the model's config file

QDim(c) == c.heads * c.head_dim
KvDim(c) == c.kv_heads * c.head_dim

(* calculate_sizes: input, weight and output of a layer for `len' tokens,  *)
(* split over p ranks.  Norm weights are on every rank; of the experts a   *)
(* rank holds its share, of the MoE gate a copy.                           *)
CalculateSizes(c, layer, len, kv, pim, p, fp) ==
  LET act == len * c.hidden * fp
      heads == c.heads \div p
      kvh == c.kv_heads \div p
      q == IF pim THEN 1 ELSE len
      k == IF pim THEN 1 ELSE kv
      norm == ((len * (QDim(c) + KvDim(c))) \div p) * fp
      rope == (heads + kvh) * len * c.head_dim * fp
      qkv == (QDim(c) + 2 * KvDim(c)) \div p
      ffn == c.ffn \div p
      vocab == c.vocab \div p
  IN CASE layer = "embedding" -> <<2 * len * fp, vocab * c.hidden * fp, act>>
       [] layer \in {"layernorm", "final_layernorm"} -> <<act, c.hidden * fp, act>>
       [] layer = "qk_norm" -> <<norm, 2 * c.head_dim * fp, norm>>
       [] layer = "rotary_emb" -> <<rope, 0, rope>>
       [] layer = "attention" -> <<heads * q * c.head_dim * fp + kvh * k * c.head_dim * fp * 2,
                                   0, heads * q * c.head_dim * fp>>
       [] layer = "qkv_proj" -> <<act, c.hidden * qkv * fp, len * qkv * fp>>
       [] layer = "o_proj" -> <<len * (QDim(c) \div p) * fp, (QDim(c) \div p) * c.hidden * fp, act>>
       [] layer = "gate_up_proj" -> <<act, c.hidden * 2 * ffn * fp, len * 2 * ffn * fp>>
       [] layer = "act_fn" -> <<len * 2 * ffn * fp, 0, len * ffn * fp>>
       [] layer = "down_proj" -> <<len * ffn * fp, ffn * c.hidden * fp, act>>
       [] layer = "moe" -> <<act, c.hidden * c.experts * fp
                                    + (c.experts \div p) * 3 * c.hidden * c.moe_ffn * fp, act>>
       [] layer = "lm_head" -> <<act, c.hidden * vocab * fp, len * vocab * fp>>
       [] layer = "sampler" -> <<len * vocab * fp, 0, len * 4>>

Weight(c, layer, p, fp) == CalculateSizes(c, layer, 1, 0, FALSE, p, fp)[2]

(* _get_weight_per_block *)
BlockWeight(c, tp, ep, fp) ==
  2 * Weight(c, "layernorm", tp, fp) + Weight(c, "qkv_proj", tp, fp) + Weight(c, "o_proj", tp, fp)
  + IF c.experts > 0 THEN Weight(c, "moe", ep, fp)
    ELSE Weight(c, "gate_up_proj", tp, fp) + Weight(c, "down_proj", tp, fp)

(* get_weight: what one GPU holds, counted for a rank that has embedding,  *)
(* final norm and head besides its share of the blocks.                    *)
GetWeight(c, tp, pp, ep, fp) ==
  Weight(c, "embedding", tp, fp) + Weight(c, "layernorm", tp, fp) + Weight(c, "lm_head", tp, fp)
  + BlockWeight(c, tp, ep, fp) * (c.layers \div pp)

KvBytes(fp, kvdtype) == IF kvdtype = "fp8" THEN 1 ELSE fp

(* get_kv: keys and values of `seq' tokens on one of the instance's NPUs *)
GetKv(c, seq, npus, fp, kvdtype) ==
  (2 * KvDim(c) * seq * c.layers * KvBytes(fp, kvdtype)) \div npus

(* full_cluster_kv_bytes_per_token *)
FullKv(c, fp, kvdtype) == 2 * KvDim(c) * c.layers * KvBytes(fp, kvdtype)

-----------------------------------------------------------------------------
(* The PIM device: s.rank is the capacity of one rank of its chips,        *)
(* s.channel the channel size its file gives; slope and intercept fit the  *)
(* attention latency of the base model s.base.                             *)

(* init_dram_params: a rank larger than the channel makes the channel.     *)
ChannelSize(s) == Max({s.rank, s.channel})
PimChannels(s, size) == size \div ChannelSize(s)

(* estimate_with_linear: the slope scales with the query heads per KV      *)
(* head, the intercept with the width of the queries.                      *)
PimLatency(s, c, len, split) ==
  ((s.slope * len * c.heads * s.base.kv_heads) \div (c.kv_heads * s.base.heads)
   + (s.intercept * QDim(c)) \div QDim(s.base)) \div split
=============================================================================
