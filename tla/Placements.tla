----------------------------- MODULE Placements -----------------------------
(***************************************************************************)
(* Where the weights and the KV of an instance live: the placement section *)
(* of the cluster file (build_cluster_config, _parse_blocks_expr, _mem_str *)
(* in serving/core/config_builder.py) and its reader get_device.           *)
(*                                                                         *)
(* An instance's i.place has a default rule, block rules with the ranges   *)
(* they name, and layer rules; a rule gives some of the Kinds a location   *)
(* <<"npu" | "cpu" | "cxl", number>>.                                      *)
(***************************************************************************)
EXTENDS ModelSizes, Lists, SequencesExt

CONSTANT None

Kinds == {"weights", "kv_loc", "kv_evict_loc"}
Overlay(f, g) == [k \in DOMAIN f |-> IF k \in DOMAIN g THEN g[k] ELSE f[k]]

(* _parse_blocks_expr: ranges in either order, cut to the model's blocks. *)
ParseBlocks(ranges, layers) ==
  {b \in 0..(layers - 1) :
     \E k \in DOMAIN ranges : \/ ranges[k][1] <= b /\ b <= ranges[k][2]
                              \/ ranges[k][2] <= b /\ b <= ranges[k][1]}

(* _mem_str: the CPU is the node's own, whatever number was written. *)
MemStr(loc, n) == CASE loc[1] = "npu" -> <<"LOCAL", 0>>
                    [] loc[1] = "cpu" -> <<"REMOTE", n - 1>>
                    [] loc[1] = "cxl" -> <<"CXL", loc[2]>>
MemStrs(rule, n) == [k \in DOMAIN rule |-> MemStr(rule[k], n)]
KnownLocations(rule) == \A k \in DOMAIN rule : rule[k][1] \in {"npu", "cpu", "cxl"}

BlockRules(i) == Keep(i.place.blocks,
                   {r \in Items(i.place.blocks) : ParseBlocks(r.ids, Models[i.model].layers) # {}})
LayerRules(i) == {l \in DOMAIN i.place.layers : DOMAIN i.place.layers[l] # {}}

PlacementOk(i) ==
  /\ KnownLocations(i.place.default)
  /\ \A k \in DOMAIN BlockRules(i) : KnownLocations(BlockRules(i)[k].rule)
  /\ \A l \in LayerRules(i) : KnownLocations(i.place.layers[l])

(* The placement of an instance: defaults; then, once one rule names a     *)
(* block, a table of all blocks with the rules applied in order; then the  *)
(* layers, whose missing fields come from the default.                     *)
DefaultEntry(i, n) ==
  Overlay([weights |-> <<"LOCAL", 0>>, kv_loc |-> <<"LOCAL", 0>>, kv_evict_loc |-> <<"REMOTE", n - 1>>],
          MemStrs(i.place.default, n))
BlockEntry(i, n, b) ==
  FoldLeft(LAMBDA e, r : IF b \in ParseBlocks(r.ids, Models[i.model].layers)
                         THEN Overlay(e, MemStrs(r.rule, n)) ELSE e,
           DefaultEntry(i, n), BlockRules(i))
Placement(i, n) ==
  LET blocks == IF BlockRules(i) = <<>> THEN {} ELSE 0..(Models[i.model].layers - 1)
  IN [default |-> DefaultEntry(i, n),
      block |-> [b \in blocks |-> BlockEntry(i, n, b)],
      layer |-> [l \in LayerRules(i) |-> Overlay(DefaultEntry(i, n), MemStrs(i.place.layers[l], n))]]

(* get_device: a layer's own entry, else its block's, else the default. *)
GetDevice(p, block, layer, kind) ==
  IF layer \in DOMAIN p.layer THEN p.layer[layer][kind]
  ELSE IF block \in DOMAIN p.block THEN p.block[block][kind]
  ELSE p.default[kind]
=============================================================================
