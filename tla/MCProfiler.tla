---------------------------- MODULE MCProfiler ----------------------------
(* Sessions at two limits for a model whose attention cannot be sharded by *)
(* three, with an MoE block and a stable layer.                            *)
EXTENDS Profiler, TLC

MCGrid == [block |-> 2, chunk |-> 2, kv |-> 2, pc |-> 4, kp |-> 4, kvs |-> 2, kvs_top |-> 4,
           kv_big |-> 4, steps |-> <<<<1, 1>>, <<3, 2>>, <<6, 3>>>>]
MCLayers == [dense |-> {"norm", "proj"}, per_sequence |-> {"lm_head"}, attention |-> {"attention"},
             moe |-> {"moe"}]
MCStable == {"norm"}
MCDegrees == {1, 2, 3}
MCUnshardable == {3}
MCGpu == [tp \in MCDegrees |-> [mnbt |-> 0, msq |-> 0, mml |-> 12, blocks |-> 10 + 2 * tp, experts |-> 4, k |-> 2]]

Twice == <<2, 1>>
Factors == [chunk |-> Twice, kv |-> Twice, n |-> Twice, pc |-> Twice, kp |-> Twice, kvs |-> Twice]
Small == [mnbt |-> 2, msq |-> 2, max_kv |-> 8, factor |-> Factors]
Large == [mnbt |-> 4, msq |-> 3, max_kv |-> 8, factor |-> [Factors EXCEPT !.kv = <<4, 1>>]]

Profiles == [cmd |-> "profile", tps |-> <<1, 2>>, tp |-> 1, group |-> "dense", force |-> FALSE,
             skip_skew |-> FALSE, only_skew |-> FALSE, args |-> Small]
MCSessions ==
  {Profiles, [Profiles EXCEPT !.tps = <<1>>, !.args = Large],
   [Profiles EXCEPT !.only_skew = TRUE, !.force = TRUE, !.args = Large, !.tps = <<2, 1>>],
   [Profiles EXCEPT !.skip_skew = TRUE, !.tps = <<1, 3>>],
   [Profiles EXCEPT !.cmd = "slice"],
   [Profiles EXCEPT !.cmd = "slice", !.tp = 2, !.group = "attention", !.force = TRUE, !.args = Large]}

(* A file of layers is sorted by layer, the others by their keys, skew.csv *)
(* is in the order of a sweep.  A cut leaves nothing, one row, or half of  *)
(* them, or falls in the last.                                             *)
Rank(f, k) == IF f = "skew" THEN Place(k)
              ELSE IF Layered(f) THEN <<IF k[1] \in MCStable THEN 0 ELSE 1, k[2]>> ELSE k
MCBeginnings(f, keys) ==
  LET Ahead(k) == {j \in keys : Precedes(Rank(f, j), Rank(f, k))}
      last == Cardinality(keys) - 1
  IN {b \in {[whole |-> Ahead(k), cut |-> k] : k \in keys} :
        Cardinality(b.whole) \in {0, Min({1, last}), last \div 2, last}}

(* The larger the spread the slower; one case is as slow as its maximum,   *)
(* one maximum is as fast as its mean.                                     *)
MCTiming(tp, c) ==
  LET mean == 10 + c.n * KvMean(c) + c.pc
      max == IF c.skew = Twice THEN mean ELSE 10 + c.n * KvBig(c) + c.pc
  IN [mean |-> mean, max |-> max, skew |-> mean + ((max - mean) * (c.nb + tp)) \div 5]
MCLog(x) == x
MCFallback == 9
=============================================================================
