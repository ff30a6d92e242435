--------------------------- MODULE ProfileGrids ---------------------------
(***************************************************************************)
(* What the profiler fires at the engine: profiler/core/categories.py, the *)
(* cases of skew.py, the shots and their blocks of hooks/batch.py and the  *)
(* limits of engine.py.                                                    *)
(*                                                                         *)
(* A shot is the sequence of its requests <<new tokens, history>> and the  *)
(* number of experts to activate (0: none forced).  An engine is a record  *)
(* of its caps: mnbt (tokens of a batch), msq (requests of a batch), mml   *)
(* (tokens of a request), blocks (of its KV cache), experts and k.         *)
(*                                                                         *)
(* Grid gives the first value of each geometric axis and the steps of the *)
(* token grid, which are literals in the code; a factor is a fraction.     *)
(* Exponents bounds the steps of an axis.                                  *)
(***************************************************************************)
EXTENDS Integers, Sequences, FiniteSetsExt, Functions

CONSTANTS Grid, Layers    \* category -> its layers

Categories == {"dense", "per_sequence", "attention", "moe"}

-----------------------------------------------------------------------------
(* Grids *)
Rounded(n, d) == LET q == n \div d
                     r == 2 * (n % d)
                 IN IF r > d \/ (r = d /\ q % 2 = 1) THEN q + 1 ELSE q
Exponents == 0..12
Geometric(from, max, f) ==
  {v \in from..max : \E e \in Exponents : v = Rounded(from * f[1]^e, f[2]^e)} \cup {max}
GeometricGrid(max, from, f) == {0} \cup IF max < from THEN {} ELSE Geometric(from, max, f)
Doubling(from, max, f) == IF max < from THEN {max} \ {0} ELSE Geometric(from, max, f)
PowerOfTwoGrid(max) == {v \in 1..max : \E e \in Exponents : v = 2^e}

(* _token_grid: coarser the larger the batch; Grid.steps: <<from, step>> *)
StepAt(v) == LET i == Max({j \in DOMAIN Grid.steps : Grid.steps[j][1] <= v}) IN Grid.steps[i]
TokenGrid(max) == {v \in 1..max : v = max \/ (v - StepAt(v)[1]) % StepAt(v)[2] = 0}

-----------------------------------------------------------------------------
(* fuse_engine_kwargs boots the engine with room for msq more tokens than  *)
(* asked for, probe_limits takes them off again.                           *)
FuseEngineKwargs(args, engine) == [engine EXCEPT !.mnbt = args.mnbt + args.msq, !.msq = args.msq]
ProbeLimits(engine) == [engine EXCEPT !.mnbt = @ - engine.msq]
CacheTokens(limits) == limits.blocks * Grid.block
Aligned(tokens) == ((tokens + Grid.block - 1) \div Grid.block) * Grid.block

(* The shots of each category *)
Shot(reqs, experts) == [reqs |-> reqs, experts |-> experts]
Repeat(n, r) == [i \in 1..n |-> r]
DenseShots(limits) ==
  {Shot(<<<<n, 0>>>>, 0) : n \in {m \in TokenGrid(limits.mnbt) :
     Aligned(m) <= CacheTokens(limits) /\ m < limits.mml}}
SequenceShots(limits) ==
  {Shot(Repeat(n, <<1, 0>>), 0) : n \in {m \in TokenGrid(limits.msq) :
     m <= limits.mnbt /\ m * Grid.block <= CacheTokens(limits)}}

(* A point <<chunk, KV of the prefill, decodes, KV of a decode>> *)
AttentionPoints(limits, args) ==
  LET kv == GeometricGrid(Min({args.max_kv, limits.mml}), Grid.kv, args.factor.kv)
  IN GeometricGrid(limits.mnbt, Grid.chunk, args.factor.chunk) \X kv
     \X GeometricGrid(limits.msq, 1, <<2, 1>>) \X kv
OneShape(p) == /\ p[1] = 0 => p[2] = 0
               /\ p[3] = 0 <=> p[4] = 0
               /\ p[1] + p[3] > 0
FeasibleAtKv(p, limits) ==
  /\ p[1] + p[3] <= limits.mnbt + limits.msq
  /\ (IF p[1] > 0 THEN 1 ELSE 0) + p[3] <= limits.msq
  /\ p[1] > 0 => p[1] + p[2] + 1 <= limits.mml
  /\ p[3] > 0 => 1 + p[4] + 1 <= limits.mml
  /\ (IF p[1] > 0 THEN Aligned(p[1] + p[2]) ELSE 0) + p[3] * Aligned(p[4]) <= CacheTokens(limits)
Feasible(p, limits) ==
  /\ p[1] + p[3] <= limits.mnbt + limits.msq
  /\ (IF p[1] > 0 THEN 1 ELSE 0) + p[3] <= limits.msq
  /\ p[1] > 0 => p[1] + p[2] + 1 <= limits.mml
  /\ p[3] > 0 => 1 + p[4] + 1 <= limits.mml
  /\ (IF p[1] > 0 THEN Aligned(p[1] + p[2]) ELSE 0) + p[3] * Aligned(1 + p[4]) <= CacheTokens(limits)
Prefill(chunk, kv) == IF chunk > 0 THEN <<<<chunk, kv>>>> ELSE <<>>
AttentionShot(p) == Shot(Prefill(p[1], p[2]) \o Repeat(p[3], <<1, p[4]>>), 0)
AttentionShots(limits, args) ==
  {AttentionShot(p) : p \in {q \in AttentionPoints(limits, args) : OneShape(q) /\ Feasible(q, limits)}}

ExpertShots(limits) ==
  {Shot(<<<<p[1], 0>>>>, p[2]) :
     p \in {q \in PowerOfTwoGrid(limits.mnbt) \X PowerOfTwoGrid(limits.experts) :
              /\ q[1] < limits.mml
              /\ Aligned(q[1]) <= CacheTokens(limits)
              /\ limits.k <= q[2] /\ q[2] <= q[1] * limits.k}}

ComposeShots(category, limits, args) ==
  CASE category = "dense" -> DenseShots(limits)
    [] category = "per_sequence" -> SequenceShots(limits)
    [] category = "attention" -> AttentionShots(limits, args)
    [] category = "moe" -> ExpertShots(limits)

-----------------------------------------------------------------------------
(* The identity of a shot, read back from its requests *)
NewTokens(reqs) == FoldFunction(LAMBDA r, n : n + r[1], 0, reqs)
Decodes(reqs) == IF reqs[1][1] > 1 THEN Tail(reqs) ELSE reqs
AttentionKey(reqs) ==
  (IF reqs[1][1] > 1 THEN reqs[1] ELSE <<0, 0>>)
  \o <<Len(Decodes(reqs)), IF Decodes(reqs) = <<>> THEN 0 ELSE Decodes(reqs)[1][2]>>
ShotKey(category, shot) ==
  CASE category = "dense" -> <<NewTokens(shot.reqs)>>
    [] category = "per_sequence" -> <<Len(shot.reqs)>>
    [] category = "attention" -> AttentionKey(shot.reqs)
    [] category = "moe" -> <<NewTokens(shot.reqs), shot.experts>>

(* extract_points: the rows of a shot; dense and per_sequence have a row   *)
(* for each layer.                                                         *)
Layered(category) == category \in {"dense", "per_sequence"}
RowKeys(category, shot) ==
  IF Layered(category) THEN {<<l>> \o ShotKey(category, shot) : l \in Layers[category]}
  ELSE {ShotKey(category, shot)}
(* prior_shot_keys: the shots a row may be of *)
PriorShotKeys(category, rows) == IF Layered(category) THEN {<<k[2]>> : k \in rows} ELSE rows

(* assemble_scheduler_output: the blocks given to a shot *)
BlocksOf(r) == IF r[1] + r[2] = 0 THEN 1 ELSE (r[1] + r[2] + Grid.block - 1) \div Grid.block
BlockCursor(reqs) == FoldFunction(LAMBDA r, n : n + BlocksOf(r), 0, reqs)

(* _cycle_expert_ids: the experts forced on each token *)
CycleExpertIds(tokens, k, activated) ==
  [t \in 0..tokens - 1 |-> {(t * k + o) % activated : o \in 0..k - 1}]

-----------------------------------------------------------------------------
(* The cases of the skew sweep: nb of n decodes have skew times the KV kvs *)
(* of the others, beside a chunk of pc tokens on kp.                       *)
Ratios == {<<1, 16>>, <<1, 8>>, <<1, 4>>, <<1, 2>>, <<3, 4>>, <<9, 10>>}
NbAbsolute == 1..4
SkewRep == <<4, 1>>
SkewMixed == {<<3, 2>>, <<2, 1>>, <<4, 1>>, <<8, 1>>, <<16, 1>>}
SkewPure == SkewMixed \ {<<3, 2>>}

BuildGrid(limits, args) ==
  LET top == Max({Grid.kp, args.max_kv \div 2})
      seqs == Doubling(2, Min({args.msq, limits.msq}), args.factor.n)
  IN [n |-> IF seqs = {} THEN {1} ELSE seqs,
      pc |-> {0} \cup Doubling(Grid.pc, args.mnbt, args.factor.pc),
      kp |-> {0} \cup Doubling(Grid.kp, top, args.factor.kp),
      kvs |-> Doubling(Grid.kvs, Max({Grid.kvs_top, args.max_kv}), args.factor.kvs)]

AtMost(n, m) == Min({n, m})
Nb(n, ratio) == Max({1, AtMost(n - 1, Rounded(ratio[1] * n, ratio[2]))})
SkewCase(n, nb, skew, pc, kp, kvs) ==
  [n |-> n, nb |-> nb, skew |-> skew, pc |-> pc, kp |-> kp, kvs |-> kvs]
KvBig(c) == Rounded(c.kvs * c.skew[1], c.skew[2])
KvMean(c) == (c.nb * KvBig(c) + (c.n - c.nb) * c.kvs) \div c.n

SkewFeasible(c, limits, args) ==
  /\ c.pc <= args.mnbt + 1
  /\ {c.kvs, KvBig(c), c.kp} \subseteq 0..args.max_kv + 1
  /\ c.pc + c.n <= args.mnbt + limits.msq
  /\ KvBig(c) + 1 <= limits.mml
  /\ c.pc > 0 => c.pc + c.kp + 1 <= limits.mml
  /\ c.n + (IF c.pc > 0 THEN 1 ELSE 0) <= limits.msq
  /\ Aligned(KvBig(c)) * c.nb + Aligned(c.kvs) * (c.n - c.nb)
     + (IF c.pc > 0 THEN Aligned(c.pc + c.kp) ELSE 0) <= CacheTokens(limits)

(* The first tier is a factorial at one skew, the second varies the skew   *)
(* at a few pivots: the second and third n, the second chunk, the first KV.*)
Tier1(grid) ==
  {SkewCase(n, nb, SkewRep, p[1], p[2], kvs) :
     n \in grid.n, nb \in NbAbsolute \cup UNION {{Nb(n, r) : r \in Ratios} : n \in grid.n},
     p \in {q \in grid.pc \X grid.kp : q[1] = 0 => q[2] = 0}, kvs \in grid.kvs}
OnGrid(c) == c.nb \in {Nb(c.n, r) : r \in Ratios} \cup {m \in NbAbsolute : m < c.n}
At(S, i) == CHOOSE v \in S : Cardinality({w \in S : w <= v}) = AtMost(i, Cardinality(S))
Pivots(grid) ==
  {SkewCase(At(grid.n, i), Nb(At(grid.n, i), <<1, 8>>), skew, At(grid.pc, 2), 0, Min(grid.kvs)) :
     i \in 2..Max({2, AtMost(3, Cardinality(grid.n))}), skew \in SkewMixed}
  \cup {SkewCase(At(grid.n, 2), Nb(At(grid.n, 2), <<1, 2>>), skew, At(grid.pc, 2), 0, Min(grid.kvs)) :
     skew \in {<<3, 2>>, <<2, 1>>, <<4, 1>>}}
  \cup {SkewCase(At(grid.n, 2), Nb(At(grid.n, 2), <<1, 8>>), skew, 0, 0, Min(grid.kvs)) : skew \in SkewPure}
BuildCases(limits, args) ==
  LET grid == BuildGrid(limits, args)
  IN {c \in {t \in Tier1(grid) : OnGrid(t)} \cup Pivots(grid) : SkewFeasible(c, limits, args)}

(* _measure_case: the batch as it is, all at its mean and all at its maximum *)
SkewShot(c) == Shot(Prefill(c.pc, c.kp) \o Repeat(c.nb, <<1, KvBig(c)>>) \o Repeat(c.n - c.nb, <<1, c.kvs>>), 0)
UniformShot(c, kv) == Shot(Prefill(c.pc, c.kp) \o Repeat(c.n, <<1, kv>>), 0)
CaseShots(c) == {UniformShot(c, KvMean(c)), UniformShot(c, KvBig(c)), SkewShot(c)}
=============================================================================
