------------------------- MODULE Deployment_proofs -------------------------
(***************************************************************************)
(* Proofs about Deployment, for every cluster file and all flags: the NPU  *)
(* ids and the network are laid out as the instances are, and every place  *)
(* an instance keeps data in is in the memory file.                        *)
(*                                                                         *)
(* The invariant says what a half-read cluster is (Reading), what the      *)
(* finished one is (Joined), and that its memory file was checked.         *)
(***************************************************************************)
EXTENDS Deployment, Lists_proofs

-----------------------------------------------------------------------------
(* Sums and products of lists *)

(* The folds of the library take the largest index off first.              *)
LEMMA MaxIsTop == \A S : Max(S) = Top(S)
BY DEF Max, Top

(* SeqSum goes through its partial sums.                                   *)
LEMMA SumIs ==
  ASSUME NEW n \in Nat, NEW s \in [1 .. n -> Nat]
  PROVE  \E total \in [0 .. n -> Nat] :
           /\ total[0] = 0
           /\ \A k \in 1 .. n : total[k] = total[k - 1] + s[k]
           /\ SeqSum(s) = total[n]
<1> DEFINE G == [k \in 1 .. n |-> [t \in Nat |-> t + s[k]]]
           P(f) == f = [S \in SUBSET (1 .. n) |-> IF S = {} THEN 0 ELSE f[S \ {Max(S)}] + s[Max(S)]]
           iter == CHOOSE f : P(f)
<1>1. G \in [1 .. n -> [Nat -> Nat]]
  OBVIOUS
<1>2. \A k \in 1 .. n, t \in Nat : G[k][t] = t + s[k]
  OBVIOUS
<1>3. SeqSum(s) = iter[1 .. n]
  <2>1. DOMAIN s = 1 .. n
    OBVIOUS
  <2> QED
    BY <2>1 DEF SeqSum, FoldLeft, MapThenFoldSet
<1>4. \A S \in SUBSET (1 .. n) : S # {} => Top(S) \in S /\ S \ {Top(S)} \in SUBSET (1 .. n)
  BY TopInside
<1> HIDE DEF G
<1>5. P(iter)
  <2>1. PICK g \in [SUBSET (1 .. n) -> Nat] : Folds(g, n, 0, G)
    BY <1>1, FoldExists
  <2>2. \A S \in SUBSET (1 .. n) : g[S] = IF S = {} THEN 0 ELSE g[S \ {Max(S)}] + s[Max(S)]
    BY <1>2, <1>4, <2>1, MaxIsTop DEF Folds
  <2>3. P(g)
    BY <2>2
  <2> QED
    BY <2>3
<1> HIDE DEF iter
<1>6. PICK z \in Nat : z = 0
  OBVIOUS
<1>7. FoldStep(iter, n, z, G, Nat)
  BY <1>2, <1>4, <1>5, <1>6, MaxIsTop DEF FoldStep
<1>8. PICK run \in [0 .. n -> Nat] : FoldRun(run, iter, n, z, G)
  BY <1>1, <1>7, FoldRuns
<1>9. ASSUME NEW k \in 1 .. n
      PROVE  run[k] = run[k - 1] + s[k]
  <2>1. run[k - 1] \in Nat
    OBVIOUS
  <2> QED
    BY <1>2, <1>8, <2>1 DEF FoldRun
<1> QED
  BY <1>3, <1>6, <1>8, <1>9 DEF FoldRun

(* A product goes through its factors likewise.                            *)
LEMMA ProductIs ==
  ASSUME NEW n \in Nat, NEW s \in [1 .. n -> Nat]
  PROVE  \E total \in [0 .. n -> Nat] :
           /\ total[0] = 1
           /\ \A k \in 1 .. n : total[k] = total[k - 1] * s[k]
           /\ Product(s) = total[n]
<1> DEFINE G == [k \in 1 .. n |-> [t \in Nat |-> t * s[k]]]
           P(f) == f = [S \in SUBSET (1 .. n) |-> IF S = {} THEN 1 ELSE f[S \ {Max(S)}] * s[Max(S)]]
           iter == CHOOSE f : P(f)
<1>1. G \in [1 .. n -> [Nat -> Nat]]
  <2>1. \A x, y \in Nat : x * y \in Nat
    OBVIOUS
  <2> QED
    BY <2>1
<1>2. \A k \in 1 .. n, t \in Nat : G[k][t] = t * s[k]
  OBVIOUS
<1>3. Product(s) = iter[1 .. n]
  <2>1. DOMAIN s = 1 .. n
    OBVIOUS
  <2> QED
    BY <2>1 DEF Product, FoldLeft, MapThenFoldSet
<1>4. \A S \in SUBSET (1 .. n) : S # {} => Top(S) \in S /\ S \ {Top(S)} \in SUBSET (1 .. n)
  BY TopInside
<1>5. PICK z \in Nat : z = 1
  OBVIOUS
<1> HIDE DEF G
<1>6. P(iter)
  <2>1. PICK g \in [SUBSET (1 .. n) -> Nat] : Folds(g, n, z, G)
    BY <1>1, FoldExists
  <2>2. \A S \in SUBSET (1 .. n) : g[S] = IF S = {} THEN 1 ELSE g[S \ {Max(S)}] * s[Max(S)]
    BY <1>2, <1>4, <1>5, <2>1, MaxIsTop DEF Folds
  <2>3. P(g)
    BY <2>2
  <2> QED
    BY <2>3
<1> HIDE DEF iter
<1>7. FoldStep(iter, n, z, G, Nat)
  BY <1>2, <1>4, <1>5, <1>6, MaxIsTop DEF FoldStep
<1>8. PICK run \in [0 .. n -> Nat] : FoldRun(run, iter, n, z, G)
  BY <1>1, <1>7, FoldRuns
<1>9. ASSUME NEW k \in 1 .. n
      PROVE  run[k] = run[k - 1] * s[k]
  <2>1. run[k - 1] \in Nat
    OBVIOUS
  <2> QED
    BY <1>2, <1>8, <2>1 DEF FoldRun
<1> QED
  BY <1>3, <1>5, <1>8, <1>9 DEF FoldRun

(* A network of one dimension.                                             *)
LEMMA ProductOfOne ==
  ASSUME NEW a \in Nat
  PROVE  Product(<<a>>) = a
<1>1. PICK n \in Nat : n = 1
  OBVIOUS
<1>2. PICK s \in [1 .. n -> Nat] : s = <<a>>
  <2>1. <<a>> \in [1 .. n -> Nat]
    BY <1>1
  <2> QED
    BY <2>1
<1>3. PICK total \in [0 .. n -> Nat] : /\ total[0] = 1
                                       /\ \A k \in 1 .. n : total[k] = total[k - 1] * s[k]
                                       /\ Product(s) = total[n]
  BY ProductIs
<1>4. total[1] = total[0] * a
  <2>1. 1 \in 1 .. n /\ s[1] = a /\ 1 - 1 = 0
    BY <1>1, <1>2
  <2> QED
    BY <1>3, <2>1
<1> QED
  BY <1>1, <1>2, <1>3, <1>4

(* A network of two dimensions.                                            *)
LEMMA ProductOfTwo ==
  ASSUME NEW a \in Nat, NEW b \in Nat
  PROVE  Product(<<a, b>>) = a * b
<1>1. PICK n \in Nat : n = 2
  OBVIOUS
<1>2. PICK s \in [1 .. n -> Nat] : s = <<a, b>>
  <2>1. <<a, b>> \in [1 .. n -> Nat]
    BY <1>1
  <2> QED
    BY <2>1
<1>3. PICK total \in [0 .. n -> Nat] : /\ total[0] = 1
                                       /\ \A k \in 1 .. n : total[k] = total[k - 1] * s[k]
                                       /\ Product(s) = total[n]
  BY ProductIs
<1>4. total[1] = total[0] * a
  <2>1. 1 \in 1 .. n /\ s[1] = a /\ 1 - 1 = 0
    BY <1>1, <1>2
  <2> QED
    BY <1>3, <2>1
<1>5. total[2] = total[1] * b
  <2>1. 2 \in 1 .. n /\ s[2] = b /\ 2 - 1 = 1
    BY <1>1, <1>2
  <2> QED
    BY <1>3, <2>1
<1> QED
  BY <1>1, <1>2, <1>3, <1>4, <1>5

-----------------------------------------------------------------------------
(* The degrees of parallelism of an instance that passed its checks.       *)
DegreesOk(i) ==
  /\ i.npus \in Nat \ {0} /\ i.tp \in Nat \ {0} /\ i.pp \in Nat \ {0} /\ i.ep \in Nat \ {0}
  /\ i.npus = i.tp * i.pp
  /\ i.ep > i.tp => i.dp # None

(* _resolve_parallelism infers positive degrees that fit together.         *)
LEMMA InstanceDegrees ==
  ASSUME NEW raw, {"npus", "tp", "pp", "ep"} \subseteq DOMAIN raw,
         {raw.npus, raw.tp, raw.pp, raw.ep} \subseteq Int \cup {None},
         ParallelismOk(raw), NEW id, NEW n
  PROVE  DegreesOk(Instance(raw, id, n))
<1> DEFINE r == ResolveParallelism(raw)
<1>1. None \notin Int
  BY InputAssumption
<1>2. /\ r.dp = raw.dp
      /\ r.tp = IF raw.tp # None THEN raw.tp
                ELSE IF raw.npus # None THEN raw.npus \div (IF raw.pp = None THEN 1 ELSE raw.pp) ELSE 1
      /\ r.npus = r.tp * r.pp /\ r.tp >= 1 /\ r.pp >= 1 /\ r.ep >= 1
      /\ r.ep > r.tp => raw.dp # None
  BY DEF ResolveParallelism, ParallelismOk
<1>3. r.pp \in Int
  <2> DEFINE pp0 == IF raw.pp = None THEN 1 ELSE raw.pp
             both == raw.npus # None /\ raw.tp # None
  <2>1. r.pp = IF both /\ raw.npus # raw.tp * pp0 THEN raw.npus \div raw.tp ELSE pp0
    BY DEF ResolveParallelism
  <2>2. pp0 \in Int
    OBVIOUS
  <2>3. CASE both
    <3>1. raw.tp \in Int /\ raw.tp >= 1 /\ raw.npus \in Int
      BY <1>2, <2>3
    <3>2. \A x \in Int, y \in Int : y >= 1 => x \div y \in Int
      OBVIOUS
    <3>3. raw.npus \div raw.tp \in Int
      BY <3>1, <3>2
    <3> QED
      BY <2>1, <2>2, <3>3
  <2>4. CASE ~both
    BY <2>1, <2>2, <2>4
  <2> QED
    BY <2>3, <2>4
<1>4. r.tp \in Int
  <2> DEFINE pp0 == IF raw.pp = None THEN 1 ELSE raw.pp
  <2>1. CASE raw.tp # None
    BY <1>2, <2>1
  <2>2. CASE raw.tp = None
    <3>1. r.pp = pp0
      BY <2>2 DEF ResolveParallelism
    <3>2. pp0 \in Int /\ pp0 >= 1
      BY <1>2, <1>3, <3>1
    <3>3. r.tp = IF raw.npus # None THEN raw.npus \div pp0 ELSE 1
      BY <1>2, <2>2
    <3>4. \A x \in Int, y \in Int : y >= 1 => x \div y \in Int
      OBVIOUS
    <3>5. CASE raw.npus = None
      BY <3>3, <3>5
    <3>6. CASE raw.npus # None
      <4>1. raw.npus \in Int
        BY <3>6
      <4>2. raw.npus \div pp0 \in Int
        BY <3>2, <3>4, <4>1
      <4> QED
        BY <3>3, <3>6, <4>2
    <3> QED
      BY <3>5, <3>6
  <2> QED
    BY <2>1, <2>2
<1>5. r.ep \in Int
  <2>1. r.ep = IF raw.ep # None THEN raw.ep ELSE IF Models[raw.model].experts > 0 THEN r.tp ELSE 1
    BY DEF ResolveParallelism
  <2> HIDE DEF r
  <2> QED
    BY <1>4, <2>1
<1> HIDE DEF r
<1>6. r.npus \in Nat /\ r.npus # 0
  <2>1. \A x, y \in Int : x >= 1 /\ y >= 1 => x * y \in Nat /\ x * y # 0
    OBVIOUS
  <2> QED
    BY <1>2, <1>3, <1>4, <2>1
<1>7. /\ Instance(raw, id, n).npus = r.npus /\ Instance(raw, id, n).tp = r.tp
      /\ Instance(raw, id, n).pp = r.pp /\ Instance(raw, id, n).ep = r.ep
      /\ Instance(raw, id, n).dp = r.dp
  BY DEF Instance, r
<1> QED
  BY <1>2, <1>3, <1>4, <1>5, <1>6, <1>7 DEF DegreesOk

-----------------------------------------------------------------------------
(* Placements *)

(* An entry of a placement says where all kinds of data live.              *)
PlacementComplete(p) ==
  /\ DOMAIN p.default = Kinds
  /\ \A b \in DOMAIN p.block : DOMAIN p.block[b] = Kinds
  /\ \A l \in DOMAIN p.layer : DOMAIN p.layer[l] = Kinds

(* The default names a place for everything; a rule only replaces places.  *)
LEMMA DefaultComplete ==
  ASSUME NEW raw, NEW n
  PROVE  DefaultEntry(raw, n) = [k \in Kinds |-> DefaultEntry(raw, n)[k]]
BY DEF DefaultEntry, Overlay, Kinds

(* So does a block after all the rules that name it.                       *)
LEMMA BlockComplete ==
  ASSUME NEW raw, raw.place.blocks \in Seq(Items(raw.place.blocks)), NEW n, NEW b
  PROVE  DOMAIN BlockEntry(raw, n, b) = Kinds
<1> DEFINE rules == BlockRules(raw)
           all == raw.place.blocks
           applies(r) == b \in ParseBlocks(r.ids, Models[raw.model].layers)
           step(e, r) == IF applies(r) THEN Overlay(e, MemStrs(r.rule, n)) ELSE e
           base == DefaultEntry(raw, n)
<1>1. PICK m \in Nat : DOMAIN rules = 1 .. m
  <2>1. IsFiniteSet(DOMAIN all)
    <3>1. DOMAIN all = 1 .. Len(all) /\ Len(all) \in Nat
      OBVIOUS
    <3> QED
      BY <3>1, FS_Interval
  <2> DEFINE S == {r \in Items(all) : ParseBlocks(r.ids, Models[raw.model].layers) # {}}
             K == {i \in DOMAIN all : all[i] \in S}
  <2>2. Cardinality(K) \in Nat
    <3>1. K \in SUBSET DOMAIN all
      OBVIOUS
    <3> QED
      BY <2>1, <3>1, FS_Subset, FS_CardinalityType
  <2>3. DOMAIN Keep(all, S) = 1 .. Cardinality(K)
    BY DEF Keep
  <2> QED
    BY <2>2, <2>3 DEF BlockRules
<1> DEFINE V == {base[k] : k \in Kinds} \cup UNION {{MemStrs(rules[j].rule, n)[k] : k \in DOMAIN MemStrs(rules[j].rule, n)} : j \in 1 .. m}
           T == [Kinds -> V]
           G == [k \in 1 .. m |-> [t \in T |-> step(t, rules[k])]]
           P(f) == f = [S \in SUBSET (1 .. m) |-> IF S = {} THEN base ELSE step(f[S \ {Max(S)}], rules[Max(S)])]
           iter == CHOOSE f : P(f)
<1>2. base \in T
  BY DefaultComplete
<1>3. BlockEntry(raw, n, b) = iter[1 .. m]
  BY <1>1 DEF BlockEntry, FoldLeft, MapThenFoldSet
<1>4. ASSUME NEW k \in 1 .. m, NEW t \in T
      PROVE  step(t, rules[k]) \in T
  <2> DEFINE M == MemStrs(rules[k].rule, n)
  <2>1. \A j \in DOMAIN M : M[j] \in V
    OBVIOUS
  <2>2. t \in [Kinds -> V]
    OBVIOUS
  <2> HIDE DEF M, V
  <2>3. Overlay(t, M) = [j \in Kinds |-> IF j \in DOMAIN M THEN M[j] ELSE t[j]]
    BY <2>2 DEF Overlay
  <2>4. Overlay(t, M) \in [Kinds -> V]
    BY <2>1, <2>2, <2>3
  <2> QED
    BY <2>2, <2>4 DEF M
<1> HIDE DEF step
<1>5. G \in [1 .. m -> [T -> T]]
  BY <1>4
<1>6. \A k \in 1 .. m, t \in T : G[k][t] = step(t, rules[k])
  OBVIOUS
<1>7. \A S \in SUBSET (1 .. m) : S # {} => Top(S) \in S /\ S \ {Top(S)} \in SUBSET (1 .. m)
  BY TopInside
<1> HIDE DEF G, T, base, rules
<1>8. P(iter)
  <2>1. PICK g \in [SUBSET (1 .. m) -> T] : Folds(g, m, base, G)
    BY <1>2, <1>5, FoldExists
  <2>2. \A S \in SUBSET (1 .. m) : g[S] = IF S = {} THEN base ELSE step(g[S \ {Max(S)}], rules[Max(S)])
    BY <1>6, <1>7, <2>1, MaxIsTop DEF Folds
  <2>3. P(g)
    BY <2>2
  <2> QED
    BY <2>3
<1> HIDE DEF iter
<1>9. FoldStep(iter, m, base, G, T)
  BY <1>6, <1>7, <1>8, MaxIsTop DEF FoldStep
<1>10. PICK run \in [0 .. m -> T] : FoldRun(run, iter, m, base, G)
  BY <1>2, <1>5, <1>9, FoldRuns
<1>11. iter[1 .. m] \in T
  BY <1>10 DEF FoldRun
<1> QED
  BY <1>3, <1>11 DEF T

(* And so do all entries of a placement, layers included.                  *)
LEMMA PlacementIsComplete ==
  ASSUME NEW raw, raw.place.blocks \in Seq(Items(raw.place.blocks)), NEW n
  PROVE  PlacementComplete(Placement(raw, n))
<1>1. \A b : DOMAIN BlockEntry(raw, n, b) = Kinds
  BY BlockComplete
<1>2. DOMAIN DefaultEntry(raw, n) = Kinds
  <2>1. DOMAIN [k \in Kinds |-> DefaultEntry(raw, n)[k]] = Kinds
    OBVIOUS
  <2> QED
    BY <2>1, DefaultComplete
<1>3. \A g : DOMAIN Overlay(DefaultEntry(raw, n), g) = Kinds
  BY <1>2 DEF Overlay
<1> QED
  BY <1>1, <1>2, <1>3 DEF PlacementComplete, Placement

(* ... and the memory file has every device an entry names, so wherever    *)
(* get_device looks it finds one.                                          *)
LEMMA ServedFromFile ==
  ASSUME NEW places, NEW memory, MemoryOk(places, memory),
         NEW i \in DOMAIN places, PlacementComplete(places[i]), NEW kind \in Kinds, NEW b, NEW l
  PROVE  LET loc == GetDevice(places[i], b, l, kind)
         IN loc \in Allowed(memory) \/ loc[1] = "LOCAL"
<1> DEFINE p == places[i]
           entry == IF l \in DOMAIN p.layer THEN p.layer[l]
                    ELSE IF b \in DOMAIN p.block THEN p.block[b] ELSE p.default
<1>1. GetDevice(p, b, l, kind) = entry[kind]
  BY DEF GetDevice
<1>2. EntryOk(entry, memory) /\ DOMAIN entry = Kinds
  BY DEF MemoryOk, PlacementComplete
<1> QED
  BY <1>1, <1>2 DEF EntryOk

-----------------------------------------------------------------------------
(* Reading the nodes *)

(* One entry per instance in every list, NPUs in runs without a gap.       *)
Runs(c) ==
  /\ c.insts = <<>> => c.npu2inst = <<>>
  /\ c.insts # <<>> => c.inst2npu[1] = 0
  /\ \A k \in DOMAIN c.insts :
       c.inst2npu[k] + EffectiveNpus(c.insts[k]) =
         IF k = Len(c.insts) THEN Len(c.npu2inst) ELSE c.inst2npu[k + 1]
Owners(c) ==
  /\ \A x \in DOMAIN c.npu2inst : c.npu2inst[x] \in DOMAIN c.insts
  /\ \A k \in DOMAIN c.insts :
       {x \in DOMAIN c.npu2inst : c.npu2inst[x] = k} =
         (c.inst2npu[k] + 1) .. (c.inst2npu[k] + EffectiveNpus(c.insts[k]))
EndsKnown(c) ==
  \A k \in DOMAIN c.insts : EffectiveNpus(c.insts[k]) > 1 =>
    c.inst2npu[k] + EffectiveNpus(c.insts[k]) - 1 \in Range(c.ends)
LaidOut(c) ==
  /\ DOMAIN c.inst2npu = DOMAIN c.insts /\ DOMAIN c.placement = DOMAIN c.insts
  /\ c.starts = c.inst2npu
  /\ \A k \in DOMAIN c.insts : DegreesOk(c.insts[k]) /\ PlacementComplete(c.placement[k])
  /\ Runs(c) /\ Owners(c) /\ EndsKnown(c)

(* What c can become while instances from R are added to it.               *)
CpuOf(raw) == IF raw.cpu = None THEN None ELSE raw.cpu.size
InstancesOf(R) == {Instance(raw, id, n) : raw \in R, id \in Nat, n \in Nat}
PlacementsOf(R) == {Placement(raw, n) : raw \in R, n \in Nat}
CpusOf(R) == {CpuOf(raw) : raw \in R}
Extensions(c, R) ==
  [insts : Seq(InstancesOf(R)),
   npu2inst : Seq(Nat), inst2npu : Seq(Nat), starts : Seq(Nat), ends : Seq(Nat),
   cpu : {c.cpu}, inst_cpu : Seq(CpusOf(R)),
   placement : Seq(PlacementsOf(R)),
   power_npus : {c.power_npus}, tiers : {c.tiers},
   total_npu : {c.total_npu}, dims : {c.dims}, memory : {c.memory}]

(* An instance that the reader of the file accepts.                        *)
Accepted(raw) ==
  /\ {"npus", "tp", "pp", "ep"} \subseteq DOMAIN raw
  /\ {raw.npus, raw.tp, raw.pp, raw.ep} \subseteq Int \cup {None}
  /\ raw.place.blocks \in Seq(Items(raw.place.blocks))
  /\ InstanceOk(raw)

Fields == {"insts", "npu2inst", "inst2npu", "starts", "ends", "cpu", "inst_cpu", "placement",
           "power_npus", "tiers", "total_npu", "dims", "memory"}
Shaped(c) == c = [f \in Fields |-> c[f]]

(* The members of Extensions, field by field.                              *)
LEMMA ExtensionsAre ==
  ASSUME NEW c, NEW R, NEW d
  PROVE  d \in Extensions(c, R) <=>
           /\ Shaped(d)
           /\ d.insts \in Seq(InstancesOf(R))
           /\ d.npu2inst \in Seq(Nat) /\ d.inst2npu \in Seq(Nat)
           /\ d.starts \in Seq(Nat) /\ d.ends \in Seq(Nat)
           /\ d.inst_cpu \in Seq(CpusOf(R))
           /\ d.placement \in Seq(PlacementsOf(R))
           /\ d.cpu = c.cpu /\ d.power_npus = c.power_npus /\ d.tiers = c.tiers
           /\ d.total_npu = c.total_npu /\ d.dims = c.dims /\ d.memory = c.memory
BY DEF Extensions, Shaped, Fields

(* e is d with one more instance i, placed by p.                            *)
Grown(d, e, i, p) ==
  /\ e.insts = Append(d.insts, i)
  /\ e.npu2inst = d.npu2inst \o [j \in 1 .. EffectiveNpus(i) |-> Len(d.insts) + 1]
  /\ e.inst2npu = Append(d.inst2npu, Len(d.npu2inst)) /\ e.starts = Append(d.starts, Len(d.npu2inst))
  /\ e.ends = IF EffectiveNpus(i) > 1 THEN Append(d.ends, Len(d.npu2inst) + EffectiveNpus(i) - 1) ELSE d.ends
  /\ e.placement = Append(d.placement, p)

(* What AddInstance does, field by field.                                  *)
LEMMA AddedFields ==
  ASSUME NEW d, Shaped(d), NEW raw, NEW n
  PROVE  LET e == AddInstance(d, raw, n)
         IN  /\ Shaped(e)
             /\ Grown(d, e, Instance(raw, Len(d.insts) + 1, n), Placement(raw, n))
             /\ e.inst_cpu = Append(d.inst_cpu, CpuOf(raw))
             /\ e.cpu = d.cpu /\ e.power_npus = d.power_npus /\ e.tiers = d.tiers
             /\ e.total_npu = d.total_npu /\ e.dims = d.dims /\ e.memory = d.memory
<1> DEFINE i == Instance(raw, Len(d.insts) + 1, n)
           first == Len(d.npu2inst)
           owned == d.npu2inst \o [j \in 1 .. EffectiveNpus(i) |-> i.id]
           ends == IF EffectiveNpus(i) > 1 THEN Append(d.ends, first + EffectiveNpus(i) - 1) ELSE d.ends
           c1 == [d EXCEPT !.npu2inst = owned]
           c2 == [c1 EXCEPT !.inst2npu = Append(d.inst2npu, first)]
           c3 == [c2 EXCEPT !.starts = Append(d.starts, first)]
           c4 == [c3 EXCEPT !.ends = ends]
           c5 == [c4 EXCEPT !.insts = Append(d.insts, i)]
           c6 == [c5 EXCEPT !.inst_cpu = Append(d.inst_cpu, CpuOf(raw))]
           c7 == [c6 EXCEPT !.placement = Append(d.placement, Placement(raw, n))]
<1>1. i.id = Len(d.insts) + 1
  BY DEF Instance
<1>2. TakeNpus(d, i) = c4
  BY DEF TakeNpus
<1>3. AddInstance(d, raw, n) = [c4 EXCEPT !.insts = Append(@, i), !.inst_cpu = Append(@, CpuOf(raw)),
                                          !.placement = Append(@, Placement(raw, n))]
  BY <1>2 DEF AddInstance, CpuOf
<1> HIDE DEF i, owned, ends
<1>4. /\ Shaped(c1) /\ c1.npu2inst = owned
      /\ \A g \in Fields \ {"npu2inst"} : c1[g] = d[g]
  BY DEF Shaped, Fields
<1> HIDE DEF c1
<1>5. /\ Shaped(c2) /\ c2.inst2npu = Append(d.inst2npu, first)
      /\ \A g \in Fields \ {"inst2npu"} : c2[g] = c1[g]
  BY <1>4 DEF Shaped, Fields
<1> HIDE DEF c2
<1>6. /\ Shaped(c3) /\ c3.starts = Append(d.starts, first)
      /\ \A g \in Fields \ {"starts"} : c3[g] = c2[g]
  BY <1>5 DEF Shaped, Fields
<1> HIDE DEF c3
<1>7. /\ Shaped(c4) /\ c4.ends = ends
      /\ \A g \in Fields \ {"ends"} : c4[g] = c3[g]
  BY <1>6 DEF Shaped, Fields
<1> HIDE DEF c4
<1>8. /\ Shaped(c5) /\ c5.insts = Append(d.insts, i)
      /\ \A g \in Fields \ {"insts"} : c5[g] = c4[g]
  BY <1>7 DEF Shaped, Fields
<1>9. AddInstance(d, raw, n) = c7
  <2>1. c4.insts = d.insts /\ c4.inst_cpu = d.inst_cpu /\ c4.placement = d.placement
    BY <1>4, <1>5, <1>6, <1>7 DEF Fields
  <2> QED
    BY <1>3, <2>1
<1> HIDE DEF c5
<1>10. /\ Shaped(c6) /\ c6.inst_cpu = Append(d.inst_cpu, CpuOf(raw))
       /\ \A g \in Fields \ {"inst_cpu"} : c6[g] = c5[g]
  BY <1>8 DEF Shaped, Fields
<1> HIDE DEF c6
<1>11. /\ Shaped(c7) /\ c7.placement = Append(d.placement, Placement(raw, n))
       /\ \A g \in Fields \ {"placement"} : c7[g] = c6[g]
  BY <1>10 DEF Shaped, Fields
<1> HIDE DEF c7
<1>12. owned = d.npu2inst \o [j \in 1 .. EffectiveNpus(i) |-> Len(d.insts) + 1]
  BY <1>1 DEF owned
<1>13. /\ c7.insts = Append(d.insts, i) /\ c7.npu2inst = owned
       /\ c7.inst2npu = Append(d.inst2npu, first) /\ c7.starts = Append(d.starts, first)
       /\ c7.ends = ends
  BY <1>4, <1>5, <1>6, <1>7, <1>8, <1>10, <1>11 DEF Fields
<1>14. /\ c7.inst_cpu = Append(d.inst_cpu, CpuOf(raw))
       /\ c7.placement = Append(d.placement, Placement(raw, n))
       /\ c7.cpu = d.cpu /\ c7.power_npus = d.power_npus /\ c7.tiers = d.tiers
       /\ c7.total_npu = d.total_npu /\ c7.dims = d.dims /\ c7.memory = d.memory
  BY <1>4, <1>5, <1>6, <1>7, <1>8, <1>10, <1>11 DEF Fields
<1>15. ends = IF EffectiveNpus(i) > 1 THEN Append(d.ends, first + EffectiveNpus(i) - 1) ELSE d.ends
  BY DEF ends
<1> HIDE DEF c7
<1>16. Grown(d, c7, i, Placement(raw, n))
  BY <1>12, <1>13, <1>14, <1>15 DEF Grown
<1> QED
  BY <1>9, <1>11, <1>14, <1>16 DEF i

(* An instance has NPUs and stages.                                        *)
LEMMA EffectivePositive ==
  ASSUME NEW i, DegreesOk(i)
  PROVE  EffectiveNpus(i) \in Nat \ {0} /\ EffectivePp(i) \in Nat \ {0}
<1>1. i.npus \in Nat \ {0} /\ i.pp \in Nat \ {0}
  BY DEF DegreesOk
<1> QED
  BY <1>1 DEF EffectiveNpus, EffectivePp

InstanceLists(d, A, B) ==
  /\ d.insts \in Seq(A) /\ d.npu2inst \in Seq(Nat) /\ d.inst2npu \in Seq(Nat) /\ d.ends \in Seq(Nat)
  /\ d.placement \in Seq(B)

(* One more instance keeps the layout: its ids follow the last.            *)
LEMMA LaidOutStep ==
  ASSUME NEW d, NEW e, LaidOut(d), NEW i, DegreesOk(i), NEW p, PlacementComplete(p),
         NEW A, NEW B, InstanceLists(d, A, B), Grown(d, e, i, p)
  PROVE  LaidOut(e)
<1> DEFINE m == Len(d.insts)
           L == Len(d.npu2inst)
           E == EffectiveNpus(i)
<1>1. m \in Nat /\ L \in Nat /\ DOMAIN d.insts = 1 .. m /\ DOMAIN d.npu2inst = 1 .. L
  BY DEF InstanceLists
<1>2. E \in Nat /\ E # 0
  BY EffectivePositive
<1>3. /\ DOMAIN e.insts = 1 .. m + 1 /\ e.insts[m + 1] = i /\ Len(e.insts) = m + 1
      /\ \A k \in 1 .. m : e.insts[k] = d.insts[k]
  BY DEF InstanceLists, Grown
<1>4. /\ DOMAIN e.inst2npu = 1 .. m + 1 /\ e.inst2npu[m + 1] = L
      /\ \A k \in 1 .. m : e.inst2npu[k] = d.inst2npu[k] /\ d.inst2npu[k] \in Nat
  <2>1. DOMAIN d.inst2npu = 1 .. m /\ Len(d.inst2npu) = m
    BY <1>1 DEF LaidOut, InstanceLists
  <2> QED
    BY <2>1 DEF InstanceLists, Grown
<1>5. /\ DOMAIN e.placement = 1 .. m + 1 /\ e.placement[m + 1] = p
      /\ \A k \in 1 .. m : e.placement[k] = d.placement[k]
  <2>1. DOMAIN d.placement = 1 .. m /\ Len(d.placement) = m
    BY <1>1 DEF LaidOut, InstanceLists
  <2> QED
    BY <2>1 DEF InstanceLists, Grown
<1>6. /\ DOMAIN e.npu2inst = 1 .. L + E /\ Len(e.npu2inst) = L + E
      /\ \A x \in 1 .. L : e.npu2inst[x] = d.npu2inst[x]
      /\ \A x \in L + 1 .. L + E : e.npu2inst[x] = m + 1
  <2> DEFINE t == [j \in 1 .. E |-> m + 1]
             old == d.npu2inst
  <2>1. e.npu2inst = old \o t
    BY DEF Grown
  <2>2. old \in Seq(Nat) /\ Len(old) = L
    BY DEF InstanceLists
  <2> HIDE DEF E, m, L, old
  <2>3. t \in Seq(Nat) /\ Len(t) = E /\ \A j \in 1 .. E : t[j] = m + 1
    BY <1>1, <1>2
  <2> HIDE DEF t
  <2>4. /\ DOMAIN (old \o t) = 1 .. L + E /\ Len(old \o t) = L + E
        /\ \A x \in 1 .. L + E : (old \o t)[x] = IF x <= L THEN old[x] ELSE t[x - L]
    <3>1. PICK N : N = Nat
      OBVIOUS
    <3>2. old \in Seq(N) /\ t \in Seq(N)
      BY <2>2, <2>3, <3>1
    <3>3. /\ old \o t \in Seq(N) /\ Len(old \o t) = Len(old) + Len(t)
          /\ \A x \in 1 .. Len(old) + Len(t) :
               (old \o t)[x] = IF x <= Len(old) THEN old[x] ELSE t[x - Len(old)]
      BY <3>2, ConcatProperties
    <3>4. DOMAIN (old \o t) = 1 .. Len(old \o t)
      BY <3>3
    <3> QED
      BY <2>2, <2>3, <3>3, <3>4
  <2>5. \A x \in L + 1 .. L + E : x \in 1 .. L + E /\ ~ (x <= L) /\ x - L \in 1 .. E
    BY <1>1, <1>2
  <2>6. \A x \in 1 .. L : x \in 1 .. L + E /\ x <= L
    BY <1>1, <1>2
  <2>7. \A x \in 1 .. L : e.npu2inst[x] = old[x]
    BY <2>1, <2>4, <2>6
  <2>8. \A x \in L + 1 .. L + E : e.npu2inst[x] = m + 1
    BY <2>1, <2>3, <2>4, <2>5
  <2> QED
    BY <2>1, <2>4, <2>7, <2>8 DEF old
<1>7. E > 1 => L + E - 1 \in Range(e.ends)
  <2> SUFFICES ASSUME E > 1
               PROVE  L + E - 1 \in Range(e.ends)
    OBVIOUS
  <2> DEFINE w == L + E - 1
  <2>1. e.ends = Append(d.ends, w)
    BY DEF Grown
  <2>2. d.ends \in Seq(Nat)
    BY DEF InstanceLists
  <2> HIDE DEF L, E, w
  <2>3. e.ends[Len(d.ends) + 1] = w /\ Len(d.ends) + 1 \in DOMAIN e.ends
    BY <2>1, <2>2
  <2>4. w \in Range(e.ends)
    BY <2>3 DEF Range
  <2> QED
    BY <2>4 DEF w
<1>8. Range(d.ends) \subseteq Range(e.ends)
  <2> DEFINE w == L + E - 1
  <2>1. e.ends = Append(d.ends, w) \/ e.ends = d.ends
    BY DEF Grown
  <2>2. d.ends \in Seq(Nat)
    BY DEF InstanceLists
  <2> HIDE DEF L, E, w
  <2>3. \A x \in DOMAIN d.ends : x \in DOMAIN e.ends /\ e.ends[x] = d.ends[x]
    <3>1. CASE e.ends = d.ends
      BY <3>1
    <3>2. CASE e.ends = Append(d.ends, w)
      BY <2>2, <3>2
    <3> QED
      BY <2>1, <3>1, <3>2
  <2> QED
    BY <2>3 DEF Range
<1>9. e.starts = e.inst2npu
  BY DEF LaidOut, Grown
<1> HIDE DEF m, L, E
<1>10. ASSUME NEW k \in 1 .. m
       PROVE  /\ EffectiveNpus(d.insts[k]) \in Nat
              /\ EffectiveNpus(e.insts[k]) = EffectiveNpus(d.insts[k])
  <2>1. DegreesOk(d.insts[k])
    BY <1>1 DEF LaidOut
  <2> QED
    BY <1>3, <2>1, EffectivePositive
<1>11. EffectiveNpus(e.insts[m + 1]) = E
  BY <1>3 DEF E
<1>12. Runs(e)
  <2>1. e.insts # <<>> /\ e.inst2npu[1] = 0
    <3>1. CASE m = 0
      <4>1. d.insts = <<>> /\ L = 0
        BY <1>1, <3>1 DEF LaidOut, Runs, m, L
      <4> QED
        BY <1>3, <1>4, <3>1, <4>1
    <3>2. CASE m # 0
      <4>1. 1 \in 1 .. m /\ d.insts # <<>>
        BY <1>1, <3>2
      <4> QED
        BY <1>1, <1>3, <1>4, <4>1 DEF LaidOut, Runs
    <3> QED
      BY <3>1, <3>2
  <2>2. ASSUME NEW k \in 1 .. m
        PROVE  e.inst2npu[k] + EffectiveNpus(e.insts[k]) = e.inst2npu[k + 1]
    <3>1. d.inst2npu[k] + EffectiveNpus(d.insts[k]) = IF k = m THEN L ELSE d.inst2npu[k + 1]
      BY <1>1 DEF LaidOut, Runs, m, L
    <3>2. CASE k = m
      BY <1>4, <1>10, <3>1, <3>2
    <3>3. CASE k # m
      <4>1. k + 1 \in 1 .. m
        BY <1>1, <3>3
      <4> QED
        BY <1>4, <1>10, <3>1, <3>3, <4>1
    <3> QED
      BY <3>2, <3>3
  <2>3. e.inst2npu[m + 1] + EffectiveNpus(e.insts[m + 1]) = Len(e.npu2inst)
    BY <1>4, <1>6, <1>11
  <2>4. \A k \in DOMAIN e.insts : e.inst2npu[k] + EffectiveNpus(e.insts[k]) =
          IF k = Len(e.insts) THEN Len(e.npu2inst) ELSE e.inst2npu[k + 1]
    BY <1>1, <1>3, <2>2, <2>3
  <2> QED
    BY <2>1, <2>4 DEF Runs
<1>13. Owners(e)
  <2>1. \A x \in 1 .. L : d.npu2inst[x] \in 1 .. m
    BY <1>1 DEF LaidOut, Owners
  <2>2. \A x \in DOMAIN e.npu2inst : e.npu2inst[x] \in DOMAIN e.insts
    BY <1>1, <1>2, <1>3, <1>6, <2>1
  <2>3. ASSUME NEW k \in 1 .. m
        PROVE  {x \in DOMAIN e.npu2inst : e.npu2inst[x] = k} =
                 (e.inst2npu[k] + 1) .. (e.inst2npu[k] + EffectiveNpus(e.insts[k]))
    <3>1. {x \in 1 .. L : d.npu2inst[x] = k} =
            (d.inst2npu[k] + 1) .. (d.inst2npu[k] + EffectiveNpus(d.insts[k]))
      BY <1>1 DEF LaidOut, Owners
    <3>2. {x \in DOMAIN e.npu2inst : e.npu2inst[x] = k} = {x \in 1 .. L : d.npu2inst[x] = k}
      <4>1. \A x \in DOMAIN e.npu2inst : x \notin 1 .. L => e.npu2inst[x] = m + 1
        BY <1>1, <1>2, <1>6
      <4>2. \A x \in 1 .. L : x \in DOMAIN e.npu2inst
        BY <1>1, <1>2, <1>6
      <4>3. k # m + 1
        BY <1>1
      <4> QED
        BY <1>6, <4>1, <4>2, <4>3
    <3> QED
      BY <1>4, <1>10, <3>1, <3>2
  <2>4. {x \in DOMAIN e.npu2inst : e.npu2inst[x] = m + 1} =
          (e.inst2npu[m + 1] + 1) .. (e.inst2npu[m + 1] + EffectiveNpus(e.insts[m + 1]))
    <3>1. ASSUME NEW x \in DOMAIN e.npu2inst
          PROVE  e.npu2inst[x] = m + 1 <=> x \in L + 1 .. L + E
      <4>1. CASE x \in 1 .. L
        <5>1. e.npu2inst[x] # m + 1
          BY <1>1, <1>6, <2>1, <4>1
        <5>2. x \notin L + 1 .. L + E
          BY <1>1, <4>1
        <5> QED
          BY <5>1, <5>2
      <4>2. CASE x \notin 1 .. L
        <5>1. x \in L + 1 .. L + E
          BY <1>1, <1>2, <1>6, <4>2
        <5> QED
          BY <1>6, <5>1
      <4> QED
        BY <4>1, <4>2
    <3>2. L + 1 .. L + E \subseteq DOMAIN e.npu2inst
      BY <1>1, <1>2, <1>6
    <3>3. {x \in DOMAIN e.npu2inst : e.npu2inst[x] = m + 1} = L + 1 .. L + E
      BY <3>1, <3>2
    <3> QED
      BY <1>4, <1>11, <3>3
  <2>5. \A k \in DOMAIN e.insts : k \in 1 .. m \/ k = m + 1
    BY <1>1, <1>3
  <2> QED
    BY <2>2, <2>3, <2>4, <2>5 DEF Owners
<1>14. EndsKnown(e)
  <2>1. ASSUME NEW k \in 1 .. m, EffectiveNpus(e.insts[k]) > 1
        PROVE  e.inst2npu[k] + EffectiveNpus(e.insts[k]) - 1 \in Range(e.ends)
    <3>1. d.inst2npu[k] + EffectiveNpus(d.insts[k]) - 1 \in Range(d.ends)
      BY <1>1, <1>10, <2>1 DEF LaidOut, EndsKnown
    <3> QED
      BY <1>4, <1>8, <1>10, <3>1
  <2>2. \A k \in DOMAIN e.insts : k \in 1 .. m \/ k = m + 1
    BY <1>1, <1>3
  <2> QED
    BY <1>4, <1>7, <1>11, <2>1, <2>2 DEF EndsKnown
<1>15. \A k \in DOMAIN e.insts : DegreesOk(e.insts[k]) /\ PlacementComplete(e.placement[k])
  <2>1. \A k \in 1 .. m : DegreesOk(d.insts[k]) /\ PlacementComplete(d.placement[k])
    BY <1>1 DEF LaidOut
  <2> QED
    BY <1>1, <1>3, <1>5, <2>1
<1> QED
  BY <1>3, <1>4, <1>5, <1>9, <1>12, <1>13, <1>14, <1>15 DEF LaidOut

(* Reading one instance of the file.                                       *)
LEMMA AddInstanceStep ==
  ASSUME NEW c, NEW R, NEW d \in Extensions(c, R), LaidOut(d), NEW raw \in R, Accepted(raw), NEW n \in Nat
  PROVE  AddInstance(d, raw, n) \in Extensions(c, R) /\ LaidOut(AddInstance(d, raw, n))
<1> DEFINE i == Instance(raw, Len(d.insts) + 1, n)
           e == AddInstance(d, raw, n)
           p == Placement(raw, n)
<1>1. /\ Shaped(d) /\ d.insts \in Seq(InstancesOf(R)) /\ d.npu2inst \in Seq(Nat) /\ d.inst2npu \in Seq(Nat)
      /\ d.starts \in Seq(Nat) /\ d.ends \in Seq(Nat) /\ d.inst_cpu \in Seq(CpusOf(R)) /\ d.placement \in Seq(PlacementsOf(R))
      /\ d.cpu = c.cpu /\ d.power_npus = c.power_npus /\ d.tiers = c.tiers
      /\ d.total_npu = c.total_npu /\ d.dims = c.dims /\ d.memory = c.memory
  BY ExtensionsAre
<1>2. /\ Shaped(e) /\ Grown(d, e, i, p) /\ e.inst_cpu = Append(d.inst_cpu, CpuOf(raw))
      /\ e.cpu = d.cpu /\ e.power_npus = d.power_npus /\ e.tiers = d.tiers
      /\ e.total_npu = d.total_npu /\ e.dims = d.dims /\ e.memory = d.memory
  <2>1. Shaped(d)
    BY <1>1
  <2> QED
    BY <2>1, AddedFields
<1>3. i \in InstancesOf(R) /\ p \in PlacementsOf(R) /\ CpuOf(raw) \in CpusOf(R)
  <2>1. PICK id \in Nat : id = Len(d.insts) + 1
    BY <1>1
  <2>2. Instance(raw, id, n) \in InstancesOf(R)
    BY DEF InstancesOf
  <2>3. p \in PlacementsOf(R)
    BY DEF PlacementsOf
  <2>4. CpuOf(raw) \in CpusOf(R)
    BY DEF CpusOf
  <2> QED
    BY <2>1, <2>2, <2>3, <2>4
<1>4. DegreesOk(i)
  BY InstanceDegrees DEF Accepted, InstanceOk
<1>5. PlacementComplete(p)
  BY PlacementIsComplete DEF Accepted
<1> HIDE DEF i, e, p
<1>6. InstanceLists(d, InstancesOf(R), PlacementsOf(R))
  BY <1>1 DEF InstanceLists
<1>7. LaidOut(e)
  BY <1>2, <1>4, <1>5, <1>6, LaidOutStep
<1>8. EffectiveNpus(i) \in Nat /\ EffectiveNpus(i) # 0
  BY <1>4, EffectivePositive
<1>9. /\ e.insts \in Seq(InstancesOf(R)) /\ e.inst_cpu \in Seq(CpusOf(R)) /\ e.placement \in Seq(PlacementsOf(R))
      /\ e.inst2npu \in Seq(Nat) /\ e.starts \in Seq(Nat)
  BY <1>1, <1>2, <1>3 DEF Grown
<1>10. e.npu2inst \in Seq(Nat)
  <2>1. [j \in 1 .. EffectiveNpus(i) |-> Len(d.insts) + 1] \in Seq(Nat)
    <3>1. PICK w \in Nat, x \in Nat : w = EffectiveNpus(i) /\ x = Len(d.insts) + 1
      BY <1>1, <1>8
    <3>2. [j \in 1 .. w |-> x] \in Seq(Nat)
      OBVIOUS
    <3> QED
      BY <3>1, <3>2
  <2> QED
    BY <1>1, <1>2, <2>1 DEF Grown
<1>11. e.ends \in Seq(Nat)
  <2>1. Len(d.npu2inst) + EffectiveNpus(i) - 1 \in Nat
    BY <1>1, <1>8
  <2>2. PICK w \in Nat : w = Len(d.npu2inst) + EffectiveNpus(i) - 1
    BY <2>1
  <2>3. e.ends = Append(d.ends, w) \/ e.ends = d.ends
    BY <1>2, <2>2 DEF Grown
  <2>4. Append(d.ends, w) \in Seq(Nat)
    BY <1>1
  <2> QED
    BY <1>1, <2>3, <2>4
<1>12. e \in Extensions(c, R)
  BY <1>1, <1>2, <1>9, <1>10, <1>11, ExtensionsAre 
<1> QED
  BY <1>7, <1>12 DEF e

(* A node's instances are added one by one.                                *)
LEMMA AddInstancesKeeps ==
  ASSUME NEW c, NEW R, c \in Extensions(c, R), LaidOut(c), NEW n \in Nat,
         NEW raws \in Seq(R), \A k \in DOMAIN raws : Accepted(raws[k])
  PROVE  /\ AddInstances(c, raws, n) \in Extensions(c, R)
         /\ LaidOut(AddInstances(c, raws, n))
<1> DEFINE m == Len(raws)
           T == {d \in Extensions(c, R) : LaidOut(d)}
           G == [k \in 1 .. m |-> [t \in T |-> AddInstance(t, raws[k], n)]]
           P(f) == f = [S \in SUBSET (1 .. m) |-> IF S = {} THEN c ELSE AddInstance(f[S \ {Max(S)}], raws[Max(S)], n)]
           iter == CHOOSE f : P(f)
<1>1. m \in Nat /\ DOMAIN raws = 1 .. m /\ \A k \in 1 .. m : raws[k] \in R /\ Accepted(raws[k])
  OBVIOUS
<1>2. c \in T
  OBVIOUS
<1>3. AddInstances(c, raws, n) = iter[1 .. m]
  BY <1>1 DEF AddInstances, FoldLeft, MapThenFoldSet
<1>4. \A k \in 1 .. m : \A t \in T : AddInstance(t, raws[k], n) \in T
  BY <1>1, AddInstanceStep
<1>5. G \in [1 .. m -> [T -> T]]
  <2> HIDE DEF T
  <2> QED
    BY <1>4
<1>6. \A k \in 1 .. m, t \in T : G[k][t] = AddInstance(t, raws[k], n)
  OBVIOUS
<1>7. \A S \in SUBSET (1 .. m) : S # {} => Top(S) \in S /\ S \ {Top(S)} \in SUBSET (1 .. m)
  BY <1>1, TopInside
<1> HIDE DEF G, T, m
<1>8. P(iter)
  <2>1. PICK g \in [SUBSET (1 .. m) -> T] : Folds(g, m, c, G)
    BY <1>1, <1>2, <1>5, FoldExists
  <2>2. \A S \in SUBSET (1 .. m) : g[S] = IF S = {} THEN c ELSE AddInstance(g[S \ {Max(S)}], raws[Max(S)], n)
    BY <1>6, <1>7, <2>1, MaxIsTop DEF Folds
  <2>3. P(g)
    BY <2>2
  <2> QED
    BY <2>3
<1> HIDE DEF iter
<1>9. FoldStep(iter, m, c, G, T)
  BY <1>6, <1>7, <1>8, MaxIsTop DEF FoldStep
<1>10. PICK run \in [0 .. m -> T] : FoldRun(run, iter, m, c, G)
  BY <1>1, <1>2, <1>5, <1>9, FoldRuns
<1>11. iter[1 .. m] \in T
  BY <1>1, <1>10 DEF FoldRun
<1> QED
  BY <1>3, <1>11 DEF T

-----------------------------------------------------------------------------
(* The instances together *)

(* What _compute_network_dims and _resolve_dp_groups read of an instance.  *)
SameDegrees(i, j) ==
  /\ i.npus = j.npus /\ i.tp = j.tp /\ i.pp = j.pp /\ i.ep = j.ep /\ i.dp = j.dp /\ i.pd = j.pd
ManyAlike(is, js) ==
  /\ DOMAIN is = DOMAIN js /\ Len(is) = Len(js)
  /\ \A k \in DOMAIN is : SameDegrees(is[k], js[k])

Grouped(is) == {k \in DOMAIN is : is[k].dp # None}

(* The first instance of a group, when there is a group.                   *)
LEMMA FirstGrouped ==
  ASSUME NEW n \in Nat, NEW is, DOMAIN is = 1 .. n, Groups(is) # {}
  PROVE  Min(Grouped(is)) \in Grouped(is)
<1>1. IsFiniteSet(1 .. n) /\ Grouped(is) \in SUBSET (1 .. n)
  BY FS_Interval DEF Grouped
<1>2. IsFiniteSet(Grouped(is))
  BY <1>1, FS_Subset
<1>3. Grouped(is) \subseteq Int /\ Grouped(is) # {}
  BY <1>1 DEF Grouped, Groups
<1>4. PICK y \in Grouped(is) : \A x \in Grouped(is) : y =< x
  BY <1>2, <1>3, Extremes
<1> QED
  BY <1>4 DEF Min

(* Instances alike have the same totals and groups, ...                    *)
LEMMA AlikeTotals ==
  ASSUME NEW is, NEW js, ManyAlike(is, js)
  PROVE  /\ SeqMap(EffectiveNpus, is) = SeqMap(EffectiveNpus, js)
         /\ SeqMap(EffectivePp, is) = SeqMap(EffectivePp, js)
         /\ Groups(is) = Groups(js) /\ Grouped(is) = Grouped(js)
         /\ \A g : Members(is, g) = Members(js, g)
<1>1. DOMAIN is = DOMAIN js /\ \A k \in DOMAIN is : SameDegrees(is[k], js[k])
  BY DEF ManyAlike
<1>2. \A k \in DOMAIN is : /\ EffectiveNpus(is[k]) = EffectiveNpus(js[k])
                           /\ EffectivePp(is[k]) = EffectivePp(js[k])
                           /\ is[k].dp = js[k].dp
  BY <1>1 DEF SameDegrees, EffectiveNpus, EffectivePp
<1>3. SeqMap(EffectiveNpus, is) = SeqMap(EffectiveNpus, js)
  BY <1>1, <1>2 DEF SeqMap
<1>4. SeqMap(EffectivePp, is) = SeqMap(EffectivePp, js)
  BY <1>1, <1>2 DEF SeqMap
<1>5. Groups(is) = Groups(js) /\ Grouped(is) = Grouped(js)
  BY <1>1, <1>2 DEF Groups, Grouped
<1>6. \A g : Members(is, g) = Members(js, g)
  BY <1>1, <1>2 DEF Members
<1> QED
  BY <1>3, <1>4, <1>5, <1>6

(* ... the same network dimensions ...                                     *)
LEMMA AlikeDims ==
  ASSUME NEW n \in Nat, NEW is, DOMAIN is = 1 .. n, NEW js, ManyAlike(is, js)
  PROVE  NetworkDims(is) = NetworkDims(js)
<1> DEFINE dims(s, pres, first) ==
             IF Groups(s) # {} THEN <<first.tp, Cardinality(Members(s, first.dp))>>
             ELSE IF SeqSum(SeqMap(EffectiveNpus, s)) = SeqSum(SeqMap(EffectivePp, s))
                  THEN <<SeqSum(SeqMap(EffectiveNpus, s)) \div (Len(s) + Cardinality(pres)), Len(s) + Cardinality(pres)>>
             ELSE <<SeqSum(SeqMap(EffectiveNpus, s)) \div SeqSum(SeqMap(EffectivePp, s)), SeqSum(SeqMap(EffectivePp, s))>>
           pre(s) == {k \in DOMAIN s : s[k].pd = "prefill"}
<1>1. \A s : NetworkDims(s) = LET d == dims(s, pre(s), s[Min(Grouped(s))])
                              IN  IF d[2] = 1 THEN <<d[1]>> ELSE d
  BY DEF NetworkDims, FirstMember, Grouped
<1>2. pre(is) = pre(js) /\ Len(is) = Len(js)
  BY DEF ManyAlike, SameDegrees
<1>3. Groups(is) # {} => LET i == is[Min(Grouped(is))]
                             j == js[Min(Grouped(js))]
                         IN  i.tp = j.tp /\ i.dp = j.dp
  <2> HAVE Groups(is) # {}
  <2>1. Min(Grouped(is)) \in Grouped(is)
    BY FirstGrouped
  <2>2. Min(Grouped(is)) \in DOMAIN is /\ Grouped(js) = Grouped(is)
    BY <2>1, AlikeTotals DEF Grouped
  <2> QED
    BY <2>2 DEF ManyAlike, SameDegrees
<1>4. dims(is, pre(is), is[Min(Grouped(is))]) = dims(js, pre(js), js[Min(Grouped(js))])
  <2> HIDE DEF pre
  <2> QED
    BY <1>2, <1>3, AlikeTotals
<1> HIDE DEF dims, pre
<1> QED
  BY <1>1, <1>4

(* ... and pass the same checks.                                           *)
LEMMA AlikeGroups ==
  ASSUME NEW is, NEW js, ManyAlike(is, js)
  PROVE  GroupsOk(is) <=> GroupsOk(js)
<1>1. \A g : Members(is, g) = Members(js, g) /\ Members(is, g) \subseteq DOMAIN is
  BY AlikeTotals DEF Members
<1>2. \A k \in DOMAIN is : is[k].tp = js[k].tp /\ is[k].ep = js[k].ep
  BY DEF ManyAlike, SameDegrees
<1>3. \A g : GroupOk(is, g) <=> GroupOk(js, g)
  BY <1>1, <1>2 DEF GroupOk
<1> QED
  BY <1>3, AlikeTotals DEF GroupsOk

(* An instance keeps what it had when its group is resolved.               *)
LEMMA MergedFields ==
  ASSUME NEW is, NEW i, {"npus", "tp", "pp", "ep", "dp", "pd"} \subseteq DOMAIN i
  PROVE  LET g == ResolveGroup(is, i)
             r == Updated(i, g)
         IN  /\ SameDegrees(r, i)
             /\ r.group_size = g.group_size /\ r.tp_dim = g.tp_dim /\ r.ep_dim = g.ep_dim
<1> DEFINE g == ResolveGroup(is, i)
           r == Updated(i, g)
<1>1. DOMAIN g = {"group_size", "local_ep", "ep_total", "tp_dim", "ep_dim"}
  BY DEF ResolveGroup
<1> HIDE DEF g
<1>2. r = [f \in DOMAIN i \cup DOMAIN g |-> IF f \in DOMAIN g THEN g[f] ELSE i[f]]
  BY DEF Updated
<1> QED
  BY <1>1, <1>2 DEF SameDegrees, g

-----------------------------------------------------------------------------
(* The dimensions of the network *)

(* Division undoes a product.                                              *)
LEMMA DivOfProduct ==
  ASSUME NEW x \in Nat, NEW y \in Nat \ {0}
  PROVE  (x * y) \div y = x
<1>1. PICK z \in Nat : z = x * y
  <2>1. \A u, v \in Nat : u * v \in Nat
    OBVIOUS
  <2> QED
    BY <2>1
<1>2. PICK q \in Nat : q = z \div y /\ y * q <= z /\ z < y * q + y
  <2>1. y * (z \div y) <= z /\ z < y * (z \div y) + y /\ z \div y \in Nat
    OBVIOUS
  <2> QED
    BY <2>1
<1>3. q < x + 1
  <2>1. y * q <= y * x
    BY <1>1, <1>2
  <2>2. q >= x + 1 => y * q >= y * (x + 1)
    OBVIOUS
  <2>3. y * (x + 1) = y * x + y
    OBVIOUS
  <2> QED
    BY <2>1, <2>2, <2>3
<1>4. x < q + 1
  <2>1. y * x < y * (q + 1)
    BY <1>1, <1>2
  <2>2. x >= q + 1 => y * x >= y * (q + 1)
    OBVIOUS
  <2> QED
    BY <2>1, <2>2
<1> QED
  BY <1>1, <1>2, <1>3, <1>4

(* How many instances have been counted after k of them, a prefill         *)
(* instance twice.                                                         *)
Prefills(is, k) == {j \in 1 .. k : is[j].pd = "prefill"}
Count(is, k) == k + Cardinality(Prefills(is, k))

(* One more instance counts once, or twice when it prefills.               *)
LEMMA CountGrows ==
  ASSUME NEW is, NEW k \in Nat
  PROVE  /\ Count(is, 0) = 0 /\ Count(is, k) \in Nat /\ Count(is, k) >= k
         /\ Count(is, k + 1) = Count(is, k) + IF is[k + 1].pd = "prefill" THEN 2 ELSE 1
<1>1. IsFiniteSet(Prefills(is, k)) /\ Cardinality(Prefills(is, k)) \in Nat
  <2>1. Prefills(is, k) \in SUBSET (1 .. k) /\ IsFiniteSet(1 .. k)
    BY FS_Interval DEF Prefills
  <2> QED
    BY <2>1, FS_Subset, FS_CardinalityType
<1>2. Prefills(is, 0) = {}
  BY DEF Prefills
<1>3. Count(is, 0) = 0
  BY <1>2, FS_EmptySet DEF Count
<1>4. CASE is[k + 1].pd = "prefill"
  <2>1. Prefills(is, k + 1) = Prefills(is, k) \cup {k + 1} /\ k + 1 \notin Prefills(is, k)
    BY <1>4 DEF Prefills
  <2>2. Cardinality(Prefills(is, k + 1)) = Cardinality(Prefills(is, k)) + 1
    BY <1>1, <2>1, FS_AddElement
  <2> QED
    BY <1>1, <1>3, <1>4, <2>2 DEF Count
<1>5. CASE is[k + 1].pd # "prefill"
  <2>1. Prefills(is, k + 1) = Prefills(is, k)
    BY <1>5 DEF Prefills
  <2> QED
    BY <1>1, <1>3, <1>5, <2>1 DEF Count
<1> QED
  BY <1>4, <1>5

(* n instances of tp times pp NPUs, all in one group or none in any.       *)
Uniform(is, n, t, p, g) ==
  /\ DOMAIN is = 1 .. n /\ Len(is) = n
  /\ \A k \in 1 .. n : DegreesOk(is[k]) /\ is[k].tp = t /\ is[k].pp = p /\ is[k].dp = g
  /\ g # None => p = 1 /\ \A k \in 1 .. n : is[k].pd # "prefill"

(* What the NPUs and the stages of such instances add up to.               *)
LEMMA UniformTotals ==
  ASSUME NEW n \in Nat \ {0}, NEW t \in Nat \ {0}, NEW p \in Nat \ {0}, NEW g, NEW is, Uniform(is, n, t, p, g)
  PROVE  /\ SeqSum(SeqMap(EffectivePp, is)) = p * Count(is, n)
         /\ SeqSum(SeqMap(EffectiveNpus, is)) = t * (p * Count(is, n))
<1> DEFINE pps == SeqMap(EffectivePp, is)
           npus == SeqMap(EffectiveNpus, is)
           one(k) == IF is[k].pd = "prefill" THEN 2 ELSE 1
<1>1. \A k \in 1 .. n : pps[k] = p * one(k) /\ npus[k] = t * (p * one(k))
  <2> SUFFICES ASSUME NEW k \in 1 .. n
               PROVE  pps[k] = p * one(k) /\ npus[k] = t * (p * one(k))
    OBVIOUS
  <2>1. pps[k] = EffectivePp(is[k]) /\ npus[k] = EffectiveNpus(is[k])
    BY DEF Uniform, SeqMap
  <2>2. is[k].pp = p /\ is[k].npus = t * p
    BY DEF Uniform, DegreesOk
  <2>3. 2 * (t * p) = t * (p * 2) /\ t * p = t * (p * 1) /\ 2 * p = p * 2 /\ p = p * 1
    OBVIOUS
  <2> QED
    BY <2>1, <2>2, <2>3 DEF EffectivePp, EffectiveNpus
<1>2. pps \in [1 .. n -> Nat] /\ npus \in [1 .. n -> Nat]
  <2>1. \A k \in 1 .. n : EffectivePp(is[k]) \in Nat /\ EffectiveNpus(is[k]) \in Nat
    BY EffectivePositive DEF Uniform
  <2> QED
    BY <2>1 DEF Uniform, SeqMap
<1> HIDE DEF pps, npus
<1>3. PICK P \in [0 .. n -> Nat] : /\ P[0] = 0
                                   /\ \A k \in 1 .. n : P[k] = P[k - 1] + pps[k]
                                   /\ SeqSum(pps) = P[n]
  BY <1>2, SumIs
<1>4. PICK N \in [0 .. n -> Nat] : /\ N[0] = 0
                                   /\ \A k \in 1 .. n : N[k] = N[k - 1] + npus[k]
                                   /\ SeqSum(npus) = N[n]
  BY <1>2, SumIs
<1> DEFINE C == [k \in 0 .. n |-> p * Count(is, k)]
           D == [k \in 0 .. n |-> t * (p * Count(is, k))]
<1>5. \A k \in 1 .. n : Count(is, k) = Count(is, k - 1) + one(k) /\ Count(is, k - 1) \in Nat
  <2> SUFFICES ASSUME NEW k \in 1 .. n
               PROVE  Count(is, k) = Count(is, k - 1) + one(k) /\ Count(is, k - 1) \in Nat
    OBVIOUS
  <2>1. PICK j \in Nat : j = k - 1
    OBVIOUS
  <2>2. j + 1 = k
    BY <2>1
  <2>3. Count(is, j + 1) = Count(is, j) + (IF is[j + 1].pd = "prefill" THEN 2 ELSE 1) /\ Count(is, j) \in Nat
    BY CountGrows
  <2> QED
    BY <2>1, <2>2, <2>3
<1>6. \A k \in 1 .. n : one(k) \in Nat
  OBVIOUS
<1> HIDE DEF one
<1>7. \A k \in 1 .. n : C[k] = C[k - 1] + p * one(k) /\ D[k] = D[k - 1] + t * (p * one(k))
  <2> SUFFICES ASSUME NEW k \in 1 .. n
               PROVE  C[k] = C[k - 1] + p * one(k) /\ D[k] = D[k - 1] + t * (p * one(k))
    OBVIOUS
  <2>1. k - 1 \in 0 .. n /\ k \in 0 .. n
    OBVIOUS
  <2>2. PICK a \in Nat, b \in Nat : a = Count(is, k - 1) /\ b = one(k)
    BY <1>5, <1>6
  <2>3. Count(is, k) = a + b
    BY <1>5, <2>2
  <2>4. PICK x \in Nat, y \in Nat : x = p * a /\ y = p * b
    <3>1. \A u, v \in Nat : u * v \in Nat
      OBVIOUS
    <3> QED
      BY <3>1
  <2>5. p * (a + b) = x + y
    BY <2>4
  <2>6. t * (x + y) = t * x + t * y
    OBVIOUS
  <2>7. C[k] = x + y /\ C[k - 1] = x /\ D[k] = t * (x + y) /\ D[k - 1] = t * x
    BY <2>1, <2>2, <2>3, <2>4, <2>5
  <2> QED
    BY <2>2, <2>4, <2>6, <2>7
<1>8. C[0] = 0 /\ D[0] = 0
  <2>1. 0 \in 0 .. n /\ Count(is, 0) = 0 /\ p * 0 = 0 /\ t * (p * 0) = 0
    BY CountGrows
  <2> QED
    BY <2>1
<1> HIDE DEF C, D
<1>9. P[n] = C[n]
  <2>1. P[0] = C[0]
    BY <1>3, <1>8
  <2>2. \A k \in 1 .. n : P[k - 1] = C[k - 1] => P[k] = C[k]
    BY <1>1, <1>3, <1>7
  <2>3. n \in Nat /\ GrowTogether(P, C, n)
    BY <2>1, <2>2 DEF GrowTogether
  <2> QED
    BY <2>3, GrowAlike
<1>10. N[n] = D[n]
  <2>1. N[0] = D[0]
    BY <1>4, <1>8
  <2>2. \A k \in 1 .. n : N[k - 1] = D[k - 1] => N[k] = D[k]
    <3> SUFFICES ASSUME NEW k \in 1 .. n, N[k - 1] = D[k - 1]
                 PROVE  N[k] = D[k]
      OBVIOUS
    <3>1. N[k] = N[k - 1] + npus[k] /\ npus[k] = t * (p * one(k))
      BY <1>1, <1>4
    <3>2. D[k] = D[k - 1] + t * (p * one(k))
      BY <1>7
    <3> QED
      BY <3>1, <3>2
  <2>3. n \in Nat /\ GrowTogether(N, D, n)
    BY <2>1, <2>2 DEF GrowTogether
  <2> QED
    BY <2>3, GrowAlike
<1> QED
  BY <1>3, <1>4, <1>9, <1>10 DEF C, D, pps, npus

(* The network of such instances has exactly their NPUs, and its first     *)
(* dimension is their TP group wherever one is used.                       *)
MadeFor(dims, total, n, t, g) ==
  \E a, b \in Nat \ {0} :
    /\ a * b = total
    /\ dims = IF b = 1 THEN <<a>> ELSE <<a, b>>
    /\ t > 1 \/ g # None => a = t
    /\ g # None => b = n

LEMMA UniformDims ==
  ASSUME NEW n \in Nat \ {0}, NEW t \in Nat \ {0}, NEW p \in Nat \ {0}, NEW g, NEW is, Uniform(is, n, t, p, g)
  PROVE  MadeFor(NetworkDims(is), SeqSum(SeqMap(EffectiveNpus, is)), n, t, g)
<1> DEFINE npus == SeqSum(SeqMap(EffectiveNpus, is))
           pps == SeqSum(SeqMap(EffectivePp, is))
           first == FirstMember(is)
           dims == IF Groups(is) # {} THEN <<first.tp, Cardinality(Members(is, first.dp))>>
                   ELSE IF npus = pps THEN <<npus \div Count(is, n), Count(is, n)>>
                   ELSE <<npus \div pps, pps>>
<1>1. PICK c \in Nat \ {0} : c = Count(is, n)
  BY CountGrows
<1>2. PICK pc \in Nat \ {0} : pc = p * c
  <2>1. \A x, y \in Nat \ {0} : x * y \in Nat \ {0}
    OBVIOUS
  <2> QED
    BY <2>1
<1>3. pps = pc /\ npus = t * pc
  BY <1>1, <1>2, UniformTotals
<1>4. NetworkDims(is) = IF dims[2] = 1 THEN <<dims[1]>> ELSE dims
  <2>1. Len(is) + Cardinality({k \in DOMAIN is : is[k].pd = "prefill"}) = Count(is, n)
    BY DEF Count, Prefills, Uniform
  <2> QED
    BY <2>1 DEF NetworkDims
<1> HIDE DEF npus, pps
<1>5. CASE g # None
  <2>1. Groups(is) # {}
    <3>1. 1 \in DOMAIN is /\ is[1].dp = g
      BY DEF Uniform
    <3> QED
      BY <1>5, <3>1 DEF Groups
  <2>2. first.tp = t /\ first.dp = g
    <3>1. DOMAIN is = 1 .. n
      BY DEF Uniform
    <3>2. Min(Grouped(is)) \in Grouped(is)
      BY <2>1, <3>1, FirstGrouped
    <3>3. first = is[Min(Grouped(is))] /\ Min(Grouped(is)) \in 1 .. n
      BY <3>1, <3>2 DEF Grouped, FirstMember
    <3> QED
      BY <3>3 DEF Uniform
  <2>3. Cardinality(Members(is, g)) = n
    <3>1. Members(is, g) = 1 .. n
      BY DEF Members, Uniform
    <3> QED
      BY <3>1, IntervalSize
  <2>4. dims = <<t, n>>
    BY <2>1, <2>2, <2>3
  <2>5. c = n /\ p = 1
    <3>1. Prefills(is, n) = {}
      BY <1>5 DEF Prefills, Uniform
    <3>2. c = n
      BY <1>1, <3>1, FS_EmptySet DEF Count
    <3> QED
      BY <1>5, <3>2 DEF Uniform
  <2>6. npus = t * n
    BY <1>2, <1>3, <2>5
  <2> HIDE DEF dims
  <2>7. NetworkDims(is) = IF n = 1 THEN <<t>> ELSE <<t, n>>
    BY <1>4, <2>4
  <2> QED
    BY <2>6, <2>7 DEF MadeFor, npus
<1>6. CASE g = None
  <2>1. Groups(is) = {}
    BY <1>6 DEF Groups, Uniform
  <2>2. CASE npus = pps
    <3>1. t = 1
      <4>1. t >= 2 => t * pc >= 2 * pc
        OBVIOUS
      <4> QED
        BY <1>3, <2>2, <4>1
    <3>2. npus = p * c
      BY <1>2, <1>3, <2>2
    <3>3. npus \div Count(is, n) = p
      BY <1>1, <3>2, DivOfProduct
    <3>4. dims = <<p, c>>
      BY <1>1, <2>1, <2>2, <3>3
    <3> HIDE DEF dims
    <3>5. NetworkDims(is) = IF c = 1 THEN <<p>> ELSE <<p, c>>
      BY <1>4, <3>4
    <3> QED
      BY <1>6, <3>1, <3>2, <3>5 DEF MadeFor, npus
  <2>3. CASE npus # pps
    <3>1. npus \div pps = t
      BY <1>3, DivOfProduct
    <3>2. dims = <<t, pc>>
      BY <1>3, <2>1, <2>3, <3>1
    <3> HIDE DEF dims
    <3>3. NetworkDims(is) = IF pc = 1 THEN <<t>> ELSE <<t, pc>>
      BY <1>4, <3>2
    <3> QED
      BY <1>3, <1>6, <3>3 DEF MadeFor, npus
  <2> QED
    BY <2>2, <2>3
<1> QED
  BY <1>5, <1>6

(* NPUs a collective over some dimensions reaches.                         *)
LEMMA SpanOfOne ==
  ASSUME NEW a \in Nat, NEW x \in BOOLEAN, NEW y \in BOOLEAN, x \/ y
  PROVE  Span(<<a>>, None) = a /\ Span(<<a>>, <<x, y>>) = IF x THEN a ELSE 1
<1>1. <<x, y>> # None
  BY InputAssumption
<1>2. Span(<<a>>, None) = Product(<<a>>)
  BY DEF Span
<1>3. Span(<<a>>, <<x, y>>) = Product(<<IF x THEN a ELSE 1>>)
  BY <1>1 DEF Span
<1> QED
  BY <1>2, <1>3, ProductOfOne

LEMMA SpanOfTwo ==
  ASSUME NEW a \in Nat, NEW b \in Nat, NEW x \in BOOLEAN, NEW y \in BOOLEAN, x \/ y
  PROVE  Span(<<a, b>>, <<x, y>>) = (IF x THEN a ELSE 1) * (IF y THEN b ELSE 1)
<1>1. <<x, y>> # None
  BY InputAssumption
<1>2. Span(<<a, b>>, <<x, y>>) = Product(<<IF x THEN a ELSE 1, IF y THEN b ELSE 1>>)
  BY <1>1 DEF Span
<1>3. (IF x THEN a ELSE 1) \in Nat /\ (IF y THEN b ELSE 1) \in Nat
  OBVIOUS
<1> QED
  BY <1>2, <1>3, ProductOfTwo

(* What _resolve_dp_groups writes into an instance whose group has n       *)
(* members, and what it has checked of the group before.                   *)
GroupResolved(i, n, local) ==
  /\ i.group_size = IF i.dp = None THEN 1 ELSE n
  /\ i.tp_dim = IF i.dp = None THEN local ELSE <<TRUE, FALSE>>
  /\ i.ep_dim = IF i.dp # None THEN (IF i.ep <= i.tp THEN <<TRUE, FALSE>> ELSE <<i.tp > 1, TRUE>>)
                ELSE IF i.ep > 1 THEN local ELSE None
  /\ i.dp # None => Divides(n, i.ep) /\ i.ep \div n <= i.tp

(* A collective of the instance reaches the ranks that share a layer.      *)
Reaches(dims, i) ==
  /\ i.tp > 1 => Span(dims, i.tp_dim) = i.tp
  /\ i.ep > 1 => Span(dims, i.ep_dim) >= i.ep /\ Span(dims, i.ep_dim) <= i.tp * i.group_size

LEMMA SpansFit ==
  ASSUME NEW dims, NEW total, NEW n \in Nat \ {0}, NEW i, DegreesOk(i), MadeFor(dims, total, n, i.tp, i.dp),
         NEW local, local = <<TRUE, FALSE>> \/ local = None, local = None => Len(dims) = 1,
         GroupResolved(i, n, local)
  PROVE  Product(dims) = total /\ Reaches(dims, i)
<1>1. PICK a \in Nat \ {0}, b \in Nat \ {0} : /\ a * b = total
                                              /\ dims = IF b = 1 THEN <<a>> ELSE <<a, b>>
                                              /\ i.tp > 1 \/ i.dp # None => a = i.tp
                                              /\ i.dp # None => b = n
  BY DEF MadeFor
<1>2. PICK t \in Nat \ {0}, e \in Nat \ {0} : t = i.tp /\ e = i.ep /\ (e > t => i.dp # None)
  BY DEF DegreesOk
<1>3. Product(dims) = total
  <2>1. a * 1 = a
    OBVIOUS
  <2> QED
    BY <1>1, <2>1, ProductOfOne, ProductOfTwo
<1>4. Span(dims, <<TRUE, FALSE>>) = a
  <2>1. a * 1 = a
    OBVIOUS
  <2>2. Span(<<a>>, <<TRUE, FALSE>>) = a
    BY SpanOfOne
  <2>3. Span(<<a, b>>, <<TRUE, FALSE>>) = a * 1
    BY SpanOfTwo
  <2> QED
    BY <1>1, <2>1, <2>2, <2>3
<1>5. Span(dims, local) = a
  <2>1. CASE local = None
    <3>1. b = 1
      BY <1>1, <2>1
    <3> QED
      BY <1>1, <2>1, <3>1, SpanOfOne
  <2> QED
    BY <1>4, <2>1
<1>6. i.tp > 1 => Span(dims, i.tp_dim) = i.tp
  BY <1>1, <1>4, <1>5 DEF GroupResolved
<1>7. ASSUME e > 1
      PROVE  Span(dims, i.ep_dim) >= e /\ Span(dims, i.ep_dim) <= t * i.group_size
  <2>1. CASE i.dp = None
    <3>1. t > 1 /\ e <= t
      BY <1>2, <1>7, <2>1
    <3>2. i.ep_dim = local /\ i.group_size = 1 /\ t * 1 = t
      BY <1>2, <1>7, <2>1 DEF GroupResolved
    <3> QED
      BY <1>1, <1>2, <1>5, <3>1, <3>2
  <2>2. CASE i.dp # None /\ e <= t
    <3>1. i.ep_dim = <<TRUE, FALSE>> /\ i.group_size = n /\ a = t
      BY <1>1, <1>2, <2>2 DEF GroupResolved
    <3>2. t <= t * n
      OBVIOUS
    <3> QED
      BY <1>4, <2>2, <3>1, <3>2
  <2>3. CASE i.dp # None /\ e > t
    <3>1. /\ i.group_size = n /\ a = t /\ b = n
          /\ e % n = 0 /\ e \div n <= t
      BY <1>1, <1>2, <2>3 DEF GroupResolved, Divides
    <3>2. e <= t * n
      <4>1. PICK q \in Nat : q = e \div n /\ e = n * q
        <5>1. e = n * (e \div n) + (e % n) /\ e \div n \in Nat
          OBVIOUS
        <5> QED
          BY <3>1, <5>1
      <4>2. q <= t => n * q <= n * t
        OBVIOUS
      <4>3. n * t = t * n
        OBVIOUS
      <4> QED
        BY <3>1, <4>1, <4>2, <4>3
    <3>3. n # 1
      <4>1. t * 1 = t
        OBVIOUS
      <4> QED
        BY <2>3, <3>2, <4>1
    <3>4. PICK x \in BOOLEAN : i.ep_dim = <<x, TRUE>> /\ (x <=> t > 1)
      <4>1. CASE t > 1
        <5>1. (i.tp > 1) = TRUE /\ ~(i.ep <= i.tp)
          BY <1>2, <2>3, <4>1
        <5>2. i.ep_dim = <<TRUE, TRUE>>
          BY <2>3, <5>1 DEF GroupResolved
        <5> QED
          BY <4>1, <5>2
      <4>2. CASE ~(t > 1)
        <5>1. (i.tp > 1) = FALSE /\ ~(i.ep <= i.tp)
          BY <1>2, <2>3, <4>2
        <5>2. i.ep_dim = <<FALSE, TRUE>>
          BY <2>3, <5>1 DEF GroupResolved
        <5> QED
          BY <4>2, <5>2
      <4> QED
        BY <4>1, <4>2
    <3>5. dims = <<t, n>>
      BY <1>1, <3>1, <3>3
    <3>6. Span(<<t, n>>, <<x, TRUE>>) = (IF x THEN t ELSE 1) * n
      <4>1. PICK y \in BOOLEAN : y = TRUE
        OBVIOUS
      <4>2. x \/ y
        BY <4>1
      <4>3. Span(<<t, n>>, <<x, y>>) = (IF x THEN t ELSE 1) * (IF y THEN n ELSE 1)
        BY <4>2, SpanOfTwo
      <4> QED
        BY <4>1, <4>3
    <3>7. (IF x THEN t ELSE 1) = t
      <4>1. t > 1 \/ t = 1
        OBVIOUS
      <4>2. CASE t > 1
        <5>1. x = TRUE
          BY <3>4, <4>2
        <5> QED
          BY <5>1
      <4>3. CASE t = 1
        BY <4>3
      <4> QED
        BY <4>1, <4>2, <4>3
    <3>8. Span(dims, i.ep_dim) = t * n
      BY <3>4, <3>5, <3>6, <3>7
    <3> QED
      BY <3>1, <3>2, <3>8
  <2> QED
    BY <2>1, <2>2, <2>3
<1> QED
  BY <1>2, <1>3, <1>6, <1>7 DEF Reaches

-----------------------------------------------------------------------------
(* The inductive invariant *)

RawsOf(f) == UNION {Range(f.nodes[n].insts) : n \in DOMAIN f.nodes}
CpuSizes(f) == {NodeCpu(f.nodes[n]) : n \in DOMAIN f.nodes}

(* While the file is read.                                                 *)
Reading(c, f) ==
  /\ c \in Extensions(c, RawsOf(f))
  /\ c.cpu \in Seq(CpuSizes(f))
  /\ LaidOut(c)

(* The cluster the program runs with.                                      *)
Resolved(is, k) ==
  LET g == ResolveGroup(is, is[k])
  IN  is[k].group_size = g.group_size /\ is[k].tp_dim = g.tp_dim /\ is[k].ep_dim = g.ep_dim
Finite(c) ==
  /\ \E n \in Nat \ {0} : DOMAIN c.insts = 1 .. n /\ Len(c.insts) = n
  /\ c.npu2inst \in Seq(Nat) /\ c.inst2npu \in Seq(Nat)
Joined(c) ==
  /\ Finite(c) /\ LaidOut(c)
  /\ c.total_npu = SeqSum(SeqMap(EffectiveNpus, c.insts))
  /\ c.dims = NetworkDims(c.insts)
  /\ \A k \in DOMAIN c.insts : Resolved(c.insts, k)
  /\ GroupsOk(c.insts)

DeploymentInv ==
  /\ input \in Inputs
  /\ "processes" \in DOMAIN deploy
  /\ phase \in {"file", "nodes"} => Reading(cluster, file)
  /\ phase \in {"built", "runtime", "pools", "schedulers", "running"} =>
       Joined(cluster) /\ MemoryOk(cluster.placement, cluster.memory)
  /\ phase = "running" => deploy.processes = Processes

-----------------------------------------------------------------------------
(* Its steps *)

(* Before the first node.                                                  *)
LEMMA ReadingEmpty ==
  ASSUME NEW f
  PROVE  Reading(EmptyCluster, f)
<1> DEFINE c == EmptyCluster
<1>1. /\ Shaped(c) /\ c.insts = <<>> /\ c.npu2inst = <<>> /\ c.inst2npu = <<>> /\ c.starts = <<>>
      /\ c.ends = <<>> /\ c.inst_cpu = <<>> /\ c.placement = <<>> /\ c.cpu = <<>>
  BY DEF EmptyCluster, Shaped, Fields
<1> HIDE DEF c
<1>2. \A S : <<>> \in Seq(S)
  OBVIOUS
<1>3. c \in Extensions(c, RawsOf(f))
  <2>1. PICK R, N : R = RawsOf(f) /\ N = Nat
    OBVIOUS
  <2>2. /\ <<>> \in Seq(N) /\ <<>> \in Seq(InstancesOf(R))
        /\ <<>> \in Seq(CpusOf(R)) /\ <<>> \in Seq(PlacementsOf(R))
    BY <1>2
  <2> QED
    BY <1>1, <2>1, <2>2, ExtensionsAre
<1>4. DOMAIN <<>> = {}
  OBVIOUS
<1>5. LaidOut(c)
  BY <1>1, <1>4 DEF LaidOut, Runs, Owners, EndsKnown
<1> QED
  BY <1>1, <1>2, <1>3, <1>5 DEF Reading, c

(* LaidOut reads these fields only.                                        *)
SameLayout(c, d) ==
  /\ c.npu2inst = d.npu2inst /\ c.inst2npu = d.inst2npu /\ c.starts = d.starts /\ c.ends = d.ends
  /\ c.placement = d.placement

(* What AddNode does to the fields the invariant speaks of.                *)
LEMMA AddNodeFields ==
  ASSUME NEW c, NEW nd, NEW n, NEW R, AddInstances(c, nd.insts, n) \in Extensions(c, R)
  PROVE  LET d == AddInstances(c, nd.insts, n)
             e == AddNode(c, nd, n)
         IN  /\ Shaped(e) /\ SameLayout(d, e) /\ e.insts = d.insts /\ e.inst_cpu = d.inst_cpu
             /\ e.cpu = Append(c.cpu, NodeCpu(nd))
<1> DEFINE d == AddInstances(c, nd.insts, n)
           e == AddNode(c, nd, n)
           cpu == Append(d.cpu, NodeCpu(nd))
           tiers == [t \in DOMAIN d.tiers |-> Append(d.tiers[t], nd.tiers[t])]
           power == IF PowerModeling THEN Append(d.power_npus, PowerNpus(nd)) ELSE d.power_npus
           d1 == [d EXCEPT !.cpu = cpu]
           d2 == [d1 EXCEPT !.tiers = tiers]
           d3 == [d2 EXCEPT !.power_npus = power]
<1>1. Shaped(d) /\ d.cpu = c.cpu
  BY ExtensionsAre
<1>2. e = [d EXCEPT !.cpu = cpu, !.tiers = tiers, !.power_npus = power]
  BY DEF AddNode
<1>3. e = d3
  BY <1>2
<1> HIDE DEF d, e, cpu, tiers, power
<1>4. /\ Shaped(d1) /\ d1.cpu = cpu
      /\ \A g \in Fields \ {"cpu"} : d1[g] = d[g]
  BY <1>1 DEF Shaped, Fields
<1> HIDE DEF d1
<1>5. /\ Shaped(d2) /\ \A g \in Fields \ {"tiers"} : d2[g] = d1[g]
  BY <1>4 DEF Shaped, Fields
<1> HIDE DEF d2
<1>6. /\ Shaped(d3) /\ \A g \in Fields \ {"power_npus"} : d3[g] = d2[g]
  BY <1>5 DEF Shaped, Fields
<1> HIDE DEF d3
<1>7. SameLayout(d, d3)
  BY <1>4, <1>5, <1>6 DEF Fields, SameLayout
<1>8. d3.insts = d.insts /\ d3.inst_cpu = d.inst_cpu /\ d3.cpu = cpu
  BY <1>4, <1>5, <1>6 DEF Fields
<1>9. cpu = Append(c.cpu, NodeCpu(nd))
  BY <1>1 DEF cpu
<1> QED
  BY <1>3, <1>6, <1>7, <1>8, <1>9 DEF d, e

(* Reading one node that passed its checks.                                *)
LEMMA ReadingStep ==
  ASSUME NEW c, NEW f, WellFormed(f), Reading(c, f), NEW n \in 1 .. Len(f.nodes),
         \A k \in DOMAIN f.nodes[n].insts : InstanceOk(f.nodes[n].insts[k])
  PROVE  Reading(AddNode(c, f.nodes[n], n), f)
<1> DEFINE R == RawsOf(f)
           nd == f.nodes[n]
           d == AddInstances(c, nd.insts, n)
           e == AddNode(c, nd, n)
<1>1. /\ f.nodes \in Seq(Items(f.nodes))
      /\ \A x \in Items(f.nodes) :
           /\ x.insts \in Seq(Items(x.insts))
           /\ \A i \in Items(x.insts) :
                /\ {"npus", "tp", "pp", "ep"} \subseteq DOMAIN i
                /\ {i.npus, i.tp, i.pp, i.ep} \subseteq Int \cup {None}
                /\ i.place.blocks \in Seq(Items(i.place.blocks))
  BY DEF WellFormed
<1>2. n \in Nat /\ n \in DOMAIN f.nodes /\ nd \in Items(f.nodes)
  <2>1. PICK nodes \in Seq(Items(f.nodes)) : nodes = f.nodes
    BY <1>1
  <2>2. DOMAIN nodes = 1 .. Len(nodes)
    OBVIOUS
  <2> QED
    BY <2>1, <2>2 DEF Items
<1>3. Items(nd.insts) \subseteq R
  BY <1>2 DEF Items, RawsOf, Range
<1>4. nd.insts \in Seq(R)
  <2>1. \A S, T : S \subseteq T => \A s \in Seq(S) : s \in Seq(T)
    OBVIOUS
  <2> HIDE DEF R, nd
  <2> QED
    BY <1>1, <1>2, <1>3, <2>1
<1>5. \A k \in DOMAIN nd.insts : Accepted(nd.insts[k])
  <2>1. \A k \in DOMAIN nd.insts : nd.insts[k] \in Items(nd.insts)
    BY DEF Items
  <2> QED
    BY <1>1, <1>2, <2>1 DEF Accepted
<1> HIDE DEF R, nd
<1>6. d \in Extensions(c, R) /\ LaidOut(d)
  BY <1>2, <1>4, <1>5, AddInstancesKeeps DEF Reading, R
<1>7. /\ Shaped(e) /\ SameLayout(d, e) /\ e.insts = d.insts /\ e.inst_cpu = d.inst_cpu
      /\ e.cpu = Append(c.cpu, NodeCpu(nd))
  BY <1>6, AddNodeFields
<1> HIDE DEF d, e
<1>8. LaidOut(e)
  BY <1>6, <1>7 DEF LaidOut, Runs, Owners, EndsKnown, SameLayout
<1>9. e \in Extensions(e, R)
  <2>1. /\ d.insts \in Seq(InstancesOf(R)) /\ d.npu2inst \in Seq(Nat) /\ d.inst2npu \in Seq(Nat)
        /\ d.starts \in Seq(Nat) /\ d.ends \in Seq(Nat)
        /\ d.inst_cpu \in Seq(CpusOf(R)) /\ d.placement \in Seq(PlacementsOf(R))
    BY <1>6, ExtensionsAre
  <2>2. /\ e.insts \in Seq(InstancesOf(R)) /\ e.npu2inst \in Seq(Nat) /\ e.inst2npu \in Seq(Nat)
        /\ e.starts \in Seq(Nat) /\ e.ends \in Seq(Nat)
        /\ e.inst_cpu \in Seq(CpusOf(R)) /\ e.placement \in Seq(PlacementsOf(R))
    BY <1>7, <2>1 DEF SameLayout
  <2> QED
    BY <1>7, <2>2, ExtensionsAre
<1>10. e.cpu \in Seq(CpuSizes(f))
  <2>1. NodeCpu(nd) \in CpuSizes(f)
    BY <1>2 DEF CpuSizes, nd
  <2>2. PICK S : S = CpuSizes(f)
    OBVIOUS
  <2>3. c.cpu \in Seq(S)
    BY <2>2 DEF Reading
  <2>4. \A x \in S : Append(c.cpu, x) \in Seq(S)
    BY <2>3
  <2> QED
    BY <1>7, <2>1, <2>2, <2>4
<1> QED
  BY <1>8, <1>9, <1>10 DEF Reading, R, e, nd

(* What Finished does to the fields the invariant speaks of.               *)
LEMMA FinishedFields ==
  ASSUME NEW c, Shaped(c)
  PROVE  LET e == Finished(c)
         IN  /\ SameLayout(c, e)
             /\ e.insts = [k \in DOMAIN c.insts |-> Updated(c.insts[k], ResolveGroup(c.insts, c.insts[k]))]
             /\ e.total_npu = SeqSum(SeqMap(EffectiveNpus, c.insts))
             /\ e.dims = NetworkDims(c.insts)
<1> DEFINE e == Finished(c)
           tiers == PodShares(c.tiers)
           is == [k \in DOMAIN c.insts |-> Updated(c.insts[k], ResolveGroup(c.insts, c.insts[k]))]
           total == SeqSum(SeqMap(EffectiveNpus, c.insts))
           dims == NetworkDims(c.insts)
           memory == MemoryConfig(tiers)
           c1 == [c EXCEPT !.tiers = tiers]
           c2 == [c1 EXCEPT !.insts = is]
           c3 == [c2 EXCEPT !.total_npu = total]
           c4 == [c3 EXCEPT !.dims = dims]
           c5 == [c4 EXCEPT !.memory = memory]
<1>1. e = [c EXCEPT !.tiers = tiers, !.insts = is, !.total_npu = total, !.dims = dims, !.memory = memory]
  BY DEF Finished
<1>2. e = c5
  BY <1>1
<1> HIDE DEF e, tiers, is, total, dims, memory
<1>3. Shaped(c1) /\ \A g \in Fields \ {"tiers"} : c1[g] = c[g]
  BY DEF Shaped, Fields
<1> HIDE DEF c1
<1>4. Shaped(c2) /\ c2.insts = is /\ \A g \in Fields \ {"insts"} : c2[g] = c1[g]
  BY <1>3 DEF Shaped, Fields
<1> HIDE DEF c2
<1>5. Shaped(c3) /\ c3.total_npu = total /\ \A g \in Fields \ {"total_npu"} : c3[g] = c2[g]
  BY <1>4 DEF Shaped, Fields
<1> HIDE DEF c3
<1>6. Shaped(c4) /\ c4.dims = dims /\ \A g \in Fields \ {"dims"} : c4[g] = c3[g]
  BY <1>5 DEF Shaped, Fields
<1> HIDE DEF c4
<1>7. \A g \in Fields \ {"memory"} : c5[g] = c4[g]
  BY <1>6 DEF Shaped, Fields
<1> HIDE DEF c5
<1>8. SameLayout(c, c5)
  BY <1>3, <1>4, <1>5, <1>6, <1>7 DEF Fields, SameLayout
<1>9. c5.insts = is /\ c5.total_npu = total /\ c5.dims = dims
  BY <1>4, <1>5, <1>6, <1>7 DEF Fields
<1> QED
  BY <1>2, <1>8, <1>9 DEF e, is, total, dims

(* Resolving the groups moves no NPU.                                      *)
LEMMA LaidOutAlike ==
  ASSUME NEW c, NEW d, LaidOut(c), SameLayout(c, d), ManyAlike(c.insts, d.insts), 1 \in DOMAIN c.insts
  PROVE  LaidOut(d)
<1>1. /\ DOMAIN c.insts = DOMAIN d.insts /\ Len(c.insts) = Len(d.insts)
      /\ \A k \in DOMAIN c.insts : SameDegrees(c.insts[k], d.insts[k])
  BY DEF ManyAlike
<1>2. c.insts # <<>> /\ d.insts # <<>>
  <2>1. 1 \notin DOMAIN <<>>
    OBVIOUS
  <2> QED
    BY <1>1, <2>1
<1>3. \A k \in DOMAIN c.insts : EffectiveNpus(c.insts[k]) = EffectiveNpus(d.insts[k])
  BY <1>1 DEF SameDegrees, EffectiveNpus
<1>4. \A k \in DOMAIN c.insts : DegreesOk(d.insts[k])
  BY <1>1 DEF LaidOut, SameDegrees, DegreesOk
<1>5. Runs(d)
  BY <1>1, <1>2, <1>3 DEF LaidOut, Runs, SameLayout
<1>6. Owners(d)
  BY <1>1, <1>3 DEF LaidOut, Owners, SameLayout
<1>7. EndsKnown(d)
  BY <1>1, <1>3 DEF LaidOut, EndsKnown, SameLayout
<1> QED
  BY <1>1, <1>4, <1>5, <1>6, <1>7 DEF LaidOut, SameLayout

(* The last node read, the cluster is joined.                              *)
LEMMA FinishStep ==
  ASSUME NEW c, NEW f, Reading(c, f), c.insts # <<>>, GroupsOk(c.insts)
  PROVE  Joined(Finished(c)) /\ Finished(c).placement = c.placement
<1> DEFINE e == Finished(c)
           R == RawsOf(f)
           is == c.insts
           js == e.insts
<1>1. /\ Shaped(c) /\ is \in Seq(InstancesOf(R))
      /\ c.npu2inst \in Seq(Nat) /\ c.inst2npu \in Seq(Nat) /\ LaidOut(c)
  BY ExtensionsAre DEF Reading
<1>2. /\ SameLayout(c, e)
      /\ js = [k \in DOMAIN is |-> Updated(is[k], ResolveGroup(is, is[k]))]
      /\ e.total_npu = SeqSum(SeqMap(EffectiveNpus, is)) /\ e.dims = NetworkDims(is)
  BY <1>1, FinishedFields
<1> HIDE DEF e
<1>3. PICK n \in Nat \ {0} : DOMAIN is = 1 .. n /\ Len(is) = n
  <2>1. Len(is) \in Nat /\ DOMAIN is = 1 .. Len(is) /\ Len(is) # 0
    BY <1>1
  <2> QED
    BY <2>1
<1>4. DOMAIN js = 1 .. n /\ Len(js) = n
  <2>1. DOMAIN js = 1 .. n
    BY <1>2, <1>3
  <2>2. Len([k \in DOMAIN is |-> Updated(is[k], ResolveGroup(is, is[k]))]) = n
    <3> DEFINE x(k) == Updated(is[k], ResolveGroup(is, is[k]))
    <3>1. Len([k \in 1 .. n |-> x(k)]) = n
      OBVIOUS
    <3> QED
      BY <1>3, <3>1
  <2> QED
    BY <1>2, <2>1, <2>2
<1>5. ASSUME NEW k \in 1 .. n
      PROVE  LET g == ResolveGroup(is, is[k])
             IN  /\ SameDegrees(js[k], is[k])
                 /\ js[k].group_size = g.group_size /\ js[k].tp_dim = g.tp_dim /\ js[k].ep_dim = g.ep_dim
  <2>1. is[k] \in InstancesOf(R)
    BY <1>1, <1>3
  <2>2. {"npus", "tp", "pp", "ep", "dp", "pd"} \subseteq DOMAIN is[k]
    BY <2>1 DEF InstancesOf, Instance
  <2>3. js[k] = Updated(is[k], ResolveGroup(is, is[k]))
    BY <1>2, <1>3
  <2> HIDE DEF is, js
  <2> QED
    BY <2>2, <2>3, MergedFields
<1> HIDE DEF is, js
<1>6. ManyAlike(is, js)
  <2>1. \A k \in 1 .. n : SameDegrees(is[k], js[k])
    BY <1>5 DEF SameDegrees
  <2> QED
    BY <1>3, <1>4, <2>1 DEF ManyAlike
<1>7. LaidOut(e)
  <2>1. 1 \in DOMAIN is
    BY <1>3
  <2> QED
    BY <1>1, <1>2, <1>6, <2>1, LaidOutAlike DEF is, js
<1>8. e.total_npu = SeqSum(SeqMap(EffectiveNpus, js))
  BY <1>2, <1>6, AlikeTotals
<1>9. NetworkDims(is) = NetworkDims(js)
  BY <1>3, <1>6, AlikeDims
<1>10. GroupsOk(js)
  BY <1>6, AlikeGroups DEF is
<1>11. ASSUME NEW k \in 1 .. n
       PROVE  Resolved(js, k)
  <2>1. SameDegrees(js[k], is[k])
    BY <1>5
  <2>2. \A g : Members(is, g) = Members(js, g)
    BY <1>6, AlikeTotals
  <2> DEFINE g == ResolveGroup(is, is[k])
             h == ResolveGroup(js, js[k])
  <2>3. g.group_size = h.group_size /\ g.tp_dim = h.tp_dim /\ g.ep_dim = h.ep_dim
    BY <1>9, <2>1, <2>2 DEF ResolveGroup, SameDegrees
  <2>4. js[k].group_size = g.group_size /\ js[k].tp_dim = g.tp_dim /\ js[k].ep_dim = g.ep_dim
    BY <1>5
  <2> QED
    BY <2>3, <2>4 DEF Resolved
<1>12. Finite(e)
  BY <1>1, <1>2, <1>4 DEF Finite, SameLayout, js
<1>13. Joined(e)
  BY <1>2, <1>4, <1>7, <1>8, <1>9, <1>10, <1>11, <1>12 DEF Joined, js
<1> QED
  BY <1>2, <1>13 DEF SameLayout, e

(* The initial states satisfy the invariant.                               *)
LEMMA DeploymentInit == Init => DeploymentInv
<1> SUFFICES ASSUME Init
             PROVE  DeploymentInv
  OBVIOUS
<1>1. input \in Inputs /\ phase = "file" /\ cluster = EmptyCluster
  BY DEF Init, ConfigInit
<1>2. "processes" \in DOMAIN deploy
  BY DEF Init
<1>3. Reading(cluster, file)
  BY <1>1, ReadingEmpty
<1> QED
  BY <1>1, <1>2, <1>3 DEF DeploymentInv

(* The memory file is checked once: its entries are served as long as the  *)
(* cluster is the same.                                                    *)
LEMMA MemoryKept ==
  ASSUME UNCHANGED input, NEW places, NEW memory, MemoryOk(places, memory)
  PROVE  MemoryOk(places, memory)'
<1>1. Wanted("local")' <=> Wanted("local")
  BY DEF Wanted, flags, AllRaw, file
<1> QED
  BY <1>1 DEF MemoryOk, EntryOk, Allowed

(* Every step keeps the invariant.                                         *)
LEMMA DeploymentStep == DeploymentInv /\ [Next]_vars => DeploymentInv'
<1> SUFFICES ASSUME DeploymentInv, [Next]_vars
             PROVE  DeploymentInv'
  OBVIOUS
<1> DEFINE Later == {"built", "runtime", "pools", "schedulers", "running"}
<1>1. /\ input \in Inputs /\ "processes" \in DOMAIN deploy
      /\ phase \in {"file", "nodes"} => Reading(cluster, file)
      /\ phase \in Later => Joined(cluster) /\ MemoryOk(cluster.placement, cluster.memory)
      /\ phase = "running" => deploy.processes = Processes
  BY DEF DeploymentInv
<1>2. UNCHANGED input
  BY DEF Next, BuildCluster, ConfigNext, CheckFile, ReadNode, FinishCluster, ResolveRuntime, BuildPools,
         StartSchedulers, StartProcesses, vars
<1>3. file' = file /\ input' \in Inputs
  BY <1>1, <1>2 DEF file
<1>4. "processes" \in DOMAIN deploy'
  BY <1>1 DEF Next, BuildCluster, ResolveRuntime, BuildPools, StartSchedulers, StartProcesses, vars
<1>5. ASSUME cluster' = cluster, phase \in Later
      PROVE  Joined(cluster') /\ MemoryOk(cluster.placement, cluster.memory)'
  <2>1. PICK places, memory : places = cluster.placement /\ memory = cluster.memory
    OBVIOUS
  <2>2. MemoryOk(places, memory)'
    BY <1>1, <1>2, <1>5, <2>1, MemoryKept
  <2>3. (cluster.placement)' = places /\ (cluster.memory)' = memory
    BY <1>5, <2>1
  <2> QED
    BY <1>1, <1>5, <2>2, <2>3
<1>6. CASE BuildCluster /\ CheckFile
  BY <1>1, <1>3, <1>4, <1>6 DEF CheckFile, DeploymentInv
<1>7. CASE BuildCluster /\ ReadNode
  <2>1. CASE phase' = "error"
    BY <1>3, <1>4, <2>1 DEF DeploymentInv
  <2>2. CASE phase' # "error"
    <3> DEFINE n == Len(cluster.cpu) + 1
    <3>1. /\ phase = "nodes" /\ n <= Len(file.nodes) /\ NodeOk(file.nodes[n])
          /\ cluster' = AddNode(cluster, file.nodes[n], n) /\ phase' = phase
      BY <1>7, <2>2 DEF ReadNode
    <3>2. Reading(cluster, file) /\ WellFormed(file)
      BY <1>1, <3>1, InputAssumption DEF file
    <3>3. n \in 1 .. Len(file.nodes)
      <4>1. Len(cluster.cpu) \in Nat
        BY <3>2 DEF Reading
      <4>2. Len(file.nodes) \in Nat
        BY <3>2 DEF WellFormed
      <4> QED
        BY <3>1, <4>1, <4>2
    <3>4. \A k \in DOMAIN file.nodes[n].insts : InstanceOk(file.nodes[n].insts[k])
      BY <3>1 DEF NodeOk
    <3>5. Reading(cluster', file)
      BY <3>1, <3>2, <3>3, <3>4, ReadingStep
    <3> QED
      BY <1>3, <1>4, <3>1, <3>5 DEF DeploymentInv
  <2> QED
    BY <2>1, <2>2
<1>8. CASE BuildCluster /\ FinishCluster
  <2>1. CASE phase' = "error"
    BY <1>3, <1>4, <2>1 DEF DeploymentInv
  <2>2. CASE phase' # "error"
    <3>1. /\ phase = "nodes" /\ cluster.insts # <<>> /\ GroupsOk(cluster.insts)
          /\ cluster' = Finished(cluster) /\ phase' = "built"
          /\ MemoryOk(cluster.placement, cluster'.memory)
      BY <1>8, <2>2 DEF FinishCluster
    <3>2. Joined(cluster') /\ cluster'.placement = cluster.placement
      BY <1>1, <3>1, FinishStep
    <3>3. PICK places, memory : places = cluster.placement /\ memory = cluster'.memory
      OBVIOUS
    <3>4. MemoryOk(places, memory)'
      BY <1>2, <3>1, <3>3, MemoryKept
    <3>5. MemoryOk(cluster.placement, cluster.memory)'
      BY <3>2, <3>3, <3>4
    <3> QED
      BY <1>3, <1>4, <3>1, <3>2, <3>5 DEF DeploymentInv
  <2> QED
    BY <2>1, <2>2
<1>9. CASE ResolveRuntime
  <2>1. phase = "built" /\ phase' \in {"runtime", "error"} /\ cluster' = cluster
    BY <1>9 DEF ResolveRuntime
  <2> QED
    BY <1>3, <1>4, <1>5, <2>1 DEF DeploymentInv
<1>10. CASE BuildPools
  <2>1. phase = "runtime" /\ phase' \in {"pools", "error"} /\ cluster' = cluster
    BY <1>10 DEF BuildPools
  <2> QED
    BY <1>3, <1>4, <1>5, <2>1 DEF DeploymentInv
<1>11. CASE StartSchedulers
  <2>1. phase = "pools" /\ phase' \in {"schedulers", "error"} /\ cluster' = cluster
    BY <1>11 DEF StartSchedulers
  <2> QED
    BY <1>3, <1>4, <1>5, <2>1 DEF DeploymentInv
<1>12. CASE StartProcesses
  <2>1. phase = "schedulers" /\ phase' = "running" /\ cluster' = cluster
    BY <1>12 DEF StartProcesses
  <2>2. deploy'.processes = Processes
    BY <1>1, <1>12 DEF StartProcesses
  <2>3. Processes' = Processes
    BY <1>2, <2>1 DEF Processes, Driver, Independent, Medium, Chain, Insts, insts, flags
  <2> QED
    BY <1>3, <1>4, <1>5, <2>1, <2>2, <2>3 DEF DeploymentInv
<1>13. CASE UNCHANGED vars
  <2>1. phase' = phase /\ cluster' = cluster /\ deploy' = deploy
    BY <1>13 DEF vars
  <2>2. Processes' = Processes
    BY <1>2, <2>1 DEF Processes, Driver, Independent, Medium, Chain, Insts, insts, flags
  <2> QED
    BY <1>1, <1>3, <1>4, <1>5, <2>1, <2>2 DEF DeploymentInv
<1> QED
  BY <1>6, <1>7, <1>8, <1>9, <1>10, <1>11, <1>12, <1>13 DEF Next, BuildCluster, ConfigNext

(* The invariant of the program up to its processes.                       *)
LEMMA DeploymentInvariant == Spec => []DeploymentInv
BY DeploymentInit, DeploymentStep, PTL DEF Spec

-----------------------------------------------------------------------------
(* What follows from the invariant *)

(* The trace generator never looks up a device ASTRA-Sim's memory file     *)
(* does not have (get_device after build_cluster_config).                  *)
THEOREM PlacementServedCorrect == Spec => []PlacementServed
<1>1. DeploymentInv => PlacementServed
  <2> SUFFICES ASSUME DeploymentInv, Running, NEW i \in Insts, NEW kind \in Kinds, NEW b, NEW l
               PROVE  LET loc == GetDevice(cluster.placement[i], b, l, kind)
                      IN  loc \in Allowed(cluster.memory) \/ loc[1] = "LOCAL"
    BY DEF PlacementServed
  <2>1. Joined(cluster) /\ MemoryOk(cluster.placement, cluster.memory)
    BY DEF DeploymentInv, Running
  <2>2. i \in DOMAIN cluster.placement /\ PlacementComplete(cluster.placement[i])
    BY <2>1 DEF Joined, LaidOut, Insts, insts
  <2> QED
    BY <2>1, <2>2, ServedFromFile
<1> QED
  BY <1>1, DeploymentInvariant, PTL

(* Where the NPUs of the instances after the first k begin.                *)
Offset(c, n, k) == IF k = n THEN Len(c.npu2inst) ELSE c.inst2npu[k + 1]

(* The offsets begin at 0 and grow by the NPUs of each instance.           *)
LEMMA Offsets ==
  ASSUME NEW c, Joined(c), NEW n \in Nat \ {0}, DOMAIN c.insts = 1 .. n, Len(c.insts) = n
  PROVE  /\ Offset(c, n, 0) = 0
         /\ \A k \in 0 .. n : Offset(c, n, k) \in Nat
         /\ \A k \in 1 .. n : /\ c.inst2npu[k] = Offset(c, n, k - 1)
                              /\ EffectiveNpus(c.insts[k]) \in Nat
                              /\ Offset(c, n, k) = Offset(c, n, k - 1) + EffectiveNpus(c.insts[k])
<1>1. LaidOut(c) /\ c.npu2inst \in Seq(Nat) /\ c.inst2npu \in Seq(Nat)
  BY DEF Joined, Finite
<1>2. c.insts # <<>>
  <2>1. 1 \in DOMAIN c.insts /\ 1 \notin DOMAIN <<>>
    OBVIOUS
  <2> QED
    BY <2>1
<1>3. Offset(c, n, 0) = 0
  BY <1>1, <1>2 DEF LaidOut, Runs, Offset
<1>4. \A k \in 1 .. n : EffectiveNpus(c.insts[k]) \in Nat
  BY <1>1, EffectivePositive DEF LaidOut
<1>5. DOMAIN c.inst2npu = 1 .. n
  BY <1>1 DEF LaidOut
<1>6. \A k \in 0 .. n : Offset(c, n, k) \in Nat
  <2> SUFFICES ASSUME NEW k \in 0 .. n
               PROVE  Offset(c, n, k) \in Nat
    OBVIOUS
  <2>1. CASE k = n
    BY <1>1, <2>1 DEF Offset
  <2>2. CASE k # n
    <3>1. k + 1 \in DOMAIN c.inst2npu
      BY <1>5, <2>2
    <3>2. c.inst2npu[k + 1] \in Nat
      BY <1>1, <3>1
    <3> QED
      BY <2>2, <3>2 DEF Offset
  <2> QED
    BY <2>1, <2>2
<1>7. ASSUME NEW k \in 1 .. n
      PROVE  /\ c.inst2npu[k] = Offset(c, n, k - 1)
             /\ Offset(c, n, k) = Offset(c, n, k - 1) + EffectiveNpus(c.insts[k])
  <2>1. k - 1 # n /\ (k - 1) + 1 = k
    OBVIOUS
  <2>2. c.inst2npu[k] = Offset(c, n, k - 1)
    BY <2>1 DEF Offset
  <2>3. c.inst2npu[k] + EffectiveNpus(c.insts[k]) = Offset(c, n, k)
    BY <1>1 DEF LaidOut, Runs, Offset
  <2> QED
    BY <2>2, <2>3
<1> QED
  BY <1>3, <1>4, <1>6, <1>7

(* They add up to all NPUs there are, ...                                  *)
LEMMA AllNumbered ==
  ASSUME NEW c, Joined(c)
  PROVE  Len(c.npu2inst) = c.total_npu
<1>1. PICK n \in Nat \ {0} : DOMAIN c.insts = 1 .. n /\ Len(c.insts) = n
  BY DEF Joined, Finite
<1> DEFINE s == SeqMap(EffectiveNpus, c.insts)
           off == [k \in 0 .. n |-> Offset(c, n, k)]
<1>2. s \in [1 .. n -> Nat] /\ \A k \in 1 .. n : s[k] = EffectiveNpus(c.insts[k])
  <2>1. \A k \in 1 .. n : EffectiveNpus(c.insts[k]) \in Nat
    BY <1>1, Offsets
  <2> QED
    BY <1>1, <2>1 DEF SeqMap
<1>3. c.total_npu = SeqSum(s)
  BY DEF Joined
<1> HIDE DEF s
<1>4. PICK N \in [0 .. n -> Nat] : /\ N[0] = 0
                                   /\ \A k \in 1 .. n : N[k] = N[k - 1] + s[k]
                                   /\ SeqSum(s) = N[n]
  BY <1>2, SumIs
<1>5. \A k \in 1 .. n : off[k] = off[k - 1] + s[k]
  <2>1. \A k \in 1 .. n : k \in 0 .. n /\ k - 1 \in 0 .. n
    OBVIOUS
  <2> QED
    BY <1>1, <1>2, <2>1, Offsets
<1>6. off[0] = 0 /\ off[n] = Len(c.npu2inst)
  <2>1. 0 \in 0 .. n /\ n \in 0 .. n /\ Offset(c, n, 0) = 0
    BY <1>1, Offsets
  <2> QED
    BY <2>1 DEF Offset
<1> HIDE DEF off
<1>7. n \in Nat /\ GrowTogether(N, off, n)
  BY <1>4, <1>5, <1>6 DEF GrowTogether
<1>8. N[n] = off[n]
  BY <1>7, GrowAlike
<1> QED
  BY <1>3, <1>4, <1>6, <1>8

(* ... and an instance's end before those of a later one begin.            *)
LEMMA OffsetsGrow ==
  ASSUME NEW c, Joined(c), NEW n \in Nat \ {0}, DOMAIN c.insts = 1 .. n, Len(c.insts) = n,
         NEW j \in 1 .. n, NEW k \in 1 .. n, j < k
  PROVE  c.inst2npu[j] + EffectiveNpus(c.insts[j]) <= c.inst2npu[k]
<1> DEFINE O(m) == Offset(c, n, m)
<1>1. /\ \A m \in 0 .. n : O(m) \in Nat
      /\ \A m \in 1 .. n : /\ c.inst2npu[m] = O(m - 1)
                           /\ EffectiveNpus(c.insts[m]) \in Nat
                           /\ O(m) = O(m - 1) + EffectiveNpus(c.insts[m])
  BY Offsets
<1> HIDE DEF O
<1> DEFINE S == {m \in 0 .. n : m >= j => O(j) <= O(m)}
<1>2. 0 \in S
  OBVIOUS
<1>3. ASSUME NEW m \in 1 .. n, m - 1 \in S
      PROVE  m \in S
  <2>1. CASE m < j
    BY <2>1
  <2>2. CASE m = j
    BY <1>1, <2>2
  <2>3. CASE m > j
    <3>1. O(j) \in Nat /\ O(m - 1) \in Nat /\ O(m) \in Nat /\ O(m) >= O(m - 1)
      <4>1. PICK x \in 0 .. n : x = m - 1
        OBVIOUS
      <4>2. j \in 0 .. n /\ m \in 0 .. n
        OBVIOUS
      <4>3. O(j) \in Nat /\ O(x) \in Nat /\ O(m) \in Nat
        BY <1>1, <4>1, <4>2
      <4>4. PICK E \in Nat : O(m) = O(x) + E
        BY <1>1, <4>1
      <4> QED
        BY <4>1, <4>3, <4>4
    <3>2. O(j) <= O(m - 1)
      BY <1>3, <2>3
    <3>3. O(j) <= O(m)
      BY <3>1, <3>2
    <3> QED
      BY <3>3
  <2> QED
    BY <2>1, <2>2, <2>3
<1> HIDE DEF S
<1>4. 0 .. n \subseteq S
  BY <1>2, <1>3, UpTo
<1>5. k - 1 \in S /\ k - 1 >= j
  BY <1>4
<1>6. O(j) <= O(k - 1)
  BY <1>5 DEF S
<1> QED
  BY <1>1, <1>6

(* An instance among those of the cluster that fits the cluster's network. *)
LEMMA GroupFits ==
  ASSUME NEW c, Joined(c), NEW k \in DOMAIN c.insts
  PROVE  LET i == c.insts[k]
             local == IF Len(NetworkDims(c.insts)) > 1 THEN <<TRUE, FALSE>> ELSE None
         IN  GroupResolved(i, Cardinality(Members(c.insts, i.dp)), local)
<1> DEFINE i == c.insts[k]
           n == Cardinality(Members(c.insts, i.dp))
<1>1. Resolved(c.insts, k) /\ GroupsOk(c.insts)
  BY DEF Joined
<1>2. i.dp # None => Divides(n, i.ep) /\ i.ep \div n <= i.tp
  <2> HAVE i.dp # None
  <2>1. i.dp \in Groups(c.insts) /\ k \in Members(c.insts, i.dp)
    BY DEF Groups, Members
  <2> QED
    BY <1>1, <2>1 DEF GroupsOk, GroupOk
<1> QED
  BY <1>1, <1>2 DEF Resolved, ResolveGroup, GroupResolved

(* One process for all.                                                    *)
LEMMA SharedNetwork ==
  ASSUME NEW c, Joined(c),
         \A i, j \in DOMAIN c.insts : /\ c.insts[i].tp = c.insts[j].tp /\ c.insts[i].pp = c.insts[j].pp
                                      /\ c.insts[i].dp = c.insts[j].dp,
         (\E i \in DOMAIN c.insts : c.insts[i].dp # None) =>
           \A i \in DOMAIN c.insts : c.insts[i].pp = 1 /\ c.insts[i].pd # "prefill"
  PROVE  /\ Product(c.dims) = c.total_npu
         /\ \A i \in DOMAIN c.insts : Reaches(c.dims, c.insts[i])
<1> DEFINE is == c.insts
           g == is[1].dp
<1>1. PICK n \in Nat \ {0} : DOMAIN is = 1 .. n /\ Len(is) = n
  BY DEF Joined, Finite
<1>2. 1 \in DOMAIN is
  BY <1>1
<1>3. \A k \in DOMAIN is : DegreesOk(is[k])
  BY DEF Joined, LaidOut
<1>4. PICK t \in Nat \ {0}, p \in Nat \ {0} : t = is[1].tp /\ p = is[1].pp
  BY <1>2, <1>3 DEF DegreesOk
<1> HIDE DEF is
<1>5. Uniform(is, n, t, p, g)
  <2>1. \A k \in 1 .. n : is[k].tp = t /\ is[k].pp = p /\ is[k].dp = g
    BY <1>1, <1>2, <1>4 DEF is
  <2>2. g # None => p = 1 /\ \A k \in 1 .. n : is[k].pd # "prefill"
    BY <1>1, <1>2, <1>4 DEF is
  <2> QED
    BY <1>1, <1>3, <2>1, <2>2 DEF Uniform
<1>6. MadeFor(c.dims, c.total_npu, n, t, g)
  <2>1. MadeFor(NetworkDims(is), SeqSum(SeqMap(EffectiveNpus, is)), n, t, g)
    BY <1>5, UniformDims
  <2> QED
    BY <2>1 DEF Joined, is
<1>7. ASSUME NEW k \in 1 .. n
      PROVE  Product(c.dims) = c.total_npu /\ Reaches(c.dims, is[k])
  <2>1. is[k].tp = t /\ is[k].dp = g /\ DegreesOk(is[k])
    BY <1>5 DEF Uniform
  <2>2. Cardinality(Members(is, g)) = n
    <3>1. Members(is, g) = 1 .. n
      BY <1>5 DEF Members, Uniform
    <3> QED
      BY <3>1, IntervalSize
  <2>3. PICK local : local = IF Len(NetworkDims(is)) > 1 THEN <<TRUE, FALSE>> ELSE None
    OBVIOUS
  <2>4. GroupResolved(is[k], n, local)
    <3>1. k \in DOMAIN c.insts
      BY <1>1 DEF is
    <3> QED
      BY <2>1, <2>2, <2>3, <3>1, GroupFits DEF is
  <2>5. local = <<TRUE, FALSE>> \/ local = None
    BY <2>3
  <2>6. local = None => Len(c.dims) = 1
    <3>1. Len(c.dims) \in {1, 2}
      <4>1. PICK a \in Nat, b \in Nat : c.dims = IF b = 1 THEN <<a>> ELSE <<a, b>>
        BY <1>6 DEF MadeFor
      <4> QED
        BY <4>1
    <3>2. NetworkDims(is) = c.dims
      BY DEF Joined, is
    <3>3. CASE Len(NetworkDims(is)) > 1
      <4>1. local = <<TRUE, FALSE>>
        BY <2>3, <3>3
      <4> QED
        BY <4>1, InputAssumption
    <3>4. CASE ~(Len(NetworkDims(is)) > 1)
      BY <3>1, <3>2, <3>4
    <3> QED
      BY <3>3, <3>4
  <2> QED
    BY <1>6, <2>1, <2>4, <2>5, <2>6, SpansFit
<1>8. Product(c.dims) = c.total_npu
  BY <1>7
<1> QED
  BY <1>1, <1>7, <1>8 DEF is

(* A process of its own: the network is that of the one instance.          *)
LEMMA OwnNetwork ==
  ASSUME NEW c, Joined(c), NEW k \in DOMAIN c.insts,
         c.insts[k].dp = None, c.insts[k].pd = None, c.insts[k].pp = 1
  PROVE  /\ Product(NetworkDims(<<c.insts[k]>>)) = c.insts[k].npus
         /\ Reaches(NetworkDims(<<c.insts[k]>>), c.insts[k])
<1> DEFINE i == c.insts[k]
           is == <<i>>
           local == IF Len(NetworkDims(c.insts)) > 1 THEN <<TRUE, FALSE>> ELSE None
<1>1. DegreesOk(i)
  BY DEF Joined, LaidOut
<1>2. PICK n \in Nat \ {0}, p \in Nat \ {0} : n = 1 /\ p = 1
  OBVIOUS
<1>3. PICK t \in Nat \ {0} : t = i.tp
  BY <1>1 DEF DegreesOk
<1>4. is[1] = i /\ DOMAIN is = 1 .. n /\ Len(is) = n
  BY <1>2
<1>5. GroupResolved(i, n, local)
  <2>1. GroupResolved(i, Cardinality(Members(c.insts, i.dp)), local)
    BY GroupFits
  <2> QED
    BY <2>1 DEF GroupResolved
<1>6. i.dp = None /\ i.pd = None /\ i.pp = 1
  OBVIOUS
<1> HIDE DEF i, is, local
<1>7. Uniform(is, n, t, p, None)
  BY <1>1, <1>2, <1>3, <1>4, <1>6 DEF Uniform
<1> DEFINE dims == NetworkDims(is)
           total == SeqSum(SeqMap(EffectiveNpus, is))
<1>8. MadeFor(dims, total, n, t, None)
  BY <1>7, UniformDims
<1>9. total = t
  <2>1. total = t * (p * Count(is, n))
    BY <1>7, UniformTotals
  <2>2. Count(is, n) = 1
    <3>1. is[1].pd # "prefill"
      BY <1>4, <1>6, InputAssumption
    <3>2. Prefills(is, n) = {}
      BY <1>2, <3>1 DEF Prefills
    <3> QED
      BY <1>2, <3>2, FS_EmptySet DEF Count
  <2>3. PICK x \in Nat \ {0} : x = 1 /\ t * (x * x) = t
    OBVIOUS
  <2> QED
    BY <1>2, <2>1, <2>2, <2>3
<1>10. i.npus = t
  <2>1. i.npus = t * p
    BY <1>1, <1>2, <1>3, <1>6 DEF DegreesOk
  <2>2. t * 1 = t
    OBVIOUS
  <2> QED
    BY <1>2, <2>1, <2>2
<1> HIDE DEF dims, total
<1>11. PICK a \in Nat \ {0}, b \in Nat \ {0} : /\ a * b = t
                                               /\ dims = IF b = 1 THEN <<a>> ELSE <<a, b>>
                                               /\ t > 1 => a = t
  BY <1>8, <1>9 DEF MadeFor
<1>12. b = 1
  <2>1. CASE t > 1
    <3>1. t * b = t
      BY <1>11, <2>1
    <3>2. b >= 2 => t * b >= t * 2
      OBVIOUS
    <3> QED
      BY <3>1, <3>2
  <2>2. CASE t = 1
    <3>1. a * b = 1
      BY <1>11, <2>2
    <3>2. b >= 2 => a * b >= a * 2
      OBVIOUS
    <3> QED
      BY <3>1, <3>2
  <2> QED
    BY <2>1, <2>2
<1>13. Len(dims) = 1
  BY <1>11, <1>12
<1>14. local = <<TRUE, FALSE>> \/ local = None
  BY DEF local
<1>15. MadeFor(dims, total, n, i.tp, i.dp)
  BY <1>3, <1>6, <1>8
<1>16. Product(dims) = total /\ Reaches(dims, i)
  BY <1>1, <1>5, <1>13, <1>14, <1>15, SpansFit
<1> QED
  BY <1>9, <1>10, <1>16 DEF dims, is, i

(* With a driver of its own every instance has a process.                  *)
LEMMA ProcessesOwn ==
  Driver # "single" => /\ Processes = {PerInstance(cluster, i) : i \in Insts}
                       /\ \A i \in Insts : insts[i].dp = None /\ insts[i].pd = None /\ insts[i].pp = 1
BY DEF Driver, Independent, Processes

(* The first half of NpusLaidOut ...                                       *)
LEMMA NetworksFit == DeploymentInv => NetworkFits
<1> SUFFICES ASSUME DeploymentInv, Running, NEW p \in deploy.processes, Regular \/ Driver # "single"
             PROVE  Product(p.dims) = p.npus /\ \A i \in p.of : Reaches(p.dims, insts[i])
  BY DEF NetworkFits, Reaches
<1>1. Joined(cluster) /\ deploy.processes = Processes
  BY DEF DeploymentInv, Running
<1>2. CASE Driver = "single"
  <2>1. p.dims = cluster.dims /\ p.npus = cluster.total_npu /\ p.of = DOMAIN cluster.insts
    BY <1>1, <1>2 DEF Processes, Insts, insts
  <2>2. Regular
    BY <1>2
  <2>3. /\ Product(cluster.dims) = cluster.total_npu
        /\ \A i \in DOMAIN cluster.insts : Reaches(cluster.dims, cluster.insts[i])
    BY <1>1, <2>2, SharedNetwork DEF Regular, Insts, insts
  <2> QED
    BY <2>1, <2>3 DEF insts
<1>3. CASE Driver # "single"
  <2>1. PICK k \in DOMAIN cluster.insts : p = PerInstance(cluster, k)
    BY <1>1, <1>3, ProcessesOwn DEF Insts, insts
  <2>2. p.dims = NetworkDims(<<cluster.insts[k]>>) /\ p.npus = cluster.insts[k].npus /\ p.of = {k}
    BY <2>1 DEF PerInstance
  <2>3. cluster.insts[k].dp = None /\ cluster.insts[k].pd = None /\ cluster.insts[k].pp = 1
    BY <1>3, <2>1, ProcessesOwn DEF Insts, insts
  <2>4. /\ Product(NetworkDims(<<cluster.insts[k]>>)) = cluster.insts[k].npus
        /\ Reaches(NetworkDims(<<cluster.insts[k]>>), cluster.insts[k])
    BY <1>1, <2>3, OwnNetwork
  <2> QED
    BY <2>2, <2>4 DEF insts
<1> QED
  BY <1>2, <1>3

(* Processes of their own share no NPU id.                                 *)
LEMMA ProcessesApart ==
  ASSUME DeploymentInv, Running, NEW p \in deploy.processes, NEW q \in deploy.processes, p # q
  PROVE  p.base + p.npus <= q.base \/ q.base + q.npus <= p.base
<1>1. Joined(cluster) /\ deploy.processes = Processes
  BY DEF DeploymentInv, Running
<1>2. Driver # "single"
  BY <1>1 DEF Processes
<1>3. PICK n \in Nat \ {0} : DOMAIN cluster.insts = 1 .. n /\ Len(cluster.insts) = n
  BY <1>1 DEF Joined, Finite
<1>4. PICK j \in 1 .. n, k \in 1 .. n : p = PerInstance(cluster, j) /\ q = PerInstance(cluster, k)
  BY <1>1, <1>2, <1>3, ProcessesOwn DEF Insts, insts
<1>5. ASSUME NEW m \in 1 .. n
      PROVE  EffectiveNpus(cluster.insts[m]) = cluster.insts[m].npus
  <2>1. cluster.insts[m].pd # "prefill"
    BY <1>2, <1>3, ProcessesOwn, InputAssumption DEF Insts, insts
  <2> QED
    BY <2>1 DEF EffectiveNpus
<1>6. /\ p.base = cluster.inst2npu[j] /\ p.npus = EffectiveNpus(cluster.insts[j])
      /\ q.base = cluster.inst2npu[k] /\ q.npus = EffectiveNpus(cluster.insts[k])
  BY <1>4, <1>5 DEF PerInstance
<1>7. j < k \/ k < j
  <2>1. j # k
    BY <1>4
  <2> QED
    BY <2>1
<1> QED
  BY <1>1, <1>3, <1>6, <1>7, OffsetsGrow

(* ... and the second.                                                     *)
LEMMA NpusApart == DeploymentInv => NpusPartitioned
<1> SUFFICES ASSUME DeploymentInv, Running
             PROVE  NpusPartitioned
  BY DEF NpusPartitioned
<1>1. Joined(cluster) /\ LaidOut(cluster)
  BY DEF DeploymentInv, Running, Joined
<1>2. Len(cluster.npu2inst) = cluster.total_npu
  BY <1>1, AllNumbered
<1>3. cluster.starts = cluster.inst2npu
  BY <1>1 DEF LaidOut
<1>4. ASSUME NEW i \in Insts
      PROVE  LET first == cluster.inst2npu[i]
                 mine == {n \in DOMAIN cluster.npu2inst : cluster.npu2inst[n] = i}
             IN  /\ mine = (first + 1) .. (first + EffectiveNpus(insts[i]))
                 /\ EffectiveNpus(insts[i]) > 1 => (first + EffectiveNpus(insts[i]) - 1) \in Range(cluster.ends)
  BY <1>1 DEF LaidOut, Owners, EndsKnown, Insts, insts
<1>5. \A p, q \in deploy.processes : p # q => p.base + p.npus <= q.base \/ q.base + q.npus <= p.base
  BY ProcessesApart
<1> QED
  BY <1>2, <1>3, <1>4, <1>5 DEF NpusPartitioned

(* Every process's network has exactly the NPUs of its instances, its      *)
(* collectives reach the ranks that share a layer, and the ids handed out  *)
(* by build_cluster_config are one run per instance, apart from those of   *)
(* every other process.                                                    *)
THEOREM NpusLaidOutCorrect == Spec => []NpusLaidOut
<1>1. DeploymentInv => NpusLaidOut
  BY NetworksFit, NpusApart DEF NpusLaidOut
<1> QED
  BY <1>1, DeploymentInvariant, PTL
=============================================================================
