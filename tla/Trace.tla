------------------------------- MODULE Trace -------------------------------
(***************************************************************************)
(* The trace of one batch: generate_trace in                               *)
(* serving/core/trace_generator.py, which writes a file of layers for the  *)
(* graph converter and charges their energy; and the standby energy the    *)
(* main loop charges while the instance then waits.                        *)
(*                                                                         *)
(* A job is a batch on an instance: its requests, inst (model, tp, pp,     *)
(* local_ep, ep_total, tp_dim, ep_dim, pd, place, node, tpu), policy and   *)
(* copy (--expert-routing-policy, --enable-block-copy), offload and        *)
(* interleave (--enable-attn-offloading, --enable-sub-batch-interleaving), *)
(* pad (the length data parallelism pads to, or 0), load, evict, tiers.    *)
(* init is the request's is_init: it is cleared after the step in which    *)
(* the prompt is complete (a prompt found whole in the prefix cache: after *)
(* the first decode step), and never set under --skip-prefill.             *)
(*                                                                         *)
(* A row of the file has name, tag (the sub-batch), time, the locations    *)
(* in, weights and out, the bytes of its weights, io (the bytes of its     *)
(* input and output), and the collective op over dims of size bytes.       *)
(*                                                                         *)
(* An operator named after another (CopiesOfModel) is a plausible mistake  *)
(* in it; the specification does not use it.                               *)
(***************************************************************************)
EXTENDS Placements, Lookups, MoEGate, PowerModel
LOCAL INSTANCE TLC

CONSTANTS
  Jobs,
  Profiles,       \* model -> the profile of the hardware for it
  Architecture,   \* model -> section of its yaml's sequence -> layers
  Pim,            \* the PIM device: rank, channel, slope, intercept, base, size
  Watts,          \* the node's power section
  Fp,             \* bytes of a number
  MaxTime         \* bound: reports of the idle instance are followed to here

VARIABLES
  job,
  step,      \* the part of the trace being written; then "done" and "waiting"
  layer,     \* layer_num
  batches,   \* BatchCtx of the batch, or of its two sub-batches
  place,     \* the instance's placement
  todo,      \* the layers of the part that are still to be emitted
  lines,     \* what was emitted of it: rows and the charges accumulated
  file,      \* the rows written
  energy,    \* net_energies of the node
  clock      \* [now, last_end, last_calc, standby]: standby is the time charged
             \* since last_end
vars == <<job, step, layer, batches, place, todo, lines, file, energy, clock>>

SumOf(s, f(_)) == FoldLeft(LAMBDA n, x : n + f(x), 0, s)
Each(s, f(_)) == [i \in DOMAIN s |-> f(s[i])]
SortedBy(s, first(_, _)) ==    \* a stable sort
  Each(SetToSortSeq(DOMAIN s, LAMBDA i, j : first(s[i], s[j]) \/ (~first(s[j], s[i]) /\ i < j)),
       LAMBDA i : s[i])

-----------------------------------------------------------------------------
(* Batches *)

IsPrefill(r) == r.computed < r.original
ComputeTokens(r) == IF IsPrefill(r) THEN r.chunk ELSE 1

MakeBatch(reqs, load, evict) ==
  [reqs |-> reqs, total_len |-> SumOf(reqs, ComputeTokens),
   num_decode |-> Cardinality({k \in DOMAIN reqs : ~IsPrefill(reqs[k])}),
   load |-> load, evict |-> evict]

(* _pad_batch_to_max: to the graph the dummies are decodes. *)
PadBatchToMax(b, max) ==
  IF max <= b.total_len THEN b
  ELSE [b EXCEPT !.total_len = max, !.num_decode = @ + max - b.total_len]

(* _make_sub_batch: the request with most to compute first, to the side    *)
(* with less of it; each side by arrival.                                  *)
Sides(b) ==
  LET Assign(sides, r) ==
        LET to == IF SumOf(sides[1], ComputeTokens) <= SumOf(sides[2], ComputeTokens) THEN 1 ELSE 2
        IN [k \in 1..2 |-> IF k = to THEN Append(sides[k], r) ELSE sides[k]]
  IN FoldLeft(Assign, <<<<>>, <<>>>>,
              SortedBy(b.reqs, LAMBDA r, s : ComputeTokens(r) > ComputeTokens(s)))
ByArrival(s) == SortedBy(s, LAMBDA q, r : q.arrival < r.arrival)
MakeSubBatchUnsorted(b) ==
  IF Len(b.reqs) = 1 THEN <<b>>
  ELSE <<MakeBatch(Sides(b)[1], b.load, b.evict), MakeBatch(Sides(b)[2], 0, 0)>>
MakeSubBatch(b) ==
  IF Len(b.reqs) = 1 THEN <<b>>
  ELSE <<MakeBatch(ByArrival(Sides(b)[1]), b.load, b.evict), MakeBatch(ByArrival(Sides(b)[2]), 0, 0)>>

(* _attn_load_balancer: the decodes, longest first, each in `split' parts  *)
(* to the channel with least load.                                         *)
AttnLoadBalancer(reqs, channels, split) ==
  LET Load(lens) == FoldLeft(LAMBDA n, l : n + l, 0, lens)
      Put(all, len) ==
        LET least == {c \in DOMAIN all : \A o \in DOMAIN all : Load(all[c]) <= Load(all[o])}
        IN [c \in DOMAIN all |-> IF c = Min(least) THEN Append(all[c], len) ELSE all[c]]
      Place(all, r) == IF r.init THEN all
                       ELSE FoldLeft(LAMBDA a, part : Put(a, r.input), all, [p \in 1..split |-> p])
  IN FoldLeft(Place, [c \in 0..(channels - 1) |-> <<>>],
              SortedBy(reqs, LAMBDA r, s : r.input > s.input))

(* _build_batch_ctx: what the lookups need of a batch. With offloading the *)
(* decodes' attention is the PIM's.                                        *)
KvOfDecodes(b, kv) ==
  [n_decode |-> Len(kv), mean |-> IF kv = <<>> THEN 0 ELSE SumOf(kv, LAMBDA n : n) \div Len(kv),
   max |-> Max({0} \cup Range(kv)), min |-> IF kv = <<>> THEN 0 ELSE Min(Range(kv))]
BatchCtx(j, b) ==
  LET prefills == SelectSeq(b.reqs, IsPrefill)
      decodes == SelectSeq(b.reqs, LAMBDA r : ~IsPrefill(r))
      split == Min({PimChannels(Pim, Pim.size), Models[j.inst.model].kv_heads})
  IN [reqs |-> b.reqs, total_len |-> b.total_len,
      lm_head_len |-> Max({Len(b.reqs), Len(prefills) + b.num_decode}),
      chunk |-> SumOf(prefills, LAMBDA r : r.chunk),
      kv_prefill |-> SumOf(prefills, LAMBDA r : r.computed),
      split |-> split,
      pim |-> IF j.offload THEN AttnLoadBalancer(b.reqs, PimChannels(Pim, Pim.size), split) ELSE <<>>]
     @@ KvOfDecodes(b, IF j.offload THEN <<>> ELSE Each(decodes, LAMBDA r : r.computed))

-----------------------------------------------------------------------------
(* What is emitted: rows, and the charges a PowerAccumulator collects: the *)
(* time of the NPUs and of the PIM, bytes of memory, bytes on links.       *)

Nothing == [rows |-> <<>>, npu |-> 0, pim |-> 0, dram |-> 0, link |-> 0]
Then(a, b) == [rows |-> a.rows \o b.rows, npu |-> a.npu + b.npu, pim |-> a.pim + b.pim,
               dram |-> a.dram + b.dram, link |-> a.link + b.link]
All(s, f(_)) == FoldLeft(LAMBDA w, x : Then(w, f(x)), Nothing, s)
UpTo(n) == [k \in 1..n |-> k - 1]

Here == <<"LOCAL", 0>>
HostOf(j) == <<"REMOTE", j.inst.node - 1>>
Row(name, tag) == [name |-> name, tag |-> tag, time |-> 0, in |-> Here, weights |-> Here,
                   bytes |-> 0, out |-> Here, io |-> 0, op |-> "NONE", dims |-> <<>>, size |-> 0]
Mark(row) == [Nothing EXCEPT !.rows = <<row>>]

Sizes(j, name, len, p) == CalculateSizes(Models[j.inst.model], name, len, 0, FALSE, p, Fp)

(* Lookup of _emit_layer and of _layer_latency_for_power for batch c *)
Latency(j, c, name) ==
  CASE LayerCategory(Profiles[j.inst.model], name) = "per_sequence" ->
         LookupLayer(Profiles[j.inst.model], "per_sequence", name, j.inst.tp, c.lm_head_len)
    [] LayerCategory(Profiles[j.inst.model], name) = "attention" ->
         LookupAttentionWithSkew(Profiles[j.inst.model], j.inst.tp, c)
    [] OTHER -> LookupLayer(Profiles[j.inst.model], "dense", name, j.inst.tp, c.total_len)

(* _TP_ALLREDUCE_AFTER, _tp_comm and _with_dim *)
TpComm(j, c, name) ==
  IF name \in {"o_proj", "down_proj"} /\ j.inst.tp > 1
  THEN [op |-> "ALLREDUCE", dims |-> j.inst.tp_dim,
        size |-> Sizes(j, name, c.total_len, j.inst.tp)[3]]
  ELSE [op |-> "NONE", dims |-> <<>>, size |-> 0]

(* _emit_layer for an item of todo: the layer `name' of block `block' for  *)
(* batch c.  The prologue is charged for weights that no rank has whole    *)
(* (_emit_prologue).                                                       *)
ChargedAnywhere(j, row, whole) ==
  [rows |-> <<row>>, npu |-> row.time, pim |-> 0, dram |-> whole,
   link |-> IF row.size = 0 THEN 0 ELSE TotalRingData(row.size, j.inst.tp, row.op)]
Charged(j, row, whole) ==
  [rows |-> <<row>>, npu |-> row.time, pim |-> 0,
   dram |-> IF row.weights = Here THEN 0 ELSE whole,
   link |-> IF row.size = 0 THEN 0 ELSE TotalRingData(row.size, j.inst.tp, row.op)]
EmitLayer(j, c, at, item) ==
  Charged(j,
          TpComm(j, c, item.name) @@
          [Row(item.name, item.tag) EXCEPT
             !.time = Latency(j, c, item.name), !.in = item.in, !.out = item.out,
             !.weights = GetDevice(at, item.block, item.name, "weights"),
             !.bytes = Sizes(j, item.name, c.total_len, j.inst.tp)[2]],
          Sizes(j, item.name, c.total_len, IF item.whole THEN 1 ELSE j.inst.tp)[2])

(* _emit_pim_attention *)
PimRow(j, c, at, item, ch, len) ==
  LET s == CalculateSizes(Models[j.inst.model], "attention", len, 0, TRUE, j.inst.tp, Fp)
  IN [Row("attention", item.tag) EXCEPT
        !.time = PimLatency(Pim, Models[j.inst.model], len, c.split),
        !.in = Append(HostOf(j), ch), !.out = Append(HostOf(j), ch),
        !.io = s[1] \div c.split + s[3] \div c.split,
        !.weights = GetDevice(at, item.block, "attention", "weights")]
ChargedPim(row) == [Mark(row) EXCEPT !.pim = row.time, !.dram = IF row.time > 0 THEN row.io ELSE 0]
EmitPimAttention(j, c, at, item) ==
  Then(All(UpTo(Cardinality(DOMAIN c.pim)),
           LAMBDA ch : Then(Mark(Row("PIM", item.tag)),
                            All(c.pim[ch], LAMBDA len : ChargedPim(PimRow(j, c, at, item, ch, len))))),
       Mark(Row("PIM END", item.tag)))

(* _emit_moe_block for a routing of the tokens: the gather before and the  *)
(* scatter after are on the first rank's and on the last marker.  All      *)
(* ranks of the instance are charged as long as the slowest.               *)
Collective(j, op, tokens, width) ==
  [op |-> IF j.inst.ep_total > 1 THEN op ELSE "NONE",
   dims |-> IF j.inst.ep_total > 1 THEN j.inst.ep_dim ELSE <<>>,
   size |-> IF j.inst.ep_total > 1 THEN tokens * width * Fp ELSE 0]
CommLen(j, c) == IF j.pad > 0 THEN j.pad ELSE c.total_len
Gather(j, c) == Collective(j, "ALLGATHER", Max({1, CommLen(j, c) \div Max({j.inst.ep_total, 1})}),
                           Models[j.inst.model].hidden + Models[j.inst.model].experts)
Scatter(j, c) == Collective(j, "REDUCESCATTER", CommLen(j, c), Models[j.inst.model].hidden)
ExpertRow(j, at, item, got) ==
  [Row("expert", item.tag) EXCEPT
     !.time = LookupMoe(Profiles[j.inst.model], got.tokens, Max({got.activated, 1})),
     !.weights = GetDevice(at, item.block, "moe", "weights"),
     !.bytes = Sizes(j, "moe", got.tokens, j.inst.ep_total)[2],
     !.io = 2 * got.tokens * Models[j.inst.model].hidden * Fp]
ExpertRows(j, at, item, routing) ==
  [r \in 0..(Max({j.inst.local_ep, 1}) - 1) |->
     IF routing[r].tokens > 0 THEN <<ExpertRow(j, at, item, routing[r])>> ELSE <<>>]
Dispatched(j, item, gather, scatter, ranks) ==
  LET busy == {ranks[r][1] : r \in {q \in DOMAIN ranks : ranks[q] # <<>>}}
      Rank(r) == <<IF r = 0 THEN gather @@ Row("EXPERT", item.tag) ELSE Row("EXPERT", item.tag)>>
                 \o ranks[r]
  IN [rows |-> FlattenSeq(Each(UpTo(Cardinality(DOMAIN ranks)), Rank))
               \o <<scatter @@ Row("EXPERT END", item.tag)>>,
      npu |-> Max({0} \cup {row.time : row \in busy}), pim |-> 0,
      dram |-> SumOf(UpTo(Cardinality(DOMAIN ranks)),
                     LAMBDA r : IF ranks[r] = <<>> \/ ranks[r][1].weights = Here THEN 0
                                ELSE ranks[r][1].bytes),
      link |-> IF gather.op = "NONE" THEN 0
               ELSE TotalRingData(gather.size, j.inst.ep_total, gather.op)
                    + TotalRingData(scatter.size, j.inst.ep_total, scatter.op)]
EmitMoeBlock(j, c, at, item, routing) ==
  Dispatched(j, item, Gather(j, c), Scatter(j, c), ExpertRows(j, at, item, routing))

IsMoe(j) == Models[j.inst.model].experts > 0
Gate(j) == [experts |-> Models[j.inst.model].experts, k |-> Models[j.inst.model].k, policy |-> j.policy]

(* What route_ep can return for a batch; only the block of experts asks. *)
Routings(j, c, name) ==
  IF name = "moe" THEN RouteEp(Gate(j), c.total_len, Max({1, j.inst.ep_total})) ELSE {<<>>}

(* _emit_sequence for one layer of a block: attention without tokens for   *)
(* the NPU, the rotary embedding of a TPU and layers nobody measured are   *)
(* left out.  The prologue and the head are emitted layer by layer: there  *)
(* the lookup of a layer nobody measured raises.                           *)
Measurable(j, name) == LayerAvailable(Profiles[j.inst.model], j.inst.tp, name)
LeftOut(j, c, name) ==
  \/ name = "attention" /\ c.chunk = 0 /\ c.n_decode = 0
  \/ name = "rotary_emb" /\ j.inst.tpu
  \/ ~Measurable(j, name)
Raises(j, item) == item.direct /\ ~Measurable(j, item.name)
Emit(j, c, at, item, routing) ==
  IF item.direct THEN EmitLayer(j, c, at, item)
  ELSE IF item.name = "moe" THEN EmitMoeBlock(j, c, at, item, routing)
  ELSE Then(IF item.name = "attention" /\ j.offload THEN EmitPimAttention(j, c, at, item) ELSE Nothing,
            IF LeftOut(j, c, item.name) THEN Nothing ELSE EmitLayer(j, c, at, item))

(* _emit_pp_pd_power: bytes passed on by the stages and to a decode        *)
(* instance.                                                               *)
PpPdBytes(j, c) ==
  c.total_len * Models[j.inst.model].hidden * (j.inst.pp - 1)
  + IF j.inst.pd = "prefill" THEN (c.total_len + c.lm_head_len) * Models[j.inst.model].hidden * Fp ELSE 0

(* PowerAccumulator.flush *)
Flush(j, e, w) ==
  AddPimActive(AddNpuActive(AddLink(AddDram(e, Watts, w.dram), Watts, w.link),
                            Watts, w.npu, j.inst.tp),
               Watts, IF j.offload THEN w.pim ELSE 0)

-----------------------------------------------------------------------------
(* The parts of a trace.  Without sub-batches: the prologue, the blocks,   *)
(* the head.  With them, while one sub-batch is in the second half of a    *)
(* block, the other is in the first half of the next one.                  *)

NumLayers == Models[job.inst.model].layers
BlockMode == DOMAIN place.block # {}
CanCopy == (~IsMoe(job) \/ job.copy) /\ ~BlockMode

(* _sequence: the layers of a section, as items for sub-batch k *)
Section(k, block, section) ==
  LET names == Architecture[job.inst.model][section]
  IN [i \in DOMAIN names |->
        [name |-> names[i], k |-> k, block |-> block,
         whole |-> section = "prologue", direct |-> section \in {"prologue", "head"},
         tag |-> IF Len(batches) = 1 THEN "NONE" ELSE <<"BATCH_1", "BATCH_2">>[k],
         in |-> IF section = "prologue" /\ i = 1 THEN HostOf(job) ELSE Here,
         out |-> IF section = "head" /\ i = Len(names) THEN HostOf(job) ELSE Here]]
PreAttn(k, block) == Section(k, block, "pre_attn")
PostAttn(k, block) == Section(k, block, "post_attn")
                      \o Section(k, block, IF IsMoe(job) THEN "mlp_moe" ELSE "mlp_dense")

(* _synthesize_trace, _synthesize_interleaved_trace *)
StepItems ==
  CASE step = "prologue" -> Section(1, None, "prologue")
    [] step = "blocks" -> PreAttn(1, layer) \o PostAttn(1, layer)
    [] step = "head" -> Section(1, None, "head")
    [] step = "first" -> Section(1, None, "prologue") \o PreAttn(1, 0)
                         \o Section(2, None, "prologue") \o PreAttn(2, 0)
    [] step = "middle" -> PostAttn(1, layer) \o PreAttn(1, layer + 1)
                          \o PostAttn(2, layer) \o PreAttn(2, layer + 1)
    [] step = "last" -> PostAttn(1, NumLayers - 1) \o Section(1, None, "head")
                        \o PostAttn(2, NumLayers - 1) \o Section(2, None, "head")

(* How many blocks the part stands for, how many of them are built and how *)
(* often each is written.                                                  *)
Blocks == CASE step = "blocks" -> NumLayers [] step = "middle" -> NumLayers - 1 [] OTHER -> 1
Repeats == step \in {"blocks", "middle"}
Iterations == IF Repeats /\ BlockMode THEN Blocks ELSE 1
CopiesOfModel == IF Repeats /\ CanCopy THEN NumLayers ELSE 1
Copies == IF Repeats /\ CanCopy THEN Blocks ELSE 1

Following == CASE step = "prologue" -> "blocks" [] step = "blocks" -> "head" 
               [] step = "first" -> IF BlockMode /\ NumLayers = 1 THEN "last" ELSE "middle"
               [] step = "middle" -> "last" [] OTHER -> "file"

-----------------------------------------------------------------------------
Init ==
  /\ job \in Jobs
  /\ step = "begin"
  /\ layer = 0
  /\ batches = <<>>
  /\ place = <<>>
  /\ todo = <<>>
  /\ lines = Nothing
  /\ file = <<>>
  /\ energy = NoEnergy
  /\ clock = [now |-> 0, last_end |-> 0, last_calc |-> 0, standby |-> 0]

(* generate_trace decides on sub-batches. *)
Begin ==
  /\ step = "begin"
  /\ LET batch == PadBatchToMax(MakeBatch(job.reqs, job.load, job.evict), job.pad)
         parts == MakeSubBatch(batch)
         split == job.interleave /\ Len(parts) = 2 /\ parts[1].reqs # <<>> /\ parts[2].reqs # <<>>
     IN /\ batches' = Each(IF split THEN parts ELSE <<batch>>, LAMBDA b : BatchCtx(job, b))
        /\ step' = IF split THEN "first" ELSE "prologue"
  /\ place' = Placement(job.inst, job.inst.node)
  /\ UNCHANGED <<job, layer, todo, lines, file, energy, clock>>

(* A part is begun, ... *)
StartPart ==
  /\ step \in {"prologue", "blocks", "head", "first", "middle", "last"}
  /\ todo = <<>>
  /\ lines = Nothing
  /\ todo' = StepItems
  /\ UNCHANGED <<job, step, layer, batches, place, lines, file, energy, clock>>

(* ... its layers are emitted in order, ... *)
EmitNext ==
  /\ todo # <<>>
  /\ ~Raises(job, todo[1])
  /\ LET item == todo[1] IN
     \E routing \in Routings(job, batches[item.k], item.name) :
       lines' = Then(lines, Emit(job, batches[item.k], place, item, routing))
  /\ todo' = Tail(todo)
  /\ UNCHANGED <<job, step, layer, batches, place, file, energy, clock>>

(* ... until one raises, which ends the simulation, ...                    *)
EmitRaises ==
  /\ todo # <<>>
  /\ Raises(job, todo[1])
  /\ step' = "raised" /\ todo' = <<>> /\ lines' = Nothing
  /\ UNCHANGED <<job, layer, batches, place, file, energy, clock>>

(* ... and written and charged, once or for every block it stands for.     *)
WritePart ==
  /\ lines # Nothing
  /\ todo = <<>>
  /\ file' = file \o FlattenSeq([k \in 1..Copies |-> lines.rows])
  /\ energy' = FoldLeft(LAMBDA e, k : Flush(job, e, lines), energy, UpTo(Copies))
  /\ lines' = Nothing
  /\ layer' = IF Repeats THEN layer + 1 ELSE layer
  /\ step' = IF Repeats /\ layer + 1 < Iterations THEN step ELSE Following
  /\ UNCHANGED <<job, batches, place, todo, clock>>

(* The rest of generate_trace, after _emit_pp_pd_power for the (first)     *)
(* batch: the KV moved to and from the host goes before the first row,     *)
(* what deeper tiers reload after it.                                      *)
WriteFile ==
  /\ step = "file"
  /\ LET Move(name, bytes) ==
           IF bytes = 0 THEN <<>>
           ELSE <<[Row(name, "NONE") EXCEPT !.weights = GetDevice(place, None, None, "kv_evict_loc"),
                                            !.bytes = bytes]>>
         Reload(t) == [Row("reload", "NONE") EXCEPT !.time = 1, !.weights = <<t.tier, t.device>>,
                                                    !.bytes = t.bytes]
         reloads == Each(SelectSeq(job.tiers, LAMBDA t : t.bytes > 0), Reload)
     IN /\ file' = Move("kv_load", job.load) \o Move("kv_evict", job.evict)
                   \o IF Len(file) < 2 THEN file ELSE <<file[1]>> \o reloads \o Tail(file)
        /\ energy' = AddDram(AddLink(energy, Watts, PpPdBytes(job, batches[1])), Watts,
                             job.load + job.evict)
  /\ step' = "done"
  /\ UNCHANGED <<job, layer, batches, place, todo, lines, clock>>

-----------------------------------------------------------------------------
(* The main loop: the first NPU reports the end of the batch; it waits,    *)
(* and each later report charges the standby energy since the last.        *)
Finish ==
  /\ step = "done"
  /\ step' = "waiting"
  /\ clock' = [clock EXCEPT !.now = @ + 1, !.last_end = clock.now + 1]
  /\ UNCHANGED <<job, layer, batches, place, todo, lines, file, energy>>

Charge(now, time) ==
  /\ energy' = AddStandby(energy, Watts, time, job.inst.tp * job.inst.pp)
  /\ clock' = [clock EXCEPT !.now = now, !.last_calc = now, !.standby = @ + time]
Report ==
  /\ step = "waiting"
  /\ \E now \in (clock.now + 1)..MaxTime :
       Charge(now, StandbyTime(Watts, now, clock.last_end, clock.last_calc))
  /\ UNCHANGED <<job, step, layer, batches, place, todo, lines, file>>

Next == Begin \/ StartPart \/ EmitNext \/ EmitRaises \/ WritePart \/ WriteFile \/ Finish \/ Report
Spec == Init /\ [][Next]_vars

-----------------------------------------------------------------------------
(* Properties of the finished file.                                        *)

Done == step \in {"done", "waiting"}

Repeat(n, s) == FlattenSeq([k \in 1..n |-> s])
Sections(names) == FlattenSeq(Each(names, LAMBDA n : Architecture[job.inst.model][n]))
TagOf(k) == IF Len(batches) = 1 THEN "NONE" ELSE <<"BATCH_1", "BATCH_2">>[k]
OnPim(row) == row.name = "attention" /\ Len(row.in) = 3

(* The layers a forward pass of sub-batch k consists of (those of the      *)
(* prologue and the head all), and those the file has for it; a block of   *)
(* experts counts by its end.                                              *)
ForwardPass(k) ==
  LET block == SelectSeq(Sections(<<"pre_attn", "post_attn",
                                    IF IsMoe(job) THEN "mlp_moe" ELSE "mlp_dense">>),
                         LAMBDA name : ~LeftOut(job, batches[k], name))
  IN Sections(<<"prologue">>) \o Repeat(NumLayers, block) \o Sections(<<"head">>)
InFile(k) ==
  Each(SelectSeq(file, LAMBDA r : /\ r.tag = TagOf(k)
                                  /\ ~OnPim(r)
                                  /\ r.name \notin {"PIM", "PIM END", "EXPERT", "expert",
                                                    "kv_load", "kv_evict", "reload"}),
       LAMBDA r : IF r.name = "EXPERT END" THEN "moe" ELSE r.name)
EveryLayerWritten == Done => \A k \in DOMAIN batches : InFile(k) = ForwardPass(k)

(* The rows of each sub-batch are one whole forward pass in order, however *)
(* blocks are copied or interleaved (_synthesize_trace,                    *)
(* _synthesize_interleaved_trace) - unless an MoE instance runs with       *)
(* --no-enable-block-copy.                                                 *)
BlocksRepeated == ~IsMoe(job) \/ job.copy \/ BlockMode
LayersComplete == Done /\ BlocksRepeated => EveryLayerWritten

(* In every block the attention of each decode is computed once: on the    *)
(* PIM, in one part per channel it is split over, or on the NPU, which     *)
(* also computes the prefills; and the channels are loaded evenly, up to   *)
(* one request (_build_batch_ctx, _attn_load_balancer, _emit_sequence).    *)
(* With offloading the NPU drops the decodes by one test and the balancer  *)
(* drops the prefills by another, is_init.  Where the two disagree the     *)
(* code computes the attention of a decode nowhere (OnNeither: its whole   *)
(* prompt was in the prefix cache) or that of a prefill on both (OnBoth:   *)
(* --skip-prefill); every other request has its own once, also beside      *)
(* such a one.                                                             *)
Lengths(s) == SumOf(s, LAMBDA n : n)
InPhase(prefill, init) == {i \in DOMAIN job.reqs : IsPrefill(job.reqs[i]) = prefill /\ job.reqs[i].init = init}
OnNeither == InPhase(FALSE, TRUE)
OnBoth == InPhase(TRUE, FALSE)
Offloaded == IF job.offload THEN ({i \in DOMAIN job.reqs : ~IsPrefill(job.reqs[i])} \ OnNeither) \cup OnBoth
             ELSE {}
PimTimeOf(i) == PimLatency(Pim, Models[job.inst.model], job.reqs[i].input, batches[1].split)
AttentionOnce ==
  Done /\ BlocksRepeated =>
    /\ \A time \in {PimTimeOf(i) : i \in Offloaded} \cup {r.time : r \in {s \in Range(file) : OnPim(s)}} :
         Len(SelectSeq(file, LAMBDA r : OnPim(r) /\ r.time = time))
           = NumLayers * batches[1].split * Cardinality({i \in Offloaded : PimTimeOf(i) = time})
    /\ \A k \in DOMAIN batches :
         /\ Len(SelectSeq(file, LAMBDA r : r.name = "attention" /\ r.tag = TagOf(k) /\ ~OnPim(r)))
              = IF \E i \in DOMAIN batches[k].reqs : IsPrefill(batches[k].reqs[i]) \/ ~job.offload
                THEN NumLayers ELSE 0
         /\ \A c, d \in DOMAIN batches[k].pim :
              Lengths(batches[k].pim[c]) - Lengths(batches[k].pim[d])
                <= Max({0} \cup {job.reqs[i].input : i \in DOMAIN job.reqs})

(* Nothing of a forward pass is lost or doubled, but for the attention of  *)
(* requests on which the two tests of offloading disagree.                 *)
ForwardPassComplete == LayersComplete /\ AttentionOnce

(* What the power model was charged is what the rows say: NPUs for every   *)
(* row's time, all of them for the slowest expert of a block; memory for   *)
(* weights that are not on the NPU, for KV moved and for the PIM; links    *)
(* for the collectives and for what is sent on to other stages and         *)
(* instances.  The prologue of a sharded instance and the second sub-batch *)
(* of a pipeline are left out: the code charges those otherwise.           *)
Slowest(end) ==
  LET before == {i \in 1..(end - 1) : file[i].name = "EXPERT END"}
      group == {i \in (Max({0} \cup before) + 1)..end : file[i].name = "expert"}
  IN Max({0} \cup {file[i].time : i \in group})
NpuTime ==
  SumOf(file, LAMBDA r : IF OnPim(r) \/ r.name \in {"expert", "reload"} THEN 0 ELSE r.time)
  + SumOf(SelectSeq(UpTo(Len(file) + 1), LAMBDA i : i > 0 /\ file[i].name = "EXPERT END"), Slowest)
PimTime == SumOf(file, LAMBDA r : IF OnPim(r) THEN r.time ELSE 0)
MemoryBytes ==
  SumOf(file, LAMBDA r : IF OnPim(r) THEN r.io
                         ELSE IF r.name = "reload" \/ (r.weights = Here /\ r.name \notin {"kv_load", "kv_evict"})
                         THEN 0 ELSE r.bytes)
LinkBytes ==
  SumOf(file, LAMBDA r : IF r.size = 0 THEN 0
                         ELSE TotalRingData(r.size, IF r.op = "ALLREDUCE" THEN job.inst.tp ELSE job.inst.ep_total,
                                            r.op))
  + SumOf(batches, LAMBDA c : PpPdBytes(job, c))
PowerMatchesTrace ==
  step = "done" =>
    /\ energy.npu = (Watts.npu_active - Watts.npu_idle) * NpuTime * job.inst.tp
    /\ (job.inst.tp = 1 \/ GetDevice(place, None, "embedding", "weights") = Here) =>
         energy.dram = Watts.dram_bit * 8 * MemoryBytes + (Watts.pim_active - Watts.dram_idle) * PimTime
    /\ (Len(batches) = 1 \/ PpPdBytes(job, batches[1]) = 0) =>
         energy.link = Watts.link_bit * 8 * LinkBytes

(* Two sub-batches share the requests of the batch: each is in one of them,*)
(* in order of arrival; neither has more to compute than the other by      *)
(* more than one request (_make_sub_batch).                                *)
SplitKeepsWork ==
  LET Reqs(k) == batches[k].reqs
      Work(k) == SumOf(Reqs(k), ComputeTokens)
      InOrder(s) == \A i, j \in DOMAIN s : i < j => s[i].arrival <= s[j].arrival
  IN Len(batches) = 2 =>
       /\ Range(Reqs(1)) \cup Range(Reqs(2)) = Range(job.reqs)
       /\ Len(Reqs(1)) + Len(Reqs(2)) = Len(job.reqs)
       /\ batches[1].total_len + batches[2].total_len = SumOf(job.reqs, ComputeTokens)
       /\ \A k \in 1..2 : InOrder(Reqs(k)) /\ Work(k) - Work(3 - k)
                                  <= Max({ComputeTokens(job.reqs[i]) : i \in DOMAIN job.reqs})

(* However often an idle instance reports, it is charged standby power for *)
(* at most the time since its batch ended, and at most for the standby     *)
(* duration (add_npu_standby_energy_consumption).                          *)
StandbyBounded ==
  clock.standby <= Min({clock.now - clock.last_end, Watts.standby_duration})

(* Energy is accounted for: in a batch by its rows, between batches by time. *)
EnergyAccounted == PowerMatchesTrace /\ StandbyBounded
=============================================================================
