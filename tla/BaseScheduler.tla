--------------------------- MODULE BaseScheduler ---------------------------
(***************************************************************************)
(* One serving instance without prefix caching: the request queue, the     *)
(* batches in the pipeline and the byte accounting of its KV cache.        *)
(*                                                                         *)
(* Translated from Scheduler.schedule_base, Scheduler.add_done,            *)
(* Scheduler.add_request and Scheduler.add_decode in                       *)
(* serving/core/scheduler.py with the MemoryModel operations they call.    *)
(*                                                                         *)
(* Memory is counted in KV blocks.  npuUsed is what one rank holds above   *)
(* the model weight, cpuUsed counts the whole cluster (NumNpus times the   *)
(* blocks of one rank), as the code does.  A RuntimeError ends the         *)
(* simulation: `failed' names it and nothing moves any more.               *)
(*                                                                         *)
(* An operator defined right before another one and named after it         *)
(* (ReloadsNothing before Reloads) is a plausible mistake in it;            *)
(* the specification does not use it.  README.md lists what each breaks.   *)
(***************************************************************************)
EXTENDS Lists

CONSTANTS
  Req,               \* request ids, natural numbers
  Simulations,       \* command lines with their cluster and dataset
  Npus,              \* the simulated NPUs that report to the scheduler
  StartNpu, LastNpu  \* the first and the last stage of the pipeline

(* A dataset, and the parameters of Scheduler.__init__. *)
SimulationType ==
  [work       : [Req -> [input : Nat \ {0}, output : Nat, arrival : Nat]],
   preRouted  : BOOLEAN,    \* all requests are queued before the run
   pdType     : {"none", "prefill", "decode"},
   chunked    : BOOLEAN,    \* enable_chunked_prefill
   threshold  : Nat,        \* long_prefill_token_threshold, 0 = off
   prioritize : BOOLEAN,    \* prioritize_prefill
   numSeqs    : Nat,        \* max_num_seqs
   tokens     : Nat \ {0},  \* max_num_batched_tokens
   ppSize     : Nat \ {0},
   numNpus    : Nat \ {0},
   blockSize  : Nat \ {0},  \* tokens in a KV block
   npuBlocks  : Nat,        \* KV blocks of one rank: npu_mem minus the weight
   cpuBlocks  : Nat]        \* cpu_mem in blocks

ASSUME ReqAssumption == Req \subseteq Nat /\ IsFiniteSet(Req)

ASSUME SimulationAssumption ==
  /\ Simulations \subseteq SimulationType
  /\ \A x \in Simulations, r \in Req : x.work[r].output > x.work[r].input

ASSUME NpuAssumption == {StartNpu, LastNpu} \subseteq Npus

VARIABLES
  sim,       \* the simulation that runs, one of Simulations
  now,       \* the simulated clock
  pending,   \* requests the router has not handed over yet
  request,   \* Scheduler.request: the queue
  inflight,  \* Scheduler.inflight: batches in the pipeline
  finished,  \* requests add_done returned in end_reqs
  computed,  \* Request.num_computed_tokens
  chunk,     \* Request.chunk_len
  evict,     \* Request.evict: KV spilled to the host
  npuUsed,   \* MemoryModel.npu_used above the weight
  cpuUsed,   \* MemoryModel.cpu_used
  batchIds,  \* Scheduler.batch_ids + 1: the next batch id
  iter,      \* iterations each NPU has reported: the id it passes
  failed     \* the RuntimeError that ended the run, or "none"

memory == <<npuUsed, cpuUsed>>
vars == <<sim, now, pending, request, inflight, finished, computed, chunk, evict,
          npuUsed, cpuUsed, batchIds, iter, failed>>
-----------------------------------------------------------------------------
PreRouted         == sim.preRouted
PdType            == sim.pdType
Chunked           == sim.chunked
Threshold         == sim.threshold
PrioritizePrefill == sim.prioritize
MaxNumSeqs        == sim.numSeqs
MaxTokens         == sim.tokens
PpSize            == sim.ppSize
NumNpus           == sim.numNpus
BlockSize         == sim.blockSize
NpuBlocks         == sim.npuBlocks
CpuBlocks         == sim.cpuBlocks

(* Requests *)

Input(r)   == sim.work[r].input    \* Request.original_input: prompt tokens
Output(r)  == sim.work[r].output   \* Request.output: prompt plus generated tokens
Arrival(r) == sim.work[r].arrival  \* Request.arrival

(* Request.is_prefill *)
IsPrefill(r) == computed[r] < Input(r)
Prefills == {r \in Req : IsPrefill(r)}
Decodes  == Req \ Prefills

(* The sort key (arrival, id) of the queue. *)
Earlier(r, s) == \/ Arrival(r) < Arrival(s)
                 \/ Arrival(r) = Arrival(s) /\ r < s

Batched(b) == Items(b.reqs)
Running == UNION {Batched(inflight[i]) : i \in DOMAIN inflight}
Queued  == Items(request)

(* KV blocks, as (request, block number) pairs: the blocks that hold the   *)
(* computed tokens of S, and those a step over `tokens' adds to them.      *)
Blocks(n) == (n + BlockSize - 1) \div BlockSize
HeldAt(S, c) == Pairs([r \in S |-> 1 .. Blocks(c[r])])
Held(S) == HeldAt(S, computed)
Grown(S, tokens) ==
  Pairs([r \in S |-> Blocks(computed[r]) + 1 .. Blocks(computed[r] + tokens[r])])

-----------------------------------------------------------------------------
(* Scheduler.schedule_base, start NPU: which requests, how many tokens *)

RunningSeqs == Cardinality(Pairs([i \in DOMAIN inflight |-> DOMAIN inflight[i].reqs]))
SlotsIgnoringRunning == MaxNumSeqs
Slots == Greatest(0, MaxNumSeqs - RunningSeqs)

(* The head of the queue that has arrived, cut at the sequence cap. *)
Candidates ==
  LET arrived == Keep(request, {r \in Req : Arrival(r) <= now})
  IN  Prefix(arrived, Least(Len(arrived), Slots))

(* gen_req, the decodes that may be preempted. *)
GenReqAll(s) == s
GenReq(s) == Keep(s, Decodes)

Ordered(s) ==
  IF Chunked THEN Keep(s, Decodes) \o Keep(s, Prefills)
  ELSE IF PrioritizePrefill /\ Items(s) \cap Prefills # {}
       THEN Keep(s, Prefills)
       ELSE s

(* Tokens a request would run if the budget were endless. *)
Want(r) ==
  IF ~IsPrefill(r) THEN 1
  ELSE IF ~Chunked THEN Input(r)
  ELSE IF 0 < Threshold /\ Threshold < Input(r) - computed[r]
       THEN Threshold
       ELSE Input(r) - computed[r]

(* Tokens wanted by the first n requests of list s. *)
Demand(s, n) == Cardinality(Pairs([i \in 1 .. n |-> 1 .. Want(s[i])]))

(* Chunked prefill serves requests while budget is left, and cuts the last *)
(* one down to it; otherwise the tail is dropped until the sum fits.       *)
Budgeted(s) ==
  Prefix(s, Cardinality({n \in DOMAIN s : IF Chunked THEN Demand(s, n - 1) < MaxTokens
                                                     ELSE Demand(s, n) <= MaxTokens}))

ScheduledTokensOwnCharge(s) ==
  [r \in Items(s) |->
     IF Chunked THEN Least(Want(r), MaxTokens - Demand(s, Pos(s, r))) ELSE Want(r)]
ScheduledTokens(s) ==
  [r \in Items(s) |->
     IF Chunked THEN Least(Want(r), MaxTokens - Demand(s, Pos(s, r) - 1)) ELSE Want(r)]

(* Request.chunk_len is written while the budget is dealt out, before it   *)
(* is known whether the request will be part of the batch.                 *)
DealtChunks(tokens) ==
  [r \in Req |-> IF Chunked /\ r \in DOMAIN tokens /\ IsPrefill(r)
                 THEN tokens[r] ELSE chunk[r]]

-----------------------------------------------------------------------------
(* Scheduler.schedule_base, the preemption loop.  reqs is the batch after  *)
(* the token budget, gen the decodes that may be preempted (gen_req).      *)

(* Spilled after m entries of gen have been looked at from the back; those *)
(* already in host memory are skipped.                                     *)
Victims(gen, m) == {gen[j] : j \in {i \in DOMAIN gen : i > Len(gen) - m /\ ~evict[gen[i]]}}

(* batch_len after spilling the requests in out: the entries of gen_req    *)
(* before the one spilled last.                                            *)
Limit(reqs, gen, out) ==
  IF out = {} THEN Len(reqs)
  ELSE Least(Len(reqs),
             Cardinality({i \in DOMAIN gen : \A j \in 1 .. i : gen[j] \notin out}))

ReloadsNothing(S, out) == {}
Reloads(S, out) == {r \in S : evict[r] \/ r \in out}

(* get_block_kv + _get_reload_size against is_avail, for the first n. *)
Fits(reqs, tokens, n, out) ==
  LET S == Items(Prefix(reqs, n))
  IN  Cardinality(Grown(S, tokens)) + Cardinality(Held(Reloads(S, out)))
        <= NpuBlocks - (npuUsed - Cardinality(Held(out)))

Enough(reqs, tokens, gen, out) == \E n \in 1 .. Limit(reqs, gen, out) : Fits(reqs, tokens, n, out)

(* Request.evict after a call that spilled `out' and took a batch. *)
EvictFlags(taken, out) == [r \in Req |-> r \notin taken /\ (evict[r] \/ r \in out)]

(* _raise_if_deadlocked: somebody waits and nothing is in flight. *)
NeverDeadlocked(batchLen) == FALSE
Deadlocked(batchLen) == batchLen >= 1 /\ RunningSeqs = 0

(* MemoryModel.allocate on the host, which raises when it is full. *)
CpuRoom(out) == cpuUsed + NumNpus * Cardinality(Held(out)) <= CpuBlocks

(* The early returns: the queue head has not arrived, or the pipeline is   *)
(* full.  The NPU asks only when it is idle.                               *)
CanSchedule ==
  /\ failed = "none"
  /\ PreRouted => pending = {}
  /\ \A i \in DOMAIN inflight :
       StartNpu \in inflight[i].fired => StartNpu \in inflight[i].end
  /\ request # <<>>
  /\ Arrival(request[1]) <= now
  /\ Len(inflight) < PpSize

(* Steps 3 to 5 once n requests fit with those in out spilled: reload what *)
(* was spilled, allocate, and put the batch in flight.                     *)
FormBatch(reqs, tokens, n, out) ==
  LET batch  == Prefix(reqs, n)
      taken  == Items(batch)
      freed  == Cardinality(Held(out))
      loaded == Cardinality(Held(Reloads(taken, out)))
      size   == Cardinality(Grown(taken, tokens))
  IN  /\ request' = Keep(request, Req \ taken)
      /\ inflight' = Append(inflight, [id |-> batchIds, reqs |-> batch,
                                       fired |-> {StartNpu}, end |-> {}])
      /\ evict' = EvictFlags(taken, out)
      /\ npuUsed' = npuUsed - freed + size + loaded
      /\ cpuUsed' = cpuUsed + NumNpus * freed - NumNpus * loaded
      /\ failed' = IF npuUsed - freed < 0 \/ npuUsed' > NpuBlocks \/ cpuUsed' < 0
                   THEN "accounting" ELSE "none"
      /\ batchIds' = batchIds + 1

(* Every decode has been spilled and still nothing fits: the call returns  *)
(* None and keeps the evictions, or raises in _raise_if_deadlocked.        *)
GiveUp(reqs, gen, out) ==
  LET freed == Cardinality(Held(out))
  IN  /\ evict' = EvictFlags({}, out)
      /\ npuUsed' = npuUsed - freed
      /\ cpuUsed' = cpuUsed + NumNpus * freed
      /\ failed' = IF npuUsed - freed < 0 THEN "accounting"
                   ELSE IF Deadlocked(Limit(reqs, gen, out)) THEN "deadlock" ELSE "none"
      /\ UNCHANGED <<request, inflight, batchIds>>

(* Scheduler.schedule_base on the start NPU.  The loop stops after the     *)
(* first m entries of gen_req that make room, or after all of them.        *)
ScheduleBase ==
  /\ CanSchedule
  /\ \E reqs \in {Budgeted(Ordered(Candidates))}, gen \in {GenReq(Candidates)} :
     \E tokens \in {ScheduledTokens(reqs)}, m \in 0 .. Len(gen) :
     \E out \in {Victims(gen, m)} :
       LET top       == Limit(reqs, gen, out)
           enough(k) == Enough(reqs, tokens, gen, Victims(gen, k))
       IN  /\ reqs # <<>>
           /\ \A k \in 0 .. m - 1 : ~enough(k)
           /\ enough(m) \/ m = Len(gen)
           /\ \/ /\ CpuRoom(out)
                 /\ \E n \in 1 .. top :
                      /\ Fits(reqs, tokens, n, out)
                      /\ \A k \in n + 1 .. top : ~Fits(reqs, tokens, k, out)
                      /\ FormBatch(reqs, tokens, n, out)
              \/ /\ CpuRoom(out) /\ ~enough(m)
                 /\ GiveUp(reqs, gen, out)
              \/ /\ ~CpuRoom(out)
                 /\ failed' = "cpu_full"
                 /\ UNCHANGED <<request, inflight, evict, memory, batchIds>>
           /\ chunk' = DealtChunks(tokens)
  /\ UNCHANGED <<sim, now, pending, finished, computed, iter>>

(* schedule_base, other NPUs: NPU s picks up the batch whose number it     *)
(* passes, once.                                                           *)
ScheduleAnyExisting(s) ==
  /\ failed = "none" /\ s # StartNpu
  /\ \E i \in DOMAIN inflight :
       /\ s \notin inflight[i].fired
       /\ inflight' = [inflight EXCEPT ![i].fired = @ \cup {s}]
  /\ UNCHANGED <<sim, now, pending, request, finished, computed, chunk, evict, memory,
                 batchIds, iter, failed>>
ScheduleExisting(s) ==
  /\ failed = "none" /\ s # StartNpu
  /\ \E i \in DOMAIN inflight :
       /\ inflight[i].id = iter[s] /\ s \notin inflight[i].fired
       /\ inflight' = [inflight EXCEPT ![i].fired = @ \cup {s}]
  /\ UNCHANGED <<sim, now, pending, request, finished, computed, chunk, evict, memory,
                 batchIds, iter, failed>>

-----------------------------------------------------------------------------
(* Scheduler.add_done *)

StepOf(r) == IF ~IsPrefill(r) THEN 1
             ELSE IF chunk[r] > 0 THEN chunk[r] ELSE Input(r) - computed[r]
After(r) == computed[r] + StepOf(r)

(* A prefill instance hands a request over when its prompt is computed;    *)
(* otherwise it ends with the token before the last one.                   *)
LeavesLate(r) ==
  \/ PdType = "prefill" /\ IsPrefill(r) /\ After(r) > Input(r)
  \/ Output(r) <= After(r)
Leaves(r) ==
  \/ PdType = "prefill" /\ IsPrefill(r) /\ After(r) >= Input(r)
  \/ Output(r) <= After(r) + 1

(* x is before y in the result of the two-pointer merge of lists l and r:  *)
(* an element waits for the latest key that precedes it in its own list.   *)
Lead(s, x) == CHOOSE y \in Items(s) :
  /\ Pos(s, y) <= Pos(s, x)
  /\ \A z \in Items(s) : Pos(s, z) <= Pos(s, x) => z = y \/ Earlier(z, y)

(* _merge_by_arrival_id, with its shortcuts for disjoint ranges. *)
IsMerge(q, l, r) ==
  IF l = <<>> \/ r = <<>> THEN q = l \o r
  ELSE IF ~Earlier(r[1], l[Len(l)]) THEN q = l \o r
  ELSE IF ~Earlier(l[1], r[Len(r)]) THEN q = r \o l
  ELSE /\ Keep(q, Items(l)) = l /\ Keep(q, Items(r)) = r
       /\ \A x \in Items(l), y \in Items(r) :
            Pos(q, x) < Pos(q, y) <=> Earlier(Lead(l, x), Lead(r, y))

RequeueOnlyPool(pool) == request' = pool
RequeueBehind(pool) == request' = request \o pool
Requeue(pool) ==
  IF PrioritizePrefill
  THEN \E q \in Arrangements(Items(pool) \cup Queued) :
         IsMerge(q, pool, request) /\ request' = q
  ELSE request' = pool \o request

(* The last of the two reports a batch waits for. *)
Completes(b, s) == {StartNpu, LastNpu} \subseteq b.end \cup {s}

(* NPU s reports the iteration it ran; the pipeline is not through yet. *)
Report(s, i) ==
  /\ failed = "none"
  /\ s \in inflight[i].fired \ inflight[i].end
  /\ ~Completes(inflight[i], s)
  /\ inflight' = [inflight EXCEPT ![i].end = @ \cup {s}]
  /\ iter' = [iter EXCEPT ![s] = inflight[i].id + 1]
  /\ UNCHANGED <<sim, now, pending, request, finished, computed, chunk, evict, memory,
                 batchIds, failed>>

(* The report that completes batch i: its requests advance, the finished   *)
(* ones free their KV, the others go back to the queue.                    *)
AddDone(s, i) ==
  /\ failed = "none"
  /\ s \in inflight[i].fired \ inflight[i].end
  /\ Completes(inflight[i], s)
  /\ LET batch  == Batched(inflight[i])
         leaves == {r \in batch : Leaves(r)}
     IN  /\ computed' = [r \in Req |-> IF r \in batch THEN After(r) ELSE computed[r]]
         /\ chunk' = [r \in Req |-> IF r \in batch \cap Prefills THEN 0 ELSE chunk[r]]
         /\ npuUsed' = npuUsed - Cardinality(HeldAt(leaves, computed'))
         /\ finished' = finished \cup leaves
         /\ Requeue(Keep(inflight[i].reqs, Req \ leaves))
         /\ failed' = IF \/ npuUsed' < 0
                         \/ \E r \in batch \cap Prefills : StepOf(r) > MaxTokens
                      THEN "accounting" ELSE "none"
  /\ inflight' = SubSeq(inflight, 1, i - 1) \o SubSeq(inflight, i + 1, Len(inflight))
  /\ iter' = [iter EXCEPT ![s] = inflight[i].id + 1]
  /\ UNCHANGED <<sim, now, pending, evict, cpuUsed, batchIds>>

-----------------------------------------------------------------------------
(* Scheduler.add_request: requests are routed in (arrival, id) order, so   *)
(* bisect.insort puts a new one behind everything that is queued.          *)
AddRequest(r) ==
  /\ failed = "none" /\ PdType # "decode"
  /\ r \in pending /\ \A s \in pending : s = r \/ Earlier(r, s)
  /\ PreRouted \/ Arrival(r) <= now
  /\ request' = Append(request, r)
  /\ pending' = pending \ {r}
  /\ UNCHANGED <<sim, now, inflight, finished, computed, chunk, evict, memory, batchIds,
                 iter, failed>>

(* Scheduler.add_decode: a request whose prompt was computed elsewhere is  *)
(* appended, and its whole KV is allocated without asking for room.        *)
AddDecode(r) ==
  /\ failed = "none" /\ PdType = "decode"
  /\ r \in pending /\ Arrival(r) <= now
  /\ request' = Append(request, r)
  /\ pending' = pending \ {r}
  /\ computed' = [computed EXCEPT ![r] = Input(r)]
  /\ LET size == Blocks(Input(r))
     IN  IF npuUsed + size > NpuBlocks
         THEN failed' = "npu_full" /\ UNCHANGED npuUsed
         ELSE npuUsed' = npuUsed + size /\ UNCHANGED failed
  /\ UNCHANGED <<sim, now, inflight, finished, chunk, evict, cpuUsed, batchIds, iter>>

(* The clock is only told from arrivals: it stops after the last one. *)
Tick ==
  /\ failed = "none"
  /\ \E r \in Req : now < Arrival(r)
  /\ now' = now + 1
  /\ UNCHANGED <<sim, pending, request, inflight, finished, computed, chunk, evict,
                 memory, batchIds, iter, failed>>

Init ==
  /\ sim \in Simulations
  /\ now = 0
  /\ pending = Req
  /\ request = <<>> /\ inflight = <<>>
  /\ finished = {}
  /\ computed = [r \in Req |-> 0]
  /\ chunk = [r \in Req |-> 0]
  /\ evict = [r \in Req |-> FALSE]
  /\ npuUsed = 0 /\ cpuUsed = 0
  /\ batchIds = 0
  /\ iter = [s \in Npus |-> 0]
  /\ failed = "none"

(* is_request_empty with nothing left to route, or a RuntimeError. *)
Stopped == /\ failed # "none" \/ finished = Req
           /\ UNCHANGED vars

Next ==
  \/ Tick
  \/ \E r \in Req : AddRequest(r) \/ AddDecode(r)
  \/ ScheduleBase
  \/ \E s \in Npus : ScheduleExisting(s)
  \/ \E s \in Npus : \E i \in DOMAIN inflight : Report(s, i) \/ AddDone(s, i)
  \/ Stopped

Spec == Init /\ [][Next]_vars

(* The main loop polls every NPU again and again, ASTRA-Sim ends every     *)
(* iteration and the clock moves: as long as some step can change the      *)
(* state, one is taken.  No fairness between the steps is needed.          *)
FairSpec == Spec /\ WF_vars(Next)
-----------------------------------------------------------------------------
(* Properties *)

Reasons == {"none", "deadlock", "accounting", "cpu_full", "npu_full"}
BatchType == [id : Nat, reqs : Seq(Req), fired : SUBSET Npus, end : SUBSET Npus]

(* Types of the scheduler's state. *)
TypeOK ==
  /\ sim \in SimulationType
  /\ now \in Nat
  /\ pending \subseteq Req
  /\ request \in Seq(Req)
  /\ inflight \in Seq(BatchType)
  /\ finished \subseteq Req
  /\ computed \in [Req -> Nat]
  /\ chunk \in [Req -> Nat]
  /\ evict \in [Req -> BOOLEAN]
  /\ npuUsed \in Int /\ cpuUsed \in Int
  /\ batchIds \in Nat
  /\ iter \in [Npus -> Nat]
  /\ failed \in Reasons

(* Every request is in exactly one place, once: still with the router, in  *)
(* the queue, in one batch of the pipeline, or finished.  A request lost   *)
(* or doubled when batches are removed from the queue and put back in      *)
(* front of it would show here.                                            *)
OnePlace ==
  /\ Distinct(request)
  /\ \A i \in DOMAIN inflight : Distinct(inflight[i].reqs)
  /\ \A i, j \in DOMAIN inflight :
       i # j => Batched(inflight[i]) \cap Batched(inflight[j]) = {}
  /\ pending \cup Queued \cup Running \cup finished = Req
  /\ pending \cap (Queued \cup Running \cup finished) = {}
  /\ Queued \cap (Running \cup finished) = {}
  /\ Running \cap finished = {}

(* The KV a rank must hold: what the queued requests have computed, unless *)
(* it was spilled, and what the running ones will have after their step.   *)
ResidentBlocks ==
  HeldAt({r \in Queued : ~evict[r]}, computed)
    \cup HeldAt(Running, [r \in Req |-> After(r)])
SpilledBlocks == Held({r \in Queued : evict[r]})

(* The byte counters are exactly the KV of the requests: nothing leaks     *)
(* and nothing is freed twice over chunked prefill, preemption, reload,    *)
(* completion and hand-over, although each of them computes its own size.  *)
KvConserved ==
  failed = "none" =>
    /\ npuUsed = Cardinality(ResidentBlocks)
    /\ cpuUsed = NumNpus * Cardinality(SpilledBlocks)

(* The checks inside MemoryModel.allocate, free and add_done that raise    *)
(* never do so on the NPU side: what is allocated was found to fit, and    *)
(* what is freed was allocated.                                            *)
NoAccountingError == failed # "accounting"

(* The two halves of the accounting: the counters are exact, and the       *)
(* admission that reads them never lets an allocation fail.                *)
KvAccounted == KvConserved /\ NoAccountingError

(* Only a queued decode is spilled: a batch never runs on KV that is in    *)
(* host memory, and a finished request leaves none behind.                 *)
SpilledWaits == \A r \in Req : evict[r] => r \in Queued /\ ~IsPrefill(r)

(* A request is over exactly when it should be: with the token before the  *)
(* last one (the last is never computed), on a prefill instance with its   *)
(* prompt, on a decode instance after one step at the earliest.  Chunks,   *)
(* preemptions and hand-overs neither skip a token nor repeat one.         *)
FinishesExactly ==
  \A r \in finished :
    computed[r] = CASE PdType = "none"    -> Output(r) - 1
                    [] PdType = "prefill" -> Input(r)
                    [] PdType = "decode"  -> Greatest(Output(r) - 1, Input(r) + 1)

(* Batches in the pipeline respect the token budget, the sequence cap      *)
(* counted over all of them, and the pipeline depth.                       *)
WithinLimits ==
  /\ Len(inflight) <= PpSize
  /\ RunningSeqs <= MaxNumSeqs
  /\ \A i \in DOMAIN inflight :
       Cardinality(Pairs([r \in Batched(inflight[i]) |-> 1 .. StepOf(r)])) <= MaxTokens

(* schedule_base returns at once when the queue head has not arrived: then *)
(* nothing behind it may have arrived, however batches were put back.      *)
HeadArrivesFirst ==
  request # <<>> /\ Arrival(request[1]) > now =>
    \A r \in Queued : Arrival(r) > now

(* Without chunked prefill and with one batch at a time the queue stays    *)
(* sorted by (arrival, id): what the batch put back in front is older than *)
(* what stayed behind, and a merge of sorted lists is sorted.              *)
QueueSorted ==
  ~Chunked /\ PpSize = 1 /\ PdType # "decode" =>
    \A i, j \in DOMAIN request : i < j => Earlier(request[i], request[j])

(* The order the early returns of schedule_base rely on. *)
QueueInOrder == HeadArrivesFirst /\ QueueSorted

(* Batches leave the pipeline in the order they were formed. *)
PipelineFifo ==
  [][Len(inflight') < Len(inflight) => inflight' = Tail(inflight)]_inflight

(* Every request is served, unless the run ends with an error: preempted   *)
(* requests come back and no request is passed over forever.               *)
EventuallyServed == <>(finished = Req \/ failed # "none")
=============================================================================
