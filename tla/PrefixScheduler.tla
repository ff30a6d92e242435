-------------------------- MODULE PrefixScheduler --------------------------
(***************************************************************************)
(* One serving instance with prefix caching: the request queue, the        *)
(* batches in the pipeline, the radix tree of the NPU and the trees of the *)
(* tiers below it (host or CXL memory, then FLASH, JBOF, COLDSTORE).       *)
(*                                                                         *)
(* Translated from Scheduler.schedule_with_prefix, add_done and add_decode *)
(* in serving/core/scheduler.py with the MemoryModel operations they call. *)
(* What schedule_base does in the same way is taken from BaseScheduler.    *)
(*                                                                         *)
(* Memory is counted in tokens.  A handler is a pipeline of operators from *)
(* a memory record m, the part of the state they change, to the set of     *)
(* records they may leave: eviction may pick any unlocked leaf.  A         *)
(* RuntimeError sets m.failed, and what is left of the handler is skipped. *)
(*                                                                         *)
(* An operator defined right before another one and named after it is a    *)
(* plausible mistake in it; the specification does not use it.             *)
(***************************************************************************)
EXTENDS RadixTree, SequencesExt

CONSTANTS
  Req,               \* request ids, natural numbers
  Simulations,       \* command lines with their cluster and dataset
  Npus,              \* the simulated NPUs that report to the scheduler
  StartNpu, LastNpu  \* the first and the last stage of the pipeline

VARIABLES
  sim, now, pending, request, inflight, finished,  \* as in BaseScheduler
  computed, chunk, evict,                          \* of the requests
  npuUsed, cpuUsed,                                \* in tokens
  batchIds, iter, failed,
  npu,    \* MemoryModel.npu_prefix_cache
  tiers,  \* second_tier_prefix_cache and the deep tiers below it
  info    \* what prefix caching keeps in a Request

cache == <<computed, chunk, evict, npuUsed, cpuUsed, failed, npu, tiers, info>>
vars == <<sim, now, pending, request, inflight, finished, batchIds, iter, cache>>

B == INSTANCE BaseScheduler

(* A dataset with the tokens of each request, and the parameters of        *)
(* Scheduler.__init__ and MemoryModel.__init__.  cpuBlocks is of the base  *)
(* scheduler, which counts host memory itself.                             *)
SimulationType ==
  [work       : [Req -> [ids : Seq(Nat), input : Nat \ {0}, output : Nat, arrival : Nat]],
   preRouted  : BOOLEAN, pdType : {"none", "prefill", "decode"},
   chunked    : BOOLEAN, threshold : Nat, prioritize : BOOLEAN,
   numSeqs    : Nat, tokens : Nat \ {0}, ppSize : Nat \ {0}, numNpus : Nat \ {0},
   blockSize  : Nat \ {0}, npuBlocks : Nat, cpuBlocks : Nat,
   storage    : {"none", "CPU", "CXL"},
   sharing    : BOOLEAN,
   policy     : {"inclusive", "exclusive"},
   tierCaps   : Seq(Nat),            \* tokens that each tier below the NPU holds
   pooled     : SUBSET Seq(Nat)]     \* prefixes other instances have left in the pool

ASSUME PrefixReqAssumption == Req \subseteq Nat /\ IsFiniteSet(Req) /\ {StartNpu, LastNpu} \subseteq Npus

ASSUME PrefixAssumption ==
  /\ Simulations \subseteq SimulationType
  /\ \A x \in Simulations :
       /\ IsFiniteSet(x.pooled)
       /\ x.storage # "none" => x.tierCaps # <<>>
       /\ x.pooled # {} => x.sharing   \* a private cache starts empty
       /\ \A r \in Req : x.work[r].output > x.work[r].input /\ Len(x.work[r].ids) = x.work[r].output
-----------------------------------------------------------------------------
(* The parameters that BaseScheduler does not have. *)
Storage    == sim.storage                 \* prefix_storage: "none", "CPU" or "CXL"
Sharing    == sim.sharing                 \* enable_prefix_sharing: the tiers are pools
Exclusive  == sim.policy = "exclusive" /\ Storage # "none"  \* there is a _spill_chain
TierCap(i) == sim.tierCaps[i]
NpuCap     == B!NpuBlocks * B!BlockSize   \* mem_for_kv
Ids(r)     == sim.work[r].ids             \* input_hash_ids + output_hash_ids
Page       == B!BlockSize

NoNode == <<>>
NewInfo == [hit |-> 0, reload |-> 0, counted |-> FALSE, node |-> NoNode, cpuNode |-> NoNode,
            locked |-> FALSE, isInit |-> TRUE]

M == [computed |-> computed, chunk |-> chunk, evict |-> evict, npuUsed |-> npuUsed,
      cpuUsed |-> cpuUsed, failed |-> failed, npu |-> npu, tiers |-> tiers, info |-> info]

Fail(m, why) == [m EXCEPT !.failed = why]
Then(S, F(_)) == UNION {IF m.failed = "none" THEN F(m) ELSE {m} : m \in S}
ForEach(S, s, F(_, _)) == FoldLeft(LAMBDA T, x : Then(T, LAMBDA m : F(m, x)), S, s)
SumSeq(s) == FoldLeft(LAMBDA a, x : a + x, 0, s)

IsPrefill(m, r) == m.computed[r] < B!Input(r)
Aligned(n) == Page * B!Blocks(n)
AvailNpu(m) == Greatest(NpuCap - Size(m.npu), 0)
AvailTier(m, i) == Greatest(TierCap(i) - Size(m.tiers[i]), 0)
-----------------------------------------------------------------------------
(* MemoryModel: eviction and the accounting of what the trees gained and   *)
(* lost (apply_kv_cache_events).                                           *)

InsertAll(t, paths) == FoldLeft(LAMBDA u, p : Insert(u, p, 1), t, SetToSeq(paths))

(* _evict_tier: what tier i evicts is written one tier deeper, and what is *)
(* then too much there goes on; the last tier drops.                       *)
SpillDropped(m, i, k) ==
  {[m EXCEPT !.tiers[i] = Delete(@, R)] : R \in Evictions(m.tiers[i], k)}
Spill(m, i, k) ==
  LET spilled(a, j) ==
        IF a.k <= 0 THEN {a}
        ELSE {LET out  == [a.m EXCEPT !.tiers[j] = Delete(@, R)]
                  down == [out EXCEPT !.tiers[j + 1] = InsertAll(@, {Path(n) : n \in R})]
              IN  IF j = Len(m.tiers) THEN [m |-> out, k |-> 0]
                  ELSE [m |-> down, k |-> Size(down.tiers[j + 1]) - TierCap(j + 1)]
              : R \in Evictions(a.m.tiers[j], a.k)}
  IN  {a.m : a \in FoldLeft(LAMBDA S, j : UNION {spilled(a, j) : a \in S},
                            {[m |-> m, k |-> k]}, [j \in 1 .. Len(m.tiers) - i + 1 |-> j + i - 1])}

(* _evict_npu: an evicted prefix moves to the tier below if that can make  *)
(* room for it, and is dropped otherwise.                                  *)
Demote(m, k) ==
  LET demoted(x, n) ==
        {IF Size(y.tiers[1]) + Len(Path(n)) <= TierCap(1)
         THEN [y EXCEPT !.tiers[1] = Insert(@, Path(n), 1)] ELSE y
         : y \in Spill(x, 1, Size(x.tiers[1]) + Len(Path(n)) - TierCap(1))}
  IN  UNION {UNION {ForEach({[m EXCEPT !.npu = Delete(@, R)]}, s, demoted)
                    : s \in Collected(m.npu, R, k)} : R \in Evictions(m.npu, k)}

EvictNpu(m, k) ==
  IF k <= 0 THEN {m}
  ELSE IF Exclusive THEN Demote(m, k)
  ELSE {[m EXCEPT !.npu = Delete(@, R)] : R \in Evictions(m.npu, k)}

(* The tail of apply_kv_cache_events: only a private host cache counts     *)
(* against cpu_mem.                                                        *)
TierEvents(m) ==
  IF Storage # "CPU" \/ Sharing THEN {[m EXCEPT !.tiers = [i \in DOMAIN @ |-> Taken(@[i])]]}
  ELSE LET used == m.cpuUsed - m.tiers[1].removed
       IN  IF used < 0 THEN {Fail(m, "accounting")}
           ELSE IF used + m.tiers[1].stored > TierCap(1) THEN {Fail(m, "cpu_full")}
           ELSE {[m EXCEPT !.cpuUsed = used + m.tiers[1].stored, !.tiers[1] = Taken(@)]}

FreeRemovedAgain(m) ==
  IF m.npuUsed < m.npu.removed THEN Fail(m, "accounting")
  ELSE [m EXCEPT !.npuUsed = @ - m.npu.removed]
FreeRemoved(m) ==
  IF m.npuUsed < m.npu.removed THEN Fail(m, "accounting")
  ELSE [m EXCEPT !.npuUsed = @ - m.npu.removed, !.npu = Taken(@)]

(* apply_kv_cache_events: room is made before what was stored is counted.  *)
Apply(m) ==
  LET grown == m.npu.stored
      room(x) == Then(EvictNpu(x, x.npuUsed + grown - NpuCap),
                      LAMBDA y : Then({FreeRemoved(y)}, TierEvents))
      allocate(x) == IF x.npuUsed + grown > NpuCap THEN {Fail(x, "npu_full")}
                     ELSE TierEvents([x EXCEPT !.npuUsed = @ + grown])
  IN  IF grown = 0 THEN Then({FreeRemoved(m)}, TierEvents)
      ELSE Then(Then({FreeRemoved(m)}, room), allocate)

(* evict_prefix_cache on the NPU and on prefix_storage. *)
EvictPrefixNpu(m, k) == IF k <= 0 THEN {m} ELSE Then(EvictNpu(m, k), Apply)
EvictPrefixStorage(m, k) ==
  IF k <= 0 THEN {m}
  ELSE IF Storage = "CXL" THEN {Fail(m, "unsupported")}
  ELSE Then(IF Exclusive THEN Spill(m, 1, k)
            ELSE {[m EXCEPT !.tiers[1] = Delete(@, R)] : R \in Evictions(m.tiers[1], k)},
            Apply)

(* make_room_deep_tiers *)
MakeRoomDeepTiers(m, total) ==
  IF Exclusive
  THEN ForEach({m}, [i \in DOMAIN m.tiers |-> i],
               LAMBDA x, i : Spill(x, i, Size(x.tiers[i]) - TierCap(i)))
  ELSE ForEach({m}, [i \in 1 .. Len(m.tiers) - 1 |-> i + 1],
               LAMBDA x, i : {[x EXCEPT !.tiers[i] = Delete(@, R)]
                              : R \in Evictions(x.tiers[i], total - AvailTier(x, i))})
-----------------------------------------------------------------------------
(* MemoryModel: a request and the cache *)

(* What can be matched of a request: tokens[:req.input]. *)
MatchableAll(r) == Ids(r)
Matchable(r) == Prefix(Ids(r), B!Input(r))

(* prefix_match: the longest prefix any tier holds.  A deep tier reloads   *)
(* what no closer tier has.                                                *)
PrefixMatch(m, r) ==
  LET key == Matchable(r)
      hit == [i \in 0 .. Len(m.tiers) |-> IF i = 0 THEN HitLength(m.npu, key, Page)
                                          ELSE HitLength(m.tiers[i], key, 1)]
      to(i) == Max({hit[j] : j \in 0 .. i})
      all == to(Len(m.tiers))
      deep == IF Len(m.tiers) > 1 THEN all - to(1) ELSE 0
  IN  [m EXCEPT !.npu = Matched(@, key, Page),
                !.tiers = [i \in DOMAIN @ |-> Matched(@[i], key, 1)],
                !.info[r] = [@ EXCEPT !.node = MatchNode(m.npu, key, Page),
                                      !.hit = all, !.reload = deep],
                !.computed[r] = IF @ = 0 THEN all ELSE @]

(* lock_prefix, unlock_prefix on the NPU *)
Lock(m, r) == [m EXCEPT !.npu = IncLock(@, m.info[r].node)]
Unlock(m, r) ==
  [m EXCEPT !.npu = DecLock(@, m.info[r].node),
            !.info[r] = [@ EXCEPT !.node = NoNode, !.locked = FALSE]]

(* Lock what is about to be used, unless it is. *)
LockOnce(m, r) ==
  IF m.info[r].node = NoNode \/ m.info[r].locked THEN m
  ELSE [Lock(m, r) EXCEPT !.info[r].locked = TRUE]

(* unlock_prefix, then erase_prefix_info: what was matched is forgotten,   *)
(* num_computed_tokens is not.                                             *)
Rollback(m, r) ==
  IF IsPrefill(m, r) /\ m.info[r].locked
  THEN [Unlock(m, r) EXCEPT !.info[r].hit = 0] ELSE m
RollbackAll(m, s) == FoldLeft(Rollback, m, s)

(* cache_unfinished_req on the NPU: the lock moves to what is computed.    *)
CacheUnfinished(m, r) ==
  LET key == Prefix(Ids(r), Paged(m.computed[r], Page))
      old == m.info[r].node
      moved(t, n) ==
        [m EXCEPT !.npu = IncLock(IF old # NoNode /\ m.info[r].locked THEN DecLock(t, old) ELSE t, n),
                  !.info[r] = [@ EXCEPT !.node = n, !.locked = TRUE]]
      entered(t) == moved(t, NodeAt(t, key))
  IN  Apply(entered(Insert(m.npu, key, Page)))

(* cache_finished_req on the NPU: the last token is not computed. *)
CacheFinished(m, r) ==
  LET n == m.info[r].node
      released(t) == IF m.info[r].locked /\ n # NoNode THEN DecLock(t, n) ELSE t
  IN  Apply([m EXCEPT
        !.npu = released(Insert(m.npu, Prefix(Ids(r), Paged(Len(Ids(r)) - 1, Page)), Page)),
        !.info[r] = [@ EXCEPT !.node = IF m.info[r].locked THEN NoNode ELSE n, !.locked = FALSE]])

(* Both on prefix_storage: the inclusive policy writes through. *)
WriteThrough(m, key) ==
  IF Storage = "none" THEN {m}
  ELSE Apply(IF Exclusive THEN m
             ELSE [m EXCEPT !.tiers = [i \in DOMAIN @ |-> Insert(@[i], key, 1)]])

CacheUnfinishedAll(m, r) ==
  Then(CacheUnfinished(m, r), LAMBDA x : WriteThrough(x, Prefix(Ids(r), x.computed[r])))
CacheFinishedAll(m, r) ==
  Then(CacheFinished(m, r), LAMBDA x : WriteThrough(x, Prefix(Ids(r), Len(Ids(r)) - 1)))

(* storage_cache_evicted_req: the KV of a preempted request is parked in   *)
(* the second tier, and locked there.                                      *)
Park(m, r) ==
  LET key == Prefix(Ids(r), m.computed[r])
      held(t, n) == [m EXCEPT !.tiers[1] = IncLock(t, n), !.info[r].cpuNode = n]
      parked(t)  == held(t, NodeAt(t, key))
      written(x) == IF Exclusive THEN Spill(x, 1, Size(x.tiers[1]) - TierCap(1))
                    ELSE {[x EXCEPT !.tiers = [i \in DOMAIN @ |-> Insert(@[i], key, 1)]]}
  IN  Then(written(parked(Insert(m.tiers[1], key, 1))), Apply)

(* A preempted request is taken again: its prefix is matched and locked,   *)
(* and what was parked is released.                                        *)
Resume(m, r) ==
  LET n == m.info[r].cpuNode
      released(x) ==
        IF Storage = "none" THEN x
        ELSE IF n = NoNode THEN Fail(x, "unsupported")
        ELSE [x EXCEPT !.tiers[1] = DecLock(@, n), !.info[r].cpuNode = NoNode]
  IN  IF ~m.evict[r] THEN {m}
      ELSE {released([Lock(PrefixMatch(m, r), r) EXCEPT !.evict[r] = FALSE])}
-----------------------------------------------------------------------------
(* Scheduler.schedule_with_prefix, start NPU *)

MatchNew(m, r) == IF m.computed[r] = 0 THEN PrefixMatch(m, r) ELSE m

(* Chunked prefill: a prefill with nothing left to compute ends the loop.  *)
Chunk(a, m, r) ==
  LET rest   == B!Input(r) - m.computed[r]
      capped == IF 0 < B!Threshold /\ B!Threshold < rest THEN B!Threshold ELSE rest
      n      == Least(capped, a.left)
  IN  IF n <= 0 THEN [a EXCEPT !.m = m, !.open = FALSE]
      ELSE [a EXCEPT !.m = [m EXCEPT !.chunk[r] = n], !.s = Append(@, r), !.tokens[r] = n,
                     !.left = @ - n]
DealChunk(a, r) ==
  IF a.left <= 0 \/ ~a.open THEN a
  ELSE IF IsPrefill(a.m, r) THEN Chunk(a, MatchNew(a.m, r), r)
  ELSE [a EXCEPT !.s = Append(@, r), !.tokens[r] = 1, !.left = @ - 1]

(* Otherwise every request is matched, and the tail is dropped until the   *)
(* sum fits.                                                               *)
Whole(a, m, r) ==
  LET n == Greatest(B!Input(r) - m.info[r].hit, 1)
  IN  [a EXCEPT !.m = [m EXCEPT !.chunk[r] = n], !.s = Append(@, r), !.tokens[r] = n]
DealWhole(a, r) ==
  IF IsPrefill(a.m, r) THEN Whole(a, MatchNew(a.m, r), r)
  ELSE [a EXCEPT !.s = Append(@, r), !.tokens[r] = 1]
Fitting(a) ==
  LET sum(n) == SumSeq([i \in 1 .. n |-> a.tokens[a.s[i]]])
  IN  [a EXCEPT !.s = Prefix(@, Max({n \in 0 .. Len(a.s) : sum(n) <= B!MaxTokens}))]

(* Step 1: the batch within the token budget, its tokens, and what the     *)
(* matching left behind; step 1.5 locks the prefixes of its prefills.      *)
Dealt(s) ==
  LET start == [m |-> M, s |-> <<>>, tokens |-> [r \in Req |-> 0], left |-> B!MaxTokens,
                open |-> TRUE]
      lock(m, r) == IF IsPrefill(m, r) THEN LockOnce(m, r) ELSE m
      locked(d)  == [d EXCEPT !.m = FoldLeft(lock, @, d.s)]
  IN  locked(IF B!Chunked THEN FoldLeft(DealChunk, start, s)
             ELSE Fitting(FoldLeft(DealWhole, start, s)))

(* get_block_kv of the first n requests, and the longest prefix of the     *)
(* batch that fits beside what cannot be evicted.                          *)
Need(d, n) ==
  SumSeq([i \in 1 .. n |-> Aligned(d.m.computed[d.s[i]] + d.tokens[d.s[i]])
                           - Aligned(d.m.computed[d.s[i]])])
Usable(m) == AvailNpu(m) + m.npu.evictable
FitLength(d, top) ==
  LET fits == {n \in 0 .. top : Need(d, n) <= Usable(d.m)}
  IN  IF fits = {} THEN top ELSE Max(fits)

(* Steps 2 to 5 for the first n requests of the batch, with those in out   *)
(* preempted: m is what the call leaves.                                   *)
FormBatch(d, n, gone) ==
  LET batch  == Prefix(d.s, n)
      news   == {r \in Items(batch) : IsPrefill(d.m, r) /\ ~d.m.info[r].counted
                                      /\ d.m.info[r].reload > 0}
      reload == MapThenSumSet(LAMBDA r : d.m.info[r].reload, news)
      count(m) == {[m EXCEPT !.info = [r \in Req |->
                     IF r \in news THEN [@[r] EXCEPT !.counted = TRUE] ELSE @[r]]]}
      total(m) == SumSeq([i \in DOMAIN batch |-> Aligned(m.computed[batch[i]])])
                    + SumSeq([i \in DOMAIN gone |-> Aligned(m.computed[gone[i]])])
      cut    == {RollbackAll(d.m, SubSeq(d.s, n + 1, Len(d.s)))}
      room   == Then(cut, LAMBDA m : EvictPrefixNpu(m, Need(d, n) - AvailNpu(m)))
      loaded == ForEach(Then(room, count), batch, Resume)
      ready  == Then(loaded, LAMBDA m : EvictPrefixNpu(m, reload - AvailNpu(m)))
      store(m) == IF Storage = "none" THEN {m}
                  ELSE ForEach(Then(EvictPrefixStorage(m, total(m) - AvailTier(m, 1)),
                                    LAMBDA x : MakeRoomDeepTiers(x, total(x))), gone, Park)
  IN  Then(ready, store)

(* What the variables become: objects nobody refers to are forgotten.      *)
Becomes(m) ==
  /\ computed' = m.computed /\ chunk' = m.chunk /\ evict' = m.evict
  /\ npuUsed' = m.npuUsed /\ cpuUsed' = m.cpuUsed /\ failed' = m.failed /\ info' = m.info
  /\ npu' = Reachable(m.npu, {m.info[r].node : r \in Req \ finished'} \ {NoNode})
  /\ tiers' = [i \in DOMAIN m.tiers |->
       Reachable(IF i = 1 THEN m.tiers[1] ELSE Taken(m.tiers[i]),
                 {m.info[r].cpuNode : r \in {q \in Req : i = 1}} \ {NoNode})]

(* Preempted after k entries of gen were looked at from the back, the last *)
(* one first, and the batch length this leaves.                            *)
Preempted(gen, k) ==
  Keep([i \in 1 .. k |-> gen[Len(gen) + 1 - i]], {r \in Req : ~evict[r]})
Limit(d, gen, k) ==
  LET gone == Preempted(gen, k)
  IN  IF gone = <<>> THEN Len(d.s) ELSE Least(Len(d.s), Pos(gen, gone[Len(gone)]) - 1)

Preempt(m, gone) == [m EXCEPT !.evict = [r \in Req |-> @[r] \/ r \in Items(gone)]]

(* A batch of the first n is put in flight, unless making room fails.      *)
Launch(d, n, gone) ==
  \E m \in FormBatch(d, n, gone) :
    /\ IF m.failed = "none"
       THEN /\ inflight' = Append(inflight,
                 [id |-> batchIds, reqs |-> Prefix(d.s, n), fired |-> {StartNpu}, end |-> {}])
            /\ request' = Keep(request, Req \ Items(Prefix(d.s, n)))
            /\ batchIds' = batchIds + 1
       ELSE UNCHANGED <<request, inflight, batchIds>>
    /\ UNCHANGED finished
    /\ Becomes(m)

(* Nothing fits: what was matched is undone, and who waits is preempted.   *)
GiveUp(d, top) ==
  /\ UNCHANGED <<request, inflight, batchIds, finished>>
  /\ LET m == RollbackAll(d.m, d.s)
     IN  Becomes(IF B!Deadlocked(top) THEN Fail(m, "deadlock") ELSE m)

ScheduleWithPrefix ==
  /\ B!CanSchedule
  /\ \E s \in {B!Ordered(B!Candidates)} : \E d \in {Dealt(s)}, gen \in {B!GenReq(s)} :
       LET top(k)  == Limit(d, gen, k)
           fit(k)  == FitLength(d, top(k))
           gone(k) == Preempted(gen, k)
           left(k) == [d EXCEPT !.m = Preempt(@, gone(k))]
       IN  /\ s # <<>>
           /\ \E k \in 0 .. Len(gen) :
                /\ \A j \in 0 .. k - 1 : fit(j) = 0
                /\ fit(k) > 0 \/ k = Len(gen)
                /\ \/ fit(k) > 0 /\ Launch(left(k), fit(k), gone(k))
                   \/ fit(k) = 0 /\ GiveUp(left(k), top(k))
  /\ UNCHANGED <<sim, now, pending, iter>>

(* The other NPUs pick a batch up as in schedule_base. *)
ScheduleExisting(s) == B!ScheduleExisting(s) /\ UNCHANGED <<npu, tiers, info>>
-----------------------------------------------------------------------------
(* Scheduler.add_done *)

(* A prefill chunk is computed. *)
Step(m, r) == IF m.chunk[r] > 0 THEN m.chunk[r] ELSE B!Input(r) - m.computed[r]
EndPrefill(m, r) ==
  IF Step(m, r) > B!MaxTokens THEN Fail(m, "accounting")
  ELSE [m EXCEPT !.computed[r] = @ + Step(m, r), !.chunk[r] = 0]

(* The cache learns a prompt that is complete.  One that was all cached is *)
(* not locked yet when its request decodes for the first time.             *)
LearnPrompt(m, r) ==
  IF IsPrefill(m, r) \/ ~m.info[r].isInit THEN {m}
  ELSE Then(CacheUnfinishedAll(m, r), LAMBDA x : {[x EXCEPT !.info[r].isInit = FALSE]})
EndPhase(m, r) ==
  LET begun == CASE IsPrefill(m, r) -> EndPrefill(m, r)
                 [] ~IsPrefill(m, r) /\ m.info[r].isInit -> LockOnce(m, r)
                 [] OTHER -> m
  IN  Then(Then({begun}, LAMBDA x : LearnPrompt(x, r)),
           LAMBDA x : {IF IsPrefill(m, r) THEN x ELSE [x EXCEPT !.computed[r] = @ + 1]})

(* A prefill instance hands a request over with its prompt; otherwise it   *)
(* is over with the token before the last one, or goes back to the queue.  *)
HandsOver(m, r) == B!PdType = "prefill" /\ IsPrefill(m, r) /\ m.computed[r] + m.chunk[r] >= B!Input(r)
OverLate(m, r) == m.computed[r] > B!Output(r)
Over(m, r) == m.computed[r] >= B!Output(r) - 1
EndRequest(a, r) ==
  LET next(x) == IF HandsOver(a.m, r) THEN {Unlock(x, r)}
                 ELSE IF Over(x, r) THEN CacheFinishedAll(x, r) ELSE CacheUnfinishedAll(x, r)
      leaves(x) == x.failed = "none" /\ (HandsOver(a.m, r) \/ Over(x, r))
  IN  IF a.m.failed # "none" THEN {a}
      ELSE {[m |-> x, left |-> IF leaves(x) THEN a.left \cup {r} ELSE a.left]
            : x \in Then(EndPhase(a.m, r), next)}

Report(s, i) == B!Report(s, i) /\ UNCHANGED <<npu, tiers, info>>

AddDone(s, i) ==
  /\ failed = "none"
  /\ s \in inflight[i].fired \ inflight[i].end
  /\ B!Completes(inflight[i], s)
  /\ \E a \in FoldLeft(LAMBDA S, r : UNION {EndRequest(a, r) : a \in S},
                       {[m |-> M, left |-> {}]}, inflight[i].reqs) :
       /\ finished' = finished \cup a.left
       /\ B!Requeue(Keep(inflight[i].reqs, Req \ a.left))
       /\ Becomes(a.m)
  /\ inflight' = SubSeq(inflight, 1, i - 1) \o SubSeq(inflight, i + 1, Len(inflight))
  /\ iter' = [iter EXCEPT ![s] = inflight[i].id + 1]
  /\ UNCHANGED <<sim, now, pending, batchIds>>
-----------------------------------------------------------------------------
AddRequest(r) == B!AddRequest(r) /\ UNCHANGED <<npu, tiers, info>>

(* Scheduler.add_decode: room is made for the KV that the cache lacks, and *)
(* all of it enters the cache.                                             *)
AddDecode(r) ==
  /\ failed = "none" /\ B!PdType = "decode"
  /\ r \in pending /\ B!Arrival(r) <= now
  /\ request' = Append(request, r)
  /\ pending' = pending \ {r}
  /\ \E x \in {PrefixMatch([M EXCEPT !.computed[r] = B!Input(r), !.info[r].isInit = FALSE], r)} :
     \E y \in {HitLength(npu, Prefix(Ids(r), B!Input(r)), Page)} :
     \E m \in Then(EvictPrefixNpu(x, Aligned(B!Input(r) - y) - AvailNpu(x)),
                   LAMBDA z : CacheUnfinished(z, r)) :
       UNCHANGED finished /\ Becomes(m)
  /\ UNCHANGED <<sim, now, inflight, batchIds, iter>>

Tick == B!Tick /\ UNCHANGED <<npu, tiers, info>>

Stopped == (failed # "none" \/ finished = Req) /\ UNCHANGED vars

(* The tiers may hold what other instances of the pool have put there.     *)
Init ==
  /\ B!Init
  /\ npu = EmptyTree
  /\ tiers = [i \in DOMAIN sim.tierCaps |-> Taken(InsertAll(EmptyTree, sim.pooled))]
  /\ info = [r \in Req |-> NewInfo]

Next ==
  \/ Tick
  \/ \E r \in Req : AddRequest(r) \/ AddDecode(r)
  \/ ScheduleWithPrefix
  \/ \E s \in Npus : ScheduleExisting(s)
  \/ \E s \in Npus : \E i \in DOMAIN inflight : Report(s, i) \/ AddDone(s, i)
  \/ Stopped

Spec == Init /\ [][Next]_vars
-----------------------------------------------------------------------------
(* Properties *)

Reasons == {"none", "deadlock", "accounting", "npu_full", "cpu_full", "unsupported"}

(* Types of the state, and each request in one place (router, queue, one   *)
(* batch, finished) as without prefix caching.                             *)
TypeOK ==
  /\ B!OnePlace
  /\ failed \in Reasons
  /\ npuUsed \in Nat /\ cpuUsed \in Nat
  /\ \A r \in Req : computed[r] \in 0 .. B!Output(r) /\ chunk[r] \in 0 .. B!MaxTokens

(* Matches split nodes that are locked, parents are evicted after their    *)
(* children, and requests come back to nodes that were split or evicted:   *)
(* what is in the tree stays a radix tree.                                 *)
TreesWellFormed ==
  failed = "none" => IsTree(npu, Page) /\ \A i \in DOMAIN tiers : IsTree(tiers[i], 1)

(* The byte counters follow the trees through the event queues: what a     *)
(* tree stores or removes is allocated or freed once, also when making     *)
(* room for it evicts and so produces new events.                          *)
KvCounted ==
  failed = "none" =>
    /\ npuUsed = Size(npu)
    /\ Storage = "CPU" /\ ~Sharing =>
         cpuUsed + tiers[1].stored - tiers[1].removed = Size(tiers[1])

(* What the radix trees hold is what the memory counters account for: the  *)
(* trees keep their shape, and the bytes follow them.                      *)
KvAccounted == TreesWellFormed /\ KvCounted

(* The requests that hold node n. *)
Users(n) == {r \in Req \ finished : info[r].locked /\ n \in Chain(npu, info[r].node)}

(* Every lock belongs to a request that needs it, and the size that can be *)
(* evicted, on which admission relies, is what no request holds.           *)
LocksExact ==
  failed = "none" =>
    /\ CountersExact(npu)
    /\ \A n \in Live(npu) \ {Root} : npu.node[n].lock = Cardinality(Users(n))

(* A request whose prompt is computed has its KV on the NPU: nobody evicts *)
(* it between two of its steps, or in the steps of others.                 *)
KvResident ==
  failed = "none" =>
    \A r \in Req \ finished : ~info[r].isInit =>
      /\ info[r].node \in Live(npu)
      /\ Path(info[r].node) = Prefix(Ids(r), Paged(computed[r], Page))

(* A request ends with the token before its last one whatever was cached:  *)
(* a hit neither skips a token it did not have nor repeats one.  A prompt  *)
(* that was found whole is not computed again, here or on the instance     *)
(* that hands it over, but one decode step always follows it.              *)
AfterWholeHit(r) == Greatest(B!Output(r) - 1, B!Input(r) + 1)
FinishesExactly ==
  \A r \in finished :
    computed[r] \in CASE B!PdType = "none"    -> {B!Output(r) - 1, AfterWholeHit(r)}
                      [] B!PdType = "prefill" -> {B!Input(r), B!Output(r) - 1, AfterWholeHit(r)}
                      [] B!PdType = "decode"  -> {AfterWholeHit(r)}

(* "Keep the deep spill tiers within capacity": what is demoted never      *)
(* pushes a tier beyond what it can hold.                                  *)
TiersWithinCapacity ==
  failed = "none" /\ Exclusive => \A i \in DOMAIN tiers : Size(tiers[i]) <= TierCap(i)

(* An eviction counts on what the locks leave it and takes no more, and    *)
(* where it puts what it takes, the next level does not overflow.          *)
EvictionsExact == LocksExact /\ TiersWithinCapacity

(* "a prefix leaves the NPU only to reappear one tier down", and from      *)
(* there one tier deeper: with deep tiers below the pool the exclusive     *)
(* policy forgets a prefix only when the deepest tier has no room for it.  *)
Known == UNION {Cached(t) : t \in {npu} \cup {tiers[i] : i \in DOMAIN tiers}}
ForgetsOnlyWhenFull ==
  [][Exclusive /\ Len(tiers) > 1 /\ failed' = "none" =>
       \A p \in Known \ Known' : \E q \in Known :
         IsPrefixOf(p, q) /\ Size(tiers'[Len(tiers)]) + Len(q) > TierCap(Len(tiers))]_vars

(* "Memory leak detected" (MemoryModel.is_free): when every request is     *)
(* finished all that is cached can be freed, no lock is left.              *)
NothingLeaks == finished = Req /\ failed = "none" => npu.protected = 0
=============================================================================
