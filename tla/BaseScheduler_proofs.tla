------------------------ MODULE BaseScheduler_proofs ------------------------
(***************************************************************************)
(* Proofs about BaseScheduler for every dataset and every value of the     *)
(* limits: the types, where the requests are, the numbers (the budgets of  *)
(* a batch, the tokens a request has computed, the KV blocks that are      *)
(* accounted for), and the orders of the pipeline and of the queue.        *)
(***************************************************************************)
EXTENDS BaseScheduler, Lists_proofs

-----------------------------------------------------------------------------
(* Parameters and sizes *)

LEMMA ParameterTypes ==
  ASSUME sim \in SimulationType
  PROVE  /\ {Chunked, PrioritizePrefill} \subseteq BOOLEAN
         /\ {Threshold, NpuBlocks, CpuBlocks, MaxNumSeqs} \subseteq Nat
         /\ {MaxTokens, PpSize, NumNpus, BlockSize} \subseteq Nat \ {0}
         /\ \A r \in Req : Input(r) \in Nat \ {0} /\ Output(r) \in Nat /\ Arrival(r) \in Nat
BY DEF SimulationType, Chunked, PrioritizePrefill, Threshold, NpuBlocks, CpuBlocks, MaxNumSeqs,
       MaxTokens, PpSize, NumNpus, BlockSize, Input, Output, Arrival

LEMMA BlocksInt ==
  ASSUME sim \in SimulationType, NEW n \in Int
  PROVE  Blocks(n) \in Int
BY ParameterTypes DEF Blocks

LEMMA HeldFinite ==
  ASSUME sim \in SimulationType, NEW S \in SUBSET Req, NEW c \in [Req -> Int]
  PROVE  IsFiniteSet(HeldAt(S, c)) /\ Cardinality(HeldAt(S, c)) \in Nat
<1> DEFINE f == [r \in S |-> 1 .. Blocks(c[r])]
<1>1. IsFiniteSet(DOMAIN f)
  BY ReqAssumption, FS_Subset
<1>2. ASSUME NEW r \in DOMAIN f PROVE \E a, b \in Int : f[r] = a .. b
  BY BlocksInt
<1> HIDE DEF f
<1>3. IsFiniteSet(Pairs(f)) /\ Cardinality(Pairs(f)) \in Nat
  BY <1>1, <1>2, PairsOfIntervals
<1> QED
  BY <1>3 DEF HeldAt, f

LEMMA GrownFinite ==
  ASSUME sim \in SimulationType, NEW S \in SUBSET Req, computed \in [Req -> Nat], NEW tokens,
         \A r \in S : tokens[r] \in Int
  PROVE  IsFiniteSet(Grown(S, tokens)) /\ Cardinality(Grown(S, tokens)) \in Nat
<1> DEFINE f == [r \in S |-> Blocks(computed[r]) + 1 .. Blocks(computed[r] + tokens[r])]
<1>1. IsFiniteSet(DOMAIN f)
  BY ReqAssumption, FS_Subset
<1>2. ASSUME NEW r \in DOMAIN f PROVE \E a, b \in Int : f[r] = a .. b
  <2>1. computed[r] \in Int /\ computed[r] + tokens[r] \in Int
    OBVIOUS
  <2>2. Blocks(computed[r]) + 1 \in Int /\ Blocks(computed[r] + tokens[r]) \in Int
    BY <2>1, BlocksInt
  <2> QED
    BY <2>2
<1> HIDE DEF f
<1>3. IsFiniteSet(Pairs(f)) /\ Cardinality(Pairs(f)) \in Nat
  BY <1>1, <1>2, PairsOfIntervals
<1> QED
  BY <1>3 DEF Grown, f

-----------------------------------------------------------------------------
(* Scheduler.schedule_base: what the lists it builds consist of. *)

LEMMA RunningSeqsNat ==
  ASSUME TypeOK
  PROVE  RunningSeqs \in Nat
<1> DEFINE f == [i \in DOMAIN inflight |-> DOMAIN inflight[i].reqs]
<1>1. IsFiniteSet(DOMAIN f)
  BY FS_Interval DEF TypeOK
<1>2. ASSUME NEW i \in DOMAIN f PROVE \E a, b \in Int : f[i] = a .. b
  <2>1. inflight[i].reqs \in Seq(Req)
    <3>1. inflight \in Seq(BatchType) /\ i \in 1 .. Len(inflight)
      BY DEF TypeOK
    <3>2. inflight[i] \in BatchType
      BY <3>1, ElementOfSeq
    <3> QED
      BY <3>2 DEF BatchType
  <2> DEFINE n == Len(inflight[i].reqs)
  <2>2. f[i] = 1 .. n /\ n \in Int
    BY <2>1
  <2> HIDE DEF n, f
  <2> QED
    BY <2>2
<1> HIDE DEF f
<1>3. Cardinality(Pairs(f)) \in Nat
  BY <1>1, <1>2, PairsOfIntervals
<1> QED
  BY <1>3 DEF RunningSeqs, f

LEMMA SlotsNat ==
  ASSUME TypeOK
  PROVE  Slots \in Nat
BY RunningSeqsNat, ParameterTypes DEF TypeOK, Slots, Greatest

LEMMA CandidatesProperties ==
  ASSUME TypeOK
  PROVE  /\ Candidates \in Seq(Req)
         /\ Items(Candidates) \subseteq Queued
         /\ Distinct(request) => Distinct(Candidates)
<1> DEFINE A == Keep(request, {r \in Req : Arrival(r) <= now})
           n == Least(Len(A), Slots)
<1>1. A \in Seq(Req) /\ Items(A) \subseteq Queued /\ (Distinct(request) => Distinct(A))
  BY KeepProperties DEF TypeOK, Queued
<1>2. n \in 0 .. Len(A)
  BY <1>1, SlotsNat DEF Least
<1>3. Candidates = Prefix(A, n)
  BY DEF Candidates
<1> HIDE DEF A, n
<1> QED
  BY <1>1, <1>2, <1>3, PrefixProperties

LEMMA OrderedProperties ==
  ASSUME NEW s \in Seq(Req)
  PROVE  /\ Ordered(s) \in Seq(Req)
         /\ Items(Ordered(s)) \subseteq Items(s)
         /\ Distinct(s) => Distinct(Ordered(s))
<1> DEFINE d == Keep(s, Decodes)
           p == Keep(s, Prefills)
<1>1. d \in Seq(Req) /\ Items(d) = Items(s) \cap Decodes /\ (Distinct(s) => Distinct(d))
  BY KeepProperties
<1>2. p \in Seq(Req) /\ Items(p) = Items(s) \cap Prefills /\ (Distinct(s) => Distinct(p))
  BY KeepProperties
<1>3. Ordered(s) \in {d \o p, p, s}
  BY DEF Ordered
<1> HIDE DEF d, p
<1>4. Decodes \cap Prefills = {}
  BY DEF Decodes
<1>5. /\ d \o p \in Seq(Req) /\ Items(d \o p) = Items(d) \cup Items(p)
      /\ Distinct(d) /\ Distinct(p) /\ Items(d) \cap Items(p) = {} => Distinct(d \o p)
  BY <1>1, <1>2, ConcatItems
<1>6. Items(d) \cap Items(p) = {}
  BY <1>1, <1>2, <1>4
<1> QED
  BY <1>1, <1>2, <1>3, <1>5, <1>6

LEMMA WantNat ==
  ASSUME TypeOK, NEW r \in Req
  PROVE  Want(r) \in Nat \ {0}
<1>1. Input(r) \in Nat \ {0} /\ computed[r] \in Nat
  BY ParameterTypes DEF TypeOK
<1> QED
  BY <1>1, ParameterTypes DEF TypeOK, Want, IsPrefill

LEMMA DemandMonotonic ==
  ASSUME TypeOK, NEW s \in Seq(Req), NEW n \in 0 .. Len(s), NEW k \in 0 .. n
  PROVE  /\ Demand(s, n) \in Nat
         /\ Demand(s, k) \in Nat
         /\ Demand(s, k) <= Demand(s, n)
<1> DEFINE f(m) == [i \in 1 .. m |-> 1 .. Want(s[i])]
<1>1. IsFiniteSet(DOMAIN f(n))
  BY FS_Interval
<1>2. ASSUME NEW i \in DOMAIN f(n) PROVE \E a, b \in Int : f(n)[i] = a .. b
  <2>1. Want(s[i]) \in Int
    BY WantNat
  <2> QED
    BY <2>1
<1>3. IsFiniteSet(Pairs(f(n))) /\ Cardinality(Pairs(f(n))) \in Nat
  <2> HIDE DEF f
  <2> QED
    BY <1>1, <1>2, PairsOfIntervals
<1>4. Pairs(f(k)) \in SUBSET Pairs(f(n))
  <2>1. 1 .. k \subseteq 1 .. n
    OBVIOUS
  <2> QED
    BY <2>1 DEF Pairs
<1>5. /\ Cardinality(Pairs(f(k))) \in Nat
      /\ Cardinality(Pairs(f(k))) <= Cardinality(Pairs(f(n)))
  <2> HIDE DEF f
  <2> QED
    BY <1>3, <1>4, FS_Subset, FS_CardinalityType
<1> QED
  BY <1>3, <1>5 DEF Demand

(* The token budget takes the longest prefix that begins below it, so a    *)
(* request that is taken still finds some budget left.                     *)
LEMMA BudgetedProperties ==
  ASSUME TypeOK, NEW s \in Seq(Req)
  PROVE  /\ Budgeted(s) \in Seq(Req)
         /\ Len(Budgeted(s)) \in 0 .. Len(s)
         /\ Items(Budgeted(s)) \subseteq Items(s)
         /\ Distinct(s) => Distinct(Budgeted(s))
         /\ \A i \in 1 .. Len(Budgeted(s)) :
              /\ Budgeted(s)[i] = s[i]
              /\ Chunked => Demand(s, i - 1) < MaxTokens
              /\ ~Chunked => Demand(s, i) <= MaxTokens
<1> DEFINE ok(i) == IF Chunked THEN Demand(s, i - 1) < MaxTokens
                               ELSE Demand(s, i) <= MaxTokens
           P == {i \in DOMAIN s : ok(i)}
           n == Cardinality(P)
<1>1. Budgeted(s) = Prefix(s, n)
  BY DEF Budgeted
<1>2. IsFiniteSet(1 .. Len(s)) /\ Cardinality(1 .. Len(s)) = Len(s)
  BY IntervalSize
<1>3. P \in SUBSET (1 .. Len(s))
  OBVIOUS
<1>4. n \in 0 .. Len(s)
  <2> HIDE DEF P
  <2>1. IsFiniteSet(P) /\ n <= Len(s)
    BY <1>2, <1>3, FS_Subset
  <2>2. n \in Nat
    BY <2>1, FS_CardinalityType
  <2> QED
    BY <2>1, <2>2
<1>5. ASSUME NEW i \in 1 .. n, ~ok(i)
      PROVE  FALSE
  <2>1. ASSUME NEW k \in P PROVE k \in 1 .. i - 1
    <3>1. k \in 1 .. Len(s) /\ ok(k) /\ i \in 1 .. Len(s)
      BY <1>4
    <3>2. CASE i <= k
      <4>1. /\ k - 1 \in 0 .. Len(s) /\ i - 1 \in 0 .. k - 1
            /\ k \in 0 .. Len(s) /\ i \in 0 .. k
        BY <3>1, <3>2
      <4>2. /\ Demand(s, k - 1) \in Nat /\ Demand(s, i - 1) \in Nat
            /\ Demand(s, i - 1) <= Demand(s, k - 1)
        BY <4>1, DemandMonotonic
      <4>3. /\ Demand(s, k) \in Nat /\ Demand(s, i) \in Nat
            /\ Demand(s, i) <= Demand(s, k)
        BY <4>1, DemandMonotonic
      <4>4. MaxTokens \in Nat
        BY ParameterTypes DEF TypeOK
      <4> QED
        BY <1>5, <3>1, <4>2, <4>3, <4>4
    <3> QED
      BY <3>1, <3>2
  <2>2. P \in SUBSET (1 .. i - 1)
    BY <2>1
  <2>3. IsFiniteSet(1 .. i - 1) /\ Cardinality(1 .. i - 1) = i - 1
    BY <1>4, IntervalSize, i - 1 \in Nat
  <2> HIDE DEF P
  <2>4. n <= i - 1
    BY <2>2, <2>3, FS_Subset
  <2> QED
    BY <1>4, <2>4
<1> HIDE DEF n
<1>6. /\ Prefix(s, n) \in Seq(Req) /\ Len(Prefix(s, n)) = n
      /\ \A i \in 1 .. n : Prefix(s, n)[i] = s[i]
      /\ Items(Prefix(s, n)) \subseteq Items(s)
      /\ Distinct(s) => Distinct(Prefix(s, n))
  BY <1>4, PrefixProperties
<1> QED
  BY <1>1, <1>4, <1>5, <1>6

(* Every request of the batch runs at least one token. *)
LEMMA TokensPositive ==
  ASSUME TypeOK, NEW s \in Seq(Req)
  PROVE  ScheduledTokens(Budgeted(s)) \in [Items(Budgeted(s)) -> Nat \ {0}]
<1> DEFINE b == Budgeted(s)
<1>1. /\ b \in Seq(Req) /\ Len(b) \in 0 .. Len(s)
      /\ \A i \in 1 .. Len(b) : b[i] = s[i] /\ (Chunked => Demand(s, i - 1) < MaxTokens)
  BY BudgetedProperties
<1> HIDE DEF b
<1> SUFFICES ASSUME NEW r \in Items(b)
             PROVE  (IF Chunked THEN Least(Want(r), MaxTokens - Demand(b, Pos(b, r) - 1))
                                ELSE Want(r)) \in Nat \ {0}
  BY DEF ScheduledTokens, b
<1>2. Pos(b, r) \in 1 .. Len(b) /\ b[Pos(b, r)] = r
  BY <1>1 DEF Items, Pos
<1>3. Want(r) \in Nat \ {0}
  <2>1. r \in Req
    BY <1>1, <1>2
  <2> QED
    BY <2>1, WantNat
<1>4. ASSUME Chunked
      PROVE  Demand(b, Pos(b, r) - 1) \in Nat /\ Demand(b, Pos(b, r) - 1) < MaxTokens
  <2> DEFINE k == Pos(b, r) - 1
  <2>1. k \in 0 .. Len(b) /\ k \in 0 .. k
    BY <1>1, <1>2
  <2> HIDE DEF k
  <2>2. Demand(b, k) \in Nat
    BY <1>1, <2>1, DemandMonotonic
  <2>3. [i \in 1 .. k |-> 1 .. Want(b[i])] = [i \in 1 .. k |-> 1 .. Want(s[i])]
    BY <1>1, <2>1
  <2>4. Demand(b, k) = Demand(s, k)
    BY <2>3 DEF Demand
  <2>5. Demand(s, k) < MaxTokens
    BY <1>1, <1>2, <1>4 DEF k
  <2> QED
    BY <2>2, <2>4, <2>5 DEF k
<1>5. MaxTokens \in Nat
  BY ParameterTypes DEF TypeOK
<1> QED
  BY <1>3, <1>4, <1>5 DEF Least

LEMMA GenReqProperties ==
  ASSUME NEW s \in Seq(Req)
  PROVE  GenReq(s) \in Seq(Req) /\ Items(GenReq(s)) = Items(s) \cap Decodes
BY KeepProperties DEF GenReq

LEMMA LimitProperties ==
  ASSUME NEW reqs \in Seq(Req), NEW gen \in Seq(Req), NEW out
  PROVE  Limit(reqs, gen, out) \in 0 .. Len(reqs)
<1> DEFINE K == {i \in DOMAIN gen : \A j \in 1 .. i : gen[j] \notin out}
<1>1. IsFiniteSet(1 .. Len(gen)) /\ K \in SUBSET (1 .. Len(gen))
  BY IntervalSize
<1> HIDE DEF K
<1>2. Cardinality(K) \in Nat
  BY <1>1, FS_Subset, FS_CardinalityType
<1>3. Limit(reqs, gen, out) = IF out = {} THEN Len(reqs) ELSE Least(Len(reqs), Cardinality(K))
  BY DEF Limit, K
<1> QED
  BY <1>2, <1>3 DEF Least

(* What a call of schedule_base on the start NPU works with, and its three *)
(* outcomes.                                                               *)
Call(reqs, gen, tokens, out) ==
  /\ reqs \in Seq(Req) /\ gen \in Seq(Req)
  /\ reqs = Budgeted(Ordered(Candidates))
  /\ Items(reqs) \subseteq Queued
  /\ Distinct(request) => Distinct(reqs)
  /\ tokens = ScheduledTokens(reqs)
  /\ tokens \in [Items(reqs) -> Nat \ {0}]
  /\ out \subseteq {r \in Queued \cap Decodes : ~evict[r]}
  /\ chunk' = DealtChunks(tokens)
  /\ \/ \E n \in 1 .. Len(reqs) : /\ Fits(reqs, tokens, n, out)
                                  /\ FormBatch(reqs, tokens, n, out)
     \/ GiveUp(reqs, gen, out)
     \/ /\ failed' = "cpu_full"
        /\ UNCHANGED <<request, inflight, evict, memory, batchIds>>

LEMMA ScheduleBaseCases ==
  ASSUME TypeOK, ScheduleBase
  PROVE  \E reqs, gen, tokens, out : Call(reqs, gen, tokens, out)
<1> DEFINE C == Candidates
           R == Budgeted(Ordered(C))
           G == GenReq(C)
           T == ScheduledTokens(R)
<1>1. C \in Seq(Req) /\ Items(C) \subseteq Queued /\ (Distinct(request) => Distinct(C))
  BY CandidatesProperties
<1>2. /\ Ordered(C) \in Seq(Req) /\ Items(Ordered(C)) \subseteq Items(C)
      /\ Distinct(C) => Distinct(Ordered(C))
  BY <1>1, OrderedProperties
<1>3. /\ R \in Seq(Req) /\ Items(R) \subseteq Items(Ordered(C))
      /\ Distinct(Ordered(C)) => Distinct(R)
  BY <1>2, BudgetedProperties
<1>4. G \in Seq(Req) /\ Items(G) = Items(C) \cap Decodes
  BY <1>1, GenReqProperties
<1>5. T \in [Items(R) -> Nat \ {0}]
  BY <1>2, TokensPositive
<1>6. PICK m \in 0 .. Len(G) :
        \E out \in {Victims(G, m)} :
          /\ chunk' = DealtChunks(T)
          /\ \/ \E n \in 1 .. Limit(R, G, out) : /\ Fits(R, T, n, out)
                                                /\ FormBatch(R, T, n, out)
             \/ GiveUp(R, G, out)
             \/ /\ failed' = "cpu_full"
                /\ UNCHANGED <<request, inflight, evict, memory, batchIds>>
  BY DEF ScheduleBase
<1> DEFINE out == Victims(G, m)
<1>7. out \subseteq {r \in Queued \cap Decodes : ~evict[r]}
  BY <1>1, <1>4 DEF Victims, Items
<1>8. 1 .. Limit(R, G, out) \subseteq 1 .. Len(R)
  BY <1>3, <1>4, LimitProperties
<1> HIDE DEF C, R, G, out
<1>9. /\ Items(R) \subseteq Queued /\ (Distinct(request) => Distinct(R))
      /\ chunk' = DealtChunks(T)
      /\ \/ \E n \in 1 .. Len(R) : Fits(R, T, n, out) /\ FormBatch(R, T, n, out)
         \/ GiveUp(R, G, out)
         \/ /\ failed' = "cpu_full"
            /\ UNCHANGED <<request, inflight, evict, memory, batchIds>>
  BY <1>1, <1>2, <1>3, <1>6, <1>8 DEF out
<1>10. R = Budgeted(Ordered(Candidates))
  BY DEF C, R
<1>11. Call(R, G, T, out)
  BY <1>3, <1>4, <1>5, <1>7, <1>9, <1>10 DEF Call
<1> QED
  BY <1>11

-----------------------------------------------------------------------------
(* Types *)

LEMMA ClusterBytes ==
  ASSUME TypeOK, NEW x \in Int
  PROVE  NumNpus * x \in Int
<1>1. NumNpus \in Int
  BY ParameterTypes DEF TypeOK
<1> QED
  BY <1>1

LEMMA MemoryInt ==
  ASSUME TypeOK, NEW S \in SUBSET Req
  PROVE  IsFiniteSet(Held(S)) /\ Cardinality(Held(S)) \in Nat
<1>1. computed \in [Req -> Int]
  BY DEF TypeOK
<1> QED
  BY <1>1, HeldFinite DEF Held, TypeOK

(* A batch of schedule_base keeps the types. *)
LEMMA ScheduleBaseType ==
  ASSUME TypeOK, ScheduleBase
  PROVE  TypeOK'
<1>call. PICK reqs, gen, tokens, out : Call(reqs, gen, tokens, out)
  BY ScheduleBaseCases
<1>1. /\ Items(reqs) \subseteq Queued
      /\ Distinct(request) => Distinct(reqs)
      /\ tokens \in [Items(reqs) -> Nat \ {0}]
      /\ out \subseteq {r \in Queued \cap Decodes : ~evict[r]}
      /\ chunk' = DealtChunks(tokens)
      /\ \/ \E n \in 1 .. Len(reqs) : FormBatch(reqs, tokens, n, out)
         \/ GiveUp(reqs, gen, out)
         \/ /\ failed' = "cpu_full"
            /\ UNCHANGED <<request, inflight, evict, memory, batchIds>>
  BY <1>call DEF Call
<1>lists. reqs \in Seq(Req) /\ gen \in Seq(Req)
  BY <1>call DEF Call
<1> USE <1>lists
<1>2. Queued \subseteq Req
  BY DEF TypeOK, Queued, Items
<1>3. chunk' \in [Req -> Nat]
  BY <1>1 DEF DealtChunks, TypeOK
<1>4. out \in SUBSET Req /\ Cardinality(Held(out)) \in Nat
  BY <1>1, <1>2, MemoryInt
<1>5. UNCHANGED <<sim, now, pending, finished, computed, iter>>
  BY DEF ScheduleBase
<1>6. evict' \in [Req -> BOOLEAN] \/ UNCHANGED evict
  BY <1>1 DEF FormBatch, GiveUp, EvictFlags
<1>7. CASE \E n \in 1 .. Len(reqs) : FormBatch(reqs, tokens, n, out)
  <2>1. PICK n \in 1 .. Len(reqs) : FormBatch(reqs, tokens, n, out)
    BY <1>7
  <2> DEFINE batch == Prefix(reqs, n)
  <2>2. batch \in Seq(Req) /\ Items(batch) \subseteq Items(reqs)
    BY PrefixProperties
  <2> HIDE DEF batch
  <2>3. request' \in Seq(Req)
    BY <2>1, KeepProperties DEF FormBatch, TypeOK
  <2>4. inflight' \in Seq(BatchType)
    <3>1. [id |-> batchIds, reqs |-> batch, fired |-> {StartNpu}, end |-> {}] \in BatchType
      BY <2>2, NpuAssumption DEF TypeOK, BatchType
    <3> QED
      BY <2>1, <3>1 DEF FormBatch, TypeOK, batch
  <2>5. npuUsed' \in Int /\ cpuUsed' \in Int
    <3>1. Cardinality(Grown(Items(batch), tokens)) \in Nat
      <4>1. Items(batch) \in SUBSET Req
        BY <1>1, <1>2, <2>2
      <4>2. \A r \in Items(batch) : tokens[r] \in Int
        BY <1>1, <2>2
      <4> QED
        BY <4>1, <4>2, GrownFinite DEF TypeOK
    <3>2. Cardinality(Held(Reloads(Items(batch), out))) \in Nat
      <4>1. Reloads(Items(batch), out) \in SUBSET Req
        BY <1>1, <1>2, <2>2 DEF Reloads
      <4> QED
        BY <4>1, MemoryInt
    <3> DEFINE freed  == Cardinality(Held(out))
               loaded == Cardinality(Held(Reloads(Items(batch), out)))
               size   == Cardinality(Grown(Items(batch), tokens))
    <3>3. /\ npuUsed' = npuUsed - freed + size + loaded
          /\ cpuUsed' = cpuUsed + NumNpus * freed - NumNpus * loaded
      BY <2>1 DEF FormBatch, batch
    <3>4. freed \in Int /\ size \in Int /\ loaded \in Int
      BY <1>4, <3>1, <3>2
    <3> HIDE DEF freed, loaded, size
    <3>5. npuUsed' \in Int
      BY <3>3, <3>4 DEF TypeOK
    <3>6. cpuUsed' \in Int
      BY <3>3, <3>4, ClusterBytes DEF TypeOK
    <3> QED
      BY <3>5, <3>6
  <2>6. batchIds' \in Nat /\ failed' \in Reasons
    BY <2>1 DEF FormBatch, TypeOK, Reasons
  <2> QED
    BY <1>3, <1>5, <1>6, <2>3, <2>4, <2>5, <2>6 DEF TypeOK
<1>8. CASE GiveUp(reqs, gen, out)
  <2>1. npuUsed' \in Int /\ cpuUsed' \in Int
    <3>1. NumNpus * Cardinality(Held(out)) \in Int
      BY <1>4, ClusterBytes
    <3> QED
      BY <1>4, <1>8, <3>1 DEF GiveUp, TypeOK
  <2>2. failed' \in Reasons /\ UNCHANGED <<request, inflight, batchIds>>
    BY <1>8 DEF GiveUp, Reasons
  <2> QED
    BY <1>3, <1>5, <1>6, <2>1, <2>2 DEF TypeOK
<1>9. CASE failed' = "cpu_full" /\ UNCHANGED <<request, inflight, evict, memory, batchIds>>
  BY <1>3, <1>5, <1>9 DEF TypeOK, Reasons, memory
<1> QED
  BY <1>1, <1>7, <1>8, <1>9

(* The computed tokens of a request after its step. *)
LEMMA AfterNat ==
  ASSUME TypeOK, NEW r \in Req
  PROVE  StepOf(r) \in Nat \ {0} /\ After(r) \in Nat
<1>1. Input(r) \in Nat \ {0} /\ computed[r] \in Nat /\ chunk[r] \in Nat
  BY ParameterTypes DEF TypeOK
<1> QED
  BY <1>1 DEF After, StepOf, IsPrefill

(* Putting a batch back keeps the queue a list of requests: what was put   *)
(* back and what was queued, nobody twice.                                 *)
LEMMA RequeueProperties ==
  ASSUME NEW pool \in Seq(Req), request \in Seq(Req), Requeue(pool)
  PROVE  /\ request' \in Seq(Req)
         /\ Items(request') = Items(pool) \cup Queued
         /\ Distinct(pool) /\ Distinct(request) /\ Items(pool) \cap Queued = {}
              => Distinct(request')
<1>1. CASE PrioritizePrefill
  <2>1. Items(pool) \cup Queued \in SUBSET Req
    BY DEF Items, Queued
  <2>2. IsFiniteSet(Items(pool) \cup Queued)
    BY <2>1, ReqAssumption, FS_Subset
  <2>3. request' \in Arrangements(Items(pool) \cup Queued)
    BY <1>1 DEF Requeue
  <2> QED
    BY <2>1, <2>2, <2>3, ArrangementProperties
<1>2. CASE ~PrioritizePrefill
  <2>1. request' = pool \o request
    BY <1>2 DEF Requeue
  <2>2. Items(request') = Items(pool) \cup Items(request)
    BY <2>1, ConcatItems
  <2> QED
    BY <2>1, <2>2, ConcatItems DEF Queued
<1> QED
  BY <1>1, <1>2

LEMMA AddDoneType ==
  ASSUME TypeOK, NEW s \in Npus, NEW i \in DOMAIN inflight, AddDone(s, i)
  PROVE  TypeOK'
<1>1. inflight \in Seq(BatchType) /\ inflight[i] \in BatchType /\ i \in 1 .. Len(inflight)
  BY ElementOfSeq DEF TypeOK
<1> DEFINE batch == Batched(inflight[i])
           leaves == {r \in batch : Leaves(r)}
           pool == Keep(inflight[i].reqs, Req \ leaves)
<1>2. batch \subseteq Req
  BY <1>1 DEF Batched, BatchType, Items
<1>3. computed' \in [Req -> Nat]
  BY AfterNat DEF AddDone, TypeOK
<1>4. chunk' \in [Req -> Nat]
  BY DEF AddDone, TypeOK
<1>5. npuUsed' \in Int
  <2>1. leaves \in SUBSET Req /\ computed' \in [Req -> Int]
    BY <1>2, <1>3
  <2> HIDE DEF leaves
  <2>2. Cardinality(HeldAt(leaves, computed')) \in Nat
    BY <2>1, HeldFinite DEF TypeOK
  <2> QED
    BY <2>2 DEF AddDone, TypeOK, leaves
<1>6. finished' \subseteq Req
  BY <1>2 DEF AddDone, TypeOK
<1>7. request' \in Seq(Req)
  <2>1. pool \in Seq(Req)
    BY <1>1, KeepProperties DEF BatchType
  <2>2. Requeue(pool)
    BY DEF AddDone
  <2> QED
    BY <2>1, <2>2, RequeueProperties DEF TypeOK
<1>8. inflight' \in Seq(BatchType)
  BY <1>1, RemovedAt DEF AddDone
<1>9. iter' \in [Npus -> Nat]
  <2>1. inflight[i].id + 1 \in Nat
    BY <1>1 DEF BatchType
  <2> QED
    BY <2>1 DEF AddDone, TypeOK
<1>10. failed' \in Reasons
  BY DEF AddDone, Reasons
<1> QED
  BY <1>3, <1>4, <1>5, <1>6, <1>7, <1>8, <1>9, <1>10 DEF AddDone, TypeOK

(* A stage of the pipeline that starts or ends batch i changes nothing but *)
(* that mark.                                                              *)
LEMMA StageMarked ==
  ASSUME TypeOK, NEW s \in Npus, NEW i \in DOMAIN inflight
  PROVE  /\ inflight[i] \in BatchType
         /\ [inflight EXCEPT ![i].fired = @ \cup {s}] \in Seq(BatchType)
         /\ [inflight EXCEPT ![i].end = @ \cup {s}] \in Seq(BatchType)
<1>1. inflight \in Seq(BatchType) /\ inflight[i] \in BatchType /\ i \in 1 .. Len(inflight)
  BY ElementOfSeq DEF TypeOK
<1>2. /\ [inflight[i] EXCEPT !.fired = @ \cup {s}] \in BatchType
      /\ [inflight[i] EXCEPT !.end = @ \cup {s}] \in BatchType
  BY <1>1 DEF BatchType
<1> QED
  BY <1>1, <1>2, ExceptSeq

(* TypeOK is an invariant of every scheduler, whatever the dataset and the *)
(* limits: in particular no chunk and no token count is ever negative.     *)
THEOREM TypeCorrect == Spec => []TypeOK
<1>1. Init => TypeOK
  BY SimulationAssumption DEF Init, TypeOK, Reasons
<1>2. TypeOK /\ [Next]_vars => TypeOK'
  <2> SUFFICES ASSUME TypeOK, [Next]_vars
               PROVE  TypeOK'
    OBVIOUS
  <2>1. CASE Tick
    BY <2>1 DEF Tick, TypeOK, memory
  <2>2. ASSUME NEW r \in Req, AddRequest(r)
        PROVE  TypeOK'
    <3>1. request' \in Seq(Req)
      BY <2>2, AppendItems DEF AddRequest, TypeOK
    <3> QED
      BY <2>2, <3>1 DEF AddRequest, TypeOK, memory
  <2>3. ASSUME NEW r \in Req, AddDecode(r)
        PROVE  TypeOK'
    <3>1. request' \in Seq(Req)
      BY <2>3, AppendItems DEF AddDecode, TypeOK
    <3>2. Input(r) \in Nat
      BY ParameterTypes DEF TypeOK
    <3>3. npuUsed' \in Int /\ failed' \in Reasons
      <4>1. Blocks(Input(r)) \in Int
        BY <3>2, BlocksInt DEF TypeOK
      <4> QED
        BY <2>3, <4>1 DEF AddDecode, TypeOK, Reasons
    <3>4. computed' \in [Req -> Nat] /\ pending' \subseteq Req
      BY <2>3, <3>2 DEF AddDecode, TypeOK
    <3> QED
      BY <2>3, <3>1, <3>3, <3>4 DEF AddDecode, TypeOK
  <2>4. CASE ScheduleBase
    BY <2>4, ScheduleBaseType
  <2>5. ASSUME NEW s \in Npus, ScheduleExisting(s)
        PROVE  TypeOK'
    <3>1. PICK i \in DOMAIN inflight : inflight' = [inflight EXCEPT ![i].fired = @ \cup {s}]
      BY <2>5 DEF ScheduleExisting
    <3>2. inflight' \in Seq(BatchType)
      BY <3>1, StageMarked
    <3> QED
      BY <2>5, <3>2 DEF ScheduleExisting, TypeOK, memory
  <2>6. ASSUME NEW s \in Npus, NEW i \in DOMAIN inflight, Report(s, i)
        PROVE  TypeOK'
    <3>1. inflight' \in Seq(BatchType) /\ inflight[i] \in BatchType
      BY <2>6, StageMarked DEF Report
    <3>2. iter' \in [Npus -> Nat]
      <4>1. inflight[i].id + 1 \in Nat
        BY <3>1 DEF BatchType
      <4> QED
        BY <2>6, <4>1 DEF Report, TypeOK
    <3> QED
      BY <2>6, <3>1, <3>2 DEF Report, TypeOK, memory
  <2>7. ASSUME NEW s \in Npus, NEW i \in DOMAIN inflight, AddDone(s, i)
        PROVE  TypeOK'
    BY <2>7, AddDoneType
  <2>8. CASE Stopped
    BY <2>8 DEF Stopped, TypeOK, vars, memory
  <2>9. CASE UNCHANGED vars
    BY <2>9 DEF TypeOK, vars, memory
  <2> QED
    BY <2>1, <2>2, <2>3, <2>4, <2>5, <2>6, <2>7, <2>8, <2>9 DEF Next
<1> QED
  BY <1>1, <1>2, PTL DEF Spec

-----------------------------------------------------------------------------
(* Where the requests are *)

(* OnePlace, as a relation between the four places. *)
LEMMA OnePlaceIsPlacement ==
  /\ OnePlace <=> QueuePlacement(Req, pending, request, inflight, finished)
  /\ OnePlace' <=> QueuePlacement(Req, pending', request', inflight', finished')
BY DEF OnePlace, QueuePlacement, BatchesApart, InPipeline, Running, Queued, Batched

(* What the requests' whereabouts rest on: a spilled request is queued and *)
(* a decode, so only a queued request loses its flag.                      *)
Whereabouts == TypeOK /\ OnePlace /\ SpilledWaits

LEMMA ScheduleBaseWhereabouts ==
  ASSUME Whereabouts, ScheduleBase
  PROVE  (OnePlace /\ SpilledWaits)'
<1> USE DEF Whereabouts
<1>call. PICK reqs, gen, tokens, out : Call(reqs, gen, tokens, out)
  BY ScheduleBaseCases DEF Whereabouts
<1>1. /\ Items(reqs) \subseteq Queued
      /\ Distinct(request) => Distinct(reqs)
      /\ tokens \in [Items(reqs) -> Nat \ {0}]
      /\ out \subseteq {r \in Queued \cap Decodes : ~evict[r]}
      /\ chunk' = DealtChunks(tokens)
      /\ \/ \E n \in 1 .. Len(reqs) : FormBatch(reqs, tokens, n, out)
         \/ GiveUp(reqs, gen, out)
         \/ /\ failed' = "cpu_full"
            /\ UNCHANGED <<request, inflight, evict, memory, batchIds>>
  BY <1>call DEF Call
<1>lists. reqs \in Seq(Req) /\ gen \in Seq(Req)
  BY <1>call DEF Call
<1> USE <1>lists
<1>2. UNCHANGED <<sim, pending, finished, computed>>
  BY DEF ScheduleBase
<1>3. UNCHANGED Prefills /\ \A r \in Req : IsPrefill(r)' <=> IsPrefill(r)
  BY <1>2 DEF IsPrefill, Input, Prefills
<1>4. Queued \subseteq Req /\ out \subseteq Req
  BY <1>1 DEF TypeOK, Queued, Items
<1>5. \A r \in out : r \in Queued /\ ~IsPrefill(r)
  BY <1>1, <1>4 DEF Decodes, Prefills
<1>6. CASE UNCHANGED <<request, inflight>> /\ (UNCHANGED evict \/ evict' = EvictFlags({}, out))
  <2>1. OnePlace'
    BY <1>2, <1>6, OnePlaceIsPlacement
  <2>2. SpilledWaits'
    BY <1>3, <1>5, <1>6 DEF SpilledWaits, Queued, EvictFlags
  <2> QED
    BY <2>1, <2>2
<1>7. CASE \E n \in 1 .. Len(reqs) : FormBatch(reqs, tokens, n, out)
  <2>1. PICK n \in 1 .. Len(reqs) : FormBatch(reqs, tokens, n, out)
    BY <1>7
  <2> DEFINE batch == Prefix(reqs, n)
             b == [id |-> batchIds, reqs |-> batch, fired |-> {StartNpu}, end |-> {}]
  <2>2. /\ batch \in Seq(Req) /\ Items(batch) \subseteq Items(reqs)
        /\ Distinct(reqs) => Distinct(batch)
    BY PrefixProperties
  <2> HIDE DEF batch
  <2>3. b \in BatchType /\ b.reqs = batch /\ Batched(b) = Items(batch)
    BY <2>2, NpuAssumption DEF TypeOK, BatchType, Batched
  <2>4. inflight' = Append(inflight, b) /\ evict' = EvictFlags(Items(batch), out)
    BY <2>1 DEF FormBatch, batch
  <2> HIDE DEF b
  <2>5. Items(request') = Queued \ Items(batch) /\ Distinct(request')
    <3>1. request' = Keep(request, Req \ Items(batch)) /\ request \in Seq(Req)
      BY <2>1 DEF FormBatch, batch, TypeOK
    <3>2. /\ Items(request') = Items(request) \cap (Req \ Items(batch))
          /\ Distinct(request) => Distinct(request')
      BY <3>1, KeepProperties
    <3> QED
      BY <3>2, <1>4 DEF OnePlace, Queued
  <2>6. Items(batch) \subseteq Queued /\ Distinct(batch)
    BY <1>1, <2>2 DEF OnePlace
  <2>7. InPipeline(inflight') = InPipeline(inflight) \cup Items(batch) /\ BatchesApart(inflight')
    <3>1. Batched(b) \cap InPipeline(inflight) = {} /\ BatchesApart(inflight)
      BY <2>3, <2>6, OnePlaceIsPlacement DEF QueuePlacement, Queued
    <3>2. inflight \in Seq(BatchType)
      BY DEF TypeOK
    <3> QED
      BY <2>3, <2>4, <2>6, <3>1, <3>2, PipelineAppended
  <2>8. OnePlace'
    <3>1. QueuePlacement(Req, pending, request, inflight, finished)
      BY OnePlaceIsPlacement
    <3>2. QueuePlacement(Req, pending, request', inflight', finished)
      BY <2>5, <2>6, <2>7, <3>1 DEF QueuePlacement, Queued
    <3> QED
      BY <1>2, <3>2, OnePlaceIsPlacement
  <2>9. SpilledWaits'
    <3> SUFFICES ASSUME NEW r \in Req, evict'[r]
                 PROVE  r \in Queued' /\ ~IsPrefill(r)'
      BY DEF SpilledWaits
    <3>1. r \notin Items(batch) /\ (evict[r] \/ r \in out)
      BY <2>4 DEF EvictFlags
    <3>2. r \in Queued /\ ~IsPrefill(r)
      BY <3>1, <1>5 DEF SpilledWaits
    <3> QED
      BY <3>1, <3>2, <1>3, <2>5 DEF Queued
  <2> QED
    BY <2>8, <2>9
<1> QED
  BY <1>1, <1>6, <1>7 DEF GiveUp

LEMMA AddDoneWhereabouts ==
  ASSUME Whereabouts, NEW s \in Npus, NEW i \in DOMAIN inflight, AddDone(s, i)
  PROVE  (OnePlace /\ SpilledWaits)'
<1> DEFINE batch == Batched(inflight[i])
           leaves == {r \in batch : Leaves(r)}
           pool == Keep(inflight[i].reqs, Req \ leaves)
<1>1. inflight \in Seq(BatchType) /\ inflight[i] \in BatchType /\ inflight[i].reqs \in Seq(Req)
  <2>1. inflight \in Seq(BatchType) /\ i \in 1 .. Len(inflight)
    BY DEF Whereabouts, TypeOK
  <2>2. inflight[i] \in BatchType
    BY <2>1, ElementOfSeq
  <2> QED
    BY <2>1, <2>2 DEF BatchType
<1>2. /\ UNCHANGED <<sim, pending, evict>>
      /\ finished' = finished \cup leaves
      /\ Requeue(pool)
      /\ inflight' = SubSeq(inflight, 1, i - 1) \o SubSeq(inflight, i + 1, Len(inflight))
      /\ \A r \in Req \ batch : computed'[r] = computed[r]
  BY DEF AddDone
<1>3. batch \subseteq Req /\ leaves \subseteq batch
  BY <1>1 DEF Batched, Items
<1>4. QueuePlacement(Req, pending, request, inflight, finished)
  BY OnePlaceIsPlacement DEF Whereabouts
<1>5. batch \subseteq InPipeline(inflight) /\ Distinct(inflight[i].reqs)
  BY <1>4 DEF QueuePlacement, BatchesApart, InPipeline, Batched
<1>6. pool \in Seq(Req) /\ Items(pool) = batch \ leaves /\ Distinct(pool)
  <2>1. /\ pool \in Seq(Req)
        /\ Items(pool) = Items(inflight[i].reqs) \cap (Req \ leaves)
        /\ Distinct(pool)
    BY <1>1, <1>5, KeepProperties
  <2> QED
    BY <2>1, <1>3 DEF Batched
<1> HIDE DEF batch, leaves, pool
<1>7. Items(request') = (batch \ leaves) \cup Items(request) /\ Distinct(request')
  <2>1. Items(pool) \cap Queued = {} /\ Distinct(request) /\ request \in Seq(Req)
    BY <1>4, <1>5, <1>6 DEF QueuePlacement, Queued, Whereabouts, TypeOK
  <2> QED
    BY <1>2, <1>6, <2>1, RequeueProperties DEF Queued
<1>8. BatchesApart(inflight') /\ InPipeline(inflight') = InPipeline(inflight) \ batch
  <2>1. BatchesApart(inflight)
    BY <1>4 DEF QueuePlacement
  <2> QED
    BY <1>1, <1>2, <2>1, PipelineRemoved DEF batch, Batched
<1>9. OnePlace'
  <2>1. QueuePlacement(Req, pending, request', inflight', finished')
    BY <1>2, <1>3, <1>4, <1>5, <1>7, <1>8 DEF QueuePlacement
  <2> QED
    BY <1>2, <2>1, OnePlaceIsPlacement
<1>10. SpilledWaits'
  <2> SUFFICES ASSUME NEW r \in Req, evict'[r]
               PROVE  r \in Queued' /\ ~IsPrefill(r)'
    BY DEF SpilledWaits
  <2>1. r \in Queued /\ ~IsPrefill(r)
    BY <1>2 DEF Whereabouts, SpilledWaits
  <2>2. r \notin batch
    BY <1>4, <1>5, <2>1 DEF QueuePlacement, Queued
  <2>3. computed'[r] = computed[r] /\ sim' = sim
    BY <1>2, <2>2
  <2> QED
    BY <1>7, <2>1, <2>3 DEF Queued, IsPrefill, Input
<1> QED
  BY <1>9, <1>10

(* A step that only marks a stage, moves the clock or does nothing. *)
LEMMA NobodyMoves ==
  ASSUME Whereabouts, UNCHANGED <<sim, pending, request, finished, computed, evict>>,
         DOMAIN inflight' = DOMAIN inflight,
         \A i \in DOMAIN inflight : inflight'[i].reqs = inflight[i].reqs
  PROVE  (OnePlace /\ SpilledWaits)'
<1>1. BatchesApart(inflight) => BatchesApart(inflight')
  BY PipelineMarked
<1>2. InPipeline(inflight') = InPipeline(inflight)
  BY PipelineMarked
<1>3. OnePlace'
  BY <1>1, <1>2, OnePlaceIsPlacement DEF QueuePlacement, Whereabouts
<1>4. SpilledWaits'
  BY DEF SpilledWaits, Whereabouts, Queued, IsPrefill, Input
<1> QED
  BY <1>3, <1>4

LEMMA ArrivalWhereabouts ==
  ASSUME Whereabouts, NEW r \in Req, AddRequest(r) \/ AddDecode(r)
  PROVE  (OnePlace /\ SpilledWaits)'
<1>1. /\ UNCHANGED <<sim, inflight, finished, evict>>
      /\ r \in pending /\ pending' = pending \ {r} /\ request' = Append(request, r)
      /\ \A q \in Req \ {r} : computed'[q] = computed[q]
  BY DEF AddRequest, AddDecode, Whereabouts, TypeOK
<1>2. QueuePlacement(Req, pending, request, inflight, finished)
  BY OnePlaceIsPlacement DEF Whereabouts
<1>3. Items(request') = Items(request) \cup {r} /\ Distinct(request')
  BY <1>1, <1>2, AppendItems DEF QueuePlacement, Whereabouts, TypeOK
<1>4. OnePlace'
  <2>1. QueuePlacement(Req, pending', request', inflight, finished)
    BY <1>1, <1>2, <1>3 DEF QueuePlacement
  <2> QED
    BY <1>1, <2>1, OnePlaceIsPlacement
<1>5. SpilledWaits'
  <2> SUFFICES ASSUME NEW q \in Req, evict'[q]
               PROVE  q \in Queued' /\ ~IsPrefill(q)'
    BY DEF SpilledWaits
  <2>1. q \in Queued /\ ~IsPrefill(q)
    BY <1>1 DEF Whereabouts, SpilledWaits
  <2>2. q # r
    BY <1>1, <1>2, <2>1 DEF QueuePlacement, Queued
  <2> QED
    BY <1>1, <1>3, <2>1, <2>2 DEF Queued, IsPrefill, Input
<1> QED
  BY <1>4, <1>5

LEMMA WhereaboutsInductive == Spec => []Whereabouts
<1>1. Init => Whereabouts
  <2> SUFFICES ASSUME Init PROVE Whereabouts
    OBVIOUS
  <2>1. TypeOK
    BY SimulationAssumption DEF Init, TypeOK, Reasons
  <2>2. OnePlace
    <3>1. Items(request) = {} /\ Distinct(request)
      BY DEF Init, Items, Distinct
    <3>2. InPipeline(inflight) = {} /\ BatchesApart(inflight)
      BY DEF Init, InPipeline, BatchesApart
    <3>3. QueuePlacement(Req, pending, request, inflight, finished)
      BY <3>1, <3>2 DEF Init, QueuePlacement
    <3> QED
      BY <3>3, OnePlaceIsPlacement
  <2>3. SpilledWaits
    BY DEF Init, SpilledWaits
  <2> QED
    BY <2>1, <2>2, <2>3 DEF Whereabouts
<1>2. TypeOK' /\ Whereabouts /\ [Next]_vars => Whereabouts'
  <2> SUFFICES ASSUME Whereabouts, [Next]_vars
               PROVE  (OnePlace /\ SpilledWaits)'
    BY DEF Whereabouts
  <2>1. CASE Tick \/ Stopped \/ UNCHANGED vars
    BY <2>1, NobodyMoves DEF Tick, Stopped, vars
  <2>2. ASSUME NEW r \in Req, AddRequest(r) \/ AddDecode(r)
        PROVE  (OnePlace /\ SpilledWaits)'
    BY <2>2, ArrivalWhereabouts
  <2>3. CASE ScheduleBase
    BY <2>3, ScheduleBaseWhereabouts
  <2>4. ASSUME NEW s \in Npus, ScheduleExisting(s)
        PROVE  (OnePlace /\ SpilledWaits)'
    <3>1. /\ DOMAIN inflight' = DOMAIN inflight
          /\ \A i \in DOMAIN inflight : inflight'[i].reqs = inflight[i].reqs
      BY <2>4 DEF ScheduleExisting, Whereabouts, TypeOK, BatchType
    <3> QED
      BY <2>4, <3>1, NobodyMoves DEF ScheduleExisting
  <2>5. ASSUME NEW s \in Npus, NEW i \in DOMAIN inflight, Report(s, i)
        PROVE  (OnePlace /\ SpilledWaits)'
    <3>1. /\ DOMAIN inflight' = DOMAIN inflight
          /\ \A j \in DOMAIN inflight : inflight'[j].reqs = inflight[j].reqs
      BY <2>5 DEF Report, Whereabouts, TypeOK, BatchType
    <3> QED
      BY <2>5, <3>1, NobodyMoves DEF Report
  <2>6. ASSUME NEW s \in Npus, NEW i \in DOMAIN inflight, AddDone(s, i)
        PROVE  (OnePlace /\ SpilledWaits)'
    BY <2>6, AddDoneWhereabouts
  <2> QED
    BY <2>1, <2>2, <2>3, <2>4, <2>5, <2>6 DEF Next
<1> QED
  BY <1>1, <1>2, TypeCorrect, PTL DEF Spec

(* No request is ever lost or doubled: it is with the router, in the       *)
(* queue, in one batch of the pipeline or finished, whatever the dataset,  *)
(* the limits and the order in which the stages report.                    *)
THEOREM OnePlaceCorrect == Spec => []OnePlace
<1>1. Whereabouts => OnePlace
  BY DEF Whereabouts
<1> QED
  BY <1>1, WhereaboutsInductive, PTL

(* Only a queued decode is ever spilled to host memory: no batch runs on   *)
(* KV that is not on the NPU and no finished request leaves any behind.    *)
THEOREM SpilledWaitsCorrect == Spec => []SpilledWaits
<1>1. Whereabouts => SpilledWaits
  BY DEF Whereabouts
<1> QED
  BY <1>1, WhereaboutsInductive, PTL

-----------------------------------------------------------------------------
(* What one call of schedule_base deals out *)

LEMMA DemandStep ==
  ASSUME TypeOK, NEW s \in Seq(Req), NEW n \in 1 .. Len(s)
  PROVE  Demand(s, n) = Demand(s, n - 1) + Want(s[n])
<1> DEFINE f == [i \in 1 .. n |-> 1 .. Want(s[i])]
           A == 1 .. n - 1
<1>1. DOMAIN f = A \cup {n} /\ A \cap {n} = {} /\ IsFiniteSet(DOMAIN f)
  <2>1. n \in Nat \ {0} /\ DOMAIN f = 1 .. n
    OBVIOUS
  <2>2. IsFiniteSet(1 .. n)
    BY <2>1, IntervalSize
  <2> HIDE DEF f
  <2> QED
    BY <2>1, <2>2
<1>2. \A i \in 1 .. n : Want(s[i]) \in Nat
  BY WantNat
<1>3. \A i \in DOMAIN f : IsFiniteSet(f[i])
  BY <1>2, FS_Interval
<1>4. /\ [i \in A |-> f[i]] = [i \in 1 .. n - 1 |-> 1 .. Want(s[i])]
      /\ [i \in {n} |-> f[i]][n] = 1 .. Want(s[n])
  OBVIOUS
<1>5. Cardinality(Pairs([i \in {n} |-> f[i]])) = Want(s[n])
  <2>1. Want(s[n]) \in Nat /\ DOMAIN [i \in {n} |-> f[i]] = {n}
    BY <1>2
  <2> HIDE DEF f
  <2> QED
    BY <1>4, <2>1, PairsSingle
<1>6. Cardinality(Pairs(f)) = Cardinality(Pairs([i \in A |-> f[i]]))
                                + Cardinality(Pairs([i \in {n} |-> f[i]]))
  <2> HIDE DEF f, A
  <2> QED
    BY <1>1, <1>3, PairsSplit
<1> QED
  BY <1>4, <1>5, <1>6 DEF Demand

(* Each request of the batch gets at most what it wants, and what is left  *)
(* of the budget after those before it.                                    *)
LEMMA TokensFitBudget ==
  ASSUME TypeOK, NEW s \in Seq(Req), NEW i \in 1 .. Len(Budgeted(s)),
         Distinct(Budgeted(s))
  PROVE  LET b == Budgeted(s)
         IN  /\ Pos(b, b[i]) = i
             /\ b[i] \in Req /\ b[i] \in Items(b)
             /\ ScheduledTokens(b)[b[i]] \in Nat
             /\ ScheduledTokens(b)[b[i]] <= Want(b[i])
             /\ Demand(b, i - 1) \in Nat
             /\ Demand(b, i - 1) + ScheduledTokens(b)[b[i]] <= MaxTokens
             /\ ~Chunked => ScheduledTokens(b)[b[i]] = Want(b[i])
<1> DEFINE b == Budgeted(s)
           r == b[i]
<1>1. /\ b \in Seq(Req) /\ Len(b) \in 0 .. Len(s)
      /\ \A j \in 1 .. Len(b) : b[j] = s[j]
  BY BudgetedProperties
<1>2. ScheduledTokens(b) \in [Items(b) -> Nat \ {0}]
  BY TokensPositive
<1> HIDE DEF b
<1>3. Len(b) \in Nat /\ i \in 1 .. Len(b) /\ r \in Req /\ r \in Items(b)
  BY <1>1 DEF b, Items
<1>4. Pos(b, r) = i
  BY <1>1, <1>3 DEF b, Pos, Distinct
<1>5. ScheduledTokens(b)[r] = IF Chunked THEN Least(Want(r), MaxTokens - Demand(b, i - 1))
                                         ELSE Want(r)
  BY <1>3, <1>4 DEF ScheduledTokens
<1>6. Want(r) \in Nat
  BY <1>3, WantNat
<1>7. Demand(b, i - 1) \in Nat /\ Demand(b, i) \in Nat
  <2>1. i - 1 \in 0 .. Len(b) /\ i \in 0 .. Len(b) /\ i - 1 \in 0 .. i - 1 /\ i \in 0 .. i
    BY <1>3
  <2> QED
    BY <1>1, <2>1, DemandMonotonic
<1>8. Demand(b, i) = Demand(b, i - 1) + Want(r)
  BY <1>1, <1>3, DemandStep
<1>9. ~Chunked => Demand(b, i) <= MaxTokens
  <2>1. ~Chunked => Demand(s, i) <= MaxTokens
    BY BudgetedProperties
  <2>2. [j \in 1 .. i |-> 1 .. Want(b[j])] = [j \in 1 .. i |-> 1 .. Want(s[j])]
    BY <1>1, <1>3
  <2> QED
    BY <2>1, <2>2 DEF Demand
<1>10. MaxTokens \in Nat /\ Chunked \in BOOLEAN
  BY ParameterTypes DEF TypeOK
<1>11. ScheduledTokens(b)[r] <= Want(r) /\ (~Chunked => ScheduledTokens(b)[r] = Want(r))
  BY <1>5, <1>6, <1>7, <1>10 DEF Least
<1>12. Demand(b, i - 1) + ScheduledTokens(b)[r] <= MaxTokens
  BY <1>5, <1>6, <1>7, <1>8, <1>9, <1>10 DEF Least
<1> QED
  BY <1>2, <1>3, <1>4, <1>7, <1>11, <1>12 DEF b

(* The tokens of a batch do not exceed the budget: token k of a request is *)
(* number Demand(b, its place - 1) + k of the batch.                       *)
LEMMA BudgetSum ==
  ASSUME TypeOK, NEW s \in Seq(Req), Distinct(Budgeted(s)), NEW n \in 0 .. Len(Budgeted(s))
  PROVE  LET b == Budgeted(s)
         IN  Cardinality(Pairs([r \in Items(Prefix(b, n)) |-> 1 .. ScheduledTokens(b)[r]]))
               <= MaxTokens
<1> DEFINE b == Budgeted(s)
           tokens == ScheduledTokens(b)
           S == Items(Prefix(b, n))
           P == Pairs([r \in S |-> 1 .. tokens[r]])
           number == [p \in P |-> Demand(b, Pos(b, p[1]) - 1) + p[2]]
<1>1. b \in Seq(Req) /\ \A i \in 1 .. Len(b) : b[i] \in Req
  BY BudgetedProperties
<1>2. \A i \in 1 .. Len(b) :
        /\ Pos(b, b[i]) = i
        /\ tokens[b[i]] \in Nat /\ tokens[b[i]] <= Want(b[i])
        /\ Demand(b, i - 1) \in Nat
        /\ Demand(b, i - 1) + tokens[b[i]] <= MaxTokens
  BY TokensFitBudget
<1>3. MaxTokens \in Nat
  BY ParameterTypes DEF TypeOK
<1>4. n \in 0 .. Len(b)
  OBVIOUS
<1> HIDE DEF b, tokens
<1>5. \A p \in P : \E i \in 1 .. Len(b) : p[1] = b[i] /\ p[2] \in 1 .. tokens[b[i]]
  <2>1. S \subseteq Items(b)
    BY <1>1, <1>4, PrefixProperties
  <2> HIDE DEF S
  <2> QED
    BY <2>1 DEF Pairs, Items
<1>6. \A p \in P : p = <<p[1], p[2]>>
  BY DEF Pairs
<1> HIDE DEF S, P
<1>7. ASSUME NEW p \in P
      PROVE  number[p] \in 1 .. MaxTokens
  <2>1. PICK i \in 1 .. Len(b) : p[1] = b[i] /\ p[2] \in 1 .. tokens[b[i]]
    BY <1>5
  <2>2. number[p] = Demand(b, i - 1) + p[2]
    BY <1>2, <2>1
  <2> HIDE DEF number
  <2> QED
    BY <1>2, <1>3, <2>1, <2>2
<1>8. ASSUME NEW i \in 1 .. Len(b), NEW j \in 1 .. Len(b), i < j,
             NEW k \in 1 .. tokens[b[i]], NEW l \in 1 .. tokens[b[j]]
      PROVE  Demand(b, i - 1) + k < Demand(b, j - 1) + l
  <2>1. /\ i \in 0 .. Len(b) /\ j - 1 \in 0 .. Len(b) /\ i \in 0 .. j - 1
        /\ i \in 1 .. Len(b)
    BY <1>1, <1>8
  <2>2. /\ Demand(b, j - 1) \in Nat /\ Demand(b, i) \in Nat
        /\ Demand(b, i) <= Demand(b, j - 1)
    BY <1>1, <2>1, DemandMonotonic
  <2>3. Demand(b, i) = Demand(b, i - 1) + Want(b[i])
    BY <1>1, DemandStep
  <2>4. Want(b[i]) \in Nat
    BY <1>1, WantNat
  <2>5. k \in Nat /\ k <= Want(b[i]) /\ l \in Nat /\ l > 0
    <3>1. tokens[b[i]] \in Nat /\ tokens[b[i]] <= Want(b[i]) /\ tokens[b[j]] \in Nat
      BY <1>2
    <3> QED
      BY <2>4, <3>1
  <2>6. Demand(b, i - 1) \in Nat
    BY <1>2
  <2> QED
    BY <2>2, <2>3, <2>4, <2>5, <2>6
<1>9. ASSUME NEW p \in P, NEW q \in P, number[p] = number[q]
      PROVE  p = q
  <2>1. PICK i \in 1 .. Len(b) : p[1] = b[i] /\ p[2] \in 1 .. tokens[b[i]]
    BY <1>5
  <2>2. PICK j \in 1 .. Len(b) : q[1] = b[j] /\ q[2] \in 1 .. tokens[b[j]]
    BY <1>5
  <2>3. number[p] = Demand(b, i - 1) + p[2] /\ number[q] = Demand(b, j - 1) + q[2]
    BY <1>2, <2>1, <2>2
  <2> HIDE DEF number
  <2>4. Demand(b, i - 1) \in Nat /\ Demand(b, j - 1) \in Nat
    BY <1>2
  <2>5. p[2] \in Nat /\ q[2] \in Nat
    BY <2>1, <2>2
  <2> DEFINE k == p[2]
             l == q[2]
  <2>6. Demand(b, i - 1) + k = Demand(b, j - 1) + l
    BY <1>9, <2>3
  <2>7. /\ i < j => Demand(b, i - 1) + k < Demand(b, j - 1) + l
        /\ j < i => Demand(b, j - 1) + l < Demand(b, i - 1) + k
    BY <1>8, <2>1, <2>2
  <2> HIDE DEF k, l
  <2>8. i = j
    <3>1. k \in Nat /\ l \in Nat /\ i \in Int /\ j \in Int
      BY <2>5 DEF k, l
    <3> QED
      BY <2>4, <2>6, <2>7, <3>1
  <2>9. k = l
    <3>1. k \in Nat /\ l \in Nat
      BY <2>5 DEF k, l
    <3> QED
      BY <2>4, <2>6, <2>8, <3>1
  <2> QED
    BY <1>6, <2>1, <2>2, <2>8, <2>9 DEF k, l
<1>10. number \in Injection(P, 1 .. MaxTokens)
  <2>1. number \in [P -> 1 .. MaxTokens]
    BY <1>7
  <2> HIDE DEF number
  <2> QED
    BY <1>9, <2>1, Fun_IsInj
<1>11. IsFiniteSet(1 .. MaxTokens) /\ Cardinality(1 .. MaxTokens) = MaxTokens
  BY <1>3, IntervalSize
<1>12. Cardinality(P) <= MaxTokens
  <2> HIDE DEF number
  <2> QED
    BY <1>10, <1>11, FS_Injection
<1> QED
  BY <1>12 DEF P, S, tokens, b

-----------------------------------------------------------------------------
(* How far the requests are *)

(* Nothing is computed for a request that the router still holds. *)
NotStarted == \A r \in pending : computed[r] = 0

(* Without chunked prefill a prompt is computed in one step. *)
WholePrompts ==
  ~Chunked => \A r \in Req : chunk[r] = 0 /\ (IsPrefill(r) => computed[r] = 0)

(* A step never runs beyond the end of the prompt. *)
StepInPrompt == \A r \in Running : IsPrefill(r) => After(r) <= Input(r)

(* A request that is not finished still has something to do. *)
NotOver ==
  \A r \in Req \ finished :
    /\ PdType = "none" => computed[r] + 1 < Output(r)
    /\ PdType = "prefill" => computed[r] < Input(r)
    /\ PdType = "decode" => \/ r \in pending
                            \/ computed[r] = Input(r)
                            \/ computed[r] > Input(r) /\ computed[r] + 1 < Output(r)

(* What FinishesExactly and WithinLimits rest on. *)
Progress ==
  /\ Whereabouts /\ sim \in Simulations
  /\ NotStarted /\ WholePrompts /\ StepInPrompt /\ NotOver
  /\ FinishesExactly /\ WithinLimits

(* The sequences in the pipeline, as schedule_base counts them, are the    *)
(* requests in it.                                                         *)
SeqsIn(q) == Cardinality(Pairs([i \in DOMAIN q |-> DOMAIN q[i].reqs]))

LEMMA SeqsAreRequests ==
  ASSUME NEW q \in Seq(BatchType), BatchesApart(q)
  PROVE  /\ IsFiniteSet(InPipeline(q))
         /\ SeqsIn(q) = Cardinality(InPipeline(q))
         /\ SeqsIn(q) \in Nat
<1> DEFINE f == [i \in DOMAIN q |-> DOMAIN q[i].reqs]
           P == Pairs(f)
           g == [p \in P |-> q[p[1]].reqs[p[2]]]
<1>1. \A i \in DOMAIN q : q[i].reqs \in Seq(Req) /\ DOMAIN q[i].reqs = 1 .. Len(q[i].reqs)
  <2> HIDE DEF f, P, g
  <2> TAKE i \in DOMAIN q
  <2>1. q[i] \in BatchType
    BY ElementOfSeq
  <2>2. q[i].reqs \in Seq(Req)
    BY <2>1 DEF BatchType
  <2> QED
    BY <2>2
<1>2. InPipeline(q) \subseteq Req
  BY <1>1 DEF InPipeline, Batched, Items
<1>3. IsFiniteSet(InPipeline(q)) /\ Cardinality(InPipeline(q)) \in Nat
  BY <1>2, ReqAssumption, FS_Subset, FS_CardinalityType
<1>4. \A p \in P : p = <<p[1], p[2]>> /\ p[1] \in DOMAIN q /\ p[2] \in DOMAIN q[p[1]].reqs
  BY DEF Pairs
<1>5. \A i \in DOMAIN q : \A k \in DOMAIN q[i].reqs : <<i, k>> \in P /\ g[<<i, k>>] = q[i].reqs[k]
  BY DEF Pairs
<1> HIDE DEF P
<1>6. \A p \in P : g[p] \in Batched(q[p[1]])
  BY <1>4 DEF Batched, Items
<1>7. g \in [P -> InPipeline(q)]
  BY <1>4, <1>6 DEF InPipeline, Batched
<1>8. \A x \in InPipeline(q) : \E p \in P : g[p] = x
  <2> HIDE DEF g
  <2> TAKE x \in InPipeline(q)
  <2>1. PICK i \in DOMAIN q : x \in Batched(q[i])
    BY DEF InPipeline, Batched
  <2>2. PICK k \in DOMAIN q[i].reqs : x = q[i].reqs[k]
    BY <2>1 DEF Batched, Items
  <2> QED
    BY <1>5, <2>2
<1>9. ASSUME NEW p \in P, NEW r \in P, g[p] = g[r]
      PROVE  p = r
  <2>1. p[1] = r[1]
    <3>1. g[p] \in Batched(q[p[1]]) \cap Batched(q[r[1]])
      BY <1>6, <1>9
    <3>2. p[1] \in DOMAIN q /\ r[1] \in DOMAIN q
      BY <1>4
    <3> HIDE DEF g
    <3> QED
      BY <3>1, <3>2 DEF BatchesApart, Batched
  <2>2. Distinct(q[p[1]].reqs)
    BY <1>4 DEF BatchesApart
  <2>3. q[p[1]].reqs[p[2]] = q[p[1]].reqs[r[2]]
    BY <1>9, <2>1
  <2>4. p[2] = r[2]
    BY <1>4, <2>1, <2>2, <2>3 DEF Distinct
  <2> QED
    BY <1>4, <2>1, <2>4
<1>10. g \in Bijection(P, InPipeline(q))
  <2> HIDE DEF g
  <2> QED
    BY <1>7, <1>8, <1>9, Fun_IsBij
<1>11. IsFiniteSet(P)
  <2>1. IsFiniteSet(DOMAIN f)
    <3>1. DOMAIN f = 1 .. Len(q) /\ Len(q) \in Nat
      OBVIOUS
    <3> QED
      BY <3>1, IntervalSize
  <2>2. \A i \in DOMAIN f : IsFiniteSet(f[i])
    BY <1>1, IntervalSize
  <2> HIDE DEF f
  <2> QED
    BY <2>1, <2>2, PairsFinite DEF P
<1>12. Cardinality(InPipeline(q)) = Cardinality(P)
  <2>1. ExistsBijection(P, InPipeline(q))
    BY <1>10 DEF ExistsBijection
  <2> QED
    BY <1>11, <2>1, FS_Bijection
<1> QED
  BY <1>3, <1>12 DEF SeqsIn, P

LEMMA RunningIsPipeline ==
  ASSUME Whereabouts
  PROVE  /\ Running = InPipeline(inflight)
         /\ Running \subseteq Req
         /\ RunningSeqs = Cardinality(InPipeline(inflight))
         /\ IsFiniteSet(InPipeline(inflight)) /\ RunningSeqs \in Nat
         /\ BatchesApart(inflight)
         /\ Running \cap (pending \cup Queued \cup finished) = {}
<1>1. QueuePlacement(Req, pending, request, inflight, finished) /\ inflight \in Seq(BatchType)
  BY OnePlaceIsPlacement DEF Whereabouts, TypeOK
<1>2. BatchesApart(inflight) /\ Running = InPipeline(inflight)
  BY <1>1 DEF QueuePlacement, Running, InPipeline, Batched
<1>3. RunningSeqs = SeqsIn(inflight)
  BY DEF RunningSeqs, SeqsIn
<1>4. Running \subseteq Req
  BY <1>1, <1>2 DEF QueuePlacement
<1>5. Running \cap (pending \cup Queued \cup finished) = {}
  BY <1>1, <1>2 DEF QueuePlacement, Queued
<1> QED
  BY <1>1, <1>2, <1>3, <1>4, <1>5, SeqsAreRequests

(* schedule_base gives the requests it deals tokens to a step of that many *)
(* tokens, and leaves the steps of the running ones alone.                 *)
LEMMA StepsDealt ==
  ASSUME Progress, NEW reqs, NEW gen, NEW tokens, NEW out, Call(reqs, gen, tokens, out),
         UNCHANGED <<sim, computed>>
  PROVE  /\ \A r \in Running : StepOf(r)' = StepOf(r) /\ After(r)' = After(r)
         /\ \A r \in Items(reqs) :
              /\ StepOf(r)' = tokens[r]
              /\ IsPrefill(r) => tokens[r] <= Input(r) - computed[r]
<1>1. /\ TypeOK /\ WholePrompts /\ Distinct(request)
      /\ Running \cap Queued = {} /\ Running \subseteq Req
  BY RunningIsPipeline DEF Progress, Whereabouts, OnePlace
<1>2. /\ Items(reqs) \subseteq Queued /\ Items(reqs) \subseteq Req
      /\ tokens = ScheduledTokens(reqs) /\ chunk' = DealtChunks(tokens)
      /\ tokens \in [Items(reqs) -> Nat \ {0}]
      /\ Distinct(reqs)
  BY <1>1 DEF Call, Items
<1>3. \A r \in Req : IsPrefill(r)' = IsPrefill(r) /\ Input(r)' = Input(r)
  BY DEF IsPrefill, Input
<1>4. ASSUME NEW r \in Running
      PROVE  StepOf(r)' = StepOf(r) /\ After(r)' = After(r)
  <2>1. r \in Req /\ r \notin DOMAIN tokens
    BY <1>1, <1>2
  <2>2. chunk'[r] = chunk[r]
    BY <1>2, <2>1 DEF DealtChunks
  <2> QED
    BY <1>3, <2>1, <2>2 DEF StepOf, After
<1>5. ASSUME NEW r \in Items(reqs)
      PROVE  /\ StepOf(r)' = tokens[r]
             /\ IsPrefill(r) => tokens[r] <= Input(r) - computed[r]
  <2> DEFINE s == Ordered(Candidates)
  <2>1. s \in Seq(Req) /\ reqs = Budgeted(s)
    BY <1>1, CandidatesProperties, OrderedProperties DEF Call
  <2> HIDE DEF s
  <2>2. PICK i \in 1 .. Len(reqs) : r = reqs[i]
    BY <2>1, BudgetedProperties, <1>1 DEF Items
  <2>3. tokens[r] <= Want(r) /\ (~Chunked => tokens[r] = Want(r))
    BY <1>1, <1>2, <2>1, <2>2, TokensFitBudget
  <2>4. r \in Req /\ tokens[r] \in Nat \ {0}
    BY <1>2
  <2>5. Input(r) \in Nat \ {0} /\ computed[r] \in Nat /\ chunk[r] \in Nat /\ Chunked \in BOOLEAN
    BY <1>1, <2>4, ParameterTypes DEF TypeOK
  <2>6. CASE ~IsPrefill(r)
    BY <1>3, <2>3, <2>4, <2>6 DEF Want, StepOf
  <2>7. CASE IsPrefill(r) /\ Chunked
    <3>1. chunk'[r] = tokens[r]
      BY <1>2, <2>4, <2>7 DEF DealtChunks
    <3>2. Want(r) <= Input(r) - computed[r]
      <4>1. Threshold \in Nat
        BY <1>1, ParameterTypes DEF TypeOK
      <4> QED
        BY <2>5, <2>7, <4>1 DEF Want
    <3>3. Want(r) \in Nat
      BY <1>1, <2>4, WantNat
    <3> QED
      BY <1>3, <2>3, <2>4, <2>5, <2>7, <3>1, <3>2, <3>3 DEF StepOf
  <2>8. CASE IsPrefill(r) /\ ~Chunked
    <3>1. chunk'[r] = 0 /\ computed[r] = 0 /\ chunk' = chunk
      <4>1. chunk' = [q \in Req |-> chunk[q]] /\ chunk \in [Req -> Nat]
        BY <1>1, <1>2, <2>8 DEF DealtChunks, TypeOK
      <4> QED
        BY <1>1, <2>4, <2>8, <4>1 DEF WholePrompts
    <3>2. Want(r) = Input(r)
      BY <2>8 DEF Want
    <3> QED
      BY <1>3, <2>3, <2>4, <2>5, <2>8, <3>1, <3>2 DEF StepOf
  <2> QED
    BY <2>5, <2>6, <2>7, <2>8
<1> QED
  BY <1>4, <1>5

(* The batch that schedule_base puts in flight, and what stays queued. *)
LEMMA BatchFormed ==
  ASSUME Whereabouts, NEW reqs, NEW gen, NEW tokens, NEW out, Call(reqs, gen, tokens, out),
         NEW n \in 1 .. Len(reqs), FormBatch(reqs, tokens, n, out)
  PROVE  LET taken == Items(Prefix(reqs, n))
         IN  /\ taken \subseteq Items(reqs) /\ taken \subseteq Queued
             /\ Queued' = Queued \ taken
             /\ InPipeline(inflight') = InPipeline(inflight) \cup taken
             /\ Len(inflight') = Len(inflight) + 1
             /\ \A i \in 1 .. Len(inflight) : inflight'[i] = inflight[i]
             /\ Batched(inflight'[Len(inflight) + 1]) = taken
             /\ inflight' \in Seq(BatchType)
             /\ evict' = EvictFlags(taken, out)
<1> DEFINE batch == Prefix(reqs, n)
           b == [id |-> batchIds, reqs |-> batch, fired |-> {StartNpu}, end |-> {}]
<1>1. reqs \in Seq(Req) /\ n \in 0 .. Len(reqs) /\ Items(reqs) \subseteq Queued
  BY DEF Call
<1>2. batch \in Seq(Req) /\ Items(batch) \subseteq Items(reqs)
  BY <1>1, PrefixProperties
<1> HIDE DEF batch
<1>3. b \in BatchType /\ Batched(b) = Items(batch)
  BY <1>2, NpuAssumption DEF Whereabouts, TypeOK, BatchType, Batched
<1>4. /\ inflight' = Append(inflight, b) /\ evict' = EvictFlags(Items(batch), out)
      /\ request' = Keep(request, Req \ Items(batch))
  BY DEF FormBatch, batch
<1> HIDE DEF b
<1>5. inflight \in Seq(BatchType) /\ request \in Seq(Req)
  BY DEF Whereabouts, TypeOK
<1>6. Queued' = Queued \ Items(batch)
  <2>1. Items(request') = Items(request) \cap (Req \ Items(batch))
    BY <1>4, <1>5, KeepProperties
  <2>2. Items(request) \subseteq Req
    BY <1>5 DEF Items
  <2> QED
    BY <2>1, <2>2 DEF Queued
<1>7. InPipeline(inflight') = InPipeline(inflight) \cup Items(batch)
  BY <1>3, <1>4, <1>5, PipelineAppended DEF Batched
<1>8. /\ Len(inflight') = Len(inflight) + 1
      /\ \A i \in 1 .. Len(inflight) : inflight'[i] = inflight[i]
      /\ inflight'[Len(inflight) + 1] = b
      /\ inflight' \in Seq(BatchType)
  BY <1>3, <1>4, <1>5
<1> QED
  BY <1>1, <1>2, <1>3, <1>4, <1>6, <1>7, <1>8 DEF batch

(* The requests of a call are at most the free sequence slots. *)
LEMMA CallFitsSlots ==
  ASSUME Whereabouts, NEW reqs, NEW gen, NEW tokens, NEW out, Call(reqs, gen, tokens, out)
  PROVE  /\ IsFiniteSet(Items(reqs))
         /\ Cardinality(Items(reqs)) \in Nat
         /\ Cardinality(Items(reqs)) <= Slots
<1> DEFINE A == Keep(request, {r \in Req : Arrival(r) <= now})
<1>1. TypeOK /\ request \in Seq(Req)
  BY DEF Whereabouts, TypeOK
<1>2. Candidates \in Seq(Req)
  BY <1>1, CandidatesProperties
<1>3. Items(reqs) \subseteq Items(Candidates)
  <2>1. Ordered(Candidates) \in Seq(Req) /\ Items(Ordered(Candidates)) \subseteq Items(Candidates)
    BY <1>2, OrderedProperties
  <2>2. Items(Budgeted(Ordered(Candidates))) \subseteq Items(Ordered(Candidates))
    BY <1>1, <2>1, BudgetedProperties
  <2> QED
    BY <2>1, <2>2 DEF Call
<1>4. Len(Candidates) <= Slots
  <2>1. A \in Seq(Req) /\ Slots \in Nat
    BY <1>1, KeepProperties, SlotsNat
  <2>2. Least(Len(A), Slots) \in 0 .. Len(A) /\ Least(Len(A), Slots) <= Slots
    BY <2>1 DEF Least
  <2>3. Candidates = Prefix(A, Least(Len(A), Slots))
    BY DEF Candidates
  <2> HIDE DEF A
  <2>4. Len(Candidates) = Least(Len(A), Slots)
    BY <2>1, <2>2, <2>3, PrefixProperties
  <2> QED
    BY <2>2, <2>4
<1>5. IsFiniteSet(Items(Candidates)) /\ Cardinality(Items(Candidates)) <= Len(Candidates)
  BY <1>2, ItemsSize
<1>6. /\ IsFiniteSet(Items(reqs)) /\ Cardinality(Items(reqs)) \in Nat
      /\ Cardinality(Items(reqs)) <= Cardinality(Items(Candidates))
  BY <1>3, <1>5, FS_Subset, FS_CardinalityType
<1>7. Slots \in Nat /\ Len(Candidates) \in Nat /\ Cardinality(Items(Candidates)) \in Nat
  BY <1>1, <1>2, <1>5, SlotsNat, FS_CardinalityType
<1> QED
  BY <1>4, <1>5, <1>6, <1>7

(* The limits hold for a new batch. *)
LEMMA FormBatchLimits ==
  ASSUME Progress, Whereabouts', NEW reqs, NEW gen, NEW tokens, NEW out,
         Call(reqs, gen, tokens, out), UNCHANGED <<sim, computed>>, Len(inflight) < PpSize,
         NEW n \in 1 .. Len(reqs), FormBatch(reqs, tokens, n, out)
  PROVE  WithinLimits'
<1> DEFINE taken == Items(Prefix(reqs, n))
<1>1. Whereabouts /\ TypeOK /\ WithinLimits
  BY DEF Progress, Whereabouts
<1>2. /\ taken \subseteq Items(reqs) /\ taken \subseteq Queued
      /\ InPipeline(inflight') = InPipeline(inflight) \cup taken
      /\ Len(inflight') = Len(inflight) + 1
      /\ \A i \in 1 .. Len(inflight) : inflight'[i] = inflight[i]
      /\ Batched(inflight'[Len(inflight) + 1]) = taken
      /\ inflight' \in Seq(BatchType)
  BY <1>1, BatchFormed
<1>3. UNCHANGED <<PpSize, MaxNumSeqs, MaxTokens>>
  BY DEF PpSize, MaxNumSeqs, MaxTokens
<1>4. MaxTokens \in Nat /\ PpSize \in Nat /\ MaxNumSeqs \in Nat
  BY <1>1, ParameterTypes DEF TypeOK
<1>5. Len(inflight) \in Nat
  BY <1>1 DEF TypeOK
<1>6. /\ \A r \in Running : StepOf(r)' = StepOf(r)
      /\ \A r \in Items(reqs) : StepOf(r)' = tokens[r]
  BY StepsDealt
<1>7. reqs \in Seq(Req) /\ n \in 0 .. Len(reqs)
  BY DEF Call
<1> HIDE DEF taken
<1>8. Len(inflight') <= PpSize'
  BY <1>2, <1>3, <1>4, <1>5
<1>9. RunningSeqs' <= MaxNumSeqs'
  <2>1. /\ RunningSeqs = Cardinality(InPipeline(inflight)) /\ RunningSeqs \in Nat
        /\ IsFiniteSet(InPipeline(inflight))
    BY <1>1, RunningIsPipeline
  <2>2. RunningSeqs' = Cardinality(InPipeline(inflight'))
    <3>1. RunningSeqs' = SeqsIn(inflight')
      BY DEF RunningSeqs, SeqsIn
    <3>2. BatchesApart(inflight')
      BY OnePlaceIsPlacement DEF QueuePlacement, Whereabouts
    <3> QED
      BY <1>2, <3>1, <3>2, SeqsAreRequests
  <2>3. /\ IsFiniteSet(Items(reqs)) /\ Cardinality(Items(reqs)) \in Nat
        /\ Cardinality(Items(reqs)) <= Slots
    BY <1>1, CallFitsSlots
  <2>4. IsFiniteSet(taken) /\ Cardinality(taken) \in Nat /\ Cardinality(taken) <= Slots
    <3>1. IsFiniteSet(taken) /\ Cardinality(taken) <= Cardinality(Items(reqs))
      BY <1>2, <2>3, FS_Subset
    <3>2. Cardinality(taken) \in Nat /\ Slots \in Nat
      BY <1>1, <3>1, FS_CardinalityType, SlotsNat
    <3> QED
      BY <2>3, <3>1, <3>2
  <2>5. Cardinality(InPipeline(inflight) \cup taken)
          = Cardinality(InPipeline(inflight)) + Cardinality(taken)
              - Cardinality(InPipeline(inflight) \cap taken)
    BY <2>1, <2>4, FS_Union
  <2>6. Cardinality(InPipeline(inflight) \cap taken) \in Nat
    BY <2>1, FS_Intersection, FS_CardinalityType
  <2>7. RunningSeqs' <= RunningSeqs + Slots
    <3>1. Slots \in Nat
      BY <1>1, SlotsNat
    <3> QED
      BY <1>2, <2>1, <2>2, <2>4, <2>5, <2>6, <3>1
  <2>8. RunningSeqs <= MaxNumSeqs
    BY <1>1 DEF WithinLimits
  <2>9. RunningSeqs' \in Int
    BY <1>2, <2>1, <2>2, <2>4, <2>5, <2>6
  <2> QED
    BY <1>3, <1>4, <2>1, <2>7, <2>8, <2>9 DEF Slots, Greatest
<1>10. ASSUME NEW i \in DOMAIN inflight'
       PROVE  Cardinality(Pairs([r \in Batched(inflight'[i]) |-> 1 .. StepOf(r)'])) <= MaxTokens
  <2>1. CASE i \in 1 .. Len(inflight)
    <3>1. inflight'[i] = inflight[i]
      BY <1>2, <2>1
    <3>2. \A r \in Batched(inflight[i]) : StepOf(r)' = StepOf(r)
      BY <1>6, <2>1 DEF Running
    <3>3. [r \in Batched(inflight'[i]) |-> 1 .. StepOf(r)']
            = [r \in Batched(inflight[i]) |-> 1 .. StepOf(r)]
      BY <3>1, <3>2
    <3> QED
      BY <1>1, <2>1, <3>3 DEF WithinLimits
  <2>2. CASE i = Len(inflight) + 1
    <3>1. [r \in Batched(inflight'[i]) |-> 1 .. StepOf(r)'] = [r \in taken |-> 1 .. tokens[r]]
      BY <1>2, <1>6, <2>2
    <3> DEFINE s == Ordered(Candidates)
    <3>2. s \in Seq(Req) /\ reqs = Budgeted(s) /\ tokens = ScheduledTokens(reqs)
      BY <1>1, CandidatesProperties, OrderedProperties DEF Call
    <3>3. Distinct(reqs)
      BY <1>1 DEF Call, Whereabouts, OnePlace
    <3> HIDE DEF s
    <3>4. Cardinality(Pairs([r \in taken |-> 1 .. tokens[r]])) <= MaxTokens
      BY <1>1, <1>7, <3>2, <3>3, BudgetSum DEF taken
    <3> QED
      BY <3>1, <3>4
  <2>3. i \in 1 .. Len(inflight) \/ i = Len(inflight) + 1
    <3>1. DOMAIN inflight' = 1 .. Len(inflight')
      BY <1>2
    <3> QED
      BY <1>2, <1>5, <3>1
  <2> QED
    BY <2>1, <2>2, <2>3
<1> QED
  BY <1>3, <1>8, <1>9, <1>10 DEF WithinLimits

(* The limits are kept by a step that forms no batch, whatever it takes    *)
(* out of the pipeline.                                                    *)
LEMMA LimitsKept ==
  ASSUME Progress, Whereabouts', UNCHANGED sim,
         Len(inflight') <= Len(inflight),
         \A i \in DOMAIN inflight' : \E j \in DOMAIN inflight : inflight'[i].reqs = inflight[j].reqs,
         \A r \in Running' : StepOf(r)' = StepOf(r)
  PROVE  WithinLimits'
<1>1. Whereabouts /\ WithinLimits /\ TypeOK
  BY DEF Progress, Whereabouts
<1>2. UNCHANGED <<PpSize, MaxNumSeqs, MaxTokens>>
  BY DEF PpSize, MaxNumSeqs, MaxTokens
<1>3. MaxTokens \in Nat /\ PpSize \in Nat /\ MaxNumSeqs \in Nat
  BY <1>1, ParameterTypes DEF TypeOK
<1>4. Len(inflight') <= PpSize'
  <2>1. Len(inflight) \in Nat /\ Len(inflight') \in Nat
    BY <1>1 DEF Whereabouts, TypeOK
  <2> QED
    BY <1>1, <1>2, <1>3, <2>1 DEF WithinLimits
<1>5. RunningSeqs' <= MaxNumSeqs'
  <2>1. /\ RunningSeqs = Cardinality(InPipeline(inflight)) /\ RunningSeqs \in Nat
        /\ IsFiniteSet(InPipeline(inflight))
    BY <1>1, RunningIsPipeline
  <2>2. RunningSeqs' = Cardinality(InPipeline(inflight')) /\ RunningSeqs' \in Nat
    <3>1. RunningSeqs' = SeqsIn(inflight')
      BY DEF RunningSeqs, SeqsIn
    <3>2. BatchesApart(inflight') /\ inflight' \in Seq(BatchType)
      BY OnePlaceIsPlacement DEF QueuePlacement, Whereabouts, TypeOK
    <3> QED
      BY <3>1, <3>2, SeqsAreRequests
  <2>3. InPipeline(inflight') \in SUBSET InPipeline(inflight)
    BY DEF InPipeline, Batched
  <2>4. RunningSeqs' <= RunningSeqs
    BY <2>1, <2>2, <2>3, FS_Subset
  <2> QED
    BY <1>1, <1>2, <1>3, <2>1, <2>2, <2>4 DEF WithinLimits
<1>6. ASSUME NEW i \in DOMAIN inflight'
      PROVE  Cardinality(Pairs([r \in Batched(inflight'[i]) |-> 1 .. StepOf(r)'])) <= MaxTokens
  <2>1. PICK j \in DOMAIN inflight : inflight'[i].reqs = inflight[j].reqs
    OBVIOUS
  <2>2. Batched(inflight'[i]) = Batched(inflight[j])
    BY <2>1 DEF Batched
  <2>3. \A r \in Batched(inflight'[i]) : StepOf(r)' = StepOf(r)
    BY DEF Running
  <2>4. [r \in Batched(inflight'[i]) |-> 1 .. StepOf(r)']
          = [r \in Batched(inflight[j]) |-> 1 .. StepOf(r)]
    BY <2>2, <2>3
  <2> QED
    BY <1>1, <2>4 DEF WithinLimits
<1> QED
  BY <1>2, <1>4, <1>5, <1>6 DEF WithinLimits

(* The parts of Progress about single requests are kept by a step that     *)
(* computes nothing and finishes nobody.                                   *)
LEMMA NothingComputed ==
  ASSUME Progress, UNCHANGED <<sim, computed, finished>>, pending' \subseteq pending,
         PdType = "decode" => UNCHANGED pending,
         ~Chunked => UNCHANGED chunk
  PROVE  (NotStarted /\ WholePrompts /\ NotOver /\ FinishesExactly)'
<1>1. /\ \A r \in Req : UNCHANGED <<Input(r), Output(r), IsPrefill(r)>>
      /\ UNCHANGED <<PdType, Chunked>>
  BY DEF Input, Output, IsPrefill, PdType, Chunked
<1>2. NotStarted'
  BY DEF Progress, NotStarted
<1>3. WholePrompts'
  BY <1>1 DEF Progress, WholePrompts
<1>4. NotOver'
  <2> SUFFICES ASSUME NEW r \in Req \ finished
               PROVE  /\ PdType = "none" => computed[r] + 1 < Output(r)
                      /\ PdType = "prefill" => computed[r] < Input(r)
                      /\ PdType = "decode" =>
                           \/ r \in pending'
                           \/ computed[r] = Input(r)
                           \/ computed[r] > Input(r) /\ computed[r] + 1 < Output(r)
    BY <1>1 DEF NotOver
  <2> QED
    BY DEF Progress, NotOver
<1>5. FinishesExactly'
  <2>1. \A r \in finished' : r \in Req /\ r \in finished
    BY DEF Progress, Whereabouts, TypeOK
  <2> QED
    BY <1>1, <2>1 DEF Progress, FinishesExactly
<1> QED
  BY <1>2, <1>3, <1>4, <1>5

LEMMA ScheduleBaseProgress ==
  ASSUME Progress, Whereabouts', ScheduleBase
  PROVE  Progress'
<1>1. PICK reqs, gen, tokens, out : Call(reqs, gen, tokens, out)
  BY ScheduleBaseCases DEF Progress, Whereabouts
<1>2. UNCHANGED <<sim, pending, finished, computed>> /\ Len(inflight) < PpSize
  BY DEF ScheduleBase, CanSchedule
<1>3. TypeOK /\ Whereabouts /\ sim \in Simulations
  BY DEF Progress, Whereabouts
<1>4. /\ \A r \in Running : StepOf(r)' = StepOf(r) /\ After(r)' = After(r)
      /\ \A r \in Items(reqs) : /\ StepOf(r)' = tokens[r]
                                /\ IsPrefill(r) => tokens[r] <= Input(r) - computed[r]
  BY <1>1, <1>2, StepsDealt DEF Progress
<1>5. (NotStarted /\ WholePrompts /\ NotOver /\ FinishesExactly)'
  <2>1. ~Chunked => UNCHANGED chunk
    <3>1. chunk' = DealtChunks(tokens) /\ chunk \in [Req -> Nat]
      BY <1>1, <1>3 DEF Call, TypeOK
    <3> QED
      BY <3>1 DEF DealtChunks
  <2> QED
    BY <1>2, <2>1, NothingComputed
<1>6. \A r \in Req : UNCHANGED <<Input(r), IsPrefill(r)>>
  BY <1>2 DEF Input, IsPrefill
<1>7. Running \subseteq Req /\ Items(reqs) \subseteq Req
  BY <1>1, <1>3, RunningIsPipeline DEF Call, Items
<1>8. CASE UNCHANGED inflight
  <2>1. UNCHANGED Running
    BY <1>8 DEF Running
  <2>2. StepInPrompt'
    BY <1>4, <1>6, <1>7, <2>1 DEF StepInPrompt, Progress
  <2>3. WithinLimits'
    <3>1. Len(inflight') <= Len(inflight)
      BY <1>3, <1>8 DEF TypeOK
    <3> QED
      BY <1>2, <1>4, <1>8, <2>1, <3>1, LimitsKept
  <2> QED
    BY <1>2, <1>3, <1>5, <2>2, <2>3 DEF Progress
<1>9. ASSUME NEW n \in 1 .. Len(reqs), FormBatch(reqs, tokens, n, out)
      PROVE  Progress'
  <2> DEFINE taken == Items(Prefix(reqs, n))
  <2>1. taken \subseteq Items(reqs) /\ InPipeline(inflight') = InPipeline(inflight) \cup taken
    BY <1>1, <1>3, <1>9, BatchFormed
  <2> HIDE DEF taken
  <2>2. Running' = Running \cup taken
    BY <2>1 DEF Running, InPipeline, Batched
  <2>3. StepInPrompt'
    <3> SUFFICES ASSUME NEW r \in Running \cup taken, IsPrefill(r)'
                 PROVE  After(r)' <= Input(r)'
      BY <2>2 DEF StepInPrompt
    <3>1. r \in Req /\ IsPrefill(r) /\ UNCHANGED Input(r)
      BY <1>6, <1>7, <2>1
    <3>2. CASE r \in Running
      BY <1>4, <3>1, <3>2 DEF Progress, StepInPrompt
    <3>3. CASE r \in taken
      <4>1. r \in Items(reqs) /\ tokens[r] <= Input(r) - computed[r]
        BY <1>4, <2>1, <3>1, <3>3
      <4>2. After(r)' = computed[r] + tokens[r]
        BY <1>2, <1>4, <4>1 DEF After
      <4>3. tokens[r] \in Nat /\ computed[r] \in Nat /\ Input(r) \in Nat
        BY <1>1, <1>3, <3>1, <4>1, ParameterTypes DEF Call, TypeOK
      <4> QED
        BY <3>1, <4>1, <4>2, <4>3
    <3> QED
      BY <3>2, <3>3
  <2>4. WithinLimits'
    BY <1>1, <1>2, <1>9, FormBatchLimits
  <2> QED
    BY <1>2, <1>3, <1>5, <2>3, <2>4 DEF Progress
<1> QED
  BY <1>1, <1>8, <1>9 DEF Call, GiveUp

LEMMA OutputAfterInput ==
  ASSUME sim \in Simulations, NEW r \in Req
  PROVE  /\ Input(r) \in Nat \ {0} /\ Output(r) \in Nat /\ Output(r) > Input(r)
         /\ PdType \in {"none", "prefill", "decode"}
<1>1. sim \in SimulationType /\ sim.work[r].output > sim.work[r].input
  BY SimulationAssumption
<1>2. PdType \in {"none", "prefill", "decode"}
  BY <1>1 DEF SimulationType, PdType
<1> QED
  BY <1>1, <1>2, ParameterTypes DEF Input, Output

(* The step of a running request: where it ends, and that it leaves the    *)
(* instance exactly when FinishesExactly says.                             *)
LEMMA StepEnds ==
  ASSUME Progress, NEW r \in Running
  PROVE  /\ r \in Req /\ r \notin finished /\ r \notin pending
         /\ After(r) \in Nat /\ After(r) > computed[r]
         /\ ~Chunked => After(r) >= Input(r)
         /\ ~Leaves(r) =>
              /\ PdType = "none" => After(r) + 1 < Output(r)
              /\ PdType = "prefill" => After(r) < Input(r)
              /\ PdType = "decode" => After(r) > Input(r) /\ After(r) + 1 < Output(r)
         /\ Leaves(r) =>
              After(r) = CASE PdType = "none"    -> Output(r) - 1
                           [] PdType = "prefill" -> Input(r)
                           [] PdType = "decode"  -> Greatest(Output(r) - 1, Input(r) + 1)
<1>1. Whereabouts /\ TypeOK /\ sim \in Simulations
  BY DEF Progress, Whereabouts
<1>2. r \in Req /\ r \notin finished /\ r \notin pending
  BY <1>1, RunningIsPipeline
<1>3. /\ Input(r) \in Nat \ {0} /\ Output(r) \in Nat /\ Output(r) > Input(r)
      /\ PdType \in {"none", "prefill", "decode"}
      /\ computed[r] \in Nat /\ chunk[r] \in Nat
  BY <1>1, <1>2, OutputAfterInput DEF TypeOK
<1>4. StepOf(r) \in Nat \ {0} /\ After(r) = computed[r] + StepOf(r)
  BY <1>1, <1>2, AfterNat DEF After
<1>5. IsPrefill(r) => After(r) <= Input(r)
  BY DEF Progress, StepInPrompt
<1>6. ~IsPrefill(r) => After(r) = computed[r] + 1 /\ computed[r] >= Input(r)
  BY <1>3, <1>4 DEF StepOf, IsPrefill
<1>7. ~Chunked => After(r) >= Input(r)
  <2>1. CASE ~IsPrefill(r)
    BY <1>3, <1>6, <2>1
  <2>2. CASE ~Chunked /\ IsPrefill(r)
    BY <1>2, <1>3, <1>4, <2>2 DEF Progress, WholePrompts, StepOf
  <2> QED
    BY <2>1, <2>2
<1>8. /\ PdType = "none" => computed[r] + 1 < Output(r)
      /\ PdType = "prefill" => computed[r] < Input(r)
      /\ PdType = "decode" => \/ computed[r] = Input(r)
                              \/ computed[r] > Input(r) /\ computed[r] + 1 < Output(r)
  BY <1>2 DEF Progress, NotOver
<1> DEFINE Ends ==
             /\ ~Leaves(r) =>
                  /\ PdType = "none" => After(r) + 1 < Output(r)
                  /\ PdType = "prefill" => After(r) < Input(r)
                  /\ PdType = "decode" => After(r) > Input(r) /\ After(r) + 1 < Output(r)
             /\ Leaves(r) =>
                  After(r) = CASE PdType = "none"    -> Output(r) - 1
                               [] PdType = "prefill" -> Input(r)
                               [] PdType = "decode"  -> Greatest(Output(r) - 1, Input(r) + 1)
<1>9. PdType = "none" => Ends
  <2> SUFFICES ASSUME PdType = "none" PROVE Ends
    OBVIOUS
  <2>1. Leaves(r) <=> Output(r) <= After(r) + 1
    BY DEF Leaves
  <2>2. After(r) \in Nat /\ After(r) < Output(r)
    BY <1>3, <1>4, <1>5, <1>6, <1>8
  <2> QED
    BY <1>3, <2>1, <2>2
<1>10. PdType = "prefill" => Ends
  <2> SUFFICES ASSUME PdType = "prefill" PROVE Ends
    OBVIOUS
  <2>1. IsPrefill(r) /\ After(r) <= Input(r) /\ After(r) \in Nat
    BY <1>3, <1>4, <1>5, <1>8 DEF IsPrefill
  <2>2. Leaves(r) <=> After(r) >= Input(r) \/ Output(r) <= After(r) + 1
    BY <2>1 DEF Leaves
  <2> QED
    BY <1>3, <2>1, <2>2
<1>11. PdType = "decode" => Ends
  <2> SUFFICES ASSUME PdType = "decode" PROVE Ends
    OBVIOUS
  <2>1. ~IsPrefill(r)
    BY <1>3, <1>8 DEF IsPrefill
  <2>2. Leaves(r) <=> Output(r) <= After(r) + 1
    BY DEF Leaves
  <2>3. After(r) = computed[r] + 1
    BY <1>6, <2>1
  <2> QED
    BY <1>3, <1>8, <2>2, <2>3 DEF Greatest
<1>12. After(r) \in Nat /\ After(r) > computed[r]
  BY <1>3, <1>4
<1> QED
  BY <1>2, <1>3, <1>7, <1>9, <1>10, <1>11, <1>12

(* The requests that are left in the pipeline when a batch is done. *)
LEMMA BatchDone ==
  ASSUME Whereabouts, NEW s \in Npus, NEW i \in DOMAIN inflight, AddDone(s, i)
  PROVE  /\ Batched(inflight[i]) \subseteq Running
         /\ Running' = Running \ Batched(inflight[i])
         /\ Len(inflight') = Len(inflight) - 1
         /\ \A j \in DOMAIN inflight' :
              \E k \in DOMAIN inflight : inflight'[j] = inflight[k] /\ k # i
         /\ Queued' = Queued \cup {r \in Batched(inflight[i]) : ~Leaves(r)}
<1> DEFINE batch == Batched(inflight[i])
           leaves == {r \in batch : Leaves(r)}
           pool == Keep(inflight[i].reqs, Req \ leaves)
<1>1. inflight \in Seq(BatchType) /\ i \in 1 .. Len(inflight) /\ request \in Seq(Req)
  BY DEF Whereabouts, TypeOK
<1>2. inflight' = SubSeq(inflight, 1, i - 1) \o SubSeq(inflight, i + 1, Len(inflight))
  BY DEF AddDone
<1>3. Running = InPipeline(inflight) /\ Running' = InPipeline(inflight') /\ BatchesApart(inflight)
  BY RunningIsPipeline DEF Running, InPipeline, Batched
<1>4. InPipeline(inflight') = InPipeline(inflight) \ batch
  BY <1>1, <1>2, <1>3, PipelineRemoved DEF Batched
<1>5. batch \subseteq Running
  BY <1>1 DEF Running
<1>6. /\ inflight' \in Seq(BatchType) /\ Len(inflight') = Len(inflight) - 1
      /\ \A j \in 1 .. Len(inflight') :
           inflight'[j] = IF j < i THEN inflight[j] ELSE inflight[j + 1]
  BY <1>1, <1>2, RemovedAt
<1> HIDE DEF leaves, pool
<1>7. \A j \in DOMAIN inflight' : \E k \in DOMAIN inflight : inflight'[j] = inflight[k] /\ k # i
  <2> SUFFICES ASSUME NEW j \in 1 .. Len(inflight')
               PROVE  \E k \in 1 .. Len(inflight) : inflight'[j] = inflight[k] /\ k # i
    <3>1. DOMAIN inflight' = 1 .. Len(inflight') /\ DOMAIN inflight = 1 .. Len(inflight)
      BY <1>1, <1>6
    <3> QED
      BY <3>1
  <2>1. CASE j < i
    <3>1. j \in 1 .. Len(inflight) /\ j # i /\ inflight'[j] = inflight[j]
      BY <1>1, <1>6, <2>1
    <3> QED
      BY <3>1
  <2>2. CASE ~(j < i)
    <3>1. j + 1 \in 1 .. Len(inflight) /\ j + 1 # i /\ inflight'[j] = inflight[j + 1]
      BY <1>1, <1>6, <2>2
    <3> QED
      BY <3>1
  <2> QED
    BY <2>1, <2>2
<1>8. Queued' = Queued \cup {r \in batch : ~Leaves(r)}
  <2> USE DEF leaves, pool
  <2>1. inflight[i].reqs \in Seq(Req)
    <3>1. inflight[i] \in BatchType
      BY <1>1, ElementOfSeq
    <3> QED
      BY <3>1 DEF BatchType
  <2>2. pool \in Seq(Req) /\ Items(pool) = Items(inflight[i].reqs) \cap (Req \ leaves)
    BY <2>1, KeepProperties
  <2>3. Items(pool) = {r \in batch : ~Leaves(r)}
    <3>1. batch = Items(inflight[i].reqs) /\ batch \subseteq Req
      BY <2>1 DEF Batched, Items
    <3> HIDE DEF batch, pool
    <3> QED
      BY <2>2, <3>1
  <2>4. Requeue(pool)
    BY DEF AddDone
  <2>5. Items(request') = Items(pool) \cup Queued
    BY <1>1, <2>2, <2>4, RequeueProperties
  <2> QED
    BY <2>3, <2>5 DEF Queued
<1> QED
  BY <1>3, <1>4, <1>5, <1>6, <1>7, <1>8

LEMMA AddDoneProgress ==
  ASSUME Progress, Whereabouts', NEW s \in Npus, NEW i \in DOMAIN inflight, AddDone(s, i)
  PROVE  Progress'
<1> DEFINE batch == Batched(inflight[i])
<1>1. Whereabouts /\ TypeOK /\ sim \in Simulations
  BY DEF Progress, Whereabouts
<1>2. /\ UNCHANGED <<sim, pending>>
      /\ computed' = [r \in Req |-> IF r \in batch THEN After(r) ELSE computed[r]]
      /\ chunk' = [r \in Req |-> IF r \in batch \cap Prefills THEN 0 ELSE chunk[r]]
      /\ finished' = finished \cup {r \in batch : Leaves(r)}
  BY DEF AddDone
<1>3. /\ batch \subseteq Running
      /\ Running' = Running \ batch
      /\ Len(inflight') = Len(inflight) - 1
      /\ \A j \in DOMAIN inflight' :
           \E k \in DOMAIN inflight : inflight'[j].reqs = inflight[k].reqs
  BY <1>1, BatchDone
<1>4. /\ \A r \in Req : UNCHANGED <<Input(r), Output(r)>>
      /\ UNCHANGED <<PdType, Chunked>>
  BY <1>2 DEF Input, Output, PdType, Chunked
<1>5. Running \subseteq Req /\ Running \cap (pending \cup finished) = {}
  BY <1>1, RunningIsPipeline
<1> HIDE DEF batch
<1>6. \A r \in Req \ batch : UNCHANGED <<computed[r], chunk[r], IsPrefill(r), StepOf(r), After(r)>>
  BY <1>2, <1>4 DEF IsPrefill, StepOf, After
<1>7. NotStarted'
  BY <1>1, <1>2, <1>3, <1>5, <1>6 DEF Progress, NotStarted, TypeOK
<1>8. WholePrompts'
  <2> SUFFICES ASSUME ~Chunked, NEW r \in Req
               PROVE  chunk'[r] = 0 /\ (IsPrefill(r)' => computed'[r] = 0)
    BY <1>4 DEF WholePrompts
  <2>1. CASE r \in batch
    <3>1. chunk[r] = 0
      BY DEF Progress, WholePrompts
    <3>2. After(r) >= Input(r) /\ After(r) \in Nat /\ Input(r) \in Nat
      BY <1>1, <1>3, <2>1, StepEnds, OutputAfterInput
    <3> QED
      BY <1>2, <1>4, <2>1, <3>1, <3>2 DEF IsPrefill
  <2>2. CASE r \notin batch
    BY <1>6, <2>2 DEF Progress, WholePrompts
  <2> QED
    BY <2>1, <2>2
<1>9. StepInPrompt'
  BY <1>3, <1>4, <1>5, <1>6 DEF Progress, StepInPrompt
<1>10. NotOver'
  <2> SUFFICES ASSUME NEW r \in Req \ finished'
               PROVE  /\ PdType = "none" => computed'[r] + 1 < Output(r)
                      /\ PdType = "prefill" => computed'[r] < Input(r)
                      /\ PdType = "decode" =>
                           \/ r \in pending'
                           \/ computed'[r] = Input(r)
                           \/ computed'[r] > Input(r) /\ computed'[r] + 1 < Output(r)
    BY <1>4 DEF NotOver
  <2>1. CASE r \in batch
    <3>1. r \in Running /\ ~Leaves(r) /\ computed'[r] = After(r)
      BY <1>2, <1>3, <2>1
    <3> QED
      BY <3>1, StepEnds
  <2>2. CASE r \notin batch
    BY <1>2, <1>6, <2>2 DEF Progress, NotOver
  <2> QED
    BY <2>1, <2>2
<1>11. FinishesExactly'
  <2> SUFFICES ASSUME NEW r \in finished'
               PROVE  computed'[r] = CASE PdType = "none"    -> Output(r) - 1
                                       [] PdType = "prefill" -> Input(r)
                                       [] PdType = "decode"  -> Greatest(Output(r) - 1, Input(r) + 1)
    <3>1. finished' \subseteq Req
      BY DEF Whereabouts, TypeOK
    <3> QED
      BY <1>4, <3>1 DEF FinishesExactly
  <2>1. CASE r \in batch
    <3>1. r \in Running /\ Leaves(r) /\ computed'[r] = After(r)
      BY <1>2, <1>3, <1>5, <2>1
    <3> QED
      BY <3>1, StepEnds
  <2>2. CASE r \notin batch
    <3>1. r \in finished /\ r \in Req
      BY <1>1, <1>2, <2>2 DEF TypeOK
    <3>2. computed'[r] = computed[r]
      BY <1>6, <2>2, <3>1
    <3> QED
      BY <3>1, <3>2 DEF Progress, FinishesExactly
  <2> QED
    BY <2>1, <2>2
<1>12. WithinLimits'
  <2>1. Len(inflight') <= Len(inflight)
    BY <1>1, <1>3 DEF TypeOK
  <2>2. \A r \in Running' : StepOf(r)' = StepOf(r)
    BY <1>3, <1>5, <1>6
  <2> QED
    BY <1>2, <1>3, <2>1, <2>2, LimitsKept
<1> QED
  BY <1>1, <1>2, <1>7, <1>8, <1>9, <1>10, <1>11, <1>12 DEF Progress

(* A request that arrives changes only its own tokens. *)
LEMMA ArrivalProgress ==
  ASSUME Progress, Whereabouts', NEW r \in Req, AddRequest(r) \/ AddDecode(r)
  PROVE  Progress'
<1>1. Whereabouts /\ TypeOK /\ sim \in Simulations
  BY DEF Progress, Whereabouts
<1>2. /\ UNCHANGED <<sim, inflight, finished, chunk>>
      /\ r \in pending /\ pending' = pending \ {r}
      /\ \A q \in Req \ {r} : computed'[q] = computed[q]
      /\ AddRequest(r) => PdType # "decode" /\ UNCHANGED computed
      /\ AddDecode(r) => PdType = "decode" /\ computed'[r] = Input(r)
  BY <1>1 DEF AddRequest, AddDecode, TypeOK
<1>3. Running \subseteq Req /\ r \notin Running /\ UNCHANGED Running
  BY <1>1, <1>2, RunningIsPipeline DEF Running
<1>4. /\ \A q \in Req : UNCHANGED <<Input(q), Output(q)>>
      /\ UNCHANGED <<PdType, Chunked>>
  BY <1>2 DEF Input, Output, PdType, Chunked
<1>5. \A q \in Req \ {r} : UNCHANGED <<IsPrefill(q), StepOf(q), After(q)>>
  BY <1>2, <1>4 DEF IsPrefill, StepOf, After
<1>6. StepInPrompt'
  BY <1>3, <1>4, <1>5 DEF Progress, StepInPrompt
<1>7. WithinLimits'
  <2>1. Len(inflight') <= Len(inflight)
    BY <1>1, <1>2 DEF TypeOK
  <2>2. \A q \in Running' : StepOf(q)' = StepOf(q)
    BY <1>3, <1>5
  <2> QED
    BY <1>2, <2>1, <2>2, LimitsKept
<1>8. (NotStarted /\ WholePrompts /\ NotOver /\ FinishesExactly)'
  <2>1. CASE AddRequest(r)
    BY <1>2, <2>1, NothingComputed
  <2>2. CASE AddDecode(r)
    <3>1. NotStarted'
      BY <1>1, <1>2 DEF Progress, NotStarted, TypeOK
    <3>2. WholePrompts'
      <4>1. Input(r) \in Nat
        BY <1>1, OutputAfterInput
      <4>2. ~IsPrefill(r)'
        BY <1>2, <1>4, <2>2, <4>1 DEF IsPrefill
      <4> QED
        BY <1>2, <1>4, <1>5, <4>2 DEF Progress, WholePrompts
    <3>3. NotOver'
      BY <1>2, <1>4, <2>2 DEF Progress, NotOver
    <3>4. FinishesExactly'
      <4>1. \A q \in finished : q \in Req \ {r}
        <5>1. QueuePlacement(Req, pending, request, inflight, finished)
          BY <1>1, OnePlaceIsPlacement DEF Whereabouts
        <5> QED
          BY <1>2, <5>1 DEF QueuePlacement
      <4> QED
        BY <1>2, <1>4, <4>1 DEF Progress, FinishesExactly
    <3> QED
      BY <3>1, <3>2, <3>3, <3>4
  <2> QED
    BY <2>1, <2>2
<1> QED
  BY <1>1, <1>2, <1>6, <1>7, <1>8 DEF Progress

(* A step that only marks a stage, moves the clock or does nothing. *)
LEMMA NobodyProgresses ==
  ASSUME Progress, Whereabouts',
         UNCHANGED <<sim, pending, request, finished, computed, chunk>>,
         DOMAIN inflight' = DOMAIN inflight,
         \A i \in DOMAIN inflight : inflight'[i].reqs = inflight[i].reqs
  PROVE  Progress'
<1>1. Whereabouts /\ TypeOK /\ sim \in Simulations
  BY DEF Progress, Whereabouts
<1>2. UNCHANGED Running /\ Running \subseteq Req
  BY <1>1, RunningIsPipeline DEF Running, Batched
<1>3. \A r \in Req : UNCHANGED <<Input(r), IsPrefill(r), StepOf(r), After(r)>>
  BY DEF Input, IsPrefill, StepOf, After
<1>4. (NotStarted /\ WholePrompts /\ NotOver /\ FinishesExactly)'
  BY NothingComputed
<1>5. StepInPrompt'
  BY <1>2, <1>3 DEF Progress, StepInPrompt
<1>6. WithinLimits'
  <2>1. Len(inflight') <= Len(inflight)
    <3>1. inflight \in Seq(BatchType) /\ inflight' \in Seq(BatchType)
      BY DEF Progress, Whereabouts, TypeOK
    <3> QED
      BY <3>1
  <2>2. \A r \in Running' : StepOf(r)' = StepOf(r)
    BY <1>2, <1>3
  <2> QED
    BY <2>1, <2>2, LimitsKept
<1> QED
  BY <1>1, <1>4, <1>5, <1>6 DEF Progress

LEMMA InitProgress ==
  ASSUME Init, Whereabouts
  PROVE  Progress
<1>1. sim \in Simulations /\ TypeOK
  BY DEF Init, Whereabouts
<1>2. \A r \in Req : computed[r] = 0 /\ chunk[r] = 0
  BY DEF Init
<1>3. NotStarted /\ WholePrompts
  BY <1>2 DEF Init, NotStarted, WholePrompts
<1>4. Running = {} /\ InPipeline(inflight) = {} /\ Len(inflight) = 0 /\ DOMAIN inflight = {}
  BY DEF Init, Running, InPipeline
<1>5. StepInPrompt /\ FinishesExactly
  BY <1>4 DEF Init, StepInPrompt, FinishesExactly
<1>6. NotOver
  <2> SUFFICES ASSUME NEW r \in Req
               PROVE  /\ PdType = "none" => computed[r] + 1 < Output(r)
                      /\ PdType = "prefill" => computed[r] < Input(r)
                      /\ PdType = "decode" => r \in pending
    BY DEF NotOver
  <2>1. Input(r) \in Nat \ {0} /\ Output(r) \in Nat /\ Output(r) > Input(r)
    BY <1>1, OutputAfterInput
  <2> QED
    BY <1>2, <2>1 DEF Init
<1>7. WithinLimits
  <2>1. PpSize \in Nat /\ MaxNumSeqs \in Nat
    BY <1>1, ParameterTypes DEF TypeOK
  <2>2. RunningSeqs = 0
    BY <1>4, RunningIsPipeline, FS_EmptySet
  <2> QED
    BY <1>4, <2>1, <2>2 DEF WithinLimits
<1> QED
  BY <1>1, <1>3, <1>5, <1>6, <1>7 DEF Progress

LEMMA ProgressInductive == Spec => []Progress
<1>1. Init /\ Whereabouts => Progress
  BY InitProgress
<1>2. Whereabouts' /\ Progress /\ [Next]_vars => Progress'
  <2> SUFFICES ASSUME Whereabouts', Progress, [Next]_vars
               PROVE  Progress'
    OBVIOUS
  <2>1. CASE Tick \/ Stopped \/ UNCHANGED vars
    BY <2>1, NobodyProgresses DEF Tick, Stopped, vars
  <2>2. ASSUME NEW r \in Req, AddRequest(r) \/ AddDecode(r)
        PROVE  Progress'
    BY <2>2, ArrivalProgress
  <2>3. CASE ScheduleBase
    BY <2>3, ScheduleBaseProgress
  <2>4. ASSUME NEW s \in Npus, ScheduleExisting(s)
        PROVE  Progress'
    <3>1. /\ DOMAIN inflight' = DOMAIN inflight
          /\ \A i \in DOMAIN inflight : inflight'[i].reqs = inflight[i].reqs
      BY <2>4 DEF ScheduleExisting, Progress, Whereabouts, TypeOK, BatchType
    <3> QED
      BY <2>4, <3>1, NobodyProgresses DEF ScheduleExisting
  <2>5. ASSUME NEW s \in Npus, NEW i \in DOMAIN inflight, Report(s, i)
        PROVE  Progress'
    <3>1. /\ DOMAIN inflight' = DOMAIN inflight
          /\ \A j \in DOMAIN inflight : inflight'[j].reqs = inflight[j].reqs
      BY <2>5 DEF Report, Progress, Whereabouts, TypeOK, BatchType
    <3> QED
      BY <2>5, <3>1, NobodyProgresses DEF Report
  <2>6. ASSUME NEW s \in Npus, NEW i \in DOMAIN inflight, AddDone(s, i)
        PROVE  Progress'
    BY <2>6, AddDoneProgress
  <2> QED
    BY <2>1, <2>2, <2>3, <2>4, <2>5, <2>6 DEF Next
<1> QED
  BY <1>1, <1>2, WhereaboutsInductive, PTL DEF Spec

(* The batches in the pipeline never exceed the token budget, the sequence *)
(* cap counted over all of them, nor the depth of the pipeline.            *)
THEOREM WithinLimitsCorrect == Spec => []WithinLimits
<1>1. Progress => WithinLimits
  BY DEF Progress
<1> QED
  BY <1>1, ProgressInductive, PTL

(* A request finishes with exactly the tokens it has to compute: chunks,   *)
(* preemptions and hand-overs neither skip a token nor repeat one.         *)
THEOREM FinishesExactlyCorrect == Spec => []FinishesExactly
<1>1. Progress => FinishesExactly
  BY DEF Progress
<1> QED
  BY <1>1, ProgressInductive, PTL

-----------------------------------------------------------------------------
(* The KV blocks *)

(* The blocks of n tokens: none for none, and never fewer for more. *)
LEMMA BlocksMonotonic ==
  ASSUME sim \in SimulationType, NEW m \in Nat, NEW n \in Nat, m <= n
  PROVE  /\ Blocks(m) \in Nat /\ Blocks(n) \in Nat
         /\ Blocks(m) <= Blocks(n)
         /\ Blocks(0) = 0
<1> DEFINE b == BlockSize
<1>1. b \in Nat \ {0}
  BY ParameterTypes
<1>2. Blocks(m) = (m + b - 1) \div b /\ Blocks(n) = (n + b - 1) \div b
  BY DEF Blocks
<1>7. Blocks(0) = (b - 1) \div b
  <2>1. 0 + b - 1 = b - 1
    BY <1>1
  <2> QED
    BY <2>1 DEF Blocks
<1> HIDE DEF b
<1>3. \A a \in Nat : /\ a \div b \in Nat
                     /\ b * (a \div b) <= a
                     /\ a < b * (a \div b) + b
  BY <1>1
<1>4. ASSUME NEW x \in Nat, NEW y \in Nat, x <= y
      PROVE  x \div b <= y \div b
  <2> DEFINE p == x \div b
             q == y \div b
  <2>1. p \in Nat /\ q \in Nat /\ b * p <= x /\ y < b * q + b
    BY <1>3
  <2> HIDE DEF p, q
  <2>2. CASE q < p
    <3>1. q + 1 <= p
      BY <2>1, <2>2
    <3>2. b * (q + 1) <= b * p
      BY <1>1, <2>1, <3>1
    <3>3. b * (q + 1) = b * q + b
      BY <1>1, <2>1
    <3>4. b * p \in Nat /\ b * q \in Nat
      BY <1>1, <2>1
    <3> QED
      BY <1>1, <1>4, <2>1, <3>2, <3>3, <3>4
  <2> QED
    BY <2>1, <2>2 DEF p, q
<1>5. (b - 1) \div b = 0
  BY <1>1
<1>6. m + b - 1 \in Nat /\ n + b - 1 \in Nat /\ m + b - 1 <= n + b - 1
  BY <1>1
<1> QED
  BY <1>2, <1>3, <1>4, <1>5, <1>6, <1>7

(* The KV of disjoint groups of requests adds up. *)
LEMMA HeldSum ==
  ASSUME sim \in SimulationType, NEW S \in SUBSET Req, NEW T \in SUBSET Req, S \cap T = {},
         NEW c \in [Req -> Int]
  PROVE  Cardinality(HeldAt(S \cup T, c)) = Cardinality(HeldAt(S, c)) + Cardinality(HeldAt(T, c))
<1> DEFINE f == [r \in S \cup T |-> 1 .. Blocks(c[r])]
<1>1. IsFiniteSet(DOMAIN f)
  BY ReqAssumption, FS_Subset, S \cup T \in SUBSET Req
<1>2. \A r \in DOMAIN f : IsFiniteSet(f[r])
  <2>1. \A r \in Req : Blocks(c[r]) \in Int
    BY BlocksInt
  <2> QED
    BY <2>1, FS_Interval
<1>3. /\ [r \in S |-> f[r]] = [r \in S |-> 1 .. Blocks(c[r])]
      /\ [r \in T |-> f[r]] = [r \in T |-> 1 .. Blocks(c[r])]
  OBVIOUS
<1>4. DOMAIN f = S \cup T
  OBVIOUS
<1>5. HeldAt(S \cup T, c) = Pairs(f)
  BY DEF HeldAt
<1> HIDE DEF f
<1>6. Cardinality(Pairs(f)) = Cardinality(Pairs([r \in S |-> f[r]]))
                                + Cardinality(Pairs([r \in T |-> f[r]]))
  BY <1>1, <1>2, <1>4, PairsSplit
<1> QED
  BY <1>3, <1>5, <1>6 DEF HeldAt

(* The same, when the groups have not computed alike. *)
LEMMA HeldApart ==
  ASSUME sim \in SimulationType, NEW S \in SUBSET Req, NEW T \in SUBSET Req, S \cap T = {},
         NEW c \in [Req -> Int], NEW d \in [Req -> Int]
  PROVE  Cardinality(HeldAt(S, c) \cup HeldAt(T, d))
           = Cardinality(HeldAt(S, c)) + Cardinality(HeldAt(T, d))
<1>1. /\ IsFiniteSet(HeldAt(S, c)) /\ Cardinality(HeldAt(S, c)) \in Nat
      /\ IsFiniteSet(HeldAt(T, d)) /\ Cardinality(HeldAt(T, d)) \in Nat
  BY HeldFinite
<1>2. HeldAt(S, c) \cap HeldAt(T, d) = {}
  BY DEF HeldAt, Pairs
<1>3. Cardinality(HeldAt(S, c) \cup HeldAt(T, d))
        = Cardinality(HeldAt(S, c)) + Cardinality(HeldAt(T, d))
            - Cardinality(HeldAt(S, c) \cap HeldAt(T, d))
  BY <1>1, FS_Union
<1>4. Cardinality(HeldAt(S, c) \cap HeldAt(T, d)) = 0
  BY <1>2, FS_EmptySet
<1> QED
  BY <1>1, <1>3, <1>4

(* Only what the requests of S have computed matters for their KV. *)
LEMMA HeldSame ==
  ASSUME NEW S, NEW c, NEW d, \A r \in S : c[r] = d[r]
  PROVE  HeldAt(S, c) = HeldAt(S, d)
<1>1. [r \in S |-> 1 .. Blocks(c[r])] = [r \in S |-> 1 .. Blocks(d[r])]
  OBVIOUS
<1> QED
  BY <1>1 DEF HeldAt

(* What a step allocates on top of what its requests hold is what they     *)
(* will hold after it.                                                     *)
LEMMA GrownOnHeld ==
  ASSUME TypeOK, NEW S \in SUBSET Req, NEW tokens, \A r \in S : tokens[r] \in Nat,
         NEW d \in [Req -> Int], \A r \in S : d[r] = computed[r] + tokens[r]
  PROVE  Cardinality(HeldAt(S, d)) = Cardinality(Held(S)) + Cardinality(Grown(S, tokens))
<1> DEFINE G == Grown(S, tokens)
<1>1. computed \in [Req -> Int] /\ sim \in SimulationType
  BY DEF TypeOK
<1>2. /\ IsFiniteSet(Held(S)) /\ Cardinality(Held(S)) \in Nat
      /\ IsFiniteSet(G) /\ Cardinality(G) \in Nat
  <2>1. \A r \in S : tokens[r] \in Int
    OBVIOUS
  <2> QED
    BY <2>1, MemoryInt, GrownFinite DEF TypeOK
<1>3. ASSUME NEW r \in S
      PROVE  /\ Blocks(computed[r]) \in Nat
             /\ Blocks(computed[r] + tokens[r]) \in Nat
             /\ Blocks(computed[r]) <= Blocks(computed[r] + tokens[r])
  <2>1. /\ computed[r] \in Nat /\ computed[r] + tokens[r] \in Nat
        /\ computed[r] <= computed[r] + tokens[r]
    BY DEF TypeOK
  <2> QED
    BY <1>1, <2>1, BlocksMonotonic
<1>4. \A r \in S : /\ 1 .. Blocks(d[r])
                        = 1 .. Blocks(computed[r])
                            \cup Blocks(computed[r]) + 1 .. Blocks(computed[r] + tokens[r])
                   /\ (1 .. Blocks(computed[r]))
                        \cap (Blocks(computed[r]) + 1 .. Blocks(computed[r] + tokens[r])) = {}
  BY <1>3
<1>5. HeldAt(S, d) = Held(S) \cup G /\ Held(S) \cap G = {}
  BY <1>4 DEF HeldAt, Held, Grown, Pairs
<1> HIDE DEF G
<1>6. Cardinality(Held(S) \cup G) = Cardinality(Held(S)) + Cardinality(G) - Cardinality(Held(S) \cap G)
  BY <1>2, FS_Union
<1>7. Cardinality(Held(S) \cap G) = 0
  BY <1>5, FS_EmptySet
<1> QED
  BY <1>2, <1>5, <1>6, <1>7 DEF G

(* The queued requests whose KV is on the NPU, those whose KV is in host   *)
(* memory, and the tokens the requests will have after their step.         *)
OnNpu   == {r \in Queued : ~evict[r]}
OnHost  == {r \in Queued : evict[r]}
Planned == [r \in Req |-> After(r)]

(* What the counters have to be, as sums. *)
LEMMA Balance ==
  ASSUME Whereabouts
  PROVE  /\ Cardinality(ResidentBlocks)
              = Cardinality(Held(OnNpu)) + Cardinality(HeldAt(Running, Planned))
         /\ Cardinality(SpilledBlocks) = Cardinality(Held(OnHost))
         /\ Cardinality(Held(OnNpu)) \in Nat
         /\ Cardinality(HeldAt(Running, Planned)) \in Nat
         /\ Cardinality(Held(OnHost)) \in Nat
         /\ Planned \in [Req -> Int]
<1>1. TypeOK /\ sim \in SimulationType /\ computed \in [Req -> Int]
  BY DEF Whereabouts, TypeOK
<1>2. Planned \in [Req -> Int]
  BY <1>1, AfterNat DEF Planned
<1>3. OnNpu \in SUBSET Req /\ OnHost \in SUBSET Req
  BY <1>1 DEF TypeOK, OnNpu, OnHost, Queued, Items
<1>4. Running \in SUBSET Req /\ Running \cap OnNpu = {}
  BY RunningIsPipeline DEF OnNpu
<1>5. Cardinality(Held(OnNpu) \cup HeldAt(Running, Planned))
        = Cardinality(Held(OnNpu)) + Cardinality(HeldAt(Running, Planned))
  BY <1>1, <1>2, <1>3, <1>4, HeldApart DEF Held
<1>6. ResidentBlocks = Held(OnNpu) \cup HeldAt(Running, Planned) /\ SpilledBlocks = Held(OnHost)
  BY DEF ResidentBlocks, SpilledBlocks, OnNpu, OnHost, Planned, Held
<1> QED
  BY <1>1, <1>2, <1>3, <1>4, <1>5, <1>6, HeldFinite, MemoryInt

LEMMA BalanceAfter ==
  ASSUME Whereabouts', UNCHANGED sim
  PROVE  /\ Cardinality(ResidentBlocks)'
              = Cardinality(HeldAt(OnNpu', computed')) + Cardinality(HeldAt(Running', Planned'))
         /\ Cardinality(SpilledBlocks)' = Cardinality(HeldAt(OnHost', computed'))
         /\ Cardinality(HeldAt(OnNpu', computed')) \in Nat
         /\ Cardinality(HeldAt(Running', Planned')) \in Nat
         /\ Cardinality(HeldAt(OnHost', computed')) \in Nat
         /\ Planned' \in [Req -> Int]
<1>1. TypeOK' /\ sim \in SimulationType /\ computed' \in [Req -> Int]
  BY DEF Whereabouts, TypeOK
<1>2. Planned' \in [Req -> Int]
  <2>1. ASSUME NEW r \in Req PROVE After(r)' \in Nat
    <3>1. Input(r) \in Nat \ {0} /\ computed'[r] \in Nat /\ chunk'[r] \in Nat /\ Input(r)' = Input(r)
      BY <1>1, ParameterTypes DEF TypeOK, Input
    <3> QED
      BY <3>1 DEF After, StepOf, IsPrefill
  <2> QED
    BY <2>1 DEF Planned
<1>3. OnNpu' \in SUBSET Req /\ OnHost' \in SUBSET Req
  BY <1>1 DEF TypeOK, OnNpu, OnHost, Queued, Items
<1>4. Running' \in SUBSET Req /\ Running' \cap OnNpu' = {}
  <2>1. QueuePlacement(Req, pending', request', inflight', finished')
    BY OnePlaceIsPlacement DEF Whereabouts
  <2>2. Running' = InPipeline(inflight')
    BY DEF Running, InPipeline, Batched
  <2> QED
    BY <2>1, <2>2 DEF QueuePlacement, OnNpu, Queued
<1>5. Cardinality(HeldAt(OnNpu', computed') \cup HeldAt(Running', Planned'))
        = Cardinality(HeldAt(OnNpu', computed')) + Cardinality(HeldAt(Running', Planned'))
  BY <1>1, <1>2, <1>3, <1>4, HeldApart
<1>6. /\ ResidentBlocks' = HeldAt(OnNpu', computed') \cup HeldAt(Running', Planned')
      /\ SpilledBlocks' = HeldAt(OnHost', computed')
  BY DEF ResidentBlocks, SpilledBlocks, OnNpu, OnHost, Planned, Held, HeldAt, Blocks, BlockSize
<1> QED
  BY <1>1, <1>2, <1>3, <1>4, <1>5, <1>6, HeldFinite

(* Everything together: what requests hold and what the counters say. *)
Accounted == Progress /\ KvAccounted

(* The NPU side spills `out' and the host side receives it. *)
LEMMA SpillBalance ==
  ASSUME Whereabouts, NEW out \in SUBSET OnNpu, NEW taken \in SUBSET Queued
  PROVE  LET new == OnNpu \ (out \cup taken)
             L == Reloads(taken, out)
         IN  /\ Cardinality(Held(out)) \in Nat
             /\ Cardinality(Held(L)) \in Nat
             /\ Cardinality(Held(taken)) \in Nat
             /\ Cardinality(Held(OnNpu)) + Cardinality(Held(L))
                  = Cardinality(Held(new)) + Cardinality(Held(out)) + Cardinality(Held(taken))
             /\ Cardinality(Held(OnHost)) + Cardinality(Held(out))
                  = Cardinality(Held((OnHost \cup out) \ taken)) + Cardinality(Held(L))
<1> DEFINE new == OnNpu \ (out \cup taken)
           L == Reloads(taken, out)
           kept == taken \ L
<1>1. TypeOK /\ sim \in SimulationType /\ computed \in [Req -> Int]
  BY DEF Whereabouts, TypeOK
<1>2. Queued \in SUBSET Req
  BY <1>1 DEF TypeOK, Queued, Items
<1>3. OnNpu \subseteq Queued /\ OnHost \subseteq Queued /\ OnNpu \cap OnHost = {}
      /\ Queued = OnNpu \cup OnHost
  <2>1. \A r \in Queued : evict[r] \in BOOLEAN
    BY <1>1, <1>2 DEF TypeOK
  <2> QED
    BY <2>1 DEF OnNpu, OnHost
<1>4. L = taken \cap (OnHost \cup out)
  BY <1>3 DEF Reloads, OnHost
<1> HIDE DEF L
<1>5. \A S, T \in SUBSET Req :
        S \cap T = {} => Cardinality(Held(S \cup T)) = Cardinality(Held(S)) + Cardinality(Held(T))
  BY <1>1, HeldSum DEF Held
<1>6. \A S \in SUBSET Req : Cardinality(Held(S)) \in Nat
  BY <1>1, MemoryInt
<1>7. OnNpu = new \cup (out \cup kept) /\ new \cap (out \cup kept) = {} /\ out \cap kept = {}
  BY <1>3, <1>4
<1>8. taken = kept \cup L /\ kept \cap L = {}
  BY <1>4
<1>9. OnHost \cup out = ((OnHost \cup out) \ taken) \cup L /\ ((OnHost \cup out) \ taken) \cap L = {}
      /\ OnHost \cap out = {}
  BY <1>3, <1>4
<1>10. /\ out \in SUBSET Req /\ kept \in SUBSET Req /\ L \in SUBSET Req /\ new \in SUBSET Req
       /\ OnHost \in SUBSET Req /\ ((OnHost \cup out) \ taken) \in SUBSET Req
       /\ taken \in SUBSET Req /\ out \cup kept \in SUBSET Req
  BY <1>2, <1>3, <1>4
<1> HIDE DEF new, kept
<1>11. /\ Cardinality(Held(OnNpu)) = Cardinality(Held(new)) + Cardinality(Held(out \cup kept))
       /\ Cardinality(Held(out \cup kept)) = Cardinality(Held(out)) + Cardinality(Held(kept))
       /\ Cardinality(Held(taken)) = Cardinality(Held(kept)) + Cardinality(Held(L))
  BY <1>5, <1>7, <1>8, <1>10
<1>12. /\ Cardinality(Held(OnHost \cup out)) = Cardinality(Held(OnHost)) + Cardinality(Held(out))
       /\ Cardinality(Held(OnHost \cup out))
            = Cardinality(Held((OnHost \cup out) \ taken)) + Cardinality(Held(L))
  BY <1>5, <1>9, <1>10
<1>13. /\ Cardinality(Held(out)) \in Nat /\ Cardinality(Held(L)) \in Nat
       /\ Cardinality(Held(taken)) \in Nat /\ Cardinality(Held(kept)) \in Nat
       /\ Cardinality(Held(new)) \in Nat
  BY <1>6, <1>10
<1> QED
  BY <1>11, <1>12, <1>13 DEF new, L

(* A spill costs the host N times what it frees on an NPU, a reload frees  *)
(* it again.                                                               *)
LEMMA CpuLedger ==
  ASSUME NEW N \in Nat, NEW e \in Nat, NEW o \in Nat, NEW f \in Nat, NEW l \in Nat, e + o = f + l
  PROVE  N * f \in Nat /\ N * e + N * o - N * l = N * f
<1>1. N * (e + o) = N * e + N * o /\ N * (f + l) = N * f + N * l
  OBVIOUS
<1>2. N * e \in Nat /\ N * o \in Nat /\ N * f \in Nat /\ N * l \in Nat
  OBVIOUS
<1>3. N * e + N * o = N * f + N * l
  BY <1>1
<1> QED
  BY <1>2, <1>3

LEMMA FormBatchAccounts ==
  ASSUME Accounted, Progress', failed = "none",
         NEW reqs, NEW gen, NEW tokens, NEW out, Call(reqs, gen, tokens, out),
         UNCHANGED <<sim, computed>>,
         NEW n \in 1 .. Len(reqs), Fits(reqs, tokens, n, out), FormBatch(reqs, tokens, n, out)
  PROVE  KvAccounted'
<1> DEFINE taken == Items(Prefix(reqs, n))
           L == Reloads(taken, out)
           kv(S) == Cardinality(Held(S))
           grown == Cardinality(Grown(taken, tokens))
           H == Cardinality(HeldAt(Running, Planned))
<1>1. Progress /\ Whereabouts /\ TypeOK /\ Whereabouts' /\ sim \in SimulationType
  BY DEF Accounted, Progress, Whereabouts, TypeOK
<1>2. /\ taken \subseteq Items(reqs) /\ taken \subseteq Queued
      /\ Queued' = Queued \ taken
      /\ InPipeline(inflight') = InPipeline(inflight) \cup taken
      /\ evict' = EvictFlags(taken, out)
  BY <1>1, BatchFormed
<1>3. Queued \subseteq Req /\ Running \subseteq Req /\ Running \cap Queued = {}
  BY <1>1, RunningIsPipeline DEF TypeOK, Queued, Items
<1>4. /\ npuUsed' = npuUsed - kv(out) + grown + kv(L)
      /\ cpuUsed' = cpuUsed + NumNpus * kv(out) - NumNpus * kv(L)
      /\ failed' = IF npuUsed - kv(out) < 0 \/ npuUsed' > NpuBlocks \/ cpuUsed' < 0
                   THEN "accounting" ELSE "none"
      /\ grown + kv(L) <= NpuBlocks - (npuUsed - kv(out))
  BY DEF FormBatch, Fits
<1>5. out \in SUBSET OnNpu
  BY DEF Call, OnNpu
<1> HIDE DEF taken, L
<1>6. Running' = Running \cup taken
  BY <1>2 DEF Running, InPipeline, Batched
<1>7. OnNpu' = OnNpu \ (out \cup taken) /\ OnHost' = (OnHost \cup out) \ taken
  BY <1>2, <1>3, <1>5 DEF OnNpu, OnHost, EvictFlags
<1>8. /\ kv(out) \in Nat /\ kv(L) \in Nat /\ kv(taken) \in Nat
      /\ kv(OnNpu) + kv(L) = kv(OnNpu') + kv(out) + kv(taken)
      /\ kv(OnHost) + kv(out) = kv(OnHost') + kv(L)
  BY <1>1, <1>2, <1>5, <1>7, SpillBalance DEF L
<1>9. \A r \in taken : tokens[r] \in Nat /\ r \in Req
  BY <1>2, <1>3 DEF Call
<1>10. grown \in Nat
  <2>1. taken \in SUBSET Req /\ \A r \in taken : tokens[r] \in Int
    BY <1>9
  <2> QED
    BY <1>1, <2>1, GrownFinite DEF TypeOK
<1>11. /\ Planned \in [Req -> Int] /\ H \in Nat /\ kv(OnNpu) \in Nat /\ kv(OnHost) \in Nat
       /\ npuUsed = kv(OnNpu) + H /\ cpuUsed = NumNpus * kv(OnHost)
  BY <1>1, Balance DEF Accounted, KvAccounted, KvConserved
<1>12. /\ Planned' \in [Req -> Int]
       /\ Cardinality(ResidentBlocks)' = kv(OnNpu') + Cardinality(HeldAt(Running', Planned'))
       /\ Cardinality(SpilledBlocks)' = kv(OnHost')
       /\ kv(OnNpu') \in Nat /\ kv(OnHost') \in Nat
  BY <1>1, BalanceAfter DEF Held
<1>13. Cardinality(HeldAt(Running', Planned')) = H + kv(taken) + grown
  <2>1. /\ \A r \in Running : StepOf(r)' = StepOf(r) /\ After(r)' = After(r)
        /\ \A r \in Items(reqs) : StepOf(r)' = tokens[r]
    BY <1>1, StepsDealt
  <2>2. \A r \in Running : Planned'[r] = Planned[r]
    BY <1>3, <2>1 DEF Planned
  <2>3. \A r \in taken : Planned'[r] = computed[r] + tokens[r]
    <3> SUFFICES ASSUME NEW r \in taken PROVE After(r)' = computed[r] + tokens[r]
      BY <1>9 DEF Planned
    <3> QED
      BY <1>2, <2>1 DEF After
  <2>4. Cardinality(HeldAt(Running \cup taken, Planned'))
          = Cardinality(HeldAt(Running, Planned')) + Cardinality(HeldAt(taken, Planned'))
    BY <1>1, <1>2, <1>3, <1>12, HeldSum
  <2>5. HeldAt(Running, Planned') = HeldAt(Running, Planned)
    BY <2>2, HeldSame
  <2>6. Cardinality(HeldAt(taken, Planned')) = kv(taken) + grown
    BY <1>1, <1>9, <1>12, <2>3, GrownOnHeld, taken \in SUBSET Req
  <2> QED
    BY <1>6, <1>8, <1>10, <1>11, <2>4, <2>5, <2>6
<1> DEFINE a == kv(OnNpu)
           b == kv(OnNpu')
           e == kv(OnHost)
           f == kv(OnHost')
           o == kv(out)
           l == kv(L)
           t == kv(taken)
           N == NumNpus
<1>14. N \in Nat /\ NpuBlocks \in Nat
  BY <1>1, ParameterTypes
<1>15. NumNpus' = N
  BY DEF NumNpus
<1> HIDE DEF H, grown, a, b, e, f, o, l, t, N
<1>16. /\ a \in Nat /\ b \in Nat /\ o \in Nat /\ l \in Nat /\ t \in Nat
       /\ a + l = b + o + t
       /\ npuUsed = a + H
       /\ npuUsed' = npuUsed - o + grown + l
       /\ grown + l <= NpuBlocks - (npuUsed - o)
  BY <1>4, <1>8, <1>11, <1>12 DEF a, b, o, l, t
<1>17. /\ npuUsed' = b + (H + t + grown)
       /\ npuUsed' \in Nat /\ npuUsed' <= NpuBlocks /\ npuUsed - o \in Nat
  <2>1. o <= a
    <3>1. IsFiniteSet(Held(OnNpu))
      <4>1. OnNpu \in SUBSET Req
        BY <1>3 DEF OnNpu
      <4> QED
        BY <1>1, <4>1, MemoryInt
    <3>2. Held(out) \in SUBSET Held(OnNpu)
      BY <1>5 DEF Held, HeldAt, Pairs
    <3> QED
      BY <3>1, <3>2, FS_Subset DEF a, o
  <2>2. H \in Nat /\ grown \in Nat /\ NpuBlocks \in Nat
    BY <1>10, <1>11, <1>14
  <2>3. npuUsed' = b + (H + t + grown)
    BY <1>16, <2>2
  <2>4. npuUsed' <= NpuBlocks
    BY <1>16, <2>2
  <2>5. npuUsed - o \in Nat /\ b + (H + t + grown) \in Nat
    BY <1>16, <2>1, <2>2
  <2> QED
    BY <2>3, <2>4, <2>5
<1>18. cpuUsed' = N * f /\ cpuUsed' \in Nat
  <2>1. /\ e \in Nat /\ f \in Nat /\ o \in Nat /\ l \in Nat
        /\ e + o = f + l
        /\ cpuUsed' = N * e + N * o - N * l
    BY <1>4, <1>8, <1>11, <1>12 DEF e, f, o, l, N
  <2>2. N * f \in Nat /\ N * e + N * o - N * l = N * f
    BY <1>14, <2>1, CpuLedger
  <2> QED
    BY <2>1, <2>2
<1>19. NoAccountingError' /\ failed' = "none"
  <2>1. ~(npuUsed - o < 0 \/ npuUsed' > NpuBlocks \/ cpuUsed' < 0)
    BY <1>14, <1>17, <1>18
  <2> QED
    BY <1>4, <2>1 DEF NoAccountingError, o
<1>20. KvConserved'
  BY <1>12, <1>13, <1>15, <1>17, <1>18 DEF KvConserved, b, f, t
<1> QED
  BY <1>19, <1>20 DEF KvAccounted

LEMMA GiveUpAccounts ==
  ASSUME Accounted, Progress', failed = "none",
         NEW reqs, NEW gen, NEW tokens, NEW out, Call(reqs, gen, tokens, out),
         UNCHANGED <<sim, computed>>, GiveUp(reqs, gen, out)
  PROVE  KvAccounted'
<1> DEFINE kv(S) == Cardinality(Held(S))
           H == Cardinality(HeldAt(Running, Planned))
<1>1. Progress /\ Whereabouts /\ TypeOK /\ Whereabouts' /\ sim \in SimulationType
  BY DEF Accounted, Progress, Whereabouts, TypeOK
<1>2. /\ UNCHANGED <<request, inflight>>
      /\ evict' = EvictFlags({}, out)
      /\ npuUsed' = npuUsed - kv(out)
      /\ cpuUsed' = cpuUsed + NumNpus * kv(out)
      /\ failed' = IF npuUsed - kv(out) < 0 THEN "accounting"
                   ELSE IF Deadlocked(Limit(reqs, gen, out)) THEN "deadlock" ELSE "none"
  BY DEF GiveUp
<1>3. UNCHANGED <<Queued, Running>> /\ Queued \subseteq Req /\ Running \subseteq Req
  BY <1>1, <1>2, RunningIsPipeline DEF Queued, Running, TypeOK, Items
<1>4. out \in SUBSET OnNpu
  BY DEF Call, OnNpu
<1>5. OnNpu' = OnNpu \ (out \cup {}) /\ OnHost' = (OnHost \cup out) \ {}
  BY <1>2, <1>3, <1>4 DEF OnNpu, OnHost, EvictFlags
<1>6. Held(Reloads({}, out)) = {} /\ Held({}) = {}
  BY DEF Held, HeldAt, Pairs, Reloads
<1>7. Cardinality({}) = 0
  BY FS_EmptySet
<1>8. /\ kv(out) \in Nat
      /\ kv(OnNpu) = kv(OnNpu') + kv(out)
      /\ kv(OnHost) + kv(out) = kv(OnHost')
  <2>1. {} \in SUBSET Queued
    OBVIOUS
  <2>2. /\ kv(out) \in Nat
        /\ kv(OnNpu) + kv(Reloads({}, out)) = kv(OnNpu') + kv(out) + kv({})
        /\ kv(OnHost) + kv(out) = kv(OnHost') + kv(Reloads({}, out))
    BY <1>1, <1>4, <1>5, <2>1, SpillBalance
  <2>3. kv(OnNpu) \in Nat /\ kv(OnNpu') \in Nat /\ kv(OnHost') \in Nat
    BY <1>1, Balance, BalanceAfter DEF Held
  <2> QED
    BY <1>6, <1>7, <2>2, <2>3
<1>9. /\ H \in Nat /\ kv(OnNpu) \in Nat /\ kv(OnHost) \in Nat
      /\ npuUsed = kv(OnNpu) + H /\ cpuUsed = NumNpus * kv(OnHost)
  BY <1>1, Balance DEF Accounted, KvAccounted, KvConserved
<1>10. /\ Cardinality(ResidentBlocks)' = kv(OnNpu') + Cardinality(HeldAt(Running', Planned'))
       /\ Cardinality(SpilledBlocks)' = kv(OnHost')
       /\ kv(OnNpu') \in Nat /\ kv(OnHost') \in Nat
  BY <1>1, BalanceAfter DEF Held
<1>11. HeldAt(Running', Planned') = HeldAt(Running, Planned)
  <2>1. \A r \in Running : After(r)' = After(r)
    BY <1>1, StepsDealt
  <2>2. \A r \in Running : Planned'[r] = Planned[r]
    BY <1>3, <2>1 DEF Planned
  <2> QED
    BY <1>3, <2>2, HeldSame
<1>12. NumNpus \in Nat /\ NumNpus' = NumNpus
  BY <1>1, ParameterTypes DEF NumNpus
<1> DEFINE a == kv(OnNpu)
           b == kv(OnNpu')
           e == kv(OnHost)
           f == kv(OnHost')
           o == kv(out)
           N == NumNpus
<1> HIDE DEF H, a, b, e, f, o, N
<1>13. /\ a \in Nat /\ b \in Nat /\ e \in Nat /\ f \in Nat /\ o \in Nat /\ N \in Nat /\ H \in Nat
       /\ a = b + o /\ e + o = f
       /\ npuUsed = a + H /\ cpuUsed = N * e
       /\ npuUsed' = npuUsed - o
       /\ cpuUsed' = cpuUsed + N * o
  BY <1>2, <1>8, <1>9, <1>10, <1>12 DEF a, b, e, f, o, N
<1>14. npuUsed' = b + H /\ npuUsed - o >= 0
  BY <1>13
<1>15. cpuUsed' = N * f
  BY <1>13
<1>16. NoAccountingError'
  BY <1>2, <1>13, <1>14 DEF NoAccountingError, o
<1>17. KvConserved'
  BY <1>10, <1>11, <1>12, <1>14, <1>15 DEF KvConserved, b, f, N, H
<1> QED
  BY <1>16, <1>17 DEF KvAccounted

(* No step of a batch is longer than the budget of the whole batch. *)
LEMMA StepFitsBudget ==
  ASSUME Progress, NEW i \in DOMAIN inflight, NEW r \in Batched(inflight[i])
  PROVE  StepOf(r) <= MaxTokens
<1> DEFINE f == [q \in Batched(inflight[i]) |-> 1 .. StepOf(q)]
<1>1. Whereabouts /\ TypeOK /\ sim \in SimulationType
  BY DEF Progress, Whereabouts, TypeOK
<1>2. Batched(inflight[i]) \subseteq Running /\ Running \subseteq Req
  BY <1>1, RunningIsPipeline DEF Running
<1>3. \A q \in Req : StepOf(q) \in Nat
  BY <1>1, AfterNat
<1>4. DOMAIN f = Batched(inflight[i]) /\ \A q \in DOMAIN f : f[q] = 1 .. StepOf(q)
  OBVIOUS
<1>5. Cardinality(Pairs(f)) <= MaxTokens
  BY DEF Progress, WithinLimits
<1>6. MaxTokens \in Nat
  BY <1>1, ParameterTypes
<1> HIDE DEF f
<1>7. /\ IsFiniteSet(DOMAIN f)
      /\ \A q \in DOMAIN f : IsFiniteSet(f[q])
  <2>1. IsFiniteSet(DOMAIN f)
    <3>1. Batched(inflight[i]) \in SUBSET Req
      BY <1>2
    <3> QED
      BY <1>4, <3>1, ReqAssumption, FS_Subset
  <2>2. \A q \in DOMAIN f : f[q] = 1 .. StepOf(q) /\ StepOf(q) \in Int
    BY <1>2, <1>3, <1>4
  <2> QED
    BY <2>1, <2>2, FS_Interval
<1>8. IsFiniteSet(Pairs(f)) /\ Cardinality(Pairs(f)) \in Nat
  BY <1>7, PairsFinite, FS_CardinalityType
<1> DEFINE g == [q \in {r} |-> 1 .. StepOf(r)]
<1>9. Pairs(g) \in SUBSET Pairs(f)
  BY <1>4 DEF Pairs
<1>10. DOMAIN g = {r} /\ g[r] = 1 .. StepOf(r)
  OBVIOUS
<1> HIDE DEF g
<1>11. Cardinality(Pairs(g)) = StepOf(r)
  BY <1>2, <1>3, <1>10, PairsSingle
<1>12. Cardinality(Pairs(g)) <= Cardinality(Pairs(f))
  BY <1>8, <1>9, FS_Subset
<1> QED
  BY <1>2, <1>3, <1>5, <1>6, <1>8, <1>11, <1>12

(* The report that completes a batch frees what the requests that leave    *)
(* hold after their step, and nothing else changes hands.                  *)
LEMMA AddDoneAccounts ==
  ASSUME Accounted, Progress', NEW s \in Npus, NEW i \in DOMAIN inflight, AddDone(s, i)
  PROVE  KvAccounted'
<1> DEFINE batch == Batched(inflight[i])
           leaves == {r \in batch : Leaves(r)}
           stay == {r \in batch : ~Leaves(r)}
           rest == Running \ batch
           card(S, c) == Cardinality(HeldAt(S, c))
<1>1. Progress /\ Whereabouts /\ TypeOK /\ Whereabouts' /\ sim \in SimulationType
      /\ computed \in [Req -> Int] /\ computed' \in [Req -> Int]
  <2>1. Progress /\ Whereabouts /\ TypeOK /\ Whereabouts' /\ TypeOK'
    BY DEF Accounted, Progress, Whereabouts
  <2>2. computed \in [Req -> Nat] /\ computed' \in [Req -> Nat] /\ sim \in SimulationType
    BY <2>1 DEF TypeOK
  <2> QED
    BY <2>1, <2>2
<1>2. /\ UNCHANGED <<sim, evict, cpuUsed>>
      /\ computed' = [r \in Req |-> IF r \in batch THEN After(r) ELSE computed[r]]
      /\ chunk' = [r \in Req |-> IF r \in batch \cap Prefills THEN 0 ELSE chunk[r]]
      /\ npuUsed' = npuUsed - card(leaves, computed')
      /\ failed = "none"
      /\ failed' = IF \/ npuUsed' < 0
                      \/ \E r \in batch \cap Prefills : StepOf(r) > MaxTokens
                   THEN "accounting" ELSE "none"
  BY DEF AddDone
<1>3. /\ batch \subseteq Running
      /\ Running' = rest
      /\ Queued' = Queued \cup stay
  BY <1>1, BatchDone
<1>4. /\ Queued \subseteq Req /\ Running \subseteq Req /\ Running \cap Queued = {}
      /\ \A r \in Running : ~evict[r]
  <2>1. Running \cap Queued = {}
    BY <1>1, RunningIsPipeline
  <2>2. \A r \in Running : r \in Req
    BY <1>1, RunningIsPipeline
  <2> QED
    BY <1>1, <2>1, <2>2 DEF TypeOK, Queued, Items, Whereabouts, SpilledWaits
<1>5. OnNpu' = OnNpu \cup stay /\ OnHost' = OnHost
  <2>1. \A r \in stay : ~evict[r]
    BY <1>3, <1>4
  <2> HIDE DEF stay
  <2> QED
    BY <1>2, <1>3, <2>1 DEF OnNpu, OnHost
<1>6. /\ Running = rest \cup batch /\ rest \cap batch = {}
      /\ batch = leaves \cup stay /\ leaves \cap stay = {}
      /\ OnNpu \cap stay = {} /\ OnNpu \cap batch = {} /\ OnHost \cap batch = {}
      /\ rest \in SUBSET Req /\ batch \in SUBSET Req
      /\ leaves \in SUBSET Req /\ stay \in SUBSET Req
      /\ OnNpu \in SUBSET Req /\ OnHost \in SUBSET Req
  BY <1>3, <1>4 DEF OnNpu, OnHost
<1>7. /\ \A r \in batch : computed'[r] = Planned[r]
      /\ \A r \in Req \ batch : computed'[r] = computed[r]
      /\ \A r \in rest : Planned'[r] = Planned[r]
  <2>1. \A r \in rest : After(r)' = After(r)
    BY <1>2, <1>4, <1>6 DEF After, StepOf, IsPrefill, Input
  <2> QED
    BY <1>2, <1>4, <1>6, <2>1 DEF Planned
<1>8. /\ Planned \in [Req -> Int]
      /\ npuUsed = card(OnNpu, computed) + card(Running, Planned)
      /\ cpuUsed = NumNpus * card(OnHost, computed)
  BY <1>1, <1>2, Balance DEF Accounted, KvAccounted, KvConserved, Held
<1>9. /\ Cardinality(ResidentBlocks)' = card(OnNpu', computed') + card(Running', Planned')
      /\ Cardinality(SpilledBlocks)' = card(OnHost', computed')
  BY <1>1, <1>2, BalanceAfter
<1>10. /\ HeldAt(stay, computed') = HeldAt(stay, Planned)
       /\ HeldAt(leaves, computed') = HeldAt(leaves, Planned)
       /\ HeldAt(OnNpu, computed') = HeldAt(OnNpu, computed)
       /\ HeldAt(OnHost, computed') = HeldAt(OnHost, computed)
       /\ HeldAt(rest, Planned') = HeldAt(rest, Planned)
  <2>1. \A r \in OnNpu \cup OnHost : computed'[r] = computed[r]
    BY <1>6, <1>7
  <2> QED
    BY <1>7, <2>1, HeldSame
<1> HIDE DEF leaves, stay, rest, batch
<1>11. /\ card(Running, Planned) = card(rest, Planned) + card(batch, Planned)
       /\ card(batch, Planned) = card(leaves, Planned) + card(stay, Planned)
       /\ card(OnNpu \cup stay, computed') = card(OnNpu, computed') + card(stay, computed')
  BY <1>1, <1>6, <1>8, HeldSum
<1>12. /\ card(OnNpu, computed) \in Nat /\ card(rest, Planned) \in Nat
       /\ card(leaves, Planned) \in Nat /\ card(stay, Planned) \in Nat
  BY <1>1, <1>6, <1>8, HeldFinite
<1> DEFINE a == card(OnNpu, computed)
           p == card(rest, Planned)
           l == card(leaves, Planned)
           t == card(stay, Planned)
<1>13. /\ a \in Nat /\ p \in Nat /\ l \in Nat /\ t \in Nat
       /\ npuUsed = a + (p + (l + t)) /\ npuUsed' = npuUsed - l
       /\ Cardinality(ResidentBlocks)' = (a + t) + p
  BY <1>2, <1>3, <1>5, <1>8, <1>9, <1>10, <1>11, <1>12
<1> HIDE DEF a, p, l, t
<1>14. npuUsed' = Cardinality(ResidentBlocks)' /\ npuUsed' \in Nat
  BY <1>13
<1>15. cpuUsed' = NumNpus' * Cardinality(SpilledBlocks)'
  BY <1>2, <1>5, <1>8, <1>9, <1>10 DEF NumNpus
<1>16. NoAccountingError'
  <2>1. \A r \in batch : ~(StepOf(r) > MaxTokens)
    <3>1. MaxTokens \in Nat /\ \A r \in batch : StepOf(r) \in Nat
      BY <1>1, <1>6, ParameterTypes, AfterNat
    <3> QED
      BY <1>1, <3>1, StepFitsBudget DEF batch
  <2> QED
    BY <1>2, <1>14, <2>1 DEF NoAccountingError
<1> QED
  BY <1>14, <1>15, <1>16 DEF KvAccounted, KvConserved

LEMMA ScheduleBaseAccounts ==
  ASSUME Accounted, Progress', ScheduleBase
  PROVE  KvAccounted'
<1>1. PICK reqs, gen, tokens, out : Call(reqs, gen, tokens, out)
  BY ScheduleBaseCases DEF Accounted, Progress, Whereabouts
<1>2. UNCHANGED <<sim, computed>> /\ failed = "none"
  BY DEF ScheduleBase, CanSchedule
<1>3. ASSUME NEW n \in 1 .. Len(reqs), Fits(reqs, tokens, n, out), FormBatch(reqs, tokens, n, out)
      PROVE  KvAccounted'
  BY <1>1, <1>2, <1>3, FormBatchAccounts
<1>4. CASE GiveUp(reqs, gen, out)
  BY <1>1, <1>2, <1>4, GiveUpAccounts
<1>5. CASE failed' = "cpu_full"
  BY <1>5 DEF KvAccounted, KvConserved, NoAccountingError
<1> QED
  BY <1>1, <1>3, <1>4, <1>5 DEF Call

(* The KV of one request. *)
LEMMA HeldByOne ==
  ASSUME sim \in SimulationType, NEW r, NEW c, Blocks(c[r]) \in Nat
  PROVE  Cardinality(HeldAt({r}, c)) = Blocks(c[r])
<1> DEFINE f == [q \in {r} |-> 1 .. Blocks(c[q])]
<1>1. DOMAIN f = {r} /\ f[r] = 1 .. Blocks(c[r])
  OBVIOUS
<1> HIDE DEF f
<1>2. Cardinality(Pairs(f)) = Blocks(c[r])
  BY <1>1, PairsSingle
<1> QED
  BY <1>2 DEF HeldAt, f

(* A request that arrives brings the KV of its prompt, if it was computed  *)
(* elsewhere, and nothing otherwise.                                       *)
LEMMA ArrivalAccounts ==
  ASSUME Accounted, Progress', NEW r \in Req, AddRequest(r) \/ AddDecode(r)
  PROVE  KvAccounted'
<1> DEFINE card(S, c) == Cardinality(HeldAt(S, c))
           size == Blocks(computed'[r])
<1>1. Progress /\ Whereabouts /\ TypeOK /\ Whereabouts' /\ sim \in SimulationType
  BY DEF Accounted, Progress, Whereabouts, TypeOK
<1>2. /\ UNCHANGED <<sim, inflight, finished, chunk, evict, cpuUsed>>
      /\ r \in pending /\ request' = Append(request, r)
      /\ \A q \in Req \ {r} : computed'[q] = computed[q]
      /\ failed = "none"
  BY <1>1 DEF AddRequest, AddDecode, TypeOK, memory
<1>3. computed \in [Req -> Int] /\ computed' \in [Req -> Int] /\ computed'[r] \in Nat
  <2>1. computed \in [Req -> Nat] /\ computed' \in [Req -> Nat]
    BY <1>1 DEF Whereabouts, TypeOK
  <2> QED
    BY <2>1
<1>4. Queued' = Queued \cup {r}
  BY <1>1, <1>2, AppendItems DEF TypeOK, Queued
<1>5. r \notin Queued /\ r \notin Running /\ ~evict[r] /\ Running \subseteq Req /\ Queued \subseteq Req
  <2>1. QueuePlacement(Req, pending, request, inflight, finished)
    BY <1>1, OnePlaceIsPlacement DEF Whereabouts
  <2>2. r \notin Queued
    BY <1>2, <2>1 DEF QueuePlacement, Queued
  <2>3. r \notin Running /\ Running \subseteq Req
    BY <1>1, <1>2, RunningIsPipeline
  <2> QED
    BY <1>1, <2>2, <2>3 DEF Whereabouts, SpilledWaits, TypeOK, Queued, Items
<1>6. /\ OnNpu' = OnNpu \cup {r} /\ r \notin OnNpu /\ OnNpu \in SUBSET Req
      /\ OnHost' = OnHost /\ r \notin OnHost /\ OnHost \in SUBSET Req
      /\ Running' = Running
  BY <1>2, <1>4, <1>5 DEF OnNpu, OnHost, Running
<1>7. /\ HeldAt(OnNpu, computed') = HeldAt(OnNpu, computed)
      /\ HeldAt(OnHost, computed') = HeldAt(OnHost, computed)
      /\ HeldAt(Running, Planned') = HeldAt(Running, Planned)
  <2>1. \A q \in OnNpu \cup OnHost : computed'[q] = computed[q]
    BY <1>2, <1>6
  <2>2. \A q \in Running : After(q)' = After(q)
    BY <1>2, <1>5 DEF After, StepOf, IsPrefill, Input
  <2>3. \A q \in Running : Planned'[q] = Planned[q]
    BY <1>5, <2>2 DEF Planned
  <2> QED
    BY <2>1, <2>3, HeldSame
<1>8. size \in Nat
  BY <1>1, <1>3, BlocksMonotonic
<1>9. card(OnNpu \cup {r}, computed') = card(OnNpu, computed') + size
  <2>1. {r} \in SUBSET Req /\ OnNpu \cap {r} = {}
    BY <1>6
  <2>2. card({r}, computed') = size
    BY <1>1, <1>8, HeldByOne
  <2> QED
    BY <1>1, <1>3, <1>6, <2>1, <2>2, HeldSum
<1>10. /\ npuUsed = card(OnNpu, computed) + card(Running, Planned)
       /\ cpuUsed = NumNpus * card(OnHost, computed)
       /\ card(OnNpu, computed) \in Nat /\ card(Running, Planned) \in Nat
  BY <1>1, <1>2, Balance DEF Accounted, KvAccounted, KvConserved, Held
<1>11. /\ Cardinality(ResidentBlocks)' = card(OnNpu', computed') + card(Running', Planned')
       /\ Cardinality(SpilledBlocks)' = card(OnHost', computed')
  BY <1>1, <1>2, BalanceAfter
<1>12. NoAccountingError' /\ (failed' = "none" => npuUsed' = npuUsed + size)
  <2>1. CASE AddRequest(r)
    <3>1. computed[r] = 0
      BY <1>1, <1>2 DEF Progress, NotStarted
    <3>2. size = 0
      <4>1. Blocks(0) = 0
        BY <1>1, BlocksMonotonic, 0 <= 0
      <4>2. computed'[r] = 0
        BY <2>1, <3>1 DEF AddRequest
      <4> QED
        BY <4>1, <4>2
    <3>3. npuUsed' = npuUsed + 0
      BY <1>1, <2>1 DEF AddRequest, TypeOK, memory
    <3> QED
      BY <2>1, <3>2, <3>3 DEF AddRequest, NoAccountingError
  <2>2. CASE AddDecode(r)
    <3>1. size = Blocks(Input(r))
      BY <1>1, <2>2 DEF AddDecode, TypeOK
    <3> HIDE DEF size
    <3> QED
      BY <2>2, <3>1 DEF AddDecode, NoAccountingError
  <2> QED
    BY <2>1, <2>2
<1>13. failed' = "none" => npuUsed' = Cardinality(ResidentBlocks)'
  <2> DEFINE a == card(OnNpu, computed)
             p == card(Running, Planned)
  <2>1. /\ a \in Nat /\ p \in Nat /\ npuUsed = a + p
        /\ Cardinality(ResidentBlocks)' = (a + size) + p
    BY <1>6, <1>7, <1>9, <1>10, <1>11
  <2> HIDE DEF a, p, size
  <2> QED
    BY <1>8, <1>12, <2>1
<1>14. cpuUsed' = NumNpus' * Cardinality(SpilledBlocks)'
  BY <1>2, <1>6, <1>7, <1>10, <1>11 DEF NumNpus
<1> QED
  BY <1>12, <1>13, <1>14 DEF KvAccounted, KvConserved

(* A step that only marks a stage, moves the clock or does nothing. *)
LEMMA NothingAccounted ==
  ASSUME Accounted,
         UNCHANGED <<sim, request, computed, chunk, evict, npuUsed, cpuUsed, failed>>,
         DOMAIN inflight' = DOMAIN inflight,
         \A i \in DOMAIN inflight : inflight'[i].reqs = inflight[i].reqs
  PROVE  KvAccounted'
<1>1. UNCHANGED Running /\ UNCHANGED Queued
  BY DEF Running, Batched, Queued, Items
<1>2. \A r : UNCHANGED After(r)
  BY DEF After, StepOf, IsPrefill, Input
<1>3. \A n : UNCHANGED Blocks(n)
  BY DEF Blocks, BlockSize
<1>4. UNCHANGED ResidentBlocks /\ UNCHANGED SpilledBlocks
  BY <1>1, <1>2, <1>3 DEF ResidentBlocks, SpilledBlocks, Held, HeldAt
<1> QED
  BY <1>4 DEF Accounted, KvAccounted, KvConserved, NoAccountingError, NumNpus

LEMMA InitAccounted ==
  ASSUME Init
  PROVE  KvAccounted
<1>1. Queued = {} /\ Running = {}
  BY DEF Init, Queued, Running, Items
<1>2. ResidentBlocks = {} /\ SpilledBlocks = {}
  BY <1>1 DEF ResidentBlocks, SpilledBlocks, Held, HeldAt, Pairs
<1>3. NumNpus \in Nat /\ Cardinality({}) = 0
  BY ParameterTypes, FS_EmptySet, SimulationAssumption DEF Init
<1> QED
  BY <1>2, <1>3 DEF Init, KvAccounted, KvConserved, NoAccountingError

LEMMA AccountedInductive == Spec => []Accounted
<1>1. Init /\ Progress => Accounted
  BY InitAccounted DEF Accounted
<1>2. Progress' /\ Accounted /\ [Next]_vars => Accounted'
  <2> SUFFICES ASSUME Progress', Accounted, [Next]_vars
               PROVE  KvAccounted'
    BY DEF Accounted
  <2>1. CASE Tick \/ Stopped \/ UNCHANGED vars
    BY <2>1, NothingAccounted DEF Tick, Stopped, vars, memory
  <2>2. ASSUME NEW r \in Req, AddRequest(r) \/ AddDecode(r)
        PROVE  KvAccounted'
    BY <2>2, ArrivalAccounts
  <2>3. CASE ScheduleBase
    BY <2>3, ScheduleBaseAccounts
  <2>4. ASSUME NEW s \in Npus, ScheduleExisting(s)
        PROVE  KvAccounted'
    <3>1. /\ DOMAIN inflight' = DOMAIN inflight
          /\ \A i \in DOMAIN inflight : inflight'[i].reqs = inflight[i].reqs
      BY <2>4 DEF ScheduleExisting, Accounted, Progress, Whereabouts, TypeOK, BatchType
    <3> QED
      BY <2>4, <3>1, NothingAccounted DEF ScheduleExisting, memory
  <2>5. ASSUME NEW s \in Npus, NEW i \in DOMAIN inflight, Report(s, i)
        PROVE  KvAccounted'
    <3>1. /\ DOMAIN inflight' = DOMAIN inflight
          /\ \A j \in DOMAIN inflight : inflight'[j].reqs = inflight[j].reqs
      BY <2>5 DEF Report, Accounted, Progress, Whereabouts, TypeOK, BatchType
    <3> QED
      BY <2>5, <3>1, NothingAccounted DEF Report, memory
  <2>6. ASSUME NEW s \in Npus, NEW i \in DOMAIN inflight, AddDone(s, i)
        PROVE  KvAccounted'
    BY <2>6, AddDoneAccounts
  <2> QED
    BY <2>1, <2>2, <2>3, <2>4, <2>5, <2>6 DEF Next
<1> QED
  BY <1>1, <1>2, ProgressInductive, PTL DEF Spec

(* The byte counters of an NPU and of its host are, as long as the run     *)
(* goes on, exactly the KV of the requests in the queue and the pipeline,  *)
(* and no allocation or release ever fails on the NPU side.                *)
THEOREM KvAccountedCorrect == Spec => []KvAccounted
<1>1. Accounted => KvAccounted
  BY DEF Accounted
<1> QED
  BY <1>1, AccountedInductive, PTL

-----------------------------------------------------------------------------
(* The orders a serving instance relies on: batches leave the pipeline as  *)
(* they entered it, and nobody in the queue hides behind a head that has   *)
(* not arrived.                                                            *)

-----------------------------------------------------------------------------
(* The pipeline *)

(* Batch numbers grow along the pipeline, and no NPU is ahead of them. *)
Ids ==
  /\ \A i, j \in DOMAIN inflight : i < j => inflight[i].id < inflight[j].id
  /\ \A i \in DOMAIN inflight : inflight[i].id < batchIds
  /\ \A s \in Npus : iter[s] <= batchIds

(* A stage behind the first one has ended exactly the batches before the   *)
(* number it passes, and has started no later one than that number.        *)
Fronts ==
  \A s \in Npus \ {StartNpu}, i \in DOMAIN inflight :
    /\ inflight[i].id < iter[s] <=> s \in inflight[i].end
    /\ s \in inflight[i].fired => inflight[i].id <= iter[s]

(* The first stage starts a batch when it has ended the one before, and a  *)
(* batch that both the first and the last stage have ended is gone.        *)
Starts ==
  \A i \in DOMAIN inflight :
    /\ StartNpu \in inflight[i].fired
    /\ i < Len(inflight) => StartNpu \in inflight[i].end
    /\ ~({StartNpu, LastNpu} \subseteq inflight[i].end)

(* What PipelineFifo rests on. *)
Stages == TypeOK /\ Ids /\ Fronts /\ Starts

(* The stages' numbers. *)
LEMMA StageNumbers ==
  ASSUME TypeOK
  PROVE  /\ \A i \in DOMAIN inflight : inflight[i].id \in Nat
         /\ \A s \in Npus : iter[s] \in Nat
         /\ batchIds \in Nat
         /\ Len(inflight) \in Nat /\ DOMAIN inflight = 1 .. Len(inflight)
<1>1. inflight \in Seq(BatchType) /\ batchIds \in Nat /\ iter \in [Npus -> Nat]
  BY DEF TypeOK
<1>2. \A i \in DOMAIN inflight : inflight[i] \in BatchType
  BY <1>1, ElementOfSeq
<1>3. \A i \in DOMAIN inflight : inflight[i].id \in Nat
  BY <1>2 DEF BatchType
<1> QED
  BY <1>1, <1>3

(* A stage that has started a batch and not ended it stands exactly there. *)
LEMMA StageAtBatch ==
  ASSUME Stages, NEW i \in DOMAIN inflight, NEW s \in inflight[i].fired \ inflight[i].end,
         s \in Npus \ {StartNpu}
  PROVE  iter[s] = inflight[i].id
<1>1. inflight[i].id \in Nat /\ iter[s] \in Nat
  BY StageNumbers DEF Stages
<1>2. inflight[i].id <= iter[s] /\ ~(inflight[i].id < iter[s])
  BY DEF Stages, Fronts
<1> QED
  BY <1>1, <1>2

(* Only the oldest batch can be completed. *)
LEMMA OldestCompletes ==
  ASSUME Stages, NEW s \in Npus, NEW i \in DOMAIN inflight,
         s \in inflight[i].fired \ inflight[i].end, Completes(inflight[i], s)
  PROVE  i = 1
<1>1. /\ \A j \in DOMAIN inflight : inflight[j].id \in Nat
      /\ \A q \in Npus : iter[q] \in Nat
      /\ Len(inflight) \in Nat /\ DOMAIN inflight = 1 .. Len(inflight)
      /\ StartNpu \in Npus /\ LastNpu \in Npus
  BY StageNumbers, NpuAssumption DEF Stages
<1> SUFFICES ASSUME i # 1 PROVE FALSE
  OBVIOUS
<1>2. 1 \in DOMAIN inflight /\ 1 < i /\ 1 < Len(inflight)
  BY <1>1
<1>3. StartNpu \in inflight[1].end /\ LastNpu \notin inflight[1].end /\ LastNpu # StartNpu
  BY <1>2 DEF Stages, Starts
<1>4. iter[LastNpu] <= inflight[1].id
  BY <1>1, <1>2, <1>3 DEF Stages, Fronts
<1>5. inflight[1].id < inflight[i].id
  BY <1>2 DEF Stages, Ids
<1>6. LastNpu \notin inflight[i].end
  BY <1>1, <1>2, <1>3, <1>4, <1>5 DEF Stages, Fronts
<1>7. s = LastNpu
  BY <1>6 DEF Completes
<1>8. inflight[i].id = iter[LastNpu]
  BY <1>1, <1>3, <1>7, StageAtBatch
<1> QED
  BY <1>1, <1>2, <1>4, <1>5, <1>8

(* A new batch gets the next number and is started by the first stage,     *)
(* which has ended all the others.                                         *)
LEMMA ScheduleBaseStages ==
  ASSUME Stages, TypeOK', ScheduleBase
  PROVE  Stages'
<1>1. UNCHANGED iter
  BY DEF ScheduleBase
<1>2. \/ UNCHANGED <<inflight, batchIds>>
      \/ \E batch : /\ inflight' = Append(inflight, [id |-> batchIds, reqs |-> batch,
                                                     fired |-> {StartNpu}, end |-> {}])
                    /\ batchIds' = batchIds + 1
  <2>1. PICK reqs, gen, tokens, out : Call(reqs, gen, tokens, out)
    BY ScheduleBaseCases DEF Stages
  <2>2. CASE GiveUp(reqs, gen, out)
    BY <2>2 DEF GiveUp
  <2>3. ASSUME NEW n \in 1 .. Len(reqs), FormBatch(reqs, tokens, n, out)
        PROVE  \E batch : /\ inflight' = Append(inflight, [id |-> batchIds, reqs |-> batch,
                                                           fired |-> {StartNpu}, end |-> {}])
                          /\ batchIds' = batchIds + 1
    BY <2>3 DEF FormBatch
  <2> QED
    BY <2>1, <2>2, <2>3 DEF Call
<1>3. CASE UNCHANGED <<inflight, batchIds>>
  BY <1>1, <1>3 DEF Stages, Ids, Fronts, Starts
<1>4. ASSUME NEW batch,
             inflight' = Append(inflight, [id |-> batchIds, reqs |-> batch,
                                           fired |-> {StartNpu}, end |-> {}]),
             batchIds' = batchIds + 1
      PROVE  Stages'
  <2> DEFINE n == Len(inflight)
             new == [id |-> batchIds, reqs |-> batch, fired |-> {StartNpu}, end |-> {}]
  <2>1. /\ n \in Nat /\ DOMAIN inflight = 1 .. n
        /\ \A i \in 1 .. n : inflight[i].id \in Nat
        /\ \A s \in Npus : iter[s] \in Nat
        /\ batchIds \in Nat
    BY StageNumbers DEF Stages
  <2>2. /\ DOMAIN inflight' = 1 .. n + 1 /\ Len(inflight') = n + 1
        /\ inflight'[n + 1] = new
        /\ \A i \in 1 .. n : inflight'[i] = inflight[i]
    <3>1. inflight \in Seq(BatchType)
      BY DEF Stages, TypeOK
    <3> HIDE DEF new
    <3> QED
      BY <1>4, <3>1 DEF new
  <2>3. new.id = batchIds /\ new.fired = {StartNpu} /\ new.end = {}
    OBVIOUS
  <2> HIDE DEF n, new
  <2>4. \A i \in 1 .. n + 1 : i \in 1 .. n \/ i = n + 1
    BY <2>1
  <2>5. Ids'
    <3>1. \A i, j \in 1 .. n + 1 : i < j => inflight'[i].id < inflight'[j].id
      <4> SUFFICES ASSUME NEW i \in 1 .. n + 1, NEW j \in 1 .. n + 1, i < j
                   PROVE  inflight'[i].id < inflight'[j].id
        OBVIOUS
      <4>1. i \in 1 .. n
        BY <2>1
      <4> QED
        BY <2>1, <2>2, <2>3, <2>4, <4>1 DEF Stages, Ids
    <3>2. \A i \in 1 .. n + 1 : inflight'[i].id < batchIds + 1
      BY <2>1, <2>2, <2>3, <2>4 DEF Stages, Ids
    <3>3. \A s \in Npus : iter[s] <= batchIds + 1
      BY <2>1 DEF Stages, Ids
    <3> QED
      BY <1>1, <1>4, <2>2, <3>1, <3>2, <3>3 DEF Ids
  <2>6. Fronts'
    <3> SUFFICES ASSUME NEW s \in Npus \ {StartNpu}, NEW i \in 1 .. n + 1
                 PROVE  /\ inflight'[i].id < iter[s] <=> s \in inflight'[i].end
                        /\ s \in inflight'[i].fired => inflight'[i].id <= iter[s]
      BY <1>1, <2>2 DEF Fronts
    <3>1. CASE i \in 1 .. n
      BY <2>1, <2>2, <3>1 DEF Stages, Fronts
    <3>2. CASE i = n + 1
      <4>1. ~(batchIds < iter[s])
        BY <2>1 DEF Stages, Ids
      <4> QED
        BY <2>2, <2>3, <3>2, <4>1
    <3> QED
      BY <2>4, <3>1, <3>2
  <2>7. Starts'
    <3> SUFFICES ASSUME NEW i \in 1 .. n + 1
                 PROVE  /\ StartNpu \in inflight'[i].fired
                        /\ i < n + 1 => StartNpu \in inflight'[i].end
                        /\ ~({StartNpu, LastNpu} \subseteq inflight'[i].end)
      BY <2>2 DEF Starts
    <3>1. CASE i \in 1 .. n
      BY <2>1, <2>2, <3>1 DEF Stages, Starts, ScheduleBase, CanSchedule
    <3>2. CASE i = n + 1
      BY <2>1, <2>2, <2>3, <3>2
    <3> QED
      BY <2>4, <3>1, <3>2
  <2> QED
    BY <2>5, <2>6, <2>7 DEF Stages
<1> QED
  BY <1>2, <1>3, <1>4

(* A later stage starts the batch whose number it passes. *)
LEMMA ScheduleExistingStages ==
  ASSUME Stages, TypeOK', NEW s \in Npus, ScheduleExisting(s)
  PROVE  Stages'
<1>1. PICK i \in DOMAIN inflight :
        /\ inflight[i].id = iter[s] /\ s # StartNpu
        /\ inflight' = [inflight EXCEPT ![i].fired = @ \cup {s}]
  BY DEF ScheduleExisting
<1>2. UNCHANGED <<iter, batchIds>>
  BY DEF ScheduleExisting
<1>3. /\ \A j \in DOMAIN inflight : inflight[j].id \in Nat
      /\ inflight \in Seq(BatchType) /\ inflight[i] \in BatchType
  BY StageNumbers, ElementOfSeq DEF Stages, TypeOK
<1>4. /\ DOMAIN inflight' = DOMAIN inflight /\ Len(inflight') = Len(inflight)
      /\ \A j \in DOMAIN inflight :
           /\ inflight'[j].id = inflight[j].id
           /\ inflight'[j].end = inflight[j].end
           /\ inflight'[j].fired = inflight[j].fired \cup (IF j = i THEN {s} ELSE {})
  BY <1>1, <1>3 DEF BatchType
<1>5. Ids'
  BY <1>2, <1>4 DEF Stages, Ids
<1>6. Fronts'
  <2> SUFFICES ASSUME NEW q \in Npus \ {StartNpu}, NEW j \in DOMAIN inflight
               PROVE  /\ inflight'[j].id < iter[q] <=> q \in inflight'[j].end
                      /\ q \in inflight'[j].fired => inflight'[j].id <= iter[q]
    BY <1>2, <1>4 DEF Fronts
  <2>1. inflight[j].id < iter[q] <=> q \in inflight[j].end
    BY DEF Stages, Fronts
  <2>2. q \in inflight[j].fired => inflight[j].id <= iter[q]
    BY DEF Stages, Fronts
  <2>3. q \in inflight'[j].fired => q \in inflight[j].fired \/ inflight[j].id = iter[q]
    BY <1>1, <1>4
  <2> QED
    BY <1>3, <1>4, <2>1, <2>2, <2>3
<1>7. Starts'
  BY <1>4 DEF Stages, Starts
<1> QED
  BY <1>5, <1>6, <1>7 DEF Stages

(* A report moves its stage to the next number. *)
LEMMA ReportStages ==
  ASSUME Stages, TypeOK', NEW s \in Npus, NEW i \in DOMAIN inflight, Report(s, i)
  PROVE  Stages'
<1>1. /\ s \in inflight[i].fired \ inflight[i].end
      /\ ~Completes(inflight[i], s)
      /\ inflight' = [inflight EXCEPT ![i].end = @ \cup {s}]
      /\ iter' = [iter EXCEPT ![s] = inflight[i].id + 1]
      /\ UNCHANGED batchIds
  BY DEF Report
<1>2. /\ \A j \in DOMAIN inflight : inflight[j].id \in Nat
      /\ \A q \in Npus : iter[q] \in Nat
      /\ Len(inflight) \in Nat /\ DOMAIN inflight = 1 .. Len(inflight)
      /\ inflight \in Seq(BatchType) /\ inflight[i] \in BatchType
      /\ batchIds \in Nat
  BY StageNumbers, ElementOfSeq DEF Stages, TypeOK
<1>3. /\ DOMAIN inflight' = DOMAIN inflight /\ Len(inflight') = Len(inflight)
      /\ \A j \in DOMAIN inflight :
           /\ inflight'[j].id = inflight[j].id
           /\ inflight'[j].fired = inflight[j].fired
           /\ inflight'[j].end = inflight[j].end \cup (IF j = i THEN {s} ELSE {})
  BY <1>1, <1>2 DEF BatchType
<1>4. \A q \in Npus : iter'[q] = IF q = s THEN inflight[i].id + 1 ELSE iter[q]
  BY <1>1 DEF Stages, TypeOK
<1>5. Ids'
  <2>1. inflight[i].id + 1 <= batchIds
    BY <1>2 DEF Stages, Ids
  <2> QED
    BY <1>1, <1>3, <1>4, <2>1 DEF Stages, Ids
<1>6. Fronts'
  <2> SUFFICES ASSUME NEW q \in Npus \ {StartNpu}, NEW j \in DOMAIN inflight
               PROVE  /\ inflight'[j].id < iter'[q] <=> q \in inflight'[j].end
                      /\ q \in inflight'[j].fired => inflight'[j].id <= iter'[q]
    BY <1>3 DEF Fronts
  <2>1. /\ inflight[j].id < iter[q] <=> q \in inflight[j].end
        /\ q \in inflight[j].fired => inflight[j].id <= iter[q]
    BY DEF Stages, Fronts
  <2>2. CASE q # s
    BY <1>3, <1>4, <2>1, <2>2
  <2>3. CASE q = s
    <3>1. iter[s] = inflight[i].id
      BY <1>1, <2>3, StageAtBatch
    <3>2. inflight[j].id < inflight[i].id + 1 <=> j = i \/ inflight[j].id < inflight[i].id
      <4>1. j < i \/ i < j \/ j = i
        BY <1>2
      <4>2. j < i => inflight[j].id < inflight[i].id
        BY DEF Stages, Ids
      <4>3. i < j => inflight[i].id < inflight[j].id
        BY DEF Stages, Ids
      <4> QED
        BY <1>2, <4>1, <4>2, <4>3
    <3> QED
      BY <1>2, <1>3, <1>4, <2>1, <2>3, <3>1, <3>2
  <2> QED
    BY <2>2, <2>3
<1>7. Starts'
  <2> SUFFICES ASSUME NEW j \in DOMAIN inflight
               PROVE  /\ StartNpu \in inflight'[j].fired
                      /\ j < Len(inflight) => StartNpu \in inflight'[j].end
                      /\ ~({StartNpu, LastNpu} \subseteq inflight'[j].end)
    BY <1>3 DEF Starts
  <2> QED
    BY <1>1, <1>3 DEF Stages, Starts, Completes
<1> QED
  BY <1>5, <1>6, <1>7 DEF Stages

(* The report that completes a batch removes the oldest one. *)
LEMMA AddDoneRemovesOldest ==
  ASSUME Stages, NEW s \in Npus, NEW i \in DOMAIN inflight, AddDone(s, i)
  PROVE  /\ i = 1
         /\ inflight' = Tail(inflight)
         /\ Len(inflight') = Len(inflight) - 1
         /\ DOMAIN inflight' = 1 .. Len(inflight) - 1
         /\ \A j \in 1 .. Len(inflight) - 1 : inflight'[j] = inflight[j + 1]
<1>1. i = 1
  BY OldestCompletes DEF AddDone
<1>2. inflight \in Seq(BatchType) /\ Len(inflight) \in Nat /\ 1 \in 1 .. Len(inflight)
  BY <1>1 DEF Stages, TypeOK
<1>3. inflight' = SubSeq(inflight, 1, 1 - 1) \o SubSeq(inflight, 1 + 1, Len(inflight))
  BY <1>1 DEF AddDone
<1>4. /\ inflight' \in Seq(BatchType) /\ Len(inflight') = Len(inflight) - 1
      /\ \A j \in 1 .. Len(inflight') : inflight'[j] = IF j < 1 THEN inflight[j] ELSE inflight[j + 1]
  BY <1>2, <1>3, RemovedAt
<1>5. DOMAIN inflight' = 1 .. Len(inflight) - 1
  BY <1>4
<1>6. \A j \in 1 .. Len(inflight) - 1 : inflight'[j] = inflight[j + 1]
  BY <1>2, <1>4
<1>7. /\ Tail(inflight) \in Seq(BatchType) /\ Len(Tail(inflight)) = Len(inflight) - 1
      /\ \A j \in 1 .. Len(inflight) - 1 : Tail(inflight)[j] = inflight[j + 1]
  BY <1>2
<1>8. inflight' = Tail(inflight)
  BY <1>4, <1>6, <1>7, SeqEqual
<1> QED
  BY <1>1, <1>4, <1>5, <1>6, <1>8

LEMMA AddDoneStages ==
  ASSUME Stages, TypeOK', NEW s \in Npus, NEW i \in DOMAIN inflight, AddDone(s, i)
  PROVE  Stages'
<1>1. /\ i = 1
      /\ Len(inflight') = Len(inflight) - 1
      /\ DOMAIN inflight' = 1 .. Len(inflight) - 1
      /\ \A j \in 1 .. Len(inflight) - 1 : inflight'[j] = inflight[j + 1]
  BY AddDoneRemovesOldest
<1>2. /\ s \in inflight[1].fired \ inflight[1].end
      /\ iter' = [iter EXCEPT ![s] = inflight[1].id + 1]
      /\ UNCHANGED batchIds
  BY <1>1 DEF AddDone
<1>3. /\ \A j \in DOMAIN inflight : inflight[j].id \in Nat
      /\ \A q \in Npus : iter[q] \in Nat
      /\ Len(inflight) \in Nat /\ DOMAIN inflight = 1 .. Len(inflight)
      /\ batchIds \in Nat
      /\ 1 \in DOMAIN inflight
  BY <1>1, StageNumbers DEF Stages
<1>4. \A q \in Npus : iter'[q] = IF q = s THEN inflight[1].id + 1 ELSE iter[q]
  BY <1>2 DEF Stages, TypeOK
<1>5. \A j \in 1 .. Len(inflight) - 1 : j + 1 \in DOMAIN inflight /\ 1 < j + 1
  BY <1>3
<1>6. Ids'
  <2>1. \A j, k \in DOMAIN inflight' : j < k => inflight'[j].id < inflight'[k].id
    <3> SUFFICES ASSUME NEW j \in 1 .. Len(inflight) - 1, NEW k \in 1 .. Len(inflight) - 1, j < k
                 PROVE  inflight[j + 1].id < inflight[k + 1].id
      BY <1>1
    <3>1. j + 1 < k + 1
      BY <1>3
    <3> QED
      BY <1>5, <3>1 DEF Stages, Ids
  <2>2. \A j \in DOMAIN inflight' : inflight'[j].id < batchIds
    BY <1>1, <1>5 DEF Stages, Ids
  <2>3. inflight[1].id + 1 <= batchIds
    BY <1>3 DEF Stages, Ids
  <2>4. \A q \in Npus : iter'[q] <= batchIds
    BY <1>4, <2>3 DEF Stages, Ids
  <2> QED
    BY <1>2, <2>1, <2>2, <2>4 DEF Ids
<1>7. Fronts'
  <2> SUFFICES ASSUME NEW q \in Npus \ {StartNpu}, NEW j \in 1 .. Len(inflight) - 1
               PROVE  /\ inflight[j + 1].id < iter'[q] <=> q \in inflight[j + 1].end
                      /\ q \in inflight[j + 1].fired => inflight[j + 1].id <= iter'[q]
    BY <1>1 DEF Fronts
  <2>1. /\ inflight[j + 1].id < iter[q] <=> q \in inflight[j + 1].end
        /\ q \in inflight[j + 1].fired => inflight[j + 1].id <= iter[q]
    BY <1>5 DEF Stages, Fronts
  <2>2. CASE q # s
    BY <1>4, <2>1, <2>2
  <2>3. CASE q = s
    <3>1. iter[s] = inflight[1].id
      BY <1>2, <1>3, <2>3, StageAtBatch
    <3>2. inflight[1].id < inflight[j + 1].id
      BY <1>3, <1>5 DEF Stages, Ids
    <3>3. inflight[1].id \in Nat /\ inflight[j + 1].id \in Nat
      BY <1>3, <1>5
    <3>4. s \notin inflight[j + 1].fired /\ s \notin inflight[j + 1].end
      BY <2>1, <2>3, <3>1, <3>2, <3>3
    <3>5. iter'[s] = inflight[1].id + 1
      BY <1>4
    <3> QED
      BY <2>3, <3>2, <3>3, <3>4, <3>5
  <2> QED
    BY <2>2, <2>3
<1>8. Starts'
  <2> SUFFICES ASSUME NEW j \in 1 .. Len(inflight) - 1
               PROVE  /\ StartNpu \in inflight[j + 1].fired
                      /\ j < Len(inflight) - 1 => StartNpu \in inflight[j + 1].end
                      /\ ~({StartNpu, LastNpu} \subseteq inflight[j + 1].end)
    BY <1>1 DEF Starts
  <2>1. j < Len(inflight) - 1 => j + 1 < Len(inflight)
    BY <1>3
  <2> QED
    BY <1>5, <2>1 DEF Stages, Starts
<1> QED
  BY <1>6, <1>7, <1>8 DEF Stages

LEMMA StagesInductive == Spec => []Stages
<1>1. Init /\ TypeOK => Stages
  <2> SUFFICES ASSUME Init, TypeOK PROVE Ids /\ Fronts /\ Starts
    BY DEF Stages
  <2>1. DOMAIN inflight = {} /\ \A s \in Npus : iter[s] = 0
    BY DEF Init
  <2> QED
    BY <2>1 DEF Init, Ids, Fronts, Starts
<1>2. TypeOK' /\ Stages /\ [Next]_vars => Stages'
  <2> SUFFICES ASSUME TypeOK', Stages, [Next]_vars
               PROVE  Stages'
    OBVIOUS
  <2>1. CASE UNCHANGED <<inflight, iter, batchIds>>
    BY <2>1 DEF Stages, Ids, Fronts, Starts
  <2>2. Tick \/ Stopped \/ UNCHANGED vars => UNCHANGED <<inflight, iter, batchIds>>
    BY DEF Tick, Stopped, vars
  <2>3. ASSUME NEW r \in Req, AddRequest(r) \/ AddDecode(r)
        PROVE  UNCHANGED <<inflight, iter, batchIds>>
    BY <2>3 DEF AddRequest, AddDecode
  <2>4. CASE ScheduleBase
    BY <2>4, ScheduleBaseStages
  <2>5. ASSUME NEW s \in Npus, ScheduleExisting(s)
        PROVE  Stages'
    BY <2>5, ScheduleExistingStages
  <2>6. ASSUME NEW s \in Npus, NEW i \in DOMAIN inflight, Report(s, i)
        PROVE  Stages'
    BY <2>6, ReportStages
  <2>7. ASSUME NEW s \in Npus, NEW i \in DOMAIN inflight, AddDone(s, i)
        PROVE  Stages'
    BY <2>7, AddDoneStages
  <2> QED
    BY <2>1, <2>2, <2>3, <2>4, <2>5, <2>6, <2>7 DEF Next
<1> QED
  BY <1>1, <1>2, TypeCorrect, PTL DEF Spec

(* Batches leave the pipeline in the order they were formed, whatever the  *)
(* order in which the NPUs of the stages report.                           *)
THEOREM PipelineFifoCorrect == Spec => PipelineFifo
<1>1. Stages /\ [Next]_vars
        => [Len(inflight') < Len(inflight) => inflight' = Tail(inflight)]_inflight
  <2> SUFFICES ASSUME Stages, [Next]_vars, Len(inflight') < Len(inflight)
               PROVE  inflight' = Tail(inflight)
    OBVIOUS
  <2>1. inflight \in Seq(BatchType) /\ Len(inflight) \in Nat
    BY DEF Stages, TypeOK
  <2>2. inflight' # inflight
    BY <2>1
  <2>3. ~ScheduleBase
    <3> SUFFICES ASSUME ScheduleBase PROVE FALSE
      OBVIOUS
    <3>1. PICK reqs, gen, tokens, out : Call(reqs, gen, tokens, out)
      BY ScheduleBaseCases DEF Stages
    <3>2. PICK n \in 1 .. Len(reqs) : FormBatch(reqs, tokens, n, out)
      BY <2>2, <3>1 DEF Call, GiveUp
    <3>3. \E b : inflight' = Append(inflight, b)
      BY <3>2 DEF FormBatch
    <3>4. Len(inflight') = Len(inflight) + 1
      BY <2>1, <3>3
    <3> QED
      BY <2>1, <3>4
  <2>4. ASSUME NEW s \in Npus, ScheduleExisting(s)
        PROVE  FALSE
    <3>1. Len(inflight') = Len(inflight)
      BY <2>1, <2>4 DEF ScheduleExisting
    <3> QED
      BY <2>1, <3>1
  <2>5. ASSUME NEW s \in Npus, NEW i \in DOMAIN inflight, Report(s, i)
        PROVE  FALSE
    <3>1. Len(inflight') = Len(inflight)
      BY <2>1, <2>5 DEF Report
    <3> QED
      BY <2>1, <3>1
  <2>6. PICK s \in Npus, i \in DOMAIN inflight : AddDone(s, i)
    <3>1. ~(Tick \/ Stopped \/ UNCHANGED vars)
      BY <2>2 DEF Tick, Stopped, vars
    <3>2. \A r \in Req : ~(AddRequest(r) \/ AddDecode(r))
      BY <2>2 DEF AddRequest, AddDecode
    <3> QED
      BY <2>3, <2>4, <2>5, <3>1, <3>2 DEF Next
  <2> QED
    BY <2>6, AddDoneRemovesOldest
<1> QED
  BY <1>1, StagesInductive, PTL DEF Spec, PipelineFifo

-----------------------------------------------------------------------------
(* The queue *)

Arrived(r) == Arrival(r) <= now

(* The order of the sort key, and the order the early return relies on:    *)
(* behind a request that has not arrived nothing arrives before it.        *)
Age  == {p \in Req \X Req : Earlier(p[1], p[2])}
Late == {p \in Req \X Req : Arrived(p[1]) \/ Arrival(p[1]) <= Arrival(p[2])}

LEMMA ArrivalNat ==
  ASSUME TypeOK
  PROVE  /\ \A r \in Req : Arrival(r) \in Nat /\ r \in Nat
         /\ now \in Nat
<1>1. \A r \in Req : sim.work[r].arrival \in Nat
  <2>1. sim \in SimulationType
    BY DEF TypeOK
  <2>2. sim.work \in [Req -> [input : Nat \ {0}, output : Nat, arrival : Nat]]
    BY <2>1 DEF SimulationType
  <2> QED
    BY <2>2
<1> QED
  BY <1>1, ReqAssumption DEF TypeOK, Arrival

(* (arrival, id) orders the requests totally. *)
LEMMA AgeOrders ==
  ASSUME TypeOK
  PROVE  /\ \A x, y \in Req : <<x, y>> \in Age <=> Earlier(x, y)
         /\ \A x, y, z \in Req : <<x, y>> \in Age /\ <<y, z>> \in Age => <<x, z>> \in Age
         /\ \A x \in Req : <<x, x>> \notin Age
         /\ \A x, y \in Req : x = y \/ <<x, y>> \in Age \/ <<y, x>> \in Age
<1>1. \A r \in Req : Arrival(r) \in Nat /\ r \in Nat
  BY ArrivalNat
<1>2. \A x, y \in Req : <<x, y>> \in Age <=> Earlier(x, y)
  BY DEF Age
<1>3. \A x, y, z \in Req : Earlier(x, y) /\ Earlier(y, z) => Earlier(x, z)
  BY <1>1 DEF Earlier
<1>4. \A x \in Req : ~Earlier(x, x)
  BY <1>1 DEF Earlier
<1>5. \A x, y \in Req : x = y \/ Earlier(x, y) \/ Earlier(y, x)
  BY <1>1 DEF Earlier
<1> QED
  BY <1>2, <1>3, <1>4, <1>5

(* The element with the latest key up to x: it exists, and in a sorted     *)
(* list it is x itself.                                                    *)
LEMMA LeadProperties ==
  ASSUME TypeOK, NEW s \in Seq(Req), Distinct(s), NEW x \in Items(s)
  PROVE  /\ Lead(s, x) \in Items(s)
         /\ Lead(s, x) = x \/ Earlier(x, Lead(s, x))
         /\ InOrderOf(s, Age) => Lead(s, x) = x
<1> DEFINE M == {y \in Items(s) : Pos(s, y) <= Pos(s, x)}
<1>1. Items(s) \subseteq Req
  BY DEF Items
<1>2. \A y \in Items(s) : Pos(s, y) \in 1 .. Len(s) /\ s[Pos(s, y)] = y
  BY PosOf
<1>3. x \in M
  BY <1>2
<1>4. IsFiniteSet(M)
  BY <1>1, ReqAssumption, FS_Subset, M \in SUBSET Req
<1>5. \E y \in M : \A z \in M : z = y \/ <<z, y>> \in Age
  <2>1. M \subseteq Req /\ M # {}
    BY <1>1, <1>3
  <2> HIDE DEF M
  <2>2. /\ \A a, b, c \in M : <<a, b>> \in Age /\ <<b, c>> \in Age => <<a, c>> \in Age
        /\ \A a \in M : <<a, a>> \notin Age
        /\ \A a, b \in M : a = b \/ <<a, b>> \in Age \/ <<b, a>> \in Age
    BY <2>1, AgeOrders
  <2> QED
    BY <1>4, <2>1, <2>2, LastExists
<1>6. \E y \in Items(s) : /\ Pos(s, y) <= Pos(s, x)
                          /\ \A z \in Items(s) : Pos(s, z) <= Pos(s, x) => z = y \/ Earlier(z, y)
  BY <1>1, <1>5, AgeOrders
<1> DEFINE y == Lead(s, x)
<1>7. /\ y \in Items(s) /\ Pos(s, y) <= Pos(s, x)
      /\ \A z \in Items(s) : Pos(s, z) <= Pos(s, x) => z = y \/ Earlier(z, y)
  BY <1>6 DEF Lead
<1> HIDE DEF y
<1>8. y = x \/ Earlier(x, y)
  BY <1>2, <1>7
<1>9. ASSUME InOrderOf(s, Age), y # x
      PROVE  FALSE
  <2>1. Pos(s, y) \in 1 .. Len(s) /\ Pos(s, x) \in 1 .. Len(s)
        /\ s[Pos(s, y)] = y /\ s[Pos(s, x)] = x
    BY <1>2, <1>7
  <2>2. Pos(s, y) < Pos(s, x)
    BY <1>7, <1>9, <2>1
  <2>3. <<y, x>> \in Age
    BY <1>9, <2>1, <2>2 DEF InOrderOf
  <2>4. <<x, y>> \in Age
    BY <1>1, <1>7, <1>8, <1>9, AgeOrders
  <2> QED
    BY <1>1, <1>7, <2>3, <2>4, AgeOrders
<1> QED
  BY <1>7, <1>8, <1>9 DEF y

(* Two sorted lists whose ranges do not overlap. *)
LEMMA RangesApart ==
  ASSUME TypeOK, NEW l \in Seq(Req), NEW r \in Seq(Req), l # <<>>, r # <<>>,
         Items(l) \cap Items(r) = {}, InOrderOf(l, Age), InOrderOf(r, Age),
         ~Earlier(r[1], l[Len(l)])
  PROVE  \A x \in Items(l), y \in Items(r) : <<x, y>> \in Age
<1>1. /\ Len(l) \in DOMAIN l /\ DOMAIN l = 1 .. Len(l)
      /\ 1 \in DOMAIN r /\ DOMAIN r = 1 .. Len(r)
  OBVIOUS
<1> DEFINE a == l[Len(l)]
           b == r[1]
<1>2. a \in Req /\ b \in Req /\ a \in Items(l) /\ b \in Items(r)
  BY <1>1 DEF Items
<1>3. <<a, b>> \in Age
  BY <1>2, AgeOrders
<1>4. \A x \in Items(l) : x \in Req /\ (x = a \/ <<x, a>> \in Age)
  <2> SUFFICES ASSUME NEW i \in 1 .. Len(l)
               PROVE  l[i] \in Req /\ (l[i] = a \/ <<l[i], a>> \in Age)
    BY <1>1 DEF Items
  <2>1. CASE i = Len(l)
    BY <1>2, <2>1
  <2>2. CASE i < Len(l)
    <3>1. i \in DOMAIN l /\ Len(l) \in DOMAIN l
      BY <1>1
    <3>2. <<l[i], l[Len(l)]>> \in Age
      BY <2>2, <3>1 DEF InOrderOf
    <3> QED
      BY <3>2
  <2> QED
    BY <2>1, <2>2
<1>5. \A y \in Items(r) : y \in Req /\ (y = b \/ <<b, y>> \in Age)
  <2> SUFFICES ASSUME NEW i \in 1 .. Len(r)
               PROVE  r[i] \in Req /\ (r[i] = b \/ <<b, r[i]>> \in Age)
    BY <1>1 DEF Items
  <2>1. CASE i = 1
    BY <1>2, <2>1
  <2>2. CASE 1 < i
    <3>1. i \in DOMAIN r /\ 1 \in DOMAIN r
      BY <1>1
    <3>2. <<r[1], r[i]>> \in Age
      BY <2>2, <3>1 DEF InOrderOf
    <3> QED
      BY <3>2
  <2> QED
    BY <2>1, <2>2
<1> HIDE DEF a, b
<1> QED
  BY <1>2, <1>3, <1>4, <1>5, AgeOrders

(* Merging two sorted lists sorts them; merging requests that have all     *)
(* arrived into a queue never puts one behind a request that has not.      *)
LEMMA MergeOrder ==
  ASSUME TypeOK, NEW l \in Seq(Req), NEW r \in Seq(Req), Distinct(l), Distinct(r),
         Items(l) \cap Items(r) = {},
         NEW q \in Arrangements(Items(l) \cup Items(r)), IsMerge(q, l, r)
  PROVE  /\ InOrderOf(l, Age) /\ InOrderOf(r, Age) => InOrderOf(q, Age)
         /\ (\A x \in Items(l) : Arrived(x)) /\ InOrderOf(r, Late) => InOrderOf(q, Late)
<1>1. Items(l) \subseteq Req /\ Items(r) \subseteq Req
  BY DEF Items
<1>2. q \in Seq(Req) /\ Items(q) = Items(l) \cup Items(r) /\ Distinct(q)
  <2>1. Items(l) \cup Items(r) \in SUBSET Req
    BY <1>1
  <2>2. IsFiniteSet(Items(l) \cup Items(r))
    BY <2>1, ReqAssumption, FS_Subset
  <2> QED
    BY <2>1, <2>2, ArrangementProperties
<1>3. \A x, y \in Req : Arrived(x) => <<x, y>> \in Late
  BY DEF Late
<1>4. (\A x \in Items(l) : Arrived(x)) => InOrderOf(l, Late)
  BY <1>1, <1>3 DEF InOrderOf, Items
<1>5. CASE q = l \o r /\ (l = <<>> \/ r = <<>> \/ ~Earlier(r[1], l[Len(l)]))
  <2>1. ASSUME InOrderOf(l, Age), InOrderOf(r, Age)
        PROVE  InOrderOf(q, Age)
    <3>1. \A x \in Items(l), y \in Items(r) : <<x, y>> \in Age
      <4>1. CASE l = <<>> \/ r = <<>>
        BY <4>1 DEF Items
      <4>2. CASE l # <<>> /\ r # <<>>
        BY <1>5, <2>1, <4>2, RangesApart
      <4> QED
        BY <4>1, <4>2
    <3> QED
      BY <1>5, <2>1, <3>1, ConcatOrder
  <2>2. ASSUME \A x \in Items(l) : Arrived(x), InOrderOf(r, Late)
        PROVE  InOrderOf(q, Late)
    <3>1. \A x \in Items(l), y \in Items(r) : <<x, y>> \in Late
      BY <1>1, <1>3, <2>2
    <3> QED
      BY <1>4, <1>5, <2>2, <3>1, ConcatOrder
  <2> QED
    BY <2>1, <2>2
<1>6. CASE q = r \o l /\ l # <<>> /\ r # <<>> /\ ~Earlier(l[1], r[Len(r)])
  <2>1. ASSUME InOrderOf(l, Age), InOrderOf(r, Age)
        PROVE  InOrderOf(q, Age)
    <3>1. \A x \in Items(r), y \in Items(l) : <<x, y>> \in Age
      BY <1>6, <2>1, RangesApart
    <3> QED
      BY <1>6, <2>1, <3>1, ConcatOrder
  <2>2. ASSUME \A x \in Items(l) : Arrived(x), InOrderOf(r, Late)
        PROVE  InOrderOf(q, Late)
    <3>1. /\ 1 \in DOMAIN l /\ Len(r) \in DOMAIN r /\ DOMAIN r = 1 .. Len(r)
          /\ l[1] \in Req /\ r[Len(r)] \in Req /\ l[1] \in Items(l)
      BY <1>6 DEF Items
    <3>2. Arrived(r[Len(r)])
      <4>1. Arrival(r[Len(r)]) <= Arrival(l[1])
        BY <1>6, <3>1, ArrivalNat DEF Earlier
      <4>2. Arrived(l[1])
        BY <2>2, <3>1
      <4> QED
        BY <3>1, <4>1, <4>2, ArrivalNat DEF Arrived
    <3>3. ASSUME NEW i \in DOMAIN r
          PROVE  Arrived(r[i])
      <4>1. CASE i = Len(r)
        BY <3>2, <4>1
      <4>2. CASE i < Len(r)
        <5>1. <<r[i], r[Len(r)]>> \in Late /\ r[i] \in Req
          BY <2>2, <3>1, <4>2 DEF InOrderOf
        <5>2. Arrived(r[i]) \/ Arrival(r[i]) <= Arrival(r[Len(r)])
          BY <5>1 DEF Late
        <5> QED
          BY <3>1, <3>2, <5>1, <5>2, ArrivalNat DEF Arrived
      <4> QED
        BY <3>1, <4>1, <4>2
    <3>4. \A x \in Items(r), y \in Items(l) : <<x, y>> \in Late
      BY <1>1, <1>3, <3>3 DEF Items
    <3> QED
      BY <1>4, <1>6, <2>2, <3>4, ConcatOrder
  <2> QED
    BY <2>1, <2>2
<1>7. CASE /\ Keep(q, Items(l)) = l /\ Keep(q, Items(r)) = r
           /\ \A x \in Items(l), y \in Items(r) :
                Pos(q, x) < Pos(q, y) <=> Earlier(Lead(l, x), Lead(r, y))
  <2>1. /\ DOMAIN q = 1 .. Len(q)
        /\ \A i \in 1 .. Len(q) : Pos(q, q[i]) = i /\ q[i] \in Items(l) \cup Items(r)
    <3>1. DOMAIN q = 1 .. Len(q)
      BY <1>2
    <3>2. \A i \in 1 .. Len(q) : q[i] \in Items(q)
      BY <3>1 DEF Items
    <3>3. \A i \in 1 .. Len(q) : Pos(q, q[i]) = i
      BY <1>2, PosOf
    <3> QED
      BY <1>2, <3>1, <3>2, <3>3
  <2>2. ASSUME InOrderOf(l, Age), InOrderOf(r, Age),
               NEW i \in 1 .. Len(q), NEW j \in 1 .. Len(q), i < j
        PROVE  <<q[i], q[j]>> \in Age
    <3>1. CASE q[i] \in Items(l) /\ q[j] \in Items(l)
      BY <1>2, <1>7, <2>2, <3>1, OrderFromKept
    <3>2. CASE q[i] \in Items(r) /\ q[j] \in Items(r)
      BY <1>2, <1>7, <2>2, <3>2, OrderFromKept
    <3>3. CASE q[i] \in Items(l) /\ q[j] \in Items(r)
      <4>1. Lead(l, q[i]) = q[i] /\ Lead(r, q[j]) = q[j]
        BY <2>2, <3>3, LeadProperties
      <4> QED
        BY <1>1, <1>7, <2>1, <2>2, <3>3, <4>1, AgeOrders
    <3>4. CASE q[i] \in Items(r) /\ q[j] \in Items(l)
      <4>1. Lead(r, q[i]) = q[i] /\ Lead(l, q[j]) = q[j]
        BY <2>2, <3>4, LeadProperties
      <4>2. ~(Pos(q, q[j]) < Pos(q, q[i]))
        BY <2>1, <2>2
      <4>3. ~Earlier(q[j], q[i]) /\ q[i] # q[j]
        BY <1>7, <3>4, <4>1, <4>2
      <4> QED
        BY <1>1, <3>4, <4>3, AgeOrders
    <3> QED
      BY <2>1, <3>1, <3>2, <3>3, <3>4
  <2>3. ASSUME \A x \in Items(l) : Arrived(x), InOrderOf(r, Late),
               NEW i \in 1 .. Len(q), NEW j \in 1 .. Len(q), i < j
        PROVE  <<q[i], q[j]>> \in Late
    <3>1. CASE Arrived(q[i])
      BY <1>1, <1>3, <2>1, <3>1
    <3>2. CASE ~Arrived(q[i]) /\ q[j] \in Items(r)
      <4>1. q[i] \in Items(r)
        BY <2>1, <2>3, <3>2
      <4> QED
        BY <1>2, <1>7, <2>3, <3>2, <4>1, OrderFromKept
    <3>3. CASE ~Arrived(q[i]) /\ q[j] \in Items(l)
      <4>1. q[i] \in Items(r)
        BY <2>1, <2>3, <3>3
      <4> DEFINE a == Lead(l, q[j])
                 b == Lead(r, q[i])
      <4>2. a \in Items(l) /\ b \in Items(r) /\ (b = q[i] \/ Earlier(q[i], b))
        BY <3>3, <4>1, LeadProperties
      <4>3. ~Earlier(a, b)
        BY <1>7, <2>1, <2>3, <3>3, <4>1
      <4> HIDE DEF a, b
      <4>4. Arrival(a) <= now
        BY <2>3, <4>2 DEF Arrived
      <4>5. a \in Req /\ b \in Req /\ q[i] \in Req
        BY <1>1, <4>1, <4>2
      <4>6. Arrival(q[i]) > now /\ Arrival(q[i]) <= Arrival(b)
        BY <3>3, <4>2, <4>5, ArrivalNat DEF Arrived, Earlier
      <4> QED
        BY <4>3, <4>4, <4>5, <4>6, ArrivalNat DEF Earlier
    <3> QED
      BY <2>1, <3>1, <3>2, <3>3
  <2> QED
    BY <2>1, <2>2, <2>3 DEF InOrderOf
<1> QED
  BY <1>5, <1>6, <1>7 DEF IsMerge

(* The router hands requests over in the order of their keys. *)
HandedInOrder ==
  PdType # "decode" => \A q \in Req \ pending, s \in pending : Earlier(q, s)

(* What runs has arrived; unless everything is queued before the run, so   *)
(* has whatever the router has handed over.                                *)
NoneTooEarly ==
  /\ \A r \in Running : Arrived(r)
  /\ PdType = "decode" \/ ~PreRouted => \A r \in Req \ pending : Arrived(r)

(* With one batch at a time and whole prompts the queue is sorted, and so  *)
(* is the batch, which is older than what is queued unless prefills are    *)
(* preferred.                                                              *)
OneAtATime ==
  ~Chunked /\ PpSize = 1 /\ PdType # "decode" =>
    /\ InOrderOf(request, Age)
    /\ \A i \in DOMAIN inflight :
         /\ InOrderOf(inflight[i].reqs, Age)
         /\ ~PrioritizePrefill =>
              \A x \in Batched(inflight[i]), y \in Queued : <<x, y>> \in Age

(* What QueueInOrder rests on. *)
Order ==
  /\ Progress
  /\ HandedInOrder /\ NoneTooEarly /\ InOrderOf(request, Late) /\ OneAtATime

LEMMA OrderTypes ==
  ASSUME Progress
  PROVE  /\ Whereabouts /\ TypeOK
         /\ request \in Seq(Req) /\ Distinct(request)
         /\ Queued \subseteq Req /\ Running \subseteq Req /\ Running \cap Queued = {}
         /\ \A i \in DOMAIN inflight : /\ inflight[i].reqs \in Seq(Req)
                                       /\ Distinct(inflight[i].reqs)
                                       /\ Batched(inflight[i]) \subseteq Running
<1>1. Whereabouts /\ TypeOK
  BY DEF Progress, Whereabouts
<1>2. /\ Running \subseteq Req /\ Running \cap Queued = {}
      /\ BatchesApart(inflight) /\ Running = InPipeline(inflight)
  BY <1>1, RunningIsPipeline
<1>3. request \in Seq(Req) /\ inflight \in Seq(BatchType)
  BY <1>1 DEF TypeOK
<1>4. Distinct(request) /\ Queued \subseteq Req
  BY <1>1, <1>3 DEF Whereabouts, OnePlace, Queued, Items
<1>5. \A i \in DOMAIN inflight : inflight[i].reqs \in Seq(Req)
  <2>1. \A i \in DOMAIN inflight : inflight[i] \in BatchType
    BY <1>3, ElementOfSeq
  <2> QED
    BY <2>1 DEF BatchType
<1>6. \A i \in DOMAIN inflight : /\ Distinct(inflight[i].reqs)
                                 /\ Batched(inflight[i]) \subseteq Running
  BY <1>2 DEF BatchesApart, InPipeline, Batched
<1> QED
  BY <1>1, <1>2, <1>3, <1>4, <1>5, <1>6

(* Time passes or a stage is marked: what was in order still is. *)
LEMMA NothingReordered ==
  ASSUME Order, Progress', UNCHANGED <<sim, pending, request>>, now' >= now,
         DOMAIN inflight' = DOMAIN inflight,
         \A i \in DOMAIN inflight : inflight'[i].reqs = inflight[i].reqs
  PROVE  Order'
<1>1. TypeOK /\ TypeOK'
  BY DEF Order, Progress, Whereabouts
<1>2. /\ \A r \in Req : Arrival(r)' = Arrival(r)
      /\ \A r, s \in Req : Earlier(r, s)' <=> Earlier(r, s)
      /\ PdType' = PdType /\ PreRouted' = PreRouted /\ Chunked' = Chunked
      /\ PpSize' = PpSize /\ PrioritizePrefill' = PrioritizePrefill
  BY DEF Arrival, Earlier, PdType, PreRouted, Chunked, PpSize, PrioritizePrefill
<1>3. \A r \in Req : Arrived(r) => Arrived(r)'
  <2> SUFFICES ASSUME NEW r \in Req, Arrival(r) <= now PROVE Arrival(r) <= now'
    BY <1>2 DEF Arrived
  <2> QED
    BY <1>1, ArrivalNat DEF TypeOK
<1>4. Age' = Age /\ Late \subseteq Late'
  BY <1>2, <1>3 DEF Age, Late
<1>5. Running' = Running /\ Queued' = Queued
      /\ \A i \in DOMAIN inflight : Batched(inflight'[i]) = Batched(inflight[i])
  BY DEF Running, Queued, Batched
<1>6. Running \subseteq Req /\ pending \subseteq Req
  BY <1>1, OrderTypes DEF Order, TypeOK
<1>7. HandedInOrder'
  BY <1>2, <1>6 DEF Order, HandedInOrder
<1>8. NoneTooEarly'
  BY <1>2, <1>3, <1>5, <1>6 DEF Order, NoneTooEarly
<1>9. InOrderOf(request', Late')
  BY <1>4 DEF Order, InOrderOf
<1>10. OneAtATime'
  BY <1>2, <1>4, <1>5 DEF Order, OneAtATime
<1> QED
  BY <1>7, <1>8, <1>9, <1>10 DEF Order

(* The router hands over the oldest request it holds; a request handed     *)
(* over by a prefill instance has arrived, like everything queued here.    *)
LEMMA ArrivalOrder ==
  ASSUME Order, Progress', NEW r \in Req, AddRequest(r) \/ AddDecode(r)
  PROVE  Order'
<1>1. TypeOK /\ request \in Seq(Req) /\ Queued \subseteq Req /\ Running \subseteq Req
      /\ \A i \in DOMAIN inflight : Batched(inflight[i]) \subseteq Running
  BY OrderTypes DEF Order
<1>2. /\ UNCHANGED <<sim, now, inflight>>
      /\ r \in pending /\ request' = Append(request, r) /\ pending' = pending \ {r}
      /\ PdType # "decode" => \A s \in pending : s = r \/ Earlier(r, s)
      /\ PdType = "decode" \/ ~PreRouted => Arrived(r)
  BY DEF AddRequest, AddDecode, Arrived
<1>3. /\ Age' = Age /\ Late' = Late /\ \A q \in Req : Arrived(q)' <=> Arrived(q)
      /\ \A q, s \in Req : Earlier(q, s)' <=> Earlier(q, s)
      /\ UNCHANGED <<PdType, PreRouted, Chunked, PpSize, PrioritizePrefill>>
  BY <1>2 DEF Age, Late, Arrived, Arrival, Earlier, PdType, PreRouted, Chunked, PpSize,
              PrioritizePrefill
<1>4. /\ QueuePlacement(Req, pending, request, inflight, finished)
      /\ pending \cap (Queued \cup Running) = {} /\ pending \subseteq Req
  <2>1. QueuePlacement(Req, pending, request, inflight, finished)
    BY OnePlaceIsPlacement DEF Order, Progress, Whereabouts
  <2>2. Running = InPipeline(inflight)
    BY RunningIsPipeline DEF Order, Progress
  <2> QED
    BY <1>1, <2>1, <2>2 DEF QueuePlacement, Queued, TypeOK
<1>5. Queued' = Queued \cup {r} /\ Running' = Running
  BY <1>1, <1>2, AppendItems DEF Queued, Running
<1>6. HandedInOrder'
  BY <1>2, <1>3, <1>4 DEF Order, HandedInOrder
<1>7. NoneTooEarly'
  BY <1>1, <1>2, <1>3, <1>5 DEF Order, NoneTooEarly
<1>8. \A i \in 1 .. Len(request) : request[i] \in Queued
  <2>1. DOMAIN request = 1 .. Len(request)
    BY <1>1
  <2> QED
    BY <2>1 DEF Queued, Items
<1>9. InOrderOf(request', Late')
  <2>1. \A q \in Queued : <<q, r>> \in Late
    <3> SUFFICES ASSUME NEW q \in Queued
                 PROVE  Arrived(q) \/ Arrival(q) <= Arrival(r)
      BY <1>1 DEF Late
    <3>1. q \in Req \ pending
      BY <1>1, <1>4
    <3>2. CASE PdType = "decode"
      BY <3>1, <3>2 DEF Order, NoneTooEarly
    <3>3. CASE PdType # "decode"
      <4>1. Earlier(q, r)
        BY <1>2, <3>1, <3>3 DEF Order, HandedInOrder
      <4> QED
        BY <1>1, <3>1, <4>1, ArrivalNat DEF Earlier
    <3> QED
      BY <3>2, <3>3
  <2>2. InOrderOf(Append(request, r), Late)
    BY <1>1, <1>8, <2>1, OrderKept DEF Order
  <2> QED
    BY <1>2, <1>3, <2>2
<1>10. OneAtATime'
  <2> SUFFICES ASSUME ~Chunked, PpSize = 1, PdType # "decode"
               PROVE  /\ InOrderOf(request', Age)
                      /\ \A i \in DOMAIN inflight :
                           /\ InOrderOf(inflight[i].reqs, Age)
                           /\ ~PrioritizePrefill =>
                                \A x \in Batched(inflight[i]), y \in Queued' : <<x, y>> \in Age
    BY <1>2, <1>3 DEF OneAtATime
  <2>1. \A q \in Req \ pending : <<q, r>> \in Age
    BY <1>1, <1>2, AgeOrders DEF Order, HandedInOrder
  <2>2. /\ \A q \in Queued : q \in Req \ pending
        /\ \A q \in Running : q \in Req \ pending
    BY <1>1, <1>4
  <2>3. InOrderOf(Append(request, r), Age)
    BY <1>1, <1>8, <2>1, <2>2, OrderKept DEF Order, OneAtATime
  <2> QED
    BY <1>1, <1>2, <1>5, <2>1, <2>2, <2>3 DEF Order, OneAtATime
<1> QED
  BY <1>6, <1>7, <1>9, <1>10 DEF Order

(* The candidates are the arrived head of the queue. *)
LEMMA CandidatesOrder ==
  ASSUME TypeOK
  PROVE  LET A == Keep(request, {r \in Req : Arrived(r)})
         IN  /\ A \in Seq(Req) /\ Items(A) = {r \in Queued : Arrived(r)}
             /\ \E c \in 0 .. Len(A) : Candidates = Prefix(A, c)
<1> DEFINE A == Keep(request, {r \in Req : Arrived(r)})
           c == Least(Len(A), Slots)
<1>1. request \in Seq(Req)
  BY DEF TypeOK
<1>2. A \in Seq(Req) /\ Items(A) = Items(request) \cap {r \in Req : Arrived(r)}
  BY <1>1, KeepProperties
<1>3. Items(request) \subseteq Req
  BY <1>1 DEF Items
<1>4. Candidates = Prefix(A, c)
  BY DEF Candidates, Arrived
<1> HIDE DEF A
<1>5. c \in 0 .. Len(A)
  BY <1>2, SlotsNat DEF Least
<1> QED
  BY <1>2, <1>3, <1>4, <1>5 DEF A, Queued

(* What schedule_base takes has arrived; with whole prompts it is in the   *)
(* order of the queue, and unless prefills are preferred it is the head of *)
(* what has arrived.                                                       *)
LEMMA TakenInOrder ==
  ASSUME TypeOK, NEW n \in 1 .. Len(Budgeted(Ordered(Candidates)))
  PROVE  LET batch == Prefix(Budgeted(Ordered(Candidates)), n)
         IN  /\ batch \in Seq(Req)
             /\ \A x \in Items(batch) : Arrived(x) /\ x \in Queued
             /\ ~Chunked /\ InOrderOf(request, Age) =>
                  /\ InOrderOf(batch, Age)
                  /\ ~PrioritizePrefill =>
                       \A x \in Items(batch), y \in Queued \ Items(batch) : <<x, y>> \in Age
<1> DEFINE A == Keep(request, {r \in Req : Arrived(r)})
           C == Candidates
           S == Ordered(C)
           R == Budgeted(S)
           batch == Prefix(R, n)
<1>1. A \in Seq(Req) /\ Items(A) = {r \in Queued : Arrived(r)}
  BY CandidatesOrder
<1>2. PICK c \in 0 .. Len(A) : C = Prefix(A, c)
  BY CandidatesOrder
<1>3. /\ C \in Seq(Req) /\ Len(C) = c /\ Items(C) \subseteq Items(A)
      /\ \A i \in 1 .. c : C[i] = A[i]
  BY <1>1, <1>2, PrefixProperties
<1>4. S \in Seq(Req) /\ Items(S) \subseteq Items(C)
  BY <1>3, OrderedProperties
<1>5. /\ R \in Seq(Req) /\ Len(R) \in 0 .. Len(S) /\ Items(R) \subseteq Items(S)
      /\ \A i \in 1 .. Len(R) : R[i] = S[i]
  BY <1>4, BudgetedProperties
<1>6. n \in 0 .. Len(R)
  BY <1>5
<1>7. /\ batch \in Seq(Req) /\ Len(batch) = n /\ Items(batch) \subseteq Items(R)
      /\ \A i \in 1 .. n : batch[i] = R[i]
  BY <1>5, <1>6, PrefixProperties
<1>8. \A x \in Items(batch) : Arrived(x) /\ x \in Queued
  BY <1>1, <1>3, <1>4, <1>5, <1>7
<1>9. ASSUME ~Chunked, InOrderOf(request, Age)
      PROVE  InOrderOf(A, Age) /\ InOrderOf(batch, Age)
  <2>1. request \in Seq(Req)
    BY DEF TypeOK
  <2>2. InOrderOf(A, Age)
    BY <1>9, <2>1, OrderKept
  <2>3. InOrderOf(C, Age)
    BY <1>1, <1>2, <2>2, OrderKept
  <2>4. S = Keep(C, Prefills) \/ S = C
    BY <1>9 DEF Ordered
  <2>5. InOrderOf(Keep(C, Prefills), Age)
    BY <1>3, <2>3, OrderKept
  <2>6. InOrderOf(S, Age)
    BY <2>3, <2>4, <2>5
  <2>7. DOMAIN R = 1 .. Len(R) /\ DOMAIN S = 1 .. Len(S) /\ DOMAIN batch = 1 .. n
    BY <1>4, <1>5, <1>7
  <2> HIDE DEF A, C, S, R, batch
  <2>8. InOrderOf(R, Age)
    BY <1>5, <2>6, <2>7 DEF InOrderOf
  <2> USE DEF batch
  <2> QED
    BY <1>5, <1>6, <2>2, <2>8, OrderKept
<1>10. ASSUME ~Chunked, InOrderOf(request, Age), ~PrioritizePrefill,
              NEW x \in Items(batch), NEW y \in Queued \ Items(batch)
       PROVE  <<x, y>> \in Age
  <2>1. S = C
    BY <1>10 DEF Ordered
  <2>2. InOrderOf(A, Age)
    BY <1>9, <1>10
  <2>3. DOMAIN A = 1 .. Len(A) /\ DOMAIN batch = 1 .. n
    BY <1>1, <1>7
  <2>4. x \in Req /\ y \in Req /\ Arrived(x)
    BY <1>8 DEF TypeOK, Queued, Items
  <2> HIDE DEF A, C, S, R, batch
  <2>5. \A i \in 1 .. n : i \in 1 .. Len(A) /\ batch[i] = A[i]
    BY <1>3, <1>5, <1>6, <1>7, <2>1
  <2>6. CASE ~Arrived(y)
    <3>1. Arrival(x) <= now /\ ~(Arrival(y) <= now)
      BY <2>4, <2>6 DEF Arrived
    <3>2. Earlier(x, y)
      BY <2>4, <3>1, ArrivalNat DEF Earlier
    <3> QED
      BY <2>4, <3>2, AgeOrders
  <2>7. CASE Arrived(y)
    <3>1. PICK i \in 1 .. n : batch[i] = x
      BY <2>3 DEF Items
    <3>2. y \in Items(A)
      BY <1>1, <2>7
    <3>3. PICK j \in 1 .. Len(A) : A[j] = y
      BY <2>3, <3>2 DEF Items
    <3>4. ~(j \in 1 .. n)
      BY <2>3, <2>5, <3>3 DEF Items
    <3>5. i < j
      BY <1>6, <3>4
    <3> QED
      BY <2>2, <2>3, <2>5, <3>1, <3>3, <3>5 DEF InOrderOf
  <2> QED
    BY <2>6, <2>7
<1> QED
  BY <1>7, <1>8, <1>9, <1>10

LEMMA ScheduleBaseOrder ==
  ASSUME Order, Progress', ScheduleBase
  PROVE  Order'
<1>1. PICK reqs, gen, tokens, out : Call(reqs, gen, tokens, out)
  BY ScheduleBaseCases DEF Order, Progress, Whereabouts
<1>2. UNCHANGED <<sim, now, pending>> /\ Len(inflight) < PpSize
  BY DEF ScheduleBase, CanSchedule
<1>3. TypeOK /\ Whereabouts /\ request \in Seq(Req) /\ Queued \subseteq Req /\ now \in Nat
  BY OrderTypes DEF Order, TypeOK
<1>4. CASE UNCHANGED <<request, inflight>>
  <2>1. now' >= now
    BY <1>2, <1>3
  <2> QED
    BY <1>2, <1>4, <2>1, NothingReordered
<1>5. ASSUME NEW n \in 1 .. Len(reqs), FormBatch(reqs, tokens, n, out)
      PROVE  Order'
  <2> DEFINE batch == Prefix(reqs, n)
             taken == Items(batch)
             b == [id |-> batchIds, reqs |-> batch, fired |-> {StartNpu}, end |-> {}]
  <2>1. reqs = Budgeted(Ordered(Candidates))
    BY <1>1 DEF Call
  <2>2. /\ batch \in Seq(Req)
        /\ \A x \in taken : Arrived(x) /\ x \in Queued
        /\ ~Chunked /\ InOrderOf(request, Age) =>
             /\ InOrderOf(batch, Age)
             /\ ~PrioritizePrefill => \A x \in taken, y \in Queued \ taken : <<x, y>> \in Age
    BY <1>3, <2>1, TakenInOrder
  <2>3. Queued' = Queued \ taken /\ InPipeline(inflight') = InPipeline(inflight) \cup taken
    BY <1>1, <1>3, <1>5, BatchFormed
  <2>4. request' = Keep(request, Req \ taken) /\ inflight' = Append(inflight, b)
    BY <1>5 DEF FormBatch
  <2>5. /\ Age' = Age /\ Late' = Late /\ \A q \in Req : Arrived(q)' <=> Arrived(q)
        /\ \A q, s \in Req : Earlier(q, s)' <=> Earlier(q, s)
        /\ UNCHANGED <<PdType, PreRouted, Chunked, PpSize, PrioritizePrefill>>
    BY <1>2 DEF Age, Late, Arrived, Arrival, Earlier, PdType, PreRouted, Chunked, PpSize,
                PrioritizePrefill
  <2> HIDE DEF taken, batch
  <2>6. Running' = Running \cup taken
    BY <2>3 DEF Running, InPipeline, Batched
  <2>7. pending \subseteq Req /\ Running \subseteq Req /\ taken \subseteq Req
    BY <1>3, <2>2, OrderTypes DEF Order, TypeOK
  <2>8. HandedInOrder'
    BY <1>2, <2>5, <2>7 DEF Order, HandedInOrder
  <2>9. NoneTooEarly'
    BY <1>2, <2>2, <2>5, <2>6, <2>7 DEF Order, NoneTooEarly
  <2>10. InOrderOf(request', Late')
    BY <1>3, <2>4, <2>5, OrderKept DEF Order
  <2>11. OneAtATime'
    <3> SUFFICES ASSUME ~Chunked, PpSize = 1, PdType # "decode"
                 PROVE  /\ InOrderOf(request', Age)
                        /\ \A i \in DOMAIN inflight' :
                             /\ InOrderOf(inflight'[i].reqs, Age)
                             /\ ~PrioritizePrefill =>
                                  \A x \in Batched(inflight'[i]), y \in Queued' : <<x, y>> \in Age
      BY <2>5 DEF OneAtATime
    <3>1. InOrderOf(request, Age)
      BY DEF Order, OneAtATime
    <3>2. InOrderOf(request', Age)
      BY <1>3, <2>4, <3>1, OrderKept
    <3>3. /\ DOMAIN inflight' = {1} /\ inflight'[1] = b
      <4>1. inflight \in Seq(BatchType) /\ Len(inflight) = 0
        BY <1>2, <1>3 DEF TypeOK
      <4> HIDE DEF b
      <4> QED
        BY <2>4, <4>1
    <3>4. b.reqs = batch /\ Batched(b) = taken
      BY DEF Batched, taken
    <3> HIDE DEF b
    <3> QED
      BY <2>2, <2>3, <3>1, <3>2, <3>3, <3>4
  <2> QED
    BY <2>8, <2>9, <2>10, <2>11 DEF Order
<1> QED
  BY <1>1, <1>4, <1>5 DEF Call, GiveUp

(* What comes back from the pipeline goes in front of the queue or is      *)
(* merged into it, and the queue stays in order.                           *)
LEMMA AddDoneOrder ==
  ASSUME Order, Progress', NEW s \in Npus, NEW i \in DOMAIN inflight, AddDone(s, i)
  PROVE  Order'
<1> DEFINE batch == Batched(inflight[i])
           leaves == {r \in batch : Leaves(r)}
           pool == Keep(inflight[i].reqs, Req \ leaves)
<1>1. /\ TypeOK /\ Whereabouts
      /\ request \in Seq(Req) /\ Distinct(request) /\ Queued \subseteq Req
      /\ Running \subseteq Req /\ Running \cap Queued = {}
      /\ inflight[i].reqs \in Seq(Req) /\ Distinct(inflight[i].reqs)
      /\ batch \subseteq Running
  BY OrderTypes DEF Order
<1>2. UNCHANGED <<sim, now, pending>> /\ Requeue(pool)
  BY DEF AddDone
<1>3. Running' = Running \ batch /\ Len(inflight') = Len(inflight) - 1
  BY <1>1, BatchDone
<1>4. /\ Age' = Age /\ Late' = Late /\ \A q \in Req : Arrived(q)' <=> Arrived(q)
      /\ \A q, r \in Req : Earlier(q, r)' <=> Earlier(q, r)
      /\ UNCHANGED <<PdType, PreRouted, Chunked, PpSize, PrioritizePrefill>>
  BY <1>2 DEF Age, Late, Arrived, Arrival, Earlier, PdType, PreRouted, Chunked, PpSize,
              PrioritizePrefill
<1>5. /\ pool \in Seq(Req) /\ Distinct(pool)
      /\ Items(pool) \subseteq batch
  <2>1. Items(pool) \subseteq Items(inflight[i].reqs) /\ pool \in Seq(Req) /\ Distinct(pool)
    BY <1>1, KeepProperties
  <2> QED
    BY <2>1 DEF Batched
<1>6. InOrderOf(inflight[i].reqs, Age) => InOrderOf(pool, Age)
  BY <1>1, OrderKept
<1> HIDE DEF pool
<1>7. \A x \in Items(pool) : x \in Req /\ Arrived(x) /\ x \notin Queued
  BY <1>1, <1>5 DEF Order, NoneTooEarly
<1>8. /\ DOMAIN pool = 1 .. Len(pool) /\ \A k \in DOMAIN pool : pool[k] \in Items(pool)
      /\ Items(request) = Queued
  BY <1>5 DEF Items, Queued
<1>9. HandedInOrder'
  BY <1>1, <1>2, <1>4 DEF Order, HandedInOrder, TypeOK
<1>10. NoneTooEarly'
  BY <1>1, <1>2, <1>3, <1>4 DEF Order, NoneTooEarly
<1>11. InOrderOf(request', Late)
  <2>1. CASE PrioritizePrefill
    <3>1. PICK q \in Arrangements(Items(pool) \cup Items(request)) :
            IsMerge(q, pool, request) /\ request' = q
      BY <1>2, <2>1, <1>8 DEF Requeue
    <3>2. Items(pool) \cap Items(request) = {}
      BY <1>7, <1>8
    <3> QED
      BY <1>1, <1>5, <1>7, <3>1, <3>2, MergeOrder DEF Order
  <2>2. CASE ~PrioritizePrefill
    <3>1. request' = pool \o request
      BY <1>2, <2>2 DEF Requeue
    <3>2. InOrderOf(pool, Late)
      BY <1>7, <1>8 DEF InOrderOf, Late
    <3>3. \A x \in Items(pool), y \in Items(request) : <<x, y>> \in Late
      BY <1>1, <1>7, <1>8 DEF Late
    <3>4. InOrderOf(pool \o request, Late)
      BY <1>1, <1>5, <3>2, <3>3, ConcatOrder DEF Order
    <3> QED
      BY <3>1, <3>4
  <2> QED
    BY <2>1, <2>2
<1>12. OneAtATime'
  <2> SUFFICES ASSUME ~Chunked, PpSize = 1, PdType # "decode"
               PROVE  InOrderOf(request', Age) /\ DOMAIN inflight' = {}
    BY <1>4 DEF OneAtATime
  <2>1. /\ InOrderOf(request, Age) /\ InOrderOf(pool, Age)
        /\ ~PrioritizePrefill => \A x \in batch, y \in Queued : <<x, y>> \in Age
    BY <1>6 DEF Order, OneAtATime
  <2>2. DOMAIN inflight' = {}
    <3>1. Len(inflight) <= PpSize
      BY DEF Order, Progress, WithinLimits
    <3>2. inflight \in Seq(BatchType) /\ inflight' \in Seq(BatchType)
      BY <1>1 DEF TypeOK, Progress, Whereabouts
    <3>3. DOMAIN inflight' = 1 .. Len(inflight') /\ Len(inflight') \in Nat /\ Len(inflight) \in Nat
      BY <3>2
    <3> QED
      BY <1>3, <3>1, <3>3
  <2>3. CASE PrioritizePrefill
    <3>1. PICK q \in Arrangements(Items(pool) \cup Items(request)) :
            IsMerge(q, pool, request) /\ request' = q
      BY <1>2, <2>3, <1>8 DEF Requeue
    <3>2. Items(pool) \cap Items(request) = {}
      BY <1>7, <1>8
    <3>3. InOrderOf(q, Age)
      BY <1>1, <1>5, <2>1, <3>1, <3>2, MergeOrder
    <3> QED
      BY <2>2, <3>1, <3>3
  <2>4. CASE ~PrioritizePrefill
    <3>1. request' = pool \o request
      BY <1>2, <2>4 DEF Requeue
    <3>2. \A x \in Items(pool), y \in Items(request) : <<x, y>> \in Age
      BY <1>5, <1>8, <2>1, <2>4
    <3>3. InOrderOf(pool \o request, Age)
      BY <1>1, <1>5, <2>1, <3>2, ConcatOrder
    <3> QED
      BY <2>2, <3>1, <3>3
  <2> QED
    BY <2>3, <2>4
<1> QED
  BY <1>4, <1>9, <1>10, <1>11, <1>12 DEF Order

LEMMA InitOrder ==
  ASSUME Init, Progress
  PROVE  Order
<1>1. /\ DOMAIN request = {} /\ DOMAIN inflight = {} /\ pending = Req /\ Running = {}
  BY DEF Init, Running
<1> QED
  BY <1>1 DEF Order, HandedInOrder, NoneTooEarly, InOrderOf, OneAtATime

LEMMA OrderInductive == Spec => []Order
<1>1. Init /\ Progress => Order
  BY InitOrder
<1>2. Progress' /\ Order /\ [Next]_vars => Order'
  <2> SUFFICES ASSUME Progress', Order, [Next]_vars
               PROVE  Order'
    OBVIOUS
  <2>0. now \in Nat
    BY DEF Order, Progress, Whereabouts, TypeOK
  <2>1. CASE Tick \/ Stopped \/ UNCHANGED vars
    <3>1. now' >= now
      BY <2>0, <2>1 DEF Tick, Stopped, vars
    <3> QED
      BY <2>1, <3>1, NothingReordered DEF Tick, Stopped, vars
  <2>2. ASSUME NEW r \in Req, AddRequest(r) \/ AddDecode(r)
        PROVE  Order'
    BY <2>2, ArrivalOrder
  <2>3. CASE ScheduleBase
    BY <2>3, ScheduleBaseOrder
  <2>4. ASSUME NEW s \in Npus, ScheduleExisting(s)
        PROVE  Order'
    <3>1. /\ DOMAIN inflight' = DOMAIN inflight
          /\ \A i \in DOMAIN inflight : inflight'[i].reqs = inflight[i].reqs
      BY <2>4 DEF ScheduleExisting, Order, Progress, Whereabouts, TypeOK, BatchType
    <3> QED
      BY <2>0, <2>4, <3>1, NothingReordered DEF ScheduleExisting
  <2>5. ASSUME NEW s \in Npus, NEW i \in DOMAIN inflight, Report(s, i)
        PROVE  Order'
    <3>1. /\ DOMAIN inflight' = DOMAIN inflight
          /\ \A j \in DOMAIN inflight : inflight'[j].reqs = inflight[j].reqs
      BY <2>5 DEF Report, Order, Progress, Whereabouts, TypeOK, BatchType
    <3> QED
      BY <2>0, <2>5, <3>1, NothingReordered DEF Report
  <2>6. ASSUME NEW s \in Npus, NEW i \in DOMAIN inflight, AddDone(s, i)
        PROVE  Order'
    BY <2>6, AddDoneOrder
  <2> QED
    BY <2>1, <2>2, <2>3, <2>4, <2>5, <2>6 DEF Next
<1> QED
  BY <1>1, <1>2, ProgressInductive, PTL DEF Spec

(* Behind a queue head that has not arrived nobody has, so the early       *)
(* return of schedule_base passes over no one; and with one batch of whole *)
(* prompts at a time the queue is always sorted by (arrival, id).          *)
THEOREM QueueInOrderCorrect == Spec => []QueueInOrder
<1>1. Order => QueueInOrder
  <2> SUFFICES ASSUME Order PROVE HeadArrivesFirst /\ QueueSorted
    BY DEF QueueInOrder
  <2>1. TypeOK /\ request \in Seq(Req) /\ DOMAIN request = 1 .. Len(request)
    BY OrderTypes DEF Order
  <2>2. HeadArrivesFirst
    <3> SUFFICES ASSUME request # <<>>, Arrival(request[1]) > now, NEW j \in 1 .. Len(request)
                 PROVE  Arrival(request[j]) > now
      BY <2>1 DEF HeadArrivesFirst, Queued, Items
    <3>1. 1 \in 1 .. Len(request) /\ request[1] \in Req /\ request[j] \in Req
      BY <2>1
    <3>2. ~Arrived(request[1])
      BY <2>1, <3>1, ArrivalNat DEF Arrived
    <3>3. j = 1 \/ <<request[1], request[j]>> \in Late
      BY <2>1, <3>1 DEF Order, InOrderOf
    <3>4. j = 1 \/ Arrival(request[1]) <= Arrival(request[j])
      BY <3>2, <3>3 DEF Late
    <3> QED
      BY <2>1, <3>1, <3>4, ArrivalNat
  <2>3. QueueSorted
    <3>1. InOrderOf(request, Age) =>
            \A i, j \in DOMAIN request : i < j => Earlier(request[i], request[j])
      <4>1. \A x, y : <<x, y>> \in Age => Earlier(x, y)
        BY DEF Age
      <4> QED
        BY <4>1 DEF InOrderOf
    <3> QED
      BY <3>1 DEF Order, OneAtATime, QueueSorted
  <2> QED
    BY <2>2, <2>3
<1> QED
  BY <1>1, OrderInductive, PTL
=============================================================================
