--------------------------- MODULE MainLoop_proofs ---------------------------
(***************************************************************************)
(* Proofs about the main loop, for any number of instances, groups and     *)
(* requests: every report is answered once and with work that exists, no   *)
(* request is in two places, an instance that was told to sleep is not     *)
(* needed again, and the waves of groups of two stay in step.              *)
(***************************************************************************)
EXTENDS MainLoop, Lists_proofs

(* What the theorems need of the simulations.  Members of a group have one *)
(* NPU and compute no prompts for others: with two NPUs the workload of a  *)
(* wave may go astray (the run DpTwoNpus).  Prefill and decode instances   *)
(* are not mixed with instances that do both: the loop takes the number of *)
(* finished instances for that of finished prefill instances.              *)
SingleNpuGroups ==
  \A s \in Simulations : \A i \in DOMAIN s.inst :
    s.inst[i].group # 0 => s.inst[i].npus = 1 /\ s.inst[i].role # "prefill"
NotMixed ==
  \A s \in Simulations :
    \/ \A i \in DOMAIN s.inst : s.inst[i].role = "none"
    \/ \A i \in DOMAIN s.inst : s.inst[i].role # "none"
-----------------------------------------------------------------------------
(* Types *)

Line  == {"instance", "dp", "event", "none", "pass", "done", "exit"} \X Nat \X Nat
Batch == [id : Nat, reqs : SUBSET Req, fired : SUBSET Npus, end : SUBSET Npus]
Partial(S, T) == UNION {[D -> T] : D \in SUBSET S}
LoopType ==
  [current : Nat, pending : SUBSET Req, arrival : [Req -> Nat],
   queue : [Instances -> SUBSET Req], inflight : [Instances -> SUBSET Batch],
   batchIds : [Instances -> Nat], left : [Req -> Int], finished : SUBSET Req,
   waves : [Groups -> Partial(Instances, Nat)], ready : Partial(Instances, Line),
   made : SUBSET Line, doneNpus : [Instances -> SUBSET Npus], doneInst : SUBSET Instances,
   prefillDone : BOOLEAN, answers : Seq(Line)]
NpuType == [ran : Nat \cup {-1}, todo : {"run", "wait", "sleep"}, load : Line]

Typed(m, p, q) ==
  /\ m \in LoopType
  /\ p \in [Npus -> NpuType]
  /\ q \in Partial(Line, SUBSET Npus)
  /\ \A i \in Instances : m.doneNpus[i] \subseteq Reporting(i)
  /\ \A n \in Npus : p[n].load # Nothing => p[n].todo = "run"

-----------------------------------------------------------------------------
(* Requests *)

InQueue(m, i, r) == r \in m.queue[i]
InBatch(m, i, r) == \E b \in m.inflight[i] : r \in b.reqs
Known(m, r) ==
  \/ r \in m.pending \/ r \in m.finished
  \/ \E i \in Instances : InQueue(m, i, r) \/ InBatch(m, i, r)

(* A request is in one place, and nowhere before what it follows has ended. *)
OnePlace(m) ==
  /\ \A i, j \in Instances, r \in Req : InQueue(m, i, r) /\ InQueue(m, j, r) => i = j
  /\ \A i, j \in Instances, r \in Req : ~(InQueue(m, i, r) /\ InBatch(m, j, r))
  /\ \A i, j \in Instances : \A b \in m.inflight[i], c \in m.inflight[j] :
       b.reqs \cap c.reqs # {} => i = j /\ b = c
  /\ \A r \in m.pending \cup m.finished, i \in Instances : ~InQueue(m, i, r) /\ ~InBatch(m, i, r)
  /\ m.pending \cap m.finished = {}
InTurn(m) == \A r \in Req : Known(m, r) /\ After(r) # 0 => After(r) \in m.finished

(* Workloads *)

Generates(m, p) ==
  /\ \A i \in Instances : Group(i) = 0 => \A b \in m.inflight[i] : Own(i, b.id) \in m.made
  /\ \A j \in DOMAIN m.ready : m.ready[j] \in m.made
  /\ \A n \in Npus : p[n].load \in m.made \cup {Event, Nothing}

-----------------------------------------------------------------------------
(* Groups *)

Busy(m, i) == m.inflight[i] # {}

(* What member i has a number for and has not run to the end: a workload,  *)
(* one that is ready, a batch in a wave.                                   *)
One(b) == IF b THEN 1 ELSE 0
Debt(m, p, i) ==
  One(p[Start(i)].todo = "run") + One(i \in DOMAIN m.ready)
    + One(i \in DOMAIN m.waves[Group(i)])

(* A member has at most one batch, which has the last number given, and    *)
(* numbers do not stay behind the iterations of ASTRA-Sim.                 *)
Counted(m, p, i) ==
  /\ \A b, c \in m.inflight[i] : b = c
  /\ \A b \in m.inflight[i] :
       b.id = m.batchIds[i] - 1 /\ b.id >= p[Start(i)].ran /\ b.end = {}
  /\ m.batchIds[i] >= p[Start(i)].ran + Debt(m, p, i)

(* A wave that is begun has a batch that is not a dummy. *)
Begun(m, g) ==
  /\ DOMAIN m.waves[g] \subseteq Members(g)
  /\ \A i \in DOMAIN m.waves[g] : m.waves[g][i] < m.batchIds[i]
  /\ m.waves[g] # <<>> => \E k \in DOMAIN m.waves[g] : Busy(m, k)

(* While a workload is ready for some members, the one that completed the  *)
(* wave runs it and cannot end; some batch in it is not a dummy.           *)
Waiting(m, g) == DOMAIN m.ready \cap Members(g)
Starter(m, p, q, g, s, w) ==
  /\ p[Start(s)].todo = "run" /\ p[Start(s)].load = w /\ w[1] = "dp" /\ w[2] = g
  /\ s \notin DOMAIN m.waves[g] /\ s \notin DOMAIN m.ready
  /\ w \in DOMAIN q
  /\ \A j \in Waiting(m, g) : m.ready[j] = w /\ Start(j) \notin q[w]
  /\ \E k \in Members(g) : Busy(m, k) /\ (k \in DOMAIN m.ready \/ p[Start(k)].load = w)
Started(m, p, q, g) ==
  Waiting(m, g) # {} => \E s \in Members(g) : Starter(m, p, q, g, s, p[Start(s)].load)

(* A wave is named after the batch of the first member: names are new.     *)
Leader(g) == Min(Members(g))
Named(m, q, g) ==
  \A w \in DOMAIN q : w[1] = "dp" /\ w[2] = g =>
    /\ w[3] < m.batchIds[Leader(g)]
    /\ Leader(g) \in DOMAIN m.waves[g] => w[3] < m.waves[g][Leader(g)]

InStep(m, p, q, g) ==
  /\ \A i \in Members(g) : Counted(m, p, i)
  /\ Begun(m, g) /\ Started(m, p, q, g) /\ Named(m, q, g)
Grouped(m, p, q) ==
  /\ \A j \in DOMAIN m.ready : Group(j) # 0
  /\ \A g \in Groups : InStep(m, p, q, g)

Works(m, p, q) ==
  /\ Typed(m, p, q) /\ OnePlace(m) /\ InTurn(m)
  /\ Generates(m, p) /\ Grouped(m, p, q)
  /\ Len(m.answers) <= 1
Inv1 == sim \in Simulations /\ now \in Nat /\ Works(loop, npu, joined)

-----------------------------------------------------------------------------
(* Sleep *)

NothingLeft(m) == m.pending = {} /\ ~HasDeferred(m)
Ended(m, i) ==
  /\ NothingLeft(m) /\ IsEmpty(m, i)
  /\ Group(i) # 0 => GroupEmpty(m, i)
  /\ Role(i) = "decode" => m.prefillDone
Asleep(m, p) ==
  /\ \A n \in Npus : p[n].todo = "sleep" => m.doneNpus[n[1]] # {}
  /\ \A i \in Instances : m.doneNpus[i] # {} => Ended(m, i)
  /\ \A i \in m.doneInst : m.doneNpus[i] # {}
  /\ ~m.prefillDone => \A i \in m.doneInst : Role(i) # "decode"
  /\ m.prefillDone /\ (\E i \in Instances : Role(i) = "decode") => PrefillInstances \subseteq m.doneInst

Inv2 == Inv1 /\ Asleep(loop, npu)

-----------------------------------------------------------------------------
(* The simulation *)

LEMMA SimulationTypes ==
  ASSUME sim \in Simulations
  PROVE  /\ Instances \subseteq Nat /\ IsFiniteSet(Instances)
         /\ \A i \in Instances :
              /\ Role(i) \in {"none", "prefill", "decode"} /\ Group(i) \in Nat
              /\ sim.inst[i].npus \in Nat \ {0} /\ sim.inst[i].pp \in Nat \ {0}
              /\ sim.inst[i].pp <= sim.inst[i].npus
         /\ 0 \notin Req
         /\ \A r \in Req :
              /\ Arrival(r) \in Nat /\ sim.reqs[r].prompt + sim.reqs[r].gen \in Nat
              /\ \A i \in Instances : sim.reqs[r].decode = i => Role(i) = "decode"
<1> DEFINE T == [role : {"none", "prefill", "decode"}, npus : Nat \ {0},
                 group : Nat, pp : Nat \ {0}]
<1>1. /\ sim.inst \in Seq(T)
      /\ \A i \in DOMAIN sim.inst : sim.inst[i].pp <= sim.inst[i].npus
      /\ DOMAIN sim.reqs \subseteq Nat \ {0}
      /\ \A r \in DOMAIN sim.reqs :
           /\ {sim.reqs[r].arrival, sim.reqs[r].prompt, sim.reqs[r].gen} \subseteq Nat
           /\ \A i \in DOMAIN sim.inst : sim.reqs[r].decode = i => sim.inst[i].role = "decode"
  BY MainLoopAssumption
<1>2. DOMAIN sim.inst = 1 .. Len(sim.inst) /\ Len(sim.inst) \in Nat
  <2> HIDE DEF T
  <2> QED
    BY <1>1
<1>3. Instances \subseteq Nat /\ IsFiniteSet(Instances)
  BY <1>2, IntervalSize DEF Instances
<1>4. ASSUME NEW i \in Instances
      PROVE  sim.inst[i] \in T
  <2> HIDE DEF T
  <2>1. i \in 1 .. Len(sim.inst)
    BY <1>2 DEF Instances
  <2> QED
    BY <1>1, <2>1, ElementOfSeq
<1>5. ASSUME NEW i \in Instances
      PROVE  /\ Role(i) \in {"none", "prefill", "decode"} /\ Group(i) \in Nat
             /\ sim.inst[i].npus \in Nat \ {0} /\ sim.inst[i].pp \in Nat \ {0}
             /\ sim.inst[i].pp <= sim.inst[i].npus
  <2>1. sim.inst[i] \in T
    BY <1>4
  <2>2. sim.inst[i].pp <= sim.inst[i].npus
    BY <1>1 DEF Instances
  <2> QED
    BY <2>1, <2>2 DEF Role, Group
<1> HIDE DEF T
<1>6. 0 \notin Req
  BY <1>1 DEF Req
<1>7. ASSUME NEW r \in Req
      PROVE  /\ Arrival(r) \in Nat /\ sim.reqs[r].prompt + sim.reqs[r].gen \in Nat
             /\ \A i \in Instances : sim.reqs[r].decode = i => Role(i) = "decode"
  BY <1>1 DEF Req, Arrival, Instances, Role
<1> QED
  BY <1>3, <1>5, <1>6, <1>7

LEMMA NpuPairs ==
  ASSUME sim \in Simulations
  PROVE  /\ \A n \in Npus : n[1] \in Instances /\ n \in Reporting(n[1])
         /\ \A i \in Instances : \A n \in Reporting(i) : n \in Npus /\ n[1] = i
         /\ \A i \in Instances : Start(i) \in Reporting(i) /\ Start(i) \in Npus /\ Start(i)[1] = i
         /\ \A i, j : Start(i) = Start(j) => i = j
<1>1. \A i : \A n \in Reporting(i) : n[1] = i
  BY DEF Reporting
<1>2. \A i : Start(i) \in Reporting(i) /\ Start(i)[1] = i
  BY DEF Reporting, Start
<1>3. \A i, j : Start(i) = Start(j) => i = j
  BY <1>2
<1>4. /\ \A i \in Instances : \A n \in Reporting(i) : n \in Npus
      /\ \A n \in Npus : \E i \in Instances : n \in Reporting(i)
  BY DEF Npus
<1> QED
  BY <1>1, <1>2, <1>3, <1>4

(* Members of groups report with one NPU and have one batch at a time. *)
LEMMA GroupTypes ==
  ASSUME sim \in Simulations, SingleNpuGroups
  PROVE  /\ \A i \in Instances : Group(i) # 0 =>
              Reporting(i) = {Start(i)} /\ sim.inst[i].pp = 1 /\ Role(i) # "prefill"
         /\ \A g \in Groups : g # 0 /\ Members(g) # {} /\ Members(g) \subseteq Instances
         /\ \A g \in Groups : \A i \in Members(g) : i \in Instances /\ Group(i) = g
         /\ \A i \in Instances : Group(i) # 0 => Group(i) \in Groups /\ i \in Members(Group(i))
<1>1. ASSUME NEW i \in Instances, Group(i) # 0
      PROVE  Reporting(i) = {Start(i)} /\ sim.inst[i].pp = 1 /\ Role(i) # "prefill"
  <2>1. sim.inst[i].npus = 1 /\ Role(i) # "prefill"
    BY <1>1 DEF SingleNpuGroups, Instances, Group, Role
  <2>2. sim.inst[i].pp = 1
    BY <2>1, SimulationTypes
  <2>3. Reporting(i) = {Start(i)}
    BY <2>1 DEF Reporting, Start
  <2> QED
    BY <2>1, <2>2, <2>3
<1>2. /\ \A g \in Groups : g # 0 /\ Members(g) # {} /\ Members(g) \subseteq Instances
      /\ \A g \in Groups : \A i \in Members(g) : i \in Instances /\ Group(i) = g
      /\ \A i \in Instances : Group(i) # 0 => Group(i) \in Groups /\ i \in Members(Group(i))
  BY DEF Groups, Members
<1> QED
  BY <1>1, <1>2

(* The batch of the first member names a wave. *)
LEMMA LeaderExists ==
  ASSUME sim \in Simulations, NEW g \in Groups
  PROVE  Leader(g) \in Members(g)
<1>1. Members(g) \subseteq Instances /\ Members(g) # {}
  BY DEF Members, Groups
<1>2. IsFiniteSet(Instances) /\ Instances \subseteq Nat
  BY SimulationTypes
<1>3. IsFiniteSet(Members(g)) /\ Members(g) \subseteq Int
  <2>1. IsFiniteSet(Members(g))
    BY <1>1, <1>2, FS_Subset, Members(g) \in SUBSET Instances
  <2>2. \A x \in Members(g) : x \in Nat
    BY <1>1, <1>2
  <2> QED
    BY <2>1, <2>2
<1>4. \E y \in Members(g) : \A x \in Members(g) : y =< x
  BY <1>1, <1>3, Extremes
<1> QED
  BY <1>4 DEF Leader, Min

-----------------------------------------------------------------------------
(* Dictionaries *)

LEMMA PartialType ==
  ASSUME NEW S, NEW T, NEW f
  PROVE  f \in Partial(S, T) <=> DOMAIN f \subseteq S /\ f \in [DOMAIN f -> T]
BY DEF Partial

LEMMA WithEntry ==
  ASSUME NEW S, NEW T, NEW f \in Partial(S, T), NEW x \in S, NEW y \in T
  PROVE  /\ With(f, x, y) \in Partial(S, T)
         /\ DOMAIN With(f, x, y) = DOMAIN f \cup {x}
         /\ With(f, x, y)[x] = y
         /\ \A z \in DOMAIN f : z # x => With(f, x, y)[z] = f[z]
<1>1. DOMAIN f \subseteq S /\ f \in [DOMAIN f -> T]
  BY PartialType
<1>2. With(f, x, y) \in [DOMAIN f \cup {x} -> T]
  BY <1>1 DEF With
<1>3. DOMAIN With(f, x, y) = DOMAIN f \cup {x}
  BY DEF With
<1> QED
  BY <1>1, <1>2, <1>3, PartialType DEF With

LEMMA WithoutEntry ==
  ASSUME NEW S, NEW T, NEW f \in Partial(S, T), NEW x
  PROVE  /\ Without(f, x) \in Partial(S, T)
         /\ DOMAIN Without(f, x) = DOMAIN f \ {x}
         /\ \A z \in DOMAIN f : z # x => Without(f, x)[z] = f[z]
<1>1. DOMAIN f \subseteq S /\ f \in [DOMAIN f -> T]
  BY PartialType
<1>2. Without(f, x) \in [DOMAIN f \ {x} -> T]
  BY <1>1 DEF Without
<1>3. DOMAIN Without(f, x) = DOMAIN f \ {x}
  BY DEF Without
<1> QED
  BY <1>1, <1>2, <1>3, PartialType DEF Without

LEMMA EmptyEntry ==
  ASSUME NEW S, NEW T
  PROVE  <<>> \in Partial(S, T) /\ DOMAIN <<>> = {}
<1>1. DOMAIN <<>> = {} /\ <<>> \in [{} -> T]
  OBVIOUS
<1> QED
  BY <1>1, PartialType

-----------------------------------------------------------------------------
(* Operators of the loop, one by one: what each leaves alone, and that it  *)
(* moves requests from one place to another.                               *)

SameGroups(m, q) ==
  /\ q.batchIds = m.batchIds /\ q.waves = m.waves /\ q.ready = m.ready /\ q.made = m.made
SameEnds(m, q) ==
  /\ q.doneNpus = m.doneNpus /\ q.doneInst = m.doneInst /\ q.prefillDone = m.prefillDone
SameDone(m, q) ==
  /\ q.pending = m.pending /\ q.arrival = m.arrival /\ q.finished = m.finished /\ q.left = m.left

Placed(m) == m \in LoopType /\ OnePlace(m) /\ InTurn(m)

(* Whoever follows a request that has not ended is nowhere. *)
LEMMA FollowerNowhere ==
  ASSUME NEW m, InTurn(m), NEW r \in Req, After(r) # 0, After(r) \notin m.finished
  PROVE  /\ r \notin m.pending /\ r \notin m.finished
         /\ \A i \in Instances : ~InQueue(m, i, r) /\ ~InBatch(m, i, r)
BY DEF InTurn, Known

LEMMA RouteKeeps ==
  ASSUME sim \in Simulations, NEW m, Placed(m)
  PROVE  LET q == Route(m)
         IN  /\ Placed(q) /\ SameGroups(m, q) /\ SameEnds(m, q)
             /\ q.current = m.current /\ q.answers = m.answers
             /\ q.inflight = m.inflight /\ q.finished = m.finished
             /\ m.pending = {} => q.pending = {} /\ q.queue = m.queue
<1> DEFINE come == {r \in m.pending : m.arrival[r] <= m.current}
           to(i) == {r \in come : sim.reqs[r].inst = i}
           queue == [i \in Instances |-> m.queue[i] \cup to(i)]
           q == [m EXCEPT !.pending = @ \ come, !.queue = queue]
<1>1. Route(m) = q
  BY DEF Route
<1>2. m \in LoopType
  BY DEF Placed
<1>3. m.pending \in SUBSET Req /\ m.queue \in [Instances -> SUBSET Req]
      /\ m.inflight \in [Instances -> SUBSET Batch] /\ m.finished \in SUBSET Req
  BY <1>2 DEF LoopType
<1>4. come \subseteq m.pending /\ \A i : to(i) \subseteq come
  OBVIOUS
<1>5. queue \in [Instances -> SUBSET Req] /\ m.pending \ come \in SUBSET Req
  BY <1>3
<1>6. \A i \in Instances : queue[i] = m.queue[i] \cup to(i)
  OBVIOUS
<1>7. \A i, j : \A r : r \in to(i) /\ r \in to(j) => i = j
  OBVIOUS
<1>8. m.pending = {} => come = {} /\ queue = m.queue
  BY <1>3
<1> HIDE DEF queue, come, to
<1>9. /\ q \in LoopType /\ q.pending = m.pending \ come /\ q.queue = queue
      /\ SameGroups(m, q) /\ SameEnds(m, q)
      /\ q.current = m.current /\ q.answers = m.answers
      /\ q.inflight = m.inflight /\ q.finished = m.finished
  BY <1>2, <1>5 DEF LoopType, SameGroups, SameEnds
<1> HIDE DEF q
<1>10. \A i, r : i \in Instances => (InBatch(q, i, r) <=> InBatch(m, i, r))
  BY <1>9 DEF InBatch
<1>11. \A i, r : i \in Instances => (InQueue(q, i, r) <=> InQueue(m, i, r) \/ r \in to(i))
  BY <1>6, <1>9 DEF InQueue
<1>12. \A i, r : i \in Instances /\ r \in to(i) =>
         r \in m.pending /\ r \notin q.pending /\ r \in Req /\ r \notin m.finished
         /\ \A j \in Instances : ~InQueue(m, j, r) /\ ~InBatch(m, j, r)
  BY <1>3, <1>4, <1>9 DEF Placed, OnePlace
<1>13. OnePlace(q)
  <2>1. OnePlace(m)
    BY DEF Placed
  <2>2. \A i, j \in Instances, r \in Req : InQueue(q, i, r) /\ InQueue(q, j, r) => i = j
    BY <1>7, <1>11, <1>12, <2>1 DEF OnePlace
  <2>3. \A i, j \in Instances, r \in Req : ~(InQueue(q, i, r) /\ InBatch(q, j, r))
    BY <1>10, <1>11, <1>12, <2>1 DEF OnePlace
  <2>4. \A i, j \in Instances : \A b \in q.inflight[i], c \in q.inflight[j] :
          b.reqs \cap c.reqs # {} => i = j /\ b = c
    BY <1>9, <2>1 DEF OnePlace
  <2>5. \A r \in q.pending \cup q.finished, i \in Instances : ~InQueue(q, i, r) /\ ~InBatch(q, i, r)
    BY <1>9, <1>10, <1>11, <1>12, <2>1 DEF OnePlace
  <2>6. q.pending \cap q.finished = {}
    BY <1>9, <2>1 DEF OnePlace
  <2> QED
    BY <2>2, <2>3, <2>4, <2>5, <2>6 DEF OnePlace
<1>14. InTurn(q)
  BY <1>9, <1>10, <1>11, <1>12 DEF Placed, InTurn, Known
<1> QED
  BY <1>1, <1>8, <1>9, <1>13, <1>14 DEF Placed

(* The requests S of m, which are nowhere, end.                            *)
LEMMA CompletedKeeps ==
  ASSUME sim \in Simulations, NEW m, Placed(m), NEW S \in SUBSET Req,
         \A r \in S : /\ r \notin m.pending /\ r \notin m.finished
                      /\ \A i \in Instances : ~InQueue(m, i, r) /\ ~InBatch(m, i, r)
                      /\ After(r) # 0 => After(r) \in m.finished
  PROVE  LET q == Completed(m, S)
         IN  /\ Placed(q) /\ SameGroups(m, q) /\ SameEnds(m, q)
             /\ q.current = m.current /\ q.answers = m.answers /\ q.queue = m.queue
             /\ q.inflight = m.inflight /\ m.finished \subseteq q.finished
             /\ ~HasDeferred(m) => q.pending = m.pending
<1> DEFINE next == {r \in Req : After(r) \in S}
           arr == [r \in Req |-> IF r \in next THEN m.current + Arrival(r) ELSE m.arrival[r]]
           q == [m EXCEPT !.finished = @ \cup S, !.pending = @ \cup next, !.arrival = arr]
<1>1. Completed(m, S) = q
  BY DEF Completed
<1>2. m \in LoopType
  BY DEF Placed
<1>3. m.current \in Nat /\ m.arrival \in [Req -> Nat] /\ m.pending \in SUBSET Req
      /\ m.finished \in SUBSET Req
  BY <1>2 DEF LoopType
<1>4. \A r \in Req : Arrival(r) \in Nat
  BY SimulationTypes
<1>5. arr \in [Req -> Nat]
  BY <1>3, <1>4
<1>6. m.pending \cup next \in SUBSET Req /\ m.finished \cup S \in SUBSET Req
  BY <1>3
<1>7. \A r \in next : r \in Req /\ After(r) \in S /\ After(r) # 0 /\ After(r) \notin m.finished
  BY SimulationTypes
<1>8. \A r \in Req : After(r) \in S => r \in next
  OBVIOUS
<1>9. ~HasDeferred(m) => next = {}
  <2> SUFFICES ASSUME NEW r \in next PROVE HasDeferred(m)
    OBVIOUS
  <2>1. After(r) \in Req \ m.finished /\ r \in Req
    BY <1>7
  <2>2. InSession(After(r))
    BY <2>1 DEF InSession
  <2> QED
    BY <2>1, <2>2 DEF HasDeferred
<1> HIDE DEF next, arr
<1>10. /\ q \in LoopType /\ q.pending = m.pending \cup next /\ q.finished = m.finished \cup S
       /\ SameGroups(m, q) /\ SameEnds(m, q)
       /\ q.current = m.current /\ q.answers = m.answers /\ q.queue = m.queue
       /\ q.inflight = m.inflight
  BY <1>2, <1>5, <1>6 DEF LoopType, SameGroups, SameEnds
<1> HIDE DEF q
<1>11. \A i, r : i \in Instances => /\ InBatch(q, i, r) <=> InBatch(m, i, r)
                                    /\ InQueue(q, i, r) <=> InQueue(m, i, r)
  BY <1>10 DEF InBatch, InQueue
<1>12. \A r \in next : /\ r \notin m.pending /\ r \notin m.finished
                       /\ \A i \in Instances : ~InQueue(m, i, r) /\ ~InBatch(m, i, r)
  BY <1>7, FollowerNowhere DEF Placed
<1>13. next \cap S = {}
  BY <1>7
<1>14. OnePlace(q)
  <2>1. OnePlace(m)
    BY DEF Placed
  <2>2. \A i, j \in Instances : \A b \in q.inflight[i], c \in q.inflight[j] :
          b.reqs \cap c.reqs # {} => i = j /\ b = c
    BY <1>10, <2>1 DEF OnePlace
  <2>3. \A r \in q.pending \cup q.finished, i \in Instances : ~InQueue(q, i, r) /\ ~InBatch(q, i, r)
    BY <1>10, <1>11, <1>12, <2>1 DEF OnePlace
  <2>4. q.pending \cap q.finished = {}
    BY <1>10, <1>12, <1>13, <2>1 DEF OnePlace
  <2> QED
    BY <1>11, <2>1, <2>2, <2>3, <2>4 DEF OnePlace
<1>15. InTurn(q)
  <2> SUFFICES ASSUME NEW r \in Req, Known(q, r), After(r) # 0
               PROVE  After(r) \in q.finished
    BY DEF InTurn
  <2>1. Known(m, r) \/ r \in next \/ r \in S
    BY <1>10, <1>11 DEF Known
  <2> QED
    BY <1>7, <1>10, <2>1 DEF Placed, InTurn
<1> QED
  BY <1>1, <1>9, <1>10, <1>14, <1>15 DEF Placed

(* add_done either leaves all as it is, or a batch of instance i with the  *)
(* number of the iteration before id gets an end, or leaves.               *)
Marked(b, n) == [b EXCEPT !.end = b.end \cup {n}]
EndsBatch(m, q, n, id, b) ==
  /\ b \in m.inflight[n[1]] /\ b.id = id - 1 /\ n \notin b.end
  /\ \/ /\ b.end \cup {n} = Reporting(n[1])
        /\ q.inflight = [m.inflight EXCEPT ![n[1]] = @ \ {b}]
     \/ /\ b.end \cup {n} # Reporting(n[1])
        /\ q.inflight = [m.inflight EXCEPT ![n[1]] = (@ \ {b}) \cup {Marked(b, n)}]
        /\ q.queue = m.queue
AddDoneShape(m, q, n, id) ==
  \/ q = m /\ \A b \in m.inflight[n[1]] : b.id # id - 1 \/ n \in b.end
  \/ /\ \E b \in m.inflight[n[1]] : EndsBatch(m, q, n, id, b)
     /\ \A j \in Instances :
          j = n[1] \/ q.queue[j] = m.queue[j] \/ (Role(n[1]) = "prefill" /\ Role(j) = "decode")

(* A batch is replaced by one with the same number and requests. *)
LEMMA BatchMarked ==
  ASSUME sim \in Simulations, NEW m, Placed(m), NEW i \in Instances, NEW b \in m.inflight[i],
         NEW c \in Batch, c.id = b.id, c.reqs = b.reqs
  PROVE  LET q == [m EXCEPT !.inflight[i] = (@ \ {b}) \cup {c}]
         IN  /\ Placed(q) /\ SameGroups(m, q) /\ SameEnds(m, q) /\ SameDone(m, q)
             /\ q.current = m.current /\ q.answers = m.answers /\ q.queue = m.queue
             /\ q.inflight = [m.inflight EXCEPT ![i] = (@ \ {b}) \cup {c}]
<1> DEFINE fl == [m.inflight EXCEPT ![i] = (@ \ {b}) \cup {c}]
           q  == [m EXCEPT !.inflight[i] = (@ \ {b}) \cup {c}]
<1>1. m \in LoopType
  BY DEF Placed
<1>2. m.inflight \in [Instances -> SUBSET Batch]
  BY <1>1 DEF LoopType
<1>3. fl \in [Instances -> SUBSET Batch]
  BY <1>2
<1>4. q = [m EXCEPT !.inflight = fl]
  BY <1>1 DEF LoopType
<1>5. \A j \in Instances : \A x \in fl[j] :
        \E y \in m.inflight[j] : x.reqs = y.reqs /\ (x = y \/ (j = i /\ y = b /\ x = c))
  BY <1>2
<1>6. \A j \in Instances : \A y \in m.inflight[j] : \E x \in fl[j] : x.reqs = y.reqs
  BY <1>2
<1>7. b \notin fl[i] \/ b = c
  BY <1>2
<1> HIDE DEF fl
<1>8. /\ q \in LoopType /\ SameGroups(m, q) /\ SameEnds(m, q) /\ SameDone(m, q)
      /\ q.current = m.current /\ q.answers = m.answers /\ q.queue = m.queue /\ q.inflight = fl
  BY <1>1, <1>3, <1>4 DEF LoopType, SameGroups, SameEnds, SameDone
<1> HIDE DEF q
<1>9. \A j, r : j \in Instances => /\ InBatch(q, j, r) <=> InBatch(m, j, r)
                                   /\ InQueue(q, j, r) <=> InQueue(m, j, r)
  BY <1>5, <1>6, <1>8 DEF InBatch, InQueue
<1>10. OnePlace(q)
  <2>1. OnePlace(m) /\ q.pending = m.pending /\ q.finished = m.finished
    BY <1>8 DEF Placed, SameDone
  <2>2. ASSUME NEW j \in Instances, NEW k \in Instances, NEW x \in fl[j], NEW y \in fl[k],
               x.reqs \cap y.reqs # {}
        PROVE  j = k /\ x = y
    <3>1. PICK u \in m.inflight[j] : x.reqs = u.reqs /\ (x = u \/ (j = i /\ u = b /\ x = c))
      BY <1>5
    <3>2. PICK v \in m.inflight[k] : y.reqs = v.reqs /\ (y = v \/ (k = i /\ v = b /\ y = c))
      BY <1>5
    <3>3. j = k /\ u = v
      BY <2>1, <2>2, <3>1, <3>2 DEF OnePlace
    <3>4. x = y
      BY <1>7, <3>1, <3>2, <3>3
    <3> QED
      BY <3>3, <3>4
  <2>3. \A j, k \in Instances : \A x \in q.inflight[j], y \in q.inflight[k] :
          x.reqs \cap y.reqs # {} => j = k /\ x = y
    <3>1. q.inflight = fl
      BY <1>8
    <3>2. \A j, k \in Instances : \A x \in fl[j], y \in fl[k] :
            x.reqs \cap y.reqs # {} => j = k /\ x = y
      BY <2>2
    <3> QED
      BY <3>1, <3>2
  <2>4. \A j, k \in Instances, r \in Req : ~(InQueue(q, j, r) /\ InBatch(q, k, r))
    BY <1>9, <2>1 DEF OnePlace
  <2>5. \A r \in q.pending \cup q.finished, j \in Instances : ~InQueue(q, j, r) /\ ~InBatch(q, j, r)
    BY <1>9, <2>1 DEF OnePlace
  <2> QED
    BY <1>9, <2>1, <2>3, <2>4, <2>5 DEF OnePlace
<1>11. InTurn(q)
  BY <1>8, <1>9 DEF Placed, InTurn, Known, SameDone
<1> QED
  BY <1>8, <1>10, <1>11 DEF Placed, fl, q

(* Batch b leaves the pipeline: some of its requests go back to the queue, *)
(* the others, S, are nowhere.                                             *)
LEMMA BatchLeaves ==
  ASSUME sim \in Simulations, NEW m, Placed(m), NEW i \in Instances, NEW b \in m.inflight[i],
         NEW S \in SUBSET b.reqs, NEW left \in [Req -> Int]
  PROVE  LET q == Queued([m EXCEPT !.inflight[i] = @ \ {b}, !.left = left],
                         i, m.queue[i] \cup (b.reqs \ S))
         IN  /\ Placed(q) /\ SameGroups(m, q) /\ SameEnds(m, q)
             /\ q.current = m.current /\ q.answers = m.answers
             /\ q.pending = m.pending /\ q.finished = m.finished
             /\ q.inflight = [m.inflight EXCEPT ![i] = @ \ {b}]
             /\ \A j \in Instances : j # i => q.queue[j] = m.queue[j]
             /\ S \subseteq Req
             /\ \A r \in S : /\ r \notin q.pending /\ r \notin q.finished
                             /\ \A j \in Instances : ~InQueue(q, j, r) /\ ~InBatch(q, j, r)
                             /\ After(r) # 0 => After(r) \in q.finished
<1> DEFINE back == b.reqs \ S
           fl == [m.inflight EXCEPT ![i] = @ \ {b}]
           qu == [j \in Instances |-> IF j = i THEN m.queue[i] \cup back ELSE m.queue[j]]
           q  == [m EXCEPT !.inflight = fl, !.left = left, !.queue = qu]
<1>1. m \in LoopType /\ OnePlace(m) /\ InTurn(m)
  BY DEF Placed
<1>2. m.inflight \in [Instances -> SUBSET Batch] /\ m.queue \in [Instances -> SUBSET Req]
  BY <1>1 DEF LoopType
<1>3. b \in Batch
  BY <1>2
<1>4. b.reqs \in SUBSET Req /\ back \in SUBSET Req
  BY <1>3 DEF Batch
<1>5. fl \in [Instances -> SUBSET Batch] /\ fl[i] = m.inflight[i] \ {b}
      /\ \A j \in Instances : j # i => fl[j] = m.inflight[j]
  BY <1>2
<1>6. qu \in [Instances -> SUBSET Req] /\ qu[i] = m.queue[i] \cup back
      /\ \A j \in Instances : j # i => qu[j] = m.queue[j]
  BY <1>2, <1>4
<1>7. Queued([m EXCEPT !.inflight[i] = @ \ {b}, !.left = left], i, m.queue[i] \cup (b.reqs \ S)) = q
  BY <1>1 DEF Queued, LoopType
<1>8. \A r \in back : r \in b.reqs /\ r \notin S
  OBVIOUS
<1>9. \A r \in b.reqs : r \in S \/ r \in back
  OBVIOUS
<1> HIDE DEF fl, qu, back
<1>10. /\ q \in LoopType /\ SameGroups(m, q) /\ SameEnds(m, q)
       /\ q.current = m.current /\ q.answers = m.answers
       /\ q.pending = m.pending /\ q.finished = m.finished
       /\ q.inflight = fl /\ q.queue = qu
  BY <1>1, <1>5, <1>6 DEF LoopType, SameGroups, SameEnds
<1> HIDE DEF q
<1>11. \A r \in b.reqs : InBatch(m, i, r)
  BY DEF InBatch
<1>12. \A j, r : j \in Instances => (InBatch(q, j, r) => InBatch(m, j, r))
  <2>1. \A j \in Instances : fl[j] \subseteq m.inflight[j]
    BY <1>5
  <2> QED
    BY <1>10, <2>1 DEF InBatch
<1>13. \A r \in b.reqs, j \in Instances : ~InBatch(q, j, r)
  <2> SUFFICES ASSUME NEW r \in b.reqs, NEW j \in Instances, NEW c \in fl[j], r \in c.reqs
               PROVE  FALSE
    BY <1>10 DEF InBatch
  <2>1. c \in m.inflight[j] /\ b.reqs \cap c.reqs # {}
    BY <1>5
  <2>2. i = j /\ b = c
    BY <1>1, <2>1 DEF OnePlace
  <2> QED
    BY <1>5, <2>2
<1>14. \A j, r : j \in Instances => (InQueue(q, j, r) <=> InQueue(m, j, r) \/ (j = i /\ r \in back))
  BY <1>6, <1>10 DEF InQueue
<1>15. \A r \in b.reqs : /\ r \in Req /\ r \notin m.pending /\ r \notin m.finished
                         /\ \A j \in Instances : ~InQueue(m, j, r)
                         /\ After(r) # 0 => After(r) \in m.finished
  <2> SUFFICES ASSUME NEW r \in b.reqs
               PROVE  /\ r \in Req /\ r \notin m.pending /\ r \notin m.finished
                      /\ \A j \in Instances : ~InQueue(m, j, r)
                      /\ After(r) # 0 => After(r) \in m.finished
    OBVIOUS
  <2>1. r \in Req /\ InBatch(m, i, r)
    BY <1>4, <1>11
  <2>2. After(r) # 0 => After(r) \in m.finished
    BY <1>1, <2>1 DEF InTurn, Known
  <2> QED
    BY <1>1, <2>1, <2>2 DEF OnePlace
<1>16. OnePlace(q)
  <2>1. \A j, k \in Instances, r \in Req : InQueue(q, j, r) /\ InQueue(q, k, r) => j = k
    BY <1>1, <1>8, <1>14, <1>15 DEF OnePlace
  <2>2. \A j, k \in Instances, r \in Req : ~(InQueue(q, j, r) /\ InBatch(q, k, r))
    BY <1>1, <1>8, <1>12, <1>13, <1>14 DEF OnePlace
  <2>3. \A j, k \in Instances : \A x \in q.inflight[j], y \in q.inflight[k] :
          x.reqs \cap y.reqs # {} => j = k /\ x = y
    <3>1. \A j \in Instances : fl[j] \subseteq m.inflight[j]
      BY <1>5
    <3> QED
      BY <1>1, <1>10, <3>1 DEF OnePlace
  <2>4. \A r \in q.pending \cup q.finished, j \in Instances : ~InQueue(q, j, r) /\ ~InBatch(q, j, r)
    BY <1>1, <1>8, <1>10, <1>12, <1>14, <1>15 DEF OnePlace
  <2>5. q.pending \cap q.finished = {}
    BY <1>1, <1>10 DEF OnePlace
  <2> QED
    BY <2>1, <2>2, <2>3, <2>4, <2>5 DEF OnePlace
<1>17. InTurn(q)
  <2> SUFFICES ASSUME NEW r \in Req, Known(q, r), After(r) # 0
               PROVE  After(r) \in q.finished
    BY DEF InTurn
  <2>1. Known(m, r) \/ r \in b.reqs
    BY <1>8, <1>10, <1>12, <1>14 DEF Known
  <2> QED
    BY <1>1, <1>10, <1>15, <2>1 DEF InTurn
<1>18. \A r \in S : /\ r \notin q.pending /\ r \notin q.finished
                    /\ \A j \in Instances : ~InQueue(q, j, r) /\ ~InBatch(q, j, r)
                    /\ After(r) # 0 => After(r) \in q.finished
  BY <1>8, <1>10, <1>13, <1>14, <1>15
<1> QED
  BY <1>4, <1>5, <1>6, <1>7, <1>10, <1>16, <1>17, <1>18 DEF Placed, fl

(* Prompts that were computed go to the queue of their decode instance. *)
LEMMA TransferredKeeps ==
  ASSUME sim \in Simulations, NEW m, Placed(m), NEW S \in SUBSET Req,
         \A r \in S : /\ r \notin m.pending /\ r \notin m.finished
                      /\ \A i \in Instances : ~InQueue(m, i, r) /\ ~InBatch(m, i, r)
                      /\ After(r) # 0 => After(r) \in m.finished
  PROVE  LET q == Transferred(m, S)
         IN  /\ Placed(q) /\ SameGroups(m, q) /\ SameEnds(m, q) /\ SameDone(m, q)
             /\ q.current = m.current /\ q.answers = m.answers /\ q.inflight = m.inflight
             /\ \A i \in Instances : q.queue[i] = m.queue[i] \/ Role(i) = "decode"
<1> DEFINE to(i) == {r \in S : sim.reqs[r].decode = i}
           queue == [i \in Instances |-> m.queue[i] \cup to(i)]
           q == [m EXCEPT !.queue = queue]
<1>1. Transferred(m, S) = q
  BY DEF Transferred
<1>2. m \in LoopType /\ OnePlace(m) /\ InTurn(m)
  BY DEF Placed
<1>3. m.queue \in [Instances -> SUBSET Req]
  BY <1>2 DEF LoopType
<1>4. queue \in [Instances -> SUBSET Req] /\ \A i \in Instances : queue[i] = m.queue[i] \cup to(i)
  BY <1>3
<1>5. \A i, j : \A r : r \in to(i) => r \in S /\ (r \in to(j) => i = j)
  OBVIOUS
<1>6. ASSUME NEW i \in Instances
      PROVE  queue[i] = m.queue[i] \/ Role(i) = "decode"
  <2>1. \A r \in to(i) : Role(i) = "decode"
    BY SimulationTypes
  <2> QED
    BY <1>3, <1>4, <2>1
<1> HIDE DEF to, queue
<1>7. /\ q \in LoopType /\ SameGroups(m, q) /\ SameEnds(m, q) /\ SameDone(m, q)
      /\ q.current = m.current /\ q.answers = m.answers /\ q.inflight = m.inflight
      /\ q.queue = queue
  BY <1>2, <1>4 DEF LoopType, SameGroups, SameEnds, SameDone
<1> HIDE DEF q
<1>8. \A i, r : i \in Instances => /\ InBatch(q, i, r) <=> InBatch(m, i, r)
                                   /\ InQueue(q, i, r) <=> InQueue(m, i, r) \/ r \in to(i)
  BY <1>4, <1>7 DEF InBatch, InQueue
<1>9. q.pending = m.pending /\ q.finished = m.finished
  BY <1>7 DEF SameDone
<1>10. OnePlace(q)
  <2>1. \A i, j \in Instances, r \in Req : InQueue(q, i, r) /\ InQueue(q, j, r) => i = j
    BY <1>2, <1>5, <1>8 DEF OnePlace
  <2>2. \A i, j \in Instances, r \in Req : ~(InQueue(q, i, r) /\ InBatch(q, j, r))
    BY <1>2, <1>5, <1>8 DEF OnePlace
  <2>3. \A i, j \in Instances : \A b \in q.inflight[i], c \in q.inflight[j] :
          b.reqs \cap c.reqs # {} => i = j /\ b = c
    BY <1>2, <1>7 DEF OnePlace
  <2>4. \A r \in q.pending \cup q.finished, i \in Instances : ~InQueue(q, i, r) /\ ~InBatch(q, i, r)
    BY <1>2, <1>5, <1>8, <1>9 DEF OnePlace
  <2> QED
    BY <1>2, <1>9, <2>1, <2>2, <2>3, <2>4 DEF OnePlace
<1>11. InTurn(q)
  BY <1>2, <1>5, <1>8, <1>9 DEF InTurn, Known
<1> QED
  BY <1>1, <1>4, <1>6, <1>7, <1>10, <1>11 DEF Placed

LEMMA AddDoneKeeps ==
  ASSUME sim \in Simulations, NEW m, Placed(m), NEW n \in Npus, NEW id \in Int
  PROVE  LET q == AddDone(m, n, id)
         IN  /\ Placed(q) /\ SameGroups(m, q) /\ SameEnds(m, q)
             /\ q.current = m.current /\ q.answers = m.answers
             /\ AddDoneShape(m, q, n, id) /\ m.finished \subseteq q.finished
             /\ ~HasDeferred(m) => q.pending = m.pending
<1> DEFINE i     == n[1]
           found == {b \in m.inflight[i] : b.id = id - 1 /\ n \notin b.end}
           b     == CHOOSE x \in found : TRUE
           left  == [r \in Req |-> m.left[r] - IF r \in b.reqs THEN 1 ELSE 0]
           over  == {r \in b.reqs : left[r] <= IF Role(i) = "prefill" THEN sim.reqs[r].gen ELSE 0}
           done  == Queued([m EXCEPT !.inflight[i] = @ \ {b}, !.left = left],
                           i, m.queue[i] \cup (b.reqs \ over))
           ended == [m EXCEPT !.inflight[i] = (@ \ {b}) \cup {Marked(b, n)}]
           q     == AddDone(m, n, id)
<1>1. i \in Instances /\ n \in Reporting(i)
  BY NpuPairs
<1>2. q = IF found = {} THEN m
          ELSE IF b.end \cup {n} # Reporting(i) THEN ended
          ELSE IF Role(i) = "prefill" THEN Transferred(done, over) ELSE Completed(done, over)
  BY DEF AddDone, Marked
<1>3. m \in LoopType
  BY DEF Placed
<1>4. m.inflight \in [Instances -> SUBSET Batch] /\ m.left \in [Req -> Int]
      /\ m.queue \in [Instances -> SUBSET Req]
  BY <1>3 DEF LoopType
<1>5. CASE found = {}
  <2>1. q = m
    BY <1>2, <1>5
  <2>2. AddDoneShape(m, q, n, id)
    BY <1>5, <2>1 DEF AddDoneShape
  <2> HIDE DEF q
  <2> QED
    BY <2>1, <2>2 DEF q, SameGroups, SameEnds
<1>6. CASE found # {}
  <2>1. b \in m.inflight[i] /\ b.id = id - 1 /\ n \notin b.end
    BY <1>6
  <2>2. b \in Batch
    BY <1>1, <1>4, <2>1
  <2> HIDE DEF b, found
  <2>3. left \in [Req -> Int]
    BY <1>4
  <2>4. over \in SUBSET b.reqs
    OBVIOUS
  <2> HIDE DEF left, over
  <2>5. CASE b.end \cup {n} # Reporting(i)
    <3>1. q = ended
      BY <1>2, <1>6, <2>5
    <3> HIDE DEF q
    <3>2. Marked(b, n) \in Batch /\ Marked(b, n).id = b.id /\ Marked(b, n).reqs = b.reqs
      BY <2>2 DEF Batch, Marked
    <3>3. /\ Placed(q) /\ SameGroups(m, q) /\ SameEnds(m, q) /\ SameDone(m, q)
          /\ q.current = m.current /\ q.answers = m.answers /\ q.queue = m.queue
          /\ q.inflight = [m.inflight EXCEPT ![i] = (@ \ {b}) \cup {Marked(b, n)}]
      <4> DEFINE c == Marked(b, n)
      <4>1. q = [m EXCEPT !.inflight[i] = (@ \ {b}) \cup {c}]
        BY <3>1
      <4>2. c \in Batch /\ c.id = b.id /\ c.reqs = b.reqs
        BY <3>2
      <4> HIDE DEF c, i
      <4>3. /\ Placed(q) /\ SameGroups(m, q) /\ SameEnds(m, q) /\ SameDone(m, q)
            /\ q.current = m.current /\ q.answers = m.answers /\ q.queue = m.queue
            /\ q.inflight = [m.inflight EXCEPT ![i] = (@ \ {b}) \cup {c}]
        BY <1>1, <2>1, <4>1, <4>2, BatchMarked
      <4> QED
        BY <4>3 DEF c
    <3>4. EndsBatch(m, q, n, id, b)
      BY <2>1, <2>5, <3>3 DEF EndsBatch
    <3>5. AddDoneShape(m, q, n, id)
      BY <2>1, <3>3, <3>4 DEF AddDoneShape
    <3>6. m.finished = q.finished /\ q.pending = m.pending
      BY <3>3 DEF SameDone
    <3> QED
      BY <3>3, <3>5, <3>6 DEF q
  <2>6. CASE b.end \cup {n} = Reporting(i)
    <3>1. /\ Placed(done) /\ SameGroups(m, done) /\ SameEnds(m, done)
          /\ done.current = m.current /\ done.answers = m.answers
          /\ done.pending = m.pending /\ done.finished = m.finished
          /\ done.inflight = [m.inflight EXCEPT ![i] = @ \ {b}]
          /\ \A j \in Instances : j # i => done.queue[j] = m.queue[j]
          /\ over \subseteq Req
          /\ \A r \in over : /\ r \notin done.pending /\ r \notin done.finished
                             /\ \A j \in Instances : ~InQueue(done, j, r) /\ ~InBatch(done, j, r)
                             /\ After(r) # 0 => After(r) \in done.finished
      BY <1>1, <2>1, <2>3, <2>4, BatchLeaves
    <3> HIDE DEF done
    <3>2. ~HasDeferred(m) => ~HasDeferred(done)
      BY <3>1 DEF HasDeferred
    <3>3. CASE Role(i) = "prefill"
      <4>1. q = Transferred(done, over)
        BY <1>2, <1>6, <2>6, <3>3
      <4> HIDE DEF q
      <4>2. /\ Placed(q) /\ SameGroups(done, q) /\ SameEnds(done, q) /\ SameDone(done, q)
            /\ q.current = done.current /\ q.answers = done.answers /\ q.inflight = done.inflight
            /\ \A j \in Instances : q.queue[j] = done.queue[j] \/ Role(j) = "decode"
        BY <3>1, <4>1, TransferredKeeps
      <4>3. EndsBatch(m, q, n, id, b)
        BY <2>1, <2>6, <3>1, <4>2 DEF EndsBatch
      <4>4. AddDoneShape(m, q, n, id)
        BY <2>1, <3>1, <3>3, <4>2, <4>3 DEF AddDoneShape
      <4> QED
        BY <3>1, <4>2, <4>4 DEF q, SameGroups, SameEnds, SameDone
    <3>4. CASE Role(i) # "prefill"
      <4>1. q = Completed(done, over)
        BY <1>2, <1>6, <2>6, <3>4
      <4> HIDE DEF q
      <4>2. /\ Placed(q) /\ SameGroups(done, q) /\ SameEnds(done, q)
            /\ q.current = done.current /\ q.answers = done.answers /\ q.queue = done.queue
            /\ q.inflight = done.inflight /\ done.finished \subseteq q.finished
            /\ ~HasDeferred(done) => q.pending = done.pending
        BY <3>1, <4>1, CompletedKeeps
      <4>3. EndsBatch(m, q, n, id, b)
        BY <2>1, <2>6, <3>1, <4>2 DEF EndsBatch
      <4>4. AddDoneShape(m, q, n, id)
        BY <2>1, <3>1, <4>2, <4>3 DEF AddDoneShape
      <4> QED
        BY <3>1, <3>2, <4>2, <4>4 DEF q, SameGroups, SameEnds
    <3> QED
      BY <3>3, <3>4
  <2> QED
    BY <2>5, <2>6
<1> QED
  BY <1>5, <1>6

(* schedule returns nothing, forms a batch of what is queued on the first  *)
(* NPU, or hands the batch of an iteration to the last one.                *)
Fired(b, n) == [b EXCEPT !.fired = b.fired \cup {n}]
FormsBatch(m, q, n, b) ==
  /\ n = Start(n[1]) /\ ~(Cardinality(m.inflight[n[1]]) >= sim.inst[n[1]].pp)
  /\ b \in Batch /\ b.id = m.batchIds[n[1]] /\ b.end = {}
  /\ b.reqs \subseteq m.queue[n[1]] /\ b.reqs # {}
  /\ q.inflight = [m.inflight EXCEPT ![n[1]] = @ \cup {b}]
  /\ q.batchIds = [m.batchIds EXCEPT ![n[1]] = @ + 1]
  /\ q.waves = m.waves /\ q.ready = m.ready /\ q.made = m.made
  /\ \A j \in Instances : j # n[1] => q.queue[j] = m.queue[j]
PicksBatch(m, q, n, b) ==
  /\ n # Start(n[1]) /\ b \in m.inflight[n[1]]
  /\ q.inflight = [m.inflight EXCEPT ![n[1]] = (@ \ {b}) \cup {Fired(b, n)}]
  /\ SameGroups(m, q) /\ q.queue = m.queue
ScheduledShape(m, s, n) ==
  \/ s.batch = NoBatch /\ s.m = m
  \/ s.batch # NoBatch /\ FormsBatch(m, s.m, n, s.batch)
  \/ s.batch # NoBatch /\ PicksBatch(m, s.m, n, s.batch)

LEMMA NewBatchKeeps ==
  ASSUME NEW m, Placed(m), NEW i \in Instances,
         NEW b, b.reqs \subseteq m.queue[i],
         NEW q, q \in LoopType, SameDone(m, q),
         q.inflight = [m.inflight EXCEPT ![i] = @ \cup {b}],
         q.queue = [j \in Instances |-> IF j = i THEN m.queue[i] \ b.reqs ELSE m.queue[j]]
  PROVE  Placed(q)
<1> DEFINE fl == q.inflight
           qu == q.queue
<1>1. m \in LoopType /\ OnePlace(m) /\ InTurn(m)
  BY DEF Placed
<1>2. m.inflight \in [Instances -> SUBSET Batch] /\ m.queue \in [Instances -> SUBSET Req]
  BY <1>1 DEF LoopType
<1>3. fl[i] = m.inflight[i] \cup {b} /\ \A j \in Instances : j # i => fl[j] = m.inflight[j]
  BY <1>2
<1>4. qu[i] = m.queue[i] \ b.reqs /\ \A j \in Instances : j # i => qu[j] = m.queue[j]
  BY <1>2
<1>7. q.inflight = fl /\ q.queue = qu
  OBVIOUS
<1> HIDE DEF fl, qu
<1>8. \A r \in b.reqs : r \in Req /\ InQueue(m, i, r)
  BY <1>2 DEF InQueue
<1>9. \A j, r : j \in Instances => (InQueue(q, j, r) <=> InQueue(m, j, r) /\ ~(j = i /\ r \in b.reqs))
  BY <1>4, <1>7 DEF InQueue
<1>10. \A j, r : j \in Instances => (InBatch(q, j, r) <=> InBatch(m, j, r) \/ (j = i /\ r \in b.reqs))
  BY <1>3, <1>7 DEF InBatch
<1>11. q.pending = m.pending /\ q.finished = m.finished
  BY <1>7 DEF SameDone
<1>12. OnePlace(q)
  <2>1. \A j, k \in Instances, r \in Req : InQueue(q, j, r) /\ InQueue(q, k, r) => j = k
    BY <1>1, <1>9 DEF OnePlace
  <2>2. \A j, k \in Instances, r \in Req : ~(InQueue(q, j, r) /\ InBatch(q, k, r))
    BY <1>1, <1>8, <1>9, <1>10 DEF OnePlace
  <2>3. \A j, k \in Instances : \A x \in fl[j], y \in fl[k] :
          x.reqs \cap y.reqs # {} => j = k /\ x = y
    <3> SUFFICES ASSUME NEW j \in Instances, NEW k \in Instances, NEW x \in fl[j], NEW y \in fl[k],
                        x.reqs \cap y.reqs # {}
                 PROVE  j = k /\ x = y
      OBVIOUS
    <3>1. \A h \in Instances : \A z \in fl[h] : z \in m.inflight[h] \/ (h = i /\ z = b)
      BY <1>3
    <3>2. \A h \in Instances : \A z \in m.inflight[h] : z.reqs \cap b.reqs = {}
      <4> SUFFICES ASSUME NEW h \in Instances, NEW z \in m.inflight[h], NEW r \in z.reqs, r \in b.reqs
                   PROVE  FALSE
        OBVIOUS
      <4>1. InBatch(m, h, r)
        BY DEF InBatch
      <4> QED
        BY <1>1, <1>8, <4>1 DEF OnePlace
    <3>3. CASE x \in m.inflight[j] /\ y \in m.inflight[k]
      BY <1>1, <3>3 DEF OnePlace
    <3> QED
      BY <3>1, <3>2, <3>3
  <2>4. \A r \in q.pending \cup q.finished, j \in Instances : ~InQueue(q, j, r) /\ ~InBatch(q, j, r)
    BY <1>1, <1>8, <1>9, <1>10, <1>11 DEF OnePlace
  <2> QED
    BY <1>1, <1>7, <1>11, <2>1, <2>2, <2>3, <2>4 DEF OnePlace
<1>13. InTurn(q)
  <2> SUFFICES ASSUME NEW r \in Req, Known(q, r), After(r) # 0
               PROVE  After(r) \in q.finished
    BY DEF InTurn
  <2>1. Known(m, r)
    BY <1>8, <1>9, <1>10, <1>11 DEF Known
  <2> QED
    BY <1>1, <1>11, <2>1 DEF InTurn
<1> QED
  BY <1>12, <1>13 DEF Placed

LEMMA ScheduledKeeps ==
  ASSUME sim \in Simulations, NEW m, Placed(m), NEW n \in Npus, NEW id \in Int,
         NEW s \in Scheduled(m, n, id)
  PROVE  /\ Placed(s.m) /\ SameEnds(m, s.m) /\ SameDone(m, s.m)
         /\ s.m.current = m.current /\ s.m.answers = m.answers
         /\ ScheduledShape(m, s, n)
<1> DEFINE i     == n[1]
           found == {b \in m.inflight[i] : b.id = id /\ n \notin b.fired}
           new(b) == Queued([m EXCEPT !.inflight[i] = @ \cup {b}, !.batchIds[i] = @ + 1],
                            i, m.queue[i] \ b.reqs)
           started(b) == [m EXCEPT !.inflight[i] = (@ \ {b}) \cup {Fired(b, n)}]
<1>1. i \in Instances /\ n \in Reporting(i) /\ n \in Npus
  BY NpuPairs
<1>2. m \in LoopType
  BY DEF Placed
<1>3. m.inflight \in [Instances -> SUBSET Batch] /\ m.queue \in [Instances -> SUBSET Req]
      /\ m.batchIds \in [Instances -> Nat]
  BY <1>2 DEF LoopType
<1>4. ASSUME s.batch = NoBatch, s.m = m
      PROVE  /\ Placed(s.m) /\ SameEnds(m, s.m) /\ SameDone(m, s.m)
             /\ s.m.current = m.current /\ s.m.answers = m.answers
             /\ ScheduledShape(m, s, n)
  BY <1>4 DEF SameEnds, SameDone, ScheduledShape
<1>8. ASSUME NEW b \in Batch, b.reqs \subseteq m.queue[i]
      PROVE  LET q == new(b)
             IN  /\ Placed(q) /\ SameEnds(m, q) /\ SameDone(m, q)
                 /\ q.current = m.current /\ q.answers = m.answers
                 /\ q.inflight = [m.inflight EXCEPT ![i] = @ \cup {b}]
                 /\ q.batchIds = [m.batchIds EXCEPT ![i] = @ + 1]
                 /\ q.waves = m.waves /\ q.ready = m.ready /\ q.made = m.made
                 /\ \A j \in Instances : j # i => q.queue[j] = m.queue[j]
  <2> DEFINE fl == [m.inflight EXCEPT ![i] = @ \cup {b}]
             ids == [m.batchIds EXCEPT ![i] = @ + 1]
             qu == [j \in Instances |-> IF j = i THEN m.queue[i] \ b.reqs ELSE m.queue[j]]
             q == [m EXCEPT !.inflight = fl, !.batchIds = ids, !.queue = qu]
  <2>1. new(b) = q
    BY <1>1, <1>2 DEF Queued, LoopType
  <2>2. fl \in [Instances -> SUBSET Batch]
    BY <1>1, <1>3
  <2>3. ids \in [Instances -> Nat]
    BY <1>1, <1>3
  <2>4. qu \in [Instances -> SUBSET Req] /\ \A j \in Instances : j # i => qu[j] = m.queue[j]
    BY <1>1, <1>3
  <2> HIDE DEF fl, ids, qu, new
  <2>5. /\ q \in LoopType /\ SameEnds(m, q) /\ SameDone(m, q)
        /\ q.current = m.current /\ q.answers = m.answers
        /\ q.inflight = fl /\ q.batchIds = ids /\ q.queue = qu
        /\ q.waves = m.waves /\ q.ready = m.ready /\ q.made = m.made
    BY <1>2, <2>2, <2>3, <2>4 DEF LoopType, SameEnds, SameDone
  <2> HIDE DEF q
  <2>6. /\ q.inflight = [m.inflight EXCEPT ![i] = @ \cup {b}]
        /\ q.batchIds = [m.batchIds EXCEPT ![i] = @ + 1]
        /\ q.queue = [j \in Instances |-> IF j = i THEN m.queue[i] \ b.reqs ELSE m.queue[j]]
    BY <2>5 DEF fl, ids, qu
  <2> HIDE DEF i
  <2>7. Placed(q)
    BY <1>1, <1>8, <2>5, <2>6, NewBatchKeeps
  <2> QED
    BY <2>1, <2>4, <2>5, <2>6, <2>7
<1>5. CASE n = Start(i)
  <2>1. PICK b \in NewBatches(m, n) : s = [batch |-> b, m |-> IF b = NoBatch THEN m ELSE new(b)]
    BY <1>5 DEF Scheduled
  <2>2. CASE b = NoBatch
    BY <1>4, <2>1, <2>2
  <2>3. CASE b # NoBatch
    <3> DEFINE arrived == {r \in m.queue[i] : m.arrival[r] <= m.current}
    <3>1. PICK S \in (SUBSET arrived) \ {{}} : b = [id |-> m.batchIds[i], reqs |-> S, fired |-> {n}, end |-> {}]
      BY <2>1, <2>3 DEF NewBatches
    <3>2. S \subseteq m.queue[i] /\ S \subseteq Req /\ S # {} /\ m.batchIds[i] \in Nat
      BY <1>1, <1>3, <3>1
    <3>3. ~(Cardinality(m.inflight[i]) >= sim.inst[i].pp)
      BY <2>1, <2>3 DEF NewBatches
    <3>4. b \in Batch /\ b.id = m.batchIds[i] /\ b.end = {} /\ b.reqs = S
      BY <1>1, <3>1, <3>2 DEF Batch
    <3> DEFINE q == new(b)
    <3>5. /\ Placed(q) /\ SameEnds(m, q) /\ SameDone(m, q)
          /\ q.current = m.current /\ q.answers = m.answers
          /\ q.inflight = [m.inflight EXCEPT ![i] = @ \cup {b}]
          /\ q.batchIds = [m.batchIds EXCEPT ![i] = @ + 1]
          /\ q.waves = m.waves /\ q.ready = m.ready /\ q.made = m.made
          /\ \A j \in Instances : j # i => q.queue[j] = m.queue[j]
      <4>1. b.reqs \subseteq m.queue[i]
        BY <3>2, <3>4
      <4> QED
        BY <1>8, <3>4, <4>1
    <3>6. s.batch = b /\ s.m = q
      BY <2>1, <2>3
    <3> HIDE DEF q
    <3>7. FormsBatch(m, q, n, b)
      BY <1>5, <3>2, <3>3, <3>4, <3>5 DEF FormsBatch
    <3> QED
      BY <2>3, <3>5, <3>6, <3>7 DEF ScheduledShape
  <2> QED
    BY <2>2, <2>3
<1>6. CASE n # Start(i) /\ found = {}
  <2>1. s = [batch |-> NoBatch, m |-> m]
    BY <1>6 DEF Scheduled
  <2> QED
    BY <1>4, <2>1
<1>7. CASE n # Start(i) /\ found # {}
  <2>1. PICK b \in found : s = [batch |-> b, m |-> started(b)]
    BY <1>7 DEF Scheduled, Fired
  <2>2. b \in m.inflight[i] /\ b \in Batch
    BY <1>1, <1>3, <2>1
  <2>3. b # NoBatch
    <3>1. b.id \in Nat
      BY <2>2 DEF Batch
    <3> QED
      BY <3>1 DEF NoBatch
  <2> DEFINE c == Fired(b, n)
             q == started(b)
  <2>4. c \in Batch /\ c.id = b.id /\ c.reqs = b.reqs
    BY <1>1, <2>2 DEF Batch, Fired
  <2>5. /\ Placed(q) /\ SameGroups(m, q) /\ SameEnds(m, q) /\ SameDone(m, q)
        /\ q.current = m.current /\ q.answers = m.answers /\ q.queue = m.queue
        /\ q.inflight = [m.inflight EXCEPT ![i] = (@ \ {b}) \cup {c}]
    <3> HIDE DEF c, i
    <3>1. LET k == [m EXCEPT !.inflight[i] = (@ \ {b}) \cup {c}]
          IN  /\ Placed(k) /\ SameGroups(m, k) /\ SameEnds(m, k) /\ SameDone(m, k)
              /\ k.current = m.current /\ k.answers = m.answers /\ k.queue = m.queue
              /\ k.inflight = [m.inflight EXCEPT ![i] = (@ \ {b}) \cup {c}]
      BY <1>1, <2>2, <2>4, BatchMarked
    <3> QED
      BY <3>1 DEF c
  <2>6. s.batch = b /\ s.m = q
    BY <2>1
  <2> HIDE DEF q
  <2>7. PicksBatch(m, q, n, b)
    BY <1>7, <2>2, <2>5 DEF PicksBatch
  <2> QED
    BY <2>3, <2>5, <2>6, <2>7 DEF ScheduledShape
<1> QED
  BY <1>5, <1>6, <1>7

-----------------------------------------------------------------------------
(* Groups *)

(* ASTRA-Sim obeys. *)
Idle(line) == line \in {Pass, Done, Exit}
Told(p, n, id, line) ==
  [p EXCEPT ![n] =
     [ran |-> id,
      todo |-> IF ~Idle(line) THEN "run" ELSE IF line = Pass THEN "wait" ELSE "sleep",
      load |-> IF Idle(line) THEN Nothing ELSE line]]
Heard(J, n, line) ==
  IF Idle(line) THEN J
  ELSE With(J, line, {n} \cup IF line \in DOMAIN J THEN J[line] ELSE {})

(* A group that a report does not reach stays in step. *)
LEMMA GroupUnmoved ==
  ASSUME sim \in Simulations, NEW g \in Groups, NEW m, NEW q, NEW p, NEW t, NEW J, NEW K,
         InStep(m, p, J, g),
         \A j \in Members(g) : q.inflight[j] = m.inflight[j] /\ q.batchIds[j] = m.batchIds[j],
         \A j \in Members(g) : j \in DOMAIN q.ready <=> j \in DOMAIN m.ready,
         \A j \in Members(g) : j \in DOMAIN m.ready => q.ready[j] = m.ready[j],
         \A j \in Members(g) : /\ t[Start(j)].ran = p[Start(j)].ran
                               /\ t[Start(j)].load = p[Start(j)].load
                               /\ t[Start(j)].todo = "run" <=> p[Start(j)].todo = "run",
         q.waves[g] = m.waves[g],
         \A w : w[1] = "dp" /\ w[2] = g => (w \in DOMAIN K <=> w \in DOMAIN J),
         \A w \in DOMAIN J : w[1] = "dp" /\ w[2] = g => K[w] = J[w]
  PROVE  InStep(q, t, K, g)
<1>1. Leader(g) \in Members(g)
  BY LeaderExists
<1>2. \A i \in Members(g) : Group(i) = g
  BY DEF Members
<1>3. ASSUME NEW i \in Members(g)
      PROVE  Counted(q, t, i)
  <2>1. Debt(q, t, i) = Debt(m, p, i)
    BY <1>2 DEF Debt, One
  <2> QED
    BY <2>1 DEF InStep, Counted
<1>4. Begun(q, g)
  BY DEF InStep, Begun, Busy
<1>5. Started(q, t, K, g)
  <2> SUFFICES ASSUME Waiting(q, g) # {}
               PROVE  \E s \in Members(g) : Starter(q, t, K, g, s, t[Start(s)].load)
    BY DEF Started
  <2>1. Waiting(q, g) = Waiting(m, g)
    BY DEF Waiting
  <2>2. PICK s \in Members(g) : Starter(m, p, J, g, s, p[Start(s)].load)
    BY <2>1 DEF InStep, Started
  <2>3. t[Start(s)].load = p[Start(s)].load /\ t[Start(s)].todo = "run"
    BY <2>2 DEF Starter
  <2> DEFINE w == p[Start(s)].load
  <2>4. w[1] = "dp" /\ w[2] = g /\ w \in DOMAIN J
    BY <2>2 DEF Starter
  <2>5. w \in DOMAIN K /\ K[w] = J[w]
    BY <2>4
  <2>6. \A j \in Waiting(q, g) : q.ready[j] = w /\ Start(j) \notin K[w]
    BY <2>1, <2>2, <2>5 DEF Starter, Waiting
  <2>7. \E k \in Members(g) : Busy(q, k) /\ (k \in DOMAIN q.ready \/ t[Start(k)].load = w)
    BY <2>2 DEF Starter, Busy
  <2>8. s \notin DOMAIN q.waves[g] /\ s \notin DOMAIN q.ready
    BY <2>2 DEF Starter
  <2> QED
    BY <2>3, <2>4, <2>5, <2>6, <2>7, <2>8 DEF Starter
<1>6. Named(q, K, g)
  BY <1>1 DEF InStep, Named
<1> QED
  BY <1>3, <1>4, <1>5, <1>6 DEF InStep

(* Member i reports: its batch leaves unless a wave or a workload that is  *)
(* ready holds it, and it cannot be the one that others wait for.          *)
LEMMA ReportInStep ==
  ASSUME sim \in Simulations, SingleNpuGroups,
         NEW i \in Instances, Group(i) # 0,
         NEW m \in LoopType, NEW q \in LoopType, NEW p \in [Npus -> NpuType], NEW t, NEW J,
         InStep(m, p, J, Group(i)),
         p[Start(i)].load # Nothing => p[Start(i)].todo = "run",
         p[Start(i)].todo # "wait" /\ p[Start(i)].load[1] = "dp" =>
           \A k \in Members(p[Start(i)].load[2]) : \E s \in Reporting(k) : s \in J[p[Start(i)].load],
         NEW id, id = p[Start(i)].ran + One(p[Start(i)].todo = "run"),
         SameGroups(m, q), AddDoneShape(m, q, Start(i), id),
         t[Start(i)].ran = id, t[Start(i)].todo # "run", t[Start(i)].load = Nothing,
         \A j \in Instances : j # i => t[Start(j)] = p[Start(j)]
  PROVE  InStep(q, t, J, Group(i))
<1> DEFINE g == Group(i)
           n == Start(i)
<1>1. /\ g \in Groups /\ i \in Members(g) /\ Reporting(i) = {n} /\ n[1] = i /\ n \in Npus
      /\ Members(g) \subseteq Instances /\ \A j \in Members(g) : Group(j) = g
  BY GroupTypes, NpuPairs
<1>2. p[n].ran \in Int /\ id \in Int /\ (id = p[n].ran \/ id = p[n].ran + 1)
      /\ (p[n].todo = "run" => id = p[n].ran + 1)
  <2>1. p[n] \in NpuType
    BY <1>1
  <2> QED
    BY <2>1 DEF NpuType, One
<1>3. /\ \A j \in Instances : m.batchIds[j] \in Nat
      /\ m.inflight \in [Instances -> SUBSET Batch]
  BY DEF LoopType
<1>4. q.batchIds = m.batchIds /\ q.waves = m.waves /\ q.ready = m.ready
  BY DEF SameGroups
<1>5. Counted(m, p, i) /\ Begun(m, g) /\ Started(m, p, J, g) /\ Named(m, J, g)
  BY <1>1 DEF InStep
<1>6. /\ \A j \in Instances : j # i => q.inflight[j] = m.inflight[j]
      /\ \/ q.inflight[i] = m.inflight[i] /\ \A b \in m.inflight[i] : b.id # id - 1
         \/ q.inflight[i] = {} /\ m.batchIds[i] = id
  <2>1. \A b, c \in m.inflight[i] : b = c
    BY <1>5 DEF Counted
  <2>2. \A b \in m.inflight[i] : b.id = m.batchIds[i] - 1 /\ b.end = {}
    BY <1>5 DEF Counted
  <2>3. CASE q = m /\ \A b \in m.inflight[n[1]] : b.id # id - 1 \/ n \in b.end
    BY <1>1, <2>2, <2>3
  <2>4. ASSUME NEW b \in m.inflight[n[1]], EndsBatch(m, q, n, id, b)
        PROVE  q.inflight = [m.inflight EXCEPT ![i] = @ \ {b}] /\ b.id = id - 1
    BY <1>1, <2>2, <2>4 DEF EndsBatch
  <2>5. CASE \E b \in m.inflight[n[1]] : EndsBatch(m, q, n, id, b)
    <3>1. PICK b \in m.inflight[i] : EndsBatch(m, q, n, id, b)
      BY <1>1, <2>5
    <3>2. q.inflight = [m.inflight EXCEPT ![i] = @ \ {b}] /\ b.id = id - 1
      BY <1>1, <2>4, <3>1
    <3>3. q.inflight[i] = {}
      BY <1>3, <2>1, <3>2
    <3>4. m.batchIds[i] = id
      BY <1>2, <1>3, <2>2, <3>2
    <3> QED
      BY <1>3, <3>2, <3>3, <3>4
  <2> QED
    BY <2>3, <2>5 DEF AddDoneShape
<1>8. /\ m.batchIds[i] >= p[n].ran + One(p[n].todo = "run") + One(i \in DOMAIN m.ready)
                            + One(i \in DOMAIN m.waves[g])
      /\ id = p[n].ran + One(p[n].todo = "run")
  <2>1. /\ One(p[n].todo = "run") \in Int /\ One(i \in DOMAIN m.ready) \in Int
        /\ One(i \in DOMAIN m.waves[g]) \in Int
    BY DEF One
  <2> QED
    BY <1>1, <1>2, <1>3, <1>5, <2>1 DEF Counted, Debt
<1>9. m.batchIds[i] >= id + One(i \in DOMAIN m.ready) + One(i \in DOMAIN m.waves[g])
  <2>1. /\ One(p[n].todo = "run") \in Int /\ One(i \in DOMAIN m.ready) \in Int
        /\ One(i \in DOMAIN m.waves[g]) \in Int
    BY DEF One
  <2> QED
    BY <1>2, <1>3, <1>8, <2>1
<1>10. i \in DOMAIN m.ready \/ i \in DOMAIN m.waves[g] => q.inflight[i] = m.inflight[i]
  BY <1>2, <1>3, <1>6, <1>9 DEF One
<1>11. \A k \in Members(g) : Busy(m, k) /\ (k # i \/ k \in DOMAIN m.ready \/ k \in DOMAIN m.waves[g])
         => Busy(q, k)
  BY <1>1, <1>6, <1>10 DEF Busy
<1>12. ASSUME NEW j \in Members(g)
       PROVE  Counted(q, t, j)
  <2>1. CASE j = i
    <3>1. \A b, c \in q.inflight[i] : b = c
      BY <1>5, <1>6 DEF Counted
    <3>2. \A b \in q.inflight[i] : b.id = q.batchIds[i] - 1 /\ b.id >= id /\ b.end = {}
      <4> SUFFICES ASSUME NEW b \in q.inflight[i]
                   PROVE  b.id = q.batchIds[i] - 1 /\ b.id >= id /\ b.end = {}
        OBVIOUS
      <4>1. b \in m.inflight[i] /\ b.id # id - 1
        BY <1>6
      <4>2. b.id = m.batchIds[i] - 1 /\ b.id >= p[n].ran /\ b.end = {}
        BY <1>5, <4>1 DEF Counted
      <4> QED
        BY <1>2, <1>3, <1>4, <4>1, <4>2
    <3>3. q.batchIds[i] >= id + Debt(q, t, i)
      BY <1>1, <1>2, <1>3, <1>4, <1>9 DEF Debt, One
    <3> QED
      BY <2>1, <3>1, <3>2, <3>3 DEF Counted
  <2>2. CASE j # i
    <3>1. q.inflight[j] = m.inflight[j] /\ t[Start(j)] = p[Start(j)]
      BY <1>1, <1>6, <2>2
    <3>2. Counted(m, p, j)
      BY DEF InStep
    <3> QED
      BY <1>4, <3>1, <3>2 DEF Counted, Debt
  <2> QED
    BY <2>1, <2>2
<1>13. Begun(q, g)
  BY <1>4, <1>5, <1>11 DEF Begun
<1>14. Started(q, t, J, g)
  <2> SUFFICES ASSUME Waiting(q, g) # {}
               PROVE  \E s \in Members(g) : Starter(q, t, J, g, s, t[Start(s)].load)
    BY DEF Started
  <2>1. Waiting(q, g) = Waiting(m, g)
    BY <1>4 DEF Waiting
  <2>2. PICK s \in Members(g) : Starter(m, p, J, g, s, p[Start(s)].load)
    BY <1>5, <2>1 DEF Started
  <2> DEFINE w == p[Start(s)].load
  <2>3. p[n].load # w
    <3> SUFFICES ASSUME p[n].load = w PROVE FALSE
      OBVIOUS
    <3>1. w[1] = "dp" /\ w[2] = g
      BY <2>2 DEF Starter
    <3>2. w # Nothing
      BY <3>1 DEF Nothing
    <3>3. p[n].todo # "wait"
      BY <3>2
    <3>4. \A k \in Members(g) : \E x \in Reporting(k) : x \in J[w]
      BY <3>1, <3>3
    <3>5. PICK k \in Waiting(m, g) : TRUE
      BY <2>1
    <3>6. k \in Members(g) /\ Reporting(k) = {Start(k)} /\ Start(k) \notin J[w]
      BY <1>1, <2>2, <3>5, GroupTypes DEF Waiting, Starter
    <3> QED
      BY <3>4, <3>6
  <2>4. s # i
    BY <2>3
  <2>5. t[Start(s)] = p[Start(s)]
    BY <1>1, <2>4
  <2>6. \E k \in Members(g) : Busy(q, k) /\ (k \in DOMAIN q.ready \/ t[Start(k)].load = w)
    <3>1. PICK k \in Members(g) : Busy(m, k) /\ (k \in DOMAIN m.ready \/ p[Start(k)].load = w)
      BY <2>2 DEF Starter
    <3>2. k # i \/ k \in DOMAIN m.ready
      BY <2>3, <3>1
    <3>3. Busy(q, k)
      BY <1>11, <3>1, <3>2
    <3>4. k = i \/ t[Start(k)] = p[Start(k)]
      BY <1>1
    <3> QED
      BY <1>4, <3>1, <3>2, <3>3, <3>4
  <2> QED
    BY <1>4, <2>1, <2>2, <2>5, <2>6 DEF Starter
<1>15. Named(q, J, g)
  BY <1>4, <1>5 DEF Named
<1> QED
  BY <1>12, <1>13, <1>14, <1>15 DEF InStep

(* A member is handed the workload that is ready for it.                   *)
LEMMA ReadyInStep ==
  ASSUME sim \in Simulations, SingleNpuGroups,
         NEW i \in Instances, Group(i) # 0,
         NEW m \in LoopType, NEW q, NEW p, NEW t, NEW J \in Partial(Line, SUBSET Npus),
         InStep(m, p, J, Group(i)),
         i \in DOMAIN m.ready, p[Start(i)].todo # "run", p[Start(i)].load = Nothing,
         q.inflight = m.inflight, q.batchIds = m.batchIds, q.waves = m.waves,
         q.ready = Without(m.ready, i),
         t[Start(i)].ran = p[Start(i)].ran, t[Start(i)].todo = "run", t[Start(i)].load = m.ready[i],
         \A j \in Instances : j # i => t[Start(j)] = p[Start(j)]
  PROVE  /\ InStep(q, t, Heard(J, Start(i), m.ready[i]), Group(i))
         /\ m.ready[i][1] = "dp" /\ m.ready[i][2] = Group(i)
         /\ \E k \in Members(Group(i)) : Busy(m, k)
<1> DEFINE g == Group(i)
           n == Start(i)
           w == m.ready[i]
           K == Heard(J, n, w)
<1>1. /\ g \in Groups /\ i \in Members(g) /\ Reporting(i) = {n} /\ n \in Npus
      /\ Members(g) \subseteq Instances /\ \A j \in Members(g) : Group(j) = g
      /\ \A j, k : Start(j) = Start(k) => j = k
  BY GroupTypes, NpuPairs
<1>2. i \in Waiting(m, g)
  BY <1>1 DEF Waiting
<1>3. PICK s \in Members(g) : Starter(m, p, J, g, s, p[Start(s)].load)
  BY <1>2 DEF InStep, Started
<1>4. p[Start(s)].load = w /\ s # i
  BY <1>2, <1>3 DEF Starter
<1>5. /\ w[1] = "dp" /\ w[2] = g /\ w \in DOMAIN J /\ w \in Line
      /\ \A j \in Waiting(m, g) : m.ready[j] = w /\ Start(j) \notin J[w]
  <2>1. DOMAIN J \subseteq Line
    BY PartialType
  <2> QED
    BY <1>3, <1>4, <2>1 DEF Starter
<1>6. /\ DOMAIN K = DOMAIN J /\ K[w] = {n} \cup J[w]
      /\ \A x \in DOMAIN J : x # w => K[x] = J[x]
  <2>1. ~Idle(w)
    BY <1>5 DEF Idle, Pass, Done, Exit
  <2>2. K = With(J, w, {n} \cup J[w])
    BY <1>5, <2>1 DEF Heard
  <2> QED
    BY <1>5, <2>2 DEF With
<1> HIDE DEF K
<1>8. DOMAIN q.ready = DOMAIN m.ready \ {i} /\ \A j \in DOMAIN m.ready : j # i => q.ready[j] = m.ready[j]
  BY DEF Without
<1>9. \A j \in Members(g) : j # i => t[Start(j)] = p[Start(j)]
  BY <1>1
<1>10. ASSUME NEW j \in Members(g)
       PROVE  Counted(q, t, j)
  <2>1. Counted(m, p, j)
    BY DEF InStep
  <2>2. Debt(q, t, j) = Debt(m, p, j)
    <3>1. CASE j = i
      BY <1>8, <3>1 DEF Debt, One
    <3>2. CASE j # i
      BY <1>8, <1>9, <3>2 DEF Debt, One
    <3> QED
      BY <3>1, <3>2
  <2>3. t[Start(j)].ran = p[Start(j)].ran
    BY <1>9
  <2> QED
    BY <2>1, <2>2, <2>3 DEF Counted
<1>11. Begun(q, g)
  BY DEF InStep, Begun, Busy
<1>12. Started(q, t, K, g)
  <2> SUFFICES ASSUME Waiting(q, g) # {}
               PROVE  \E x \in Members(g) : Starter(q, t, K, g, x, t[Start(x)].load)
    BY DEF Started
  <2>1. Waiting(q, g) = Waiting(m, g) \ {i}
    BY <1>8 DEF Waiting
  <2>2. t[Start(s)] = p[Start(s)] /\ t[Start(s)].load = w
    BY <1>4, <1>9
  <2>3. \A j \in Waiting(q, g) : q.ready[j] = w /\ Start(j) \notin K[w]
    BY <1>1, <1>5, <1>6, <1>8, <2>1 DEF Waiting
  <2>4. \E k \in Members(g) : Busy(q, k) /\ (k \in DOMAIN q.ready \/ t[Start(k)].load = w)
    <3>1. PICK k \in Members(g) : Busy(m, k) /\ (k \in DOMAIN m.ready \/ p[Start(k)].load = w)
      BY <1>3, <1>4 DEF Starter
    <3>2. CASE k = i
      BY <3>1, <3>2 DEF Busy
    <3>3. CASE k # i
      BY <1>8, <1>9, <3>1, <3>3 DEF Busy
    <3> QED
      BY <3>2, <3>3
  <2>5. s \notin DOMAIN q.waves[g] /\ s \notin DOMAIN q.ready /\ t[Start(s)].todo = "run"
    BY <1>3, <1>8, <2>2 DEF Starter
  <2> QED
    BY <1>5, <1>6, <2>2, <2>3, <2>4, <2>5 DEF Starter
<1>13. Named(q, K, g)
  BY <1>6 DEF InStep, Named
<1>14. \E k \in Members(g) : Busy(m, k)
  BY <1>3 DEF Starter
<1> QED
  BY <1>5, <1>10, <1>11, <1>12, <1>13, <1>14 DEF InStep, K

(* Member i, which had no batch, has one now, or brings a dummy to a wave. *)
Brings(m, q, i) ==
  /\ m.inflight[i] = {} /\ q.batchIds = [m.batchIds EXCEPT ![i] = @ + 1]
  /\ \/ q.inflight = m.inflight /\ m.waves[Group(i)] # <<>>
     \/ \E b \in Batch : /\ b.id = m.batchIds[i] /\ b.end = {}
                         /\ q.inflight = [m.inflight EXCEPT ![i] = {b}]
Longer(m, i) == With(m.waves[Group(i)], i, m.batchIds[i])
NewName(m, i) == Wave(Group(i), Longer(m, i)[Leader(Group(i))])
Readied(m, i, w) ==
  [j \in DOMAIN m.ready \cup (Members(Group(i)) \ {i}) |->
     IF j \in Members(Group(i)) THEN w ELSE m.ready[j]]

Brought(m, q, i) ==
  /\ Longer(m, i) \in Partial(Instances, Nat)
  /\ DOMAIN Longer(m, i) = DOMAIN m.waves[Group(i)] \cup {i}
  /\ Longer(m, i)[i] = m.batchIds[i]
  /\ \A j \in DOMAIN m.waves[Group(i)] : j # i => Longer(m, i)[j] = m.waves[Group(i)][j]
  /\ q.batchIds[i] = m.batchIds[i] + 1 /\ m.batchIds[i] \in Nat
  /\ \A j \in Instances : m.batchIds[j] \in Nat /\ m.batchIds[j] <= q.batchIds[j]
  /\ \A j \in Instances : j # i =>
       q.batchIds[j] = m.batchIds[j] /\ q.inflight[j] = m.inflight[j]
  /\ \A b, c \in q.inflight[i] : b = c
  /\ \A b \in q.inflight[i] : b.id = m.batchIds[i] /\ b.end = {}
  /\ \A k \in Instances : Busy(m, k) => Busy(q, k)
  /\ \E k \in DOMAIN Longer(m, i) : k \in Members(Group(i)) /\ Busy(q, k)

LEMMA BringsBatch ==
  ASSUME sim \in Simulations, SingleNpuGroups,
         NEW i \in Instances, Group(i) # 0,
         NEW m \in LoopType, NEW q, Brings(m, q, i), Begun(m, Group(i))
  PROVE  Brought(m, q, i)
<1> DEFINE g == Group(i)
<1>1. g \in Groups /\ i \in Members(g)
  BY GroupTypes
<1>2. /\ m.batchIds \in [Instances -> Nat] /\ m.inflight \in [Instances -> SUBSET Batch]
      /\ m.waves[g] \in Partial(Instances, Nat)
  BY <1>1 DEF LoopType
<1>3. /\ m.inflight[i] = {} /\ q.batchIds = [m.batchIds EXCEPT ![i] = @ + 1]
      /\ \/ q.inflight = m.inflight /\ m.waves[g] # <<>>
         \/ \E b \in Batch : /\ b.id = m.batchIds[i] /\ b.end = {}
                             /\ q.inflight = [m.inflight EXCEPT ![i] = {b}]
  BY DEF Brings
<1>4. m.batchIds[i] \in Nat
  BY <1>2
<1>5. /\ Longer(m, i) \in Partial(Instances, Nat)
      /\ DOMAIN Longer(m, i) = DOMAIN m.waves[g] \cup {i}
      /\ Longer(m, i)[i] = m.batchIds[i]
      /\ \A j \in DOMAIN m.waves[g] : j # i => Longer(m, i)[j] = m.waves[g][j]
  <2> DEFINE f == m.waves[g]
             y == m.batchIds[i]
             T == Nat
  <2>1. f \in Partial(Instances, T) /\ y \in T /\ Longer(m, i) = With(f, i, y)
    BY <1>2, <1>4 DEF Longer
  <2> HIDE DEF f, y, T
  <2>2. /\ With(f, i, y) \in Partial(Instances, T)
        /\ DOMAIN With(f, i, y) = DOMAIN f \cup {i}
        /\ With(f, i, y)[i] = y
        /\ \A z \in DOMAIN f : z # i => With(f, i, y)[z] = f[z]
    BY <2>1, WithEntry
  <2> QED
    BY <2>1, <2>2 DEF f, y, T
<1>6. /\ q.batchIds[i] = m.batchIds[i] + 1
      /\ \A j \in Instances : m.batchIds[j] \in Nat /\ m.batchIds[j] <= q.batchIds[j]
      /\ \A j \in Instances : j # i => q.batchIds[j] = m.batchIds[j]
  BY <1>2, <1>3
<1>7. /\ \A j \in Instances : j # i => q.inflight[j] = m.inflight[j]
      /\ \A b, c \in q.inflight[i] : b = c
      /\ \A b \in q.inflight[i] : b.id = m.batchIds[i] /\ b.end = {}
      /\ q.inflight[i] = {} => m.waves[g] # <<>>
  <2>1. CASE q.inflight = m.inflight /\ m.waves[g] # <<>>
    BY <1>3, <2>1
  <2>2. CASE \E b \in Batch : /\ b.id = m.batchIds[i] /\ b.end = {}
                              /\ q.inflight = [m.inflight EXCEPT ![i] = {b}]
    <3>1. PICK b \in Batch : /\ b.id = m.batchIds[i] /\ b.end = {}
                             /\ q.inflight = [m.inflight EXCEPT ![i] = {b}]
      BY <2>2
    <3>2. q.inflight[i] = {b} /\ \A j \in Instances : j # i => q.inflight[j] = m.inflight[j]
      BY <1>2, <3>1
    <3> QED
      BY <3>1, <3>2
  <2> QED
    BY <1>3, <2>1, <2>2
<1>8. \A k \in Instances : Busy(m, k) => Busy(q, k)
  BY <1>3, <1>7 DEF Busy
<1>9. \E k \in DOMAIN Longer(m, i) : k \in Members(g) /\ Busy(q, k)
  <2>1. CASE q.inflight[i] # {}
    BY <1>1, <1>5, <2>1 DEF Busy
  <2>2. CASE q.inflight[i] = {}
    <3>1. PICK k \in DOMAIN m.waves[g] : Busy(m, k)
      BY <1>7, <2>2 DEF Begun
    <3>2. k \in Members(g) /\ k \in Instances
      BY <1>1, GroupTypes DEF Begun
    <3> QED
      BY <1>5, <1>8, <3>1, <3>2
  <2> QED
    BY <2>1, <2>2
<1> QED
  BY <1>4, <1>5, <1>6, <1>7, <1>8, <1>9 DEF Brought

(* The wave is not complete yet. *)
LEMMA WaveWaits ==
  ASSUME sim \in Simulations, SingleNpuGroups,
         NEW i \in Instances, Group(i) # 0,
         NEW m \in LoopType, NEW q, NEW p \in [Npus -> NpuType], NEW t,
         NEW J \in Partial(Line, SUBSET Npus),
         InStep(m, p, J, Group(i)), p[Start(i)].todo # "run", p[Start(i)].load = Nothing,
         Brings(m, q, i), q.ready = m.ready,
         q.waves = [m.waves EXCEPT ![Group(i)] = Longer(m, i)],
         t[Start(i)].ran = p[Start(i)].ran, t[Start(i)].todo # "run", t[Start(i)].load = Nothing,
         \A j \in Instances : j # i => t[Start(j)] = p[Start(j)]
  PROVE  InStep(q, t, J, Group(i))
<1> DEFINE g == Group(i)
           n == Start(i)
           wave == Longer(m, i)
<1>1. /\ g \in Groups /\ i \in Members(g) /\ n \in Npus
      /\ Members(g) \subseteq Instances /\ \A j \in Members(g) : Group(j) = g
  BY GroupTypes, NpuPairs
<1>2. \A j \in Members(g) : Counted(m, p, j)
  BY DEF InStep
<1>3. Begun(m, g) /\ Started(m, p, J, g) /\ Named(m, J, g)
  BY DEF InStep
<1>4. /\ DOMAIN wave = DOMAIN m.waves[g] \cup {i}
      /\ wave[i] = m.batchIds[i]
      /\ \A j \in DOMAIN m.waves[g] : j # i => wave[j] = m.waves[g][j]
      /\ q.batchIds[i] = m.batchIds[i] + 1 /\ m.batchIds[i] \in Nat
      /\ \A j \in Instances : m.batchIds[j] \in Nat /\ m.batchIds[j] <= q.batchIds[j]
      /\ \A j \in Instances : j # i =>
              q.batchIds[j] = m.batchIds[j] /\ q.inflight[j] = m.inflight[j]
      /\ \A b, c \in q.inflight[i] : b = c
      /\ \A b \in q.inflight[i] : b.id = m.batchIds[i] /\ b.end = {}
      /\ \A k \in Instances : Busy(m, k) => Busy(q, k)
      /\ \E k \in DOMAIN wave : k \in Members(g) /\ Busy(q, k)
  <2>1. Begun(m, Group(i))
    BY <1>3
  <2>2. Brought(m, q, i)
    BY <2>1, BringsBatch
  <2> QED
    BY <2>2 DEF Brought
<1>5. q.waves[g] = wave
  BY <1>1 DEF LoopType
<1> HIDE DEF wave
<1>6. \A j \in Members(g) : j # i => t[Start(j)] = p[Start(j)]
  BY <1>1
<1>7. p[n].ran \in Int /\ t[n].ran = p[n].ran
  BY <1>1 DEF NpuType
<1>8. m.batchIds[i] >= p[n].ran + Debt(m, p, i) /\ Debt(m, p, i) \in Nat
  BY <1>1, <1>2 DEF Counted, Debt, One
<1>9. Debt(q, t, i) <= Debt(m, p, i) + 1 /\ Debt(q, t, i) \in Nat
  BY <1>1 DEF Debt, One
<1>10. ASSUME NEW j \in Members(g)
       PROVE  Counted(q, t, j)
  <2>1. CASE j = i
    <3>1. \A b \in q.inflight[i] : b.id = q.batchIds[i] - 1 /\ b.id >= t[n].ran /\ b.end = {}
      BY <1>4, <1>7, <1>8
    <3>2. q.batchIds[i] >= t[n].ran + Debt(q, t, i)
      BY <1>4, <1>7, <1>8, <1>9
    <3> QED
      BY <1>4, <2>1, <3>1, <3>2 DEF Counted
  <2>2. CASE j # i
    <3>1. Counted(m, p, j) /\ j \in Instances /\ Group(j) = g
      BY <1>1, <1>2
    <3>2. Debt(q, t, j) = Debt(m, p, j)
      BY <1>4, <1>5, <1>6, <2>2, <3>1 DEF Debt
    <3> QED
      BY <1>4, <1>6, <2>2, <3>1, <3>2 DEF Counted
  <2> QED
    BY <2>1, <2>2
<1>11. Begun(q, g)
  <2>1. \A j \in DOMAIN wave : wave[j] < q.batchIds[j]
    <3> SUFFICES ASSUME NEW j \in DOMAIN wave
                 PROVE  wave[j] < q.batchIds[j]
      OBVIOUS
    <3>1. CASE j = i
      BY <1>4, <3>1
    <3>2. CASE j # i
      <4>1. j \in DOMAIN m.waves[g] /\ j \in Instances
        BY <1>1, <1>3, <1>4, <3>2 DEF Begun
      <4>2. m.waves[g][j] < m.batchIds[j]
        BY <1>3, <4>1 DEF Begun
      <4> QED
        BY <1>4, <3>2, <4>1, <4>2
    <3> QED
      BY <3>1, <3>2
  <2>2. DOMAIN wave \subseteq Members(g)
    BY <1>1, <1>3, <1>4 DEF Begun
  <2> QED
    BY <1>4, <1>5, <2>1, <2>2 DEF Begun
<1>12. Started(q, t, J, g)
  <2> SUFFICES ASSUME Waiting(q, g) # {}
               PROVE  \E x \in Members(g) : Starter(q, t, J, g, x, t[Start(x)].load)
    BY DEF Started
  <2>1. Waiting(q, g) = Waiting(m, g)
    BY DEF Waiting
  <2>2. PICK s \in Members(g) : Starter(m, p, J, g, s, p[Start(s)].load)
    BY <1>3, <2>1 DEF Started
  <2>3. s # i
    BY <2>2 DEF Starter
  <2>4. t[Start(s)] = p[Start(s)]
    BY <1>6, <2>3
  <2> DEFINE w == p[Start(s)].load
  <2>5. w[1] = "dp" /\ w[2] = g
    BY <2>2 DEF Starter
  <2>6. \E k \in Members(g) : Busy(q, k) /\ (k \in DOMAIN q.ready \/ t[Start(k)].load = w)
    <3>1. PICK k \in Members(g) : Busy(m, k) /\ (k \in DOMAIN m.ready \/ p[Start(k)].load = w)
      BY <2>2 DEF Starter
    <3>2. k = i => k \in DOMAIN m.ready
      BY <2>5, <3>1 DEF Nothing
    <3> QED
      BY <1>1, <1>4, <1>6, <3>1, <3>2
  <2>7. s \notin DOMAIN q.waves[g]
    BY <1>4, <1>5, <2>2, <2>3 DEF Starter
  <2> QED
    BY <2>1, <2>2, <2>4, <2>6, <2>7 DEF Starter
<1>13. Named(q, J, g)
  <2> SUFFICES ASSUME NEW w \in DOMAIN J, w[1] = "dp", w[2] = g
               PROVE  /\ w[3] < q.batchIds[Leader(g)]
                      /\ Leader(g) \in DOMAIN wave => w[3] < wave[Leader(g)]
    BY <1>5 DEF Named
  <2>1. /\ w[3] < m.batchIds[Leader(g)]
        /\ Leader(g) \in DOMAIN m.waves[g] => w[3] < m.waves[g][Leader(g)]
    BY <1>3 DEF Named
  <2>2. Leader(g) \in Instances /\ w[3] \in Nat
    <3>1. DOMAIN J \subseteq Line
      BY PartialType
    <3> QED
      BY <1>1, <3>1, LeaderExists DEF Line
  <2>3. CASE Leader(g) = i
    BY <1>4, <2>1, <2>2, <2>3
  <2>4. CASE Leader(g) # i
    BY <1>4, <2>1, <2>2, <2>4
  <2> QED
    BY <2>3, <2>4
<1> QED
  BY <1>10, <1>11, <1>12, <1>13 DEF InStep

(* The wave is complete: it gets a new name, member i runs it and it is    *)
(* ready for the others.                                                   *)
LEMMA WaveStarts ==
  ASSUME sim \in Simulations, SingleNpuGroups,
         NEW i \in Instances, Group(i) # 0,
         NEW m \in LoopType, NEW q, NEW p \in [Npus -> NpuType], NEW t,
         NEW J \in Partial(Line, SUBSET Npus),
         InStep(m, p, J, Group(i)), p[Start(i)].todo # "run", p[Start(i)].load = Nothing,
         Brings(m, q, i), DOMAIN Longer(m, i) = Members(Group(i)),
         q.waves = [m.waves EXCEPT ![Group(i)] = <<>>],
         q.ready = Readied(m, i, NewName(m, i)),
         t[Start(i)].ran = p[Start(i)].ran, t[Start(i)].todo = "run", t[Start(i)].load = NewName(m, i),
         \A j \in Instances : j # i => t[Start(j)] = p[Start(j)]
  PROVE  InStep(q, t, Heard(J, Start(i), NewName(m, i)), Group(i))
<1> DEFINE g == Group(i)
           n == Start(i)
           wave == Longer(m, i)
           w == NewName(m, i)
           K == Heard(J, n, w)
<1>1. /\ g \in Groups /\ i \in Members(g) /\ n \in Npus
      /\ Members(g) \subseteq Instances /\ \A j \in Members(g) : Group(j) = g
      /\ \A j, k : Start(j) = Start(k) => j = k
  BY GroupTypes, NpuPairs
<1>2. \A j \in Members(g) : Counted(m, p, j)
  BY DEF InStep
<1>3. Begun(m, g) /\ Started(m, p, J, g) /\ Named(m, J, g)
  BY DEF InStep
<1>4. /\ DOMAIN wave = DOMAIN m.waves[g] \cup {i}
      /\ wave[i] = m.batchIds[i]
      /\ \A j \in DOMAIN m.waves[g] : j # i => wave[j] = m.waves[g][j]
      /\ q.batchIds[i] = m.batchIds[i] + 1 /\ m.batchIds[i] \in Nat
      /\ \A j \in Instances : m.batchIds[j] \in Nat /\ m.batchIds[j] <= q.batchIds[j]
      /\ \A j \in Instances : j # i =>
              q.batchIds[j] = m.batchIds[j] /\ q.inflight[j] = m.inflight[j]
      /\ \A b, c \in q.inflight[i] : b = c
      /\ \A b \in q.inflight[i] : b.id = m.batchIds[i] /\ b.end = {}
      /\ \E k \in DOMAIN wave : k \in Members(g) /\ Busy(q, k)
  <2>1. Begun(m, Group(i))
    BY <1>3
  <2>2. Brought(m, q, i)
    BY <2>1, BringsBatch
  <2> QED
    BY <2>2 DEF Brought
<1>5. /\ w[1] = "dp" /\ w[2] = g /\ w[3] = wave[Leader(g)]
      /\ Leader(g) \in Members(g) /\ Leader(g) \in Instances
  BY <1>1, LeaderExists DEF Wave, NewName
<1>6. DOMAIN wave = Members(g)
  OBVIOUS
<1>22. t[n].load = w
  OBVIOUS
<1> HIDE DEF wave, w
<1>7. q.waves[g] = <<>> /\ DOMAIN q.waves[g] = {}
  BY <1>1 DEF LoopType
<1>8. Waiting(m, g) = {}
  <2> SUFFICES ASSUME Waiting(m, g) # {} PROVE FALSE
    OBVIOUS
  <2>1. PICK s \in Members(g) : Starter(m, p, J, g, s, p[Start(s)].load)
    BY <1>3 DEF Started
  <2>2. s # i /\ s \notin DOMAIN m.waves[g]
    BY <2>1 DEF Starter
  <2> QED
    BY <1>4, <1>6, <2>2
<1>9. \A j \in Members(g) : /\ j \in DOMAIN q.ready <=> j # i
                            /\ j \in DOMAIN q.ready => q.ready[j] = w
  BY <1>1, <1>8 DEF Waiting, Readied, w
<1>10. \A j \in Members(g) : j # i => t[Start(j)] = p[Start(j)]
  BY <1>1
<1>11. p[n].ran \in Int /\ t[n].ran = p[n].ran
  BY <1>1 DEF NpuType
<1>12. m.batchIds[i] >= p[n].ran
  <2>1. m.batchIds[i] >= p[n].ran + Debt(m, p, i) /\ Debt(m, p, i) \in Nat
    BY <1>1, <1>2 DEF Counted, Debt, One
  <2> QED
    BY <1>4, <1>11, <2>1
<1>13. Debt(q, t, i) = 1
  <2>1. i \notin DOMAIN q.ready
    BY <1>1, <1>9
  <2>2. i \notin DOMAIN q.waves[Group(i)]
    BY <1>7
  <2>3. t[Start(i)].todo = "run"
    OBVIOUS
  <2> QED
    BY <2>1, <2>2, <2>3 DEF Debt, One
<1>14. ASSUME NEW j \in Members(g)
       PROVE  Counted(q, t, j)
  <2>1. CASE j = i
    <3>1. \A b \in q.inflight[i] : b.id = q.batchIds[i] - 1 /\ b.id >= t[n].ran /\ b.end = {}
      BY <1>4, <1>11, <1>12
    <3>2. q.batchIds[i] >= t[n].ran + Debt(q, t, i)
      BY <1>4, <1>11, <1>12, <1>13
    <3> QED
      BY <1>4, <2>1, <3>1, <3>2 DEF Counted
  <2>2. CASE j # i
    <3>1. Counted(m, p, j) /\ j \in Instances /\ Group(j) = g
      BY <1>1, <1>2
    <3>2. j \in DOMAIN m.waves[g] /\ j \notin DOMAIN m.ready
      BY <1>4, <1>6, <1>8, <2>2 DEF Waiting
    <3>3. Debt(q, t, j) = Debt(m, p, j)
      BY <1>7, <1>9, <1>10, <2>2, <3>1, <3>2 DEF Debt, One
    <3> QED
      BY <1>4, <1>10, <2>2, <3>1, <3>3 DEF Counted
  <2> QED
    BY <2>1, <2>2
<1>15. Begun(q, g)
  BY <1>7 DEF Begun
<1>16. ASSUME NEW x \in DOMAIN J, x[1] = "dp", x[2] = g
       PROVE  x[3] < w[3]
  <2>1. /\ x[3] < m.batchIds[Leader(g)]
        /\ Leader(g) \in DOMAIN m.waves[g] => x[3] < m.waves[g][Leader(g)]
    BY <1>3, <1>16 DEF Named
  <2>2. CASE Leader(g) = i
    BY <1>4, <1>5, <2>1, <2>2
  <2>3. CASE Leader(g) # i
    BY <1>4, <1>5, <1>6, <2>1, <2>3
  <2> QED
    BY <2>2, <2>3
<1>17. w[3] \in Nat /\ w[3] < q.batchIds[Leader(g)]
  <2>1. CASE Leader(g) = i
    BY <1>4, <1>5, <2>1
  <2>2. CASE Leader(g) # i
    <3>1. Leader(g) \in DOMAIN m.waves[g]
      BY <1>4, <1>5, <1>6, <2>2
    <3>2. m.waves[g][Leader(g)] < m.batchIds[Leader(g)]
      BY <1>3, <3>1 DEF Begun
    <3>3. m.waves[g][Leader(g)] \in Nat
      <4>1. m.waves[g] \in Partial(Instances, Nat)
        BY <1>1 DEF LoopType
      <4> QED
        BY <3>1, <4>1, PartialType
    <3> QED
      BY <1>4, <1>5, <2>2, <3>1, <3>2, <3>3
  <2> QED
    BY <2>1, <2>2
<1>18. w \notin DOMAIN J
  BY <1>5, <1>16, <1>17
<1>19. DOMAIN K = DOMAIN J \cup {w} /\ K[w] = {n}
  <2>1. ~Idle(w)
    BY <1>5 DEF Idle, Pass, Done, Exit
  <2>2. K = With(J, w, {n})
    BY <1>18, <2>1 DEF Heard
  <2> QED
    BY <2>2 DEF With
<1> HIDE DEF K
<1>20. Started(q, t, K, g)
  <2> SUFFICES ASSUME Waiting(q, g) # {}
               PROVE  Starter(q, t, K, g, i, t[n].load)
    BY <1>1 DEF Started
  <2>1. \A j \in Waiting(q, g) : q.ready[j] = w /\ Start(j) \notin K[w]
    BY <1>1, <1>9, <1>19 DEF Waiting
  <2>2. \E k \in Members(g) : Busy(q, k) /\ (k \in DOMAIN q.ready \/ t[Start(k)].load = w)
    BY <1>4, <1>9, <1>22
  <2>3. i \notin DOMAIN q.ready
    BY <1>1, <1>9
  <2> QED
    BY <1>5, <1>7, <1>19, <1>22, <2>1, <2>2, <2>3 DEF Starter
<1>21. Named(q, K, g)
  <2> SUFFICES ASSUME NEW x \in DOMAIN K, x[1] = "dp", x[2] = g
               PROVE  x[3] < q.batchIds[Leader(g)]
    BY <1>7 DEF Named
  <2>1. CASE x = w
    BY <1>17, <2>1
  <2>2. CASE x # w
    <3>1. x \in DOMAIN J
      BY <1>19, <2>2
    <3>2. x[3] \in Nat
      <4>1. DOMAIN J \subseteq Line
        BY PartialType
      <4> QED
        BY <3>1, <4>1 DEF Line
    <3>3. x[3] < w[3]
      BY <1>16, <3>1
    <3> QED
      BY <1>4, <1>5, <1>17, <3>2, <3>3
  <2> QED
    BY <2>1, <2>2
<1> QED
  BY <1>14, <1>15, <1>20, <1>21 DEF InStep, K, w

-----------------------------------------------------------------------------
(* One report, up to the answer *)

(* NPU n has reported iteration id and waits. *)
Polls(p, n, id) == [p EXCEPT ![n] = [ran |-> id, todo |-> "wait", load |-> Nothing]]
Iteration(p, n) == p[n].ran + One(p[n].todo = "run")

LEMMA PollsTyped ==
  ASSUME sim \in Simulations, NEW p \in [Npus -> NpuType], NEW n \in Npus
  PROVE  /\ Iteration(p, n) \in Nat \cup {-1}
         /\ Polls(p, n, Iteration(p, n)) \in [Npus -> NpuType]
         /\ Polls(p, n, Iteration(p, n))[n] = [ran |-> Iteration(p, n), todo |-> "wait", load |-> Nothing]
         /\ \A k \in Npus : k # n => Polls(p, n, Iteration(p, n))[k] = p[k]
<1>1. p[n] \in NpuType
  OBVIOUS
<1>2. p[n].ran \in Nat \cup {-1}
  BY <1>1 DEF NpuType
<1>3. Iteration(p, n) \in Nat \cup {-1}
  BY <1>2 DEF Iteration, One
<1>4. Nothing \in Line
  BY DEF Nothing, Line
<1>5. [ran |-> Iteration(p, n), todo |-> "wait", load |-> Nothing] \in NpuType
  BY <1>3, <1>4 DEF NpuType
<1> QED
  BY <1>3, <1>5 DEF Polls

LEMMA PollInStep ==
  ASSUME sim \in Simulations, SingleNpuGroups, Works(loop, npu, joined),
         NEW n \in Npus, CanReport(n),
         NEW h \in LoopType, SameGroups(loop, h), h.inflight = loop.inflight,
         NEW m \in LoopType, SameGroups(h, m), AddDoneShape(h, m, n, Iteration(npu, n))
  PROVE  Grouped(m, Polls(npu, n, Iteration(npu, n)), joined)
<1> DEFINE i  == n[1]
           id == Iteration(npu, n)
           t  == Polls(npu, n, id)
<1>1. /\ i \in Instances /\ n \in Reporting(i)
      /\ \A j \in Instances : Start(j) \in Npus /\ Start(j)[1] = j
  BY NpuPairs
<1>2. /\ npu \in [Npus -> NpuType] /\ joined \in Partial(Line, SUBSET Npus)
      /\ \A k \in Npus : npu[k].load # Nothing => npu[k].todo = "run"
      /\ \A j \in DOMAIN loop.ready : Group(j) # 0
      /\ \A g \in Groups : InStep(loop, npu, joined, g)
  BY DEF Works, Typed, Grouped
<1>3. /\ t[n] = [ran |-> id, todo |-> "wait", load |-> Nothing]
      /\ \A k \in Npus : k # n => t[k] = npu[k]
  BY <1>2, PollsTyped
<1>4. \A j \in Instances : j # i => t[Start(j)] = npu[Start(j)]
  BY <1>1, <1>3
<1>5. /\ m.batchIds = loop.batchIds /\ m.waves = loop.waves /\ m.ready = loop.ready
      /\ h.batchIds = loop.batchIds /\ h.waves = loop.waves /\ h.ready = loop.ready
  BY DEF SameGroups
<1>6. \A j \in Instances : j # i => m.inflight[j] = loop.inflight[j]
  <2>1. loop.inflight \in [Instances -> SUBSET Batch]
    BY DEF LoopType
  <2>2. CASE m = h
    BY <2>2
  <2>3. ASSUME NEW b, EndsBatch(h, m, n, id, b)
        PROVE  \A j \in Instances : j # i => m.inflight[j] = loop.inflight[j]
    BY <2>1, <2>3 DEF EndsBatch
  <2> QED
    BY <2>2, <2>3 DEF AddDoneShape
<1> HIDE DEF t, id
<1>7. ASSUME NEW g \in Groups
      PROVE  InStep(m, t, joined, g)
  <2>1. /\ InStep(loop, npu, joined, g) /\ Members(g) \subseteq Instances
        /\ \A j \in Members(g) : Group(j) = g
    BY <1>2, GroupTypes
  <2>2. CASE g # Group(i)
    <3>1. \A j \in Members(g) : j \in Instances /\ j # i
      BY <2>1, <2>2
    <3>2. \A j \in Members(g) : /\ m.inflight[j] = loop.inflight[j]
                                /\ m.batchIds[j] = loop.batchIds[j]
      BY <1>5, <1>6, <3>1
    <3>3. \A j \in Members(g) : t[Start(j)] = npu[Start(j)]
      BY <1>4, <3>1
    <3>4. m.waves[g] = loop.waves[g] /\ m.ready = loop.ready
      BY <1>5
    <3> QED
      BY <2>1, <3>2, <3>3, <3>4, GroupUnmoved
  <2>3. CASE g = Group(i)
    <3>1. g # 0 /\ n = Start(i)
      BY <1>1, <2>3, GroupTypes
    <3>2. InStep(h, npu, joined, g)
      BY <1>5, <2>1, GroupUnmoved
    <3>3. npu[Start(i)].todo # "wait" /\ npu[Start(i)].load[1] = "dp" =>
           \A k \in Members(npu[Start(i)].load[2]) :
             \E s \in Reporting(k) : s \in joined[npu[Start(i)].load]
      BY <3>1 DEF CanReport
    <3>4. npu[Start(i)].load # Nothing => npu[Start(i)].todo = "run"
      BY <1>2, <3>1
    <3>5. id = npu[Start(i)].ran + One(npu[Start(i)].todo = "run")
      BY <3>1 DEF id, Iteration
    <3>6. AddDoneShape(h, m, Start(i), id)
      BY <3>1 DEF id
    <3>7. t[Start(i)].ran = id /\ t[Start(i)].todo # "run" /\ t[Start(i)].load = Nothing
      BY <1>3, <3>1
    <3> HIDE DEF i
    <3> QED
      BY <1>1, <1>2, <1>4, <2>3, <3>1, <3>2, <3>3, <3>4, <3>5, <3>6, <3>7, ReportInStep
  <2> QED
    BY <2>2, <2>3
<1> QED
  BY <1>2, <1>5, <1>7 DEF Grouped, t, id

-----------------------------------------------------------------------------
(* The answer *)

SameWork(m, q) ==
  /\ q.current = m.current /\ q.queue = m.queue /\ q.inflight = m.inflight
  /\ SameDone(m, q) /\ SameEnds(m, q)

LEMMA WorkKeeps ==
  ASSUME NEW m, Placed(m), NEW q \in LoopType, SameWork(m, q)
  PROVE  Placed(q)
<1>1. q.queue = m.queue /\ q.inflight = m.inflight /\ q.pending = m.pending /\ q.finished = m.finished
  BY DEF SameWork, SameDone
<1>2. OnePlace(q)
  BY <1>1 DEF Placed, OnePlace, InQueue, InBatch
<1>3. InTurn(q)
  BY <1>1 DEF Placed, InTurn, Known, InQueue, InBatch
<1> QED
  BY <1>2, <1>3 DEF Placed

LEMMA OneLine ==
  ASSUME NEW x \in Line
  PROVE  Append(<<>>, x) = <<x>> /\ <<x>> \in Seq(Line) /\ Len(<<x>>) = 1 /\ <<x>>[1] = x
OBVIOUS

(* A member brings number id into the wave of its group. *)
JoinWaits(m, q, i, id) ==
  /\ DOMAIN With(m.waves[Group(i)], i, id) # Members(Group(i))
  /\ q.waves = [m.waves EXCEPT ![Group(i)] = With(m.waves[Group(i)], i, id)]
  /\ q.ready = m.ready /\ q.made = m.made /\ q.answers = <<Pass>>
WaveName(m, i, id) ==
  Wave(Group(i), With(m.waves[Group(i)], i, id)[Leader(Group(i))])
JoinStarts(m, q, i, id) ==
  /\ DOMAIN With(m.waves[Group(i)], i, id) = Members(Group(i))
  /\ q.waves = [m.waves EXCEPT ![Group(i)] = <<>>]
  /\ q.ready = [j \in DOMAIN m.ready \cup (Members(Group(i)) \ {i}) |->
                  IF j \in Members(Group(i)) THEN WaveName(m, i, id) ELSE m.ready[j]]
  /\ q.made = m.made \cup {WaveName(m, i, id)} /\ q.answers = <<WaveName(m, i, id)>>
  /\ WaveName(m, i, id) \in Line

LEMMA JoinsKeeps ==
  ASSUME sim \in Simulations, NEW m \in LoopType, NEW i \in Instances, Group(i) # 0,
         NEW id \in Nat, m.answers = <<>>
  PROVE  LET q == Joins(m, i, id)
         IN  /\ q \in LoopType /\ SameWork(m, q) /\ q.batchIds = m.batchIds
             /\ JoinWaits(m, q, i, id) \/ JoinStarts(m, q, i, id)
<1> DEFINE g == Group(i)
           wave == With(m.waves[g], i, id)
           w == Wave(g, wave[Leader(g)])
           q == Joins(m, i, id)
<1>1. g \in Groups /\ g \in Nat /\ i \in Members(g) /\ Members(g) \subseteq Instances
  <2>1. g \in Nat
    BY SimulationTypes
  <2> QED
    BY <2>1 DEF Groups, Members
<1>2. /\ m.waves \in [Groups -> Partial(Instances, Nat)] /\ m.ready \in Partial(Instances, Line)
      /\ m.made \in SUBSET Line
  BY DEF LoopType
<1>3. wave \in Partial(Instances, Nat)
  <2> DEFINE f == m.waves[g]
             T == Nat
  <2>1. f \in Partial(Instances, T) /\ id \in T
    BY <1>1, <1>2
  <2> HIDE DEF f, T
  <2>2. With(f, i, id) \in Partial(Instances, T)
    BY <2>1, WithEntry
  <2> QED
    BY <2>2 DEF f, T
<1>4. Pass \in Line
  BY DEF Pass, Line
<1>5. q = IF DOMAIN wave # Members(g) THEN Answer([m EXCEPT !.waves[g] = wave], Pass)
          ELSE StartWave(m, g, i, wave, w)
  BY DEF Joins, Join, Leader
<1>6. CASE DOMAIN wave # Members(g)
  <2> DEFINE waves == [m.waves EXCEPT ![g] = wave]
  <2>1. waves \in [Groups -> Partial(Instances, Nat)]
    BY <1>2, <1>3
  <2>2. q = [m EXCEPT !.waves[g] = wave, !.answers = <<Pass>>]
    BY <1>4, <1>5, <1>6, OneLine DEF Answer
  <2>3. q = [m EXCEPT !.waves = waves, !.answers = <<Pass>>]
    BY <2>2
  <2> HIDE DEF waves, q, wave
  <2>4. <<Pass>> \in Seq(Line)
    BY <1>4
  <2>5. /\ q \in LoopType /\ SameWork(m, q) /\ q.batchIds = m.batchIds
        /\ q.waves = waves /\ q.ready = m.ready /\ q.made = m.made /\ q.answers = <<Pass>>
    BY <2>1, <2>3, <2>4 DEF LoopType, SameWork, SameDone, SameEnds
  <2>6. JoinWaits(m, q, i, id)
    BY <1>6, <2>5 DEF JoinWaits, waves, wave
  <2> QED
    BY <2>5, <2>6 DEF q
<1>7. CASE DOMAIN wave = Members(g)
  <2>1. w \in Line
    <3>1. Leader(g) \in DOMAIN wave
      BY <1>1, <1>7, LeaderExists
    <3>2. wave[Leader(g)] \in Nat
      BY <1>3, <3>1, PartialType
    <3> QED
      BY <1>1, <3>2 DEF Wave, Line
  <2> DEFINE waves == [m.waves EXCEPT ![g] = <<>>]
             ready == [j \in DOMAIN m.ready \cup (Members(g) \ {i}) |->
                         IF j \in Members(g) THEN w ELSE m.ready[j]]
  <2>2. waves \in [Groups -> Partial(Instances, Nat)]
    BY <1>2, EmptyEntry
  <2>3. ready \in Partial(Instances, Line)
    <3>1. DOMAIN m.ready \subseteq Instances /\ m.ready \in [DOMAIN m.ready -> Line]
      BY <1>2, PartialType
    <3>2. ready \in [DOMAIN m.ready \cup (Members(g) \ {i}) -> Line]
      <4> HIDE DEF w
      <4> QED
        BY <2>1, <3>1
    <3>3. DOMAIN ready = DOMAIN m.ready \cup (Members(g) \ {i})
      OBVIOUS
    <3> QED
      BY <1>1, <3>1, <3>2, <3>3, PartialType
  <2>4. q = [m EXCEPT !.waves = waves, !.ready = ready, !.made = @ \cup {w}, !.answers = <<w>>]
    <3>1. q = StartWave(m, g, i, wave, w)
      BY <1>5, <1>7
    <3> HIDE DEF w, wave, q
    <3>2. Append(<<>>, w) = <<w>>
      OBVIOUS
    <3> QED
      BY <3>1, <3>2 DEF StartWave, Answer, Generated
  <2> HIDE DEF waves, ready, w, q
  <2>5. <<w>> \in Seq(Line) /\ m.made \cup {w} \in SUBSET Line
    BY <1>2, <2>1
  <2>6. /\ q \in LoopType /\ SameWork(m, q) /\ q.batchIds = m.batchIds
        /\ q.waves = waves /\ q.ready = ready /\ q.made = m.made \cup {w} /\ q.answers = <<w>>
    BY <2>2, <2>3, <2>4, <2>5 DEF LoopType, SameWork, SameDone, SameEnds
  <2>7. w = WaveName(m, i, id)
    BY DEF w, WaveName
  <2>8. JoinStarts(m, q, i, id)
    BY <1>7, <2>1, <2>6, <2>7 DEF JoinStarts, waves, ready
  <2> QED
    BY <2>6, <2>8 DEF q
<1> QED
  BY <1>6, <1>7

(* What the answer `line' does: NPU n runs what is ready for it, brings a  *)
(* batch or a dummy to a wave, or runs a batch of its own instance.        *)
HandsOut(m, q, n, line) ==
  /\ n[1] \in DOMAIN m.ready /\ line = m.ready[n[1]]
  /\ q.inflight = m.inflight /\ q.batchIds = m.batchIds /\ q.waves = m.waves /\ q.made = m.made
  /\ q.ready = Without(m.ready, n[1])
LetsWait(m, q, n, line) ==
  /\ Brings(m, q, n[1]) /\ DOMAIN Longer(m, n[1]) # Members(Group(n[1])) /\ line = Pass
  /\ q.waves = [m.waves EXCEPT ![Group(n[1])] = Longer(m, n[1])]
  /\ q.ready = m.ready /\ q.made = m.made
StartsWave(m, q, n, line) ==
  /\ Brings(m, q, n[1]) /\ DOMAIN Longer(m, n[1]) = Members(Group(n[1]))
  /\ line = NewName(m, n[1]) /\ q.ready = Readied(m, n[1], line)
  /\ q.waves = [m.waves EXCEPT ![Group(n[1])] = <<>>]
  /\ q.made = m.made \cup {line}
StartsAlone(m, q, n, line) ==
  /\ \E b \in Batch : /\ line = Own(n[1], b.id) /\ b.id = m.batchIds[n[1]] /\ b.end = {}
                      /\ q.inflight = [m.inflight EXCEPT ![n[1]] = @ \cup {b}]
  /\ q.batchIds = [m.batchIds EXCEPT ![n[1]] = @ + 1]
  /\ q.waves = m.waves /\ q.ready = m.ready /\ q.made = m.made \cup {line}
RunsAgain(m, q, n, line) ==
  /\ \E b \in m.inflight[n[1]] :
       line = Own(n[1], b.id)
         /\ q.inflight = [m.inflight EXCEPT ![n[1]] = (@ \ {b}) \cup {Fired(b, n)}]
  /\ SameGroups(m, q)
Gives(m, q, n, line) ==
  \/ Group(n[1]) # 0 /\ HandsOut(m, q, n, line)
  \/ Group(n[1]) # 0 /\ n = Start(n[1]) /\ LetsWait(m, q, n, line)
  \/ Group(n[1]) # 0 /\ n = Start(n[1]) /\ StartsWave(m, q, n, line)
  \/ Group(n[1]) = 0 /\ n = Start(n[1]) /\ StartsAlone(m, q, n, line)
  \/ Group(n[1]) = 0 /\ n # Start(n[1]) /\ RunsAgain(m, q, n, line)

(* The instance or its group is not empty. *)
HasWork(m, i) ==
  \E k \in Instances : Busy(m, k) /\ (k = i \/ (Group(i) # 0 /\ k \in Members(Group(i))))

LEMMA IdleGives ==
  ASSUME sim \in Simulations, SingleNpuGroups, NEW m, Placed(m), m.answers = <<>>,
         NEW n \in Npus, NEW p, NEW J, Grouped(m, p, J)
  PROVE  LET q == AnswerIdle(m, n)
         IN  \/ q = m
             \/ /\ Placed(q) /\ SameDone(m, q) /\ SameEnds(m, q)
                /\ q.current = m.current /\ q.queue = m.queue /\ q.inflight = m.inflight
                /\ HasWork(q, n[1])
                /\ \E line \in Line : q.answers = <<line>> /\ Gives(m, q, n, line)
<1> DEFINE i == n[1]
           g == Group(i)
           q == AnswerIdle(m, n)
           m1 == [m EXCEPT !.batchIds[i] = @ + 1]
<1>1. i \in Instances /\ n \in Reporting(i)
  BY NpuPairs
<1>2. m \in LoopType
  BY DEF Placed
<1>3. /\ m.batchIds \in [Instances -> Nat] /\ m.inflight \in [Instances -> SUBSET Batch]
      /\ m.ready \in Partial(Instances, Line)
  BY <1>2 DEF LoopType
<1>4. q = IF i \in DOMAIN m.ready
          THEN Answer([m EXCEPT !.ready = Without(m.ready, i)], m.ready[i])
          ELSE IF Group(i) # 0 /\ n = Start(i) /\ m.inflight[i] = {} /\ m.waves[Group(i)] # <<>>
          THEN Joins(m1, i, m.batchIds[i])
          ELSE m
  BY DEF AnswerIdle
<1>5. CASE i \in DOMAIN m.ready
  <2> DEFINE line == m.ready[i]
             ready == Without(m.ready, i)
  <2>1. Group(i) # 0 /\ g \in Groups /\ i \in Members(g) /\ Members(g) \subseteq Instances
    <3>1. Group(i) # 0
      BY <1>5 DEF Grouped
    <3> QED
      BY <1>1, <3>1, GroupTypes
  <2>2. line \in Line
    BY <1>3, <1>5, PartialType
  <2>3. ready \in Partial(Instances, Line)
    BY <1>3, WithoutEntry
  <2>4. q = [m EXCEPT !.ready = ready, !.answers = <<line>>]
    <3>1. q = Answer([m EXCEPT !.ready = ready], line)
      BY <1>4, <1>5
    <3> HIDE DEF q, ready, line
    <3>2. Append(<<>>, line) = <<line>>
      OBVIOUS
    <3> QED
      BY <3>1, <3>2 DEF Answer
  <2> HIDE DEF q, ready, line
  <2>5. <<line>> \in Seq(Line)
    BY <2>2
  <2>6. /\ q \in LoopType /\ SameWork(m, q) /\ q.batchIds = m.batchIds /\ q.waves = m.waves
        /\ q.ready = ready /\ q.made = m.made /\ q.answers = <<line>>
    BY <1>2, <2>3, <2>4, <2>5 DEF LoopType, SameWork, SameDone, SameEnds
  <2>7. Placed(q)
    BY <2>6, WorkKeeps
  <2>8. HandsOut(m, q, n, line)
    BY <1>5, <2>6 DEF HandsOut, SameWork, ready, line
  <2>9. HasWork(q, i)
    <3>1. Waiting(m, g) # {} /\ Started(m, p, J, g)
      BY <1>5, <2>1 DEF Waiting, Grouped, InStep
    <3>2. \E k \in Members(g) : Busy(m, k)
      BY <3>1 DEF Started, Starter
    <3> QED
      BY <2>1, <2>6, <3>2 DEF HasWork, Busy, SameWork
  <2> QED
    BY <2>1, <2>2, <2>6, <2>7, <2>8, <2>9 DEF Gives, SameWork, q
<1>6. CASE i \notin DOMAIN m.ready /\ Group(i) # 0 /\ n = Start(i) /\ m.inflight[i] = {}
             /\ m.waves[Group(i)] # <<>>
  <2> DEFINE ids == [m.batchIds EXCEPT ![i] = @ + 1]
             id == m.batchIds[i]
  <2>1. q = Joins(m1, i, id)
    BY <1>4, <1>6
  <2>2. ids \in [Instances -> Nat] /\ id \in Nat
    BY <1>1, <1>3
  <2>3. m1 = [m EXCEPT !.batchIds = ids]
    OBVIOUS
  <2> HIDE DEF m1, ids, id, q
  <2>4. /\ m1 \in LoopType /\ SameWork(m, m1) /\ m1.batchIds = ids
        /\ m1.waves = m.waves /\ m1.ready = m.ready /\ m1.made = m.made /\ m1.answers = <<>>
    BY <1>2, <2>2, <2>3 DEF LoopType, SameWork, SameDone, SameEnds
  <2>5. /\ q \in LoopType /\ SameWork(m1, q) /\ q.batchIds = m1.batchIds
        /\ JoinWaits(m1, q, i, id) \/ JoinStarts(m1, q, i, id)
    BY <1>1, <1>6, <2>1, <2>2, <2>4, JoinsKeeps
  <2>6. SameWork(m, q)
    BY <2>4, <2>5 DEF SameWork, SameDone, SameEnds
  <2>7. Placed(q)
    BY <2>5, <2>6, WorkKeeps
  <2>8. Brings(m, q, i)
    BY <1>6, <2>4, <2>5, <2>6 DEF Brings, SameWork, ids
  <2>9. HasWork(q, i)
    <3>1. Begun(m, g)
      BY <1>1, <1>6, GroupTypes DEF Grouped, InStep
    <3>2. Brought(m, q, i)
      BY <1>1, <1>2, <1>6, <2>8, <3>1, BringsBatch
    <3>3. Members(g) \subseteq Instances
      BY <1>1, <1>6, GroupTypes
    <3> QED
      BY <1>6, <3>2, <3>3 DEF Brought, HasWork
  <2>10. CASE JoinWaits(m1, q, i, id)
    <3>1. LetsWait(m, q, n, Pass)
      BY <2>4, <2>8, <2>10 DEF LetsWait, JoinWaits, Longer, id
    <3>2. q.answers = <<Pass>> /\ Pass \in Line
      BY <2>10 DEF JoinWaits, Pass, Line
    <3> QED
      BY <1>6, <2>6, <2>7, <2>9, <3>1, <3>2 DEF Gives, SameWork, q
  <2>11. CASE JoinStarts(m1, q, i, id)
    <3> DEFINE w == WaveName(m1, i, id)
    <3>1. w = NewName(m, i)
      BY <2>4 DEF WaveName, NewName, Longer, id
    <3>2. DOMAIN Longer(m, i) = Members(Group(i))
      BY <2>4, <2>11 DEF JoinStarts, Longer, id
    <3> HIDE DEF w
    <3>3. /\ q.waves = [m1.waves EXCEPT ![Group(i)] = <<>>]
          /\ q.ready = [j \in DOMAIN m1.ready \cup (Members(Group(i)) \ {i}) |->
                          IF j \in Members(Group(i)) THEN w ELSE m1.ready[j]]
          /\ q.made = m1.made \cup {w} /\ q.answers = <<w>> /\ w \in Line
      BY <2>11 DEF JoinStarts, w
    <3>4. StartsWave(m, q, n, w)
      BY <2>4, <2>8, <3>1, <3>2, <3>3 DEF StartsWave, Readied
    <3> QED
      BY <1>6, <2>6, <2>7, <2>9, <3>3, <3>4 DEF Gives, SameWork, q
  <2> QED
    BY <2>5, <2>10, <2>11
<1>7. CASE i \notin DOMAIN m.ready
             /\ ~(Group(i) # 0 /\ n = Start(i) /\ m.inflight[i] = {} /\ m.waves[Group(i)] # <<>>)
  <2>1. q = m
    BY <1>4, <1>7
  <2> QED
    BY <2>1
<1> QED
  BY <1>5, <1>6, <1>7

LEMMA BatchGives ==
  ASSUME sim \in Simulations, SingleNpuGroups, NEW m, Placed(m), m.answers = <<>>,
         NEW n \in Npus, NEW p, NEW J, Grouped(m, p, J),
         NEW r, Placed(r), SameDone(m, r), SameEnds(m, r), r.current = m.current, r.answers = <<>>,
         NEW b, FormsBatch(m, r, n, b) \/ PicksBatch(m, r, n, b)
  PROVE  LET q == AnswerBatch(r, n, b)
         IN  /\ Placed(q) /\ SameDone(m, q) /\ SameEnds(m, q)
             /\ q.current = m.current /\ q.queue = r.queue
             /\ HasWork(q, n[1])
             /\ \E line \in Line : q.answers = <<line>> /\ Gives(m, q, n, line)
<1> DEFINE i == n[1]
           g == Group(i)
           q == AnswerBatch(r, n, b)
           line == Own(i, b.id)
<1>1. i \in Instances /\ i \in Nat /\ n \in Reporting(i)
  BY NpuPairs, SimulationTypes
<1>2. m \in LoopType /\ r \in LoopType
  BY DEF Placed
<1>3. /\ m.inflight \in [Instances -> SUBSET Batch] /\ r.made \in SUBSET Line
      /\ m.batchIds \in [Instances -> Nat]
  BY <1>2 DEF LoopType
<1>4. b \in Batch /\ b.id \in Nat
  <2>1. b \in Batch
    BY <1>1, <1>3 DEF FormsBatch, PicksBatch
  <2> QED
    BY <2>1 DEF Batch
<1>5. q = IF n # Start(i) THEN Answer(r, line)
          ELSE IF g # 0 THEN Joins(r, i, b.id)
          ELSE Answer(Generated(r, line), line)
  BY DEF AnswerBatch
<1>6. line \in Line /\ <<line>> \in Seq(Line)
  BY <1>1, <1>4 DEF Own, Line
<1>7. CASE n # Start(i)
  <2>1. PicksBatch(m, r, n, b) /\ g = 0
    BY <1>1, <1>7, GroupTypes DEF FormsBatch
  <2>2. q = [r EXCEPT !.answers = <<line>>]
    <3>1. q = Answer(r, line)
      BY <1>5, <1>7
    <3> HIDE DEF q, line
    <3>2. Append(<<>>, line) = <<line>>
      OBVIOUS
    <3> QED
      BY <3>1, <3>2 DEF Answer
  <2> HIDE DEF q, line
  <2>3. q \in LoopType /\ SameWork(r, q) /\ SameGroups(r, q) /\ q.answers = <<line>>
    BY <1>2, <1>6, <2>2 DEF LoopType, SameWork, SameDone, SameEnds, SameGroups
  <2>4. Placed(q)
    BY <2>3, WorkKeeps
  <2>5. /\ b \in m.inflight[i]
        /\ q.inflight = [m.inflight EXCEPT ![i] = (@ \ {b}) \cup {Fired(b, n)}]
        /\ SameGroups(m, q)
    BY <2>1, <2>3 DEF PicksBatch, SameWork, SameGroups
  <2>6. RunsAgain(m, q, n, line)
    BY <2>5 DEF RunsAgain, line
  <2>7. HasWork(q, i)
    BY <1>1, <1>3, <2>5 DEF HasWork, Busy
  <2>8. SameDone(m, q) /\ SameEnds(m, q) /\ q.current = m.current /\ q.queue = r.queue
    BY <2>3 DEF SameWork, SameDone, SameEnds
  <2> QED
    BY <1>6, <1>7, <2>1, <2>3, <2>4, <2>6, <2>7, <2>8 DEF Gives, q
<1>8. CASE n = Start(i) /\ g = 0
  <2>1. FormsBatch(m, r, n, b)
    BY <1>8 DEF PicksBatch
  <2>2. q = [r EXCEPT !.made = @ \cup {line}, !.answers = <<line>>]
    <3>1. q = Answer(Generated(r, line), line)
      BY <1>5, <1>8
    <3> HIDE DEF q, line
    <3>2. Append(<<>>, line) = <<line>>
      OBVIOUS
    <3> QED
      BY <3>1, <3>2 DEF Answer, Generated
  <2> HIDE DEF q, line
  <2>3. r.made \cup {line} \in SUBSET Line
    BY <1>3, <1>6
  <2>4. /\ q \in LoopType /\ SameWork(r, q) /\ q.answers = <<line>> /\ q.made = r.made \cup {line}
        /\ q.batchIds = r.batchIds /\ q.waves = r.waves /\ q.ready = r.ready
    BY <1>2, <1>6, <2>2, <2>3 DEF LoopType, SameWork, SameDone, SameEnds
  <2>5. Placed(q)
    BY <2>4, WorkKeeps
  <2>6. /\ b.id = m.batchIds[i] /\ b.end = {}
        /\ q.inflight = [m.inflight EXCEPT ![i] = @ \cup {b}]
        /\ q.batchIds = [m.batchIds EXCEPT ![i] = @ + 1]
        /\ q.waves = m.waves /\ q.ready = m.ready /\ q.made = m.made \cup {line}
    BY <2>1, <2>4 DEF FormsBatch, SameWork
  <2>7. StartsAlone(m, q, n, line)
    BY <1>4, <2>6 DEF StartsAlone, line
  <2>8. HasWork(q, i)
    BY <1>1, <1>3, <2>6 DEF HasWork, Busy
  <2>9. SameDone(m, q) /\ SameEnds(m, q) /\ q.current = m.current /\ q.queue = r.queue
    BY <2>4 DEF SameWork, SameDone, SameEnds
  <2> QED
    BY <1>6, <1>8, <2>4, <2>5, <2>7, <2>8, <2>9 DEF Gives, q
<1>9. CASE n = Start(i) /\ g # 0
  <2>1. FormsBatch(m, r, n, b)
    BY <1>9 DEF PicksBatch
  <2>2. g \in Groups /\ i \in Members(g) /\ Members(g) \subseteq Instances /\ sim.inst[i].pp = 1
    BY <1>1, <1>9, GroupTypes
  <2>3. Counted(m, p, i) /\ Begun(m, g)
    BY <2>2 DEF Grouped, InStep
  <2>4. m.inflight[i] = {}
    <3> SUFFICES ASSUME NEW x \in m.inflight[i] PROVE FALSE
      OBVIOUS
    <3>1. m.inflight[i] = {x}
      BY <2>3 DEF Counted
    <3>2. Cardinality(m.inflight[i]) = 1
      BY <3>1, FS_Singleton
    <3> QED
      BY <2>1, <2>2, <3>2 DEF FormsBatch
  <2>5. q = Joins(r, i, b.id)
    BY <1>5, <1>9
  <2> HIDE DEF q
  <2>6. /\ q \in LoopType /\ SameWork(r, q) /\ q.batchIds = r.batchIds
        /\ JoinWaits(r, q, i, b.id) \/ JoinStarts(r, q, i, b.id)
    BY <1>1, <1>2, <1>4, <1>9, <2>5, JoinsKeeps
  <2>7. Placed(q)
    BY <2>6, WorkKeeps
  <2>8. /\ b.id = m.batchIds[i] /\ b.end = {}
        /\ r.inflight = [m.inflight EXCEPT ![i] = @ \cup {b}]
        /\ r.batchIds = [m.batchIds EXCEPT ![i] = @ + 1]
        /\ r.waves = m.waves /\ r.ready = m.ready /\ r.made = m.made
    BY <2>1 DEF FormsBatch
  <2>9. Brings(m, q, i)
    <3>1. q.inflight = [m.inflight EXCEPT ![i] = {b}]
      BY <2>4, <2>6, <2>8 DEF SameWork
    <3> QED
      BY <1>4, <2>4, <2>6, <2>8, <3>1 DEF Brings
  <2>10. HasWork(q, i)
    <3>1. Brought(m, q, i)
      BY <1>1, <1>2, <1>9, <2>3, <2>9, BringsBatch
    <3> QED
      BY <1>9, <2>2, <3>1 DEF Brought, HasWork
  <2>11. SameDone(m, q) /\ SameEnds(m, q) /\ q.current = m.current /\ q.queue = r.queue
    BY <2>6 DEF SameWork, SameDone, SameEnds
  <2>12. CASE JoinWaits(r, q, i, b.id)
    <3>1. LetsWait(m, q, n, Pass)
      BY <2>8, <2>9, <2>12 DEF LetsWait, JoinWaits, Longer
    <3>2. q.answers = <<Pass>> /\ Pass \in Line
      BY <2>12 DEF JoinWaits, Pass, Line
    <3> QED
      BY <1>9, <2>7, <2>10, <2>11, <3>1, <3>2 DEF Gives, q
  <2>13. CASE JoinStarts(r, q, i, b.id)
    <3> DEFINE w == WaveName(r, i, b.id)
    <3>1. w = NewName(m, i)
      BY <2>8 DEF WaveName, NewName, Longer
    <3>2. DOMAIN Longer(m, i) = Members(Group(i))
      BY <2>8, <2>13 DEF JoinStarts, Longer
    <3> HIDE DEF w
    <3>3. /\ q.waves = [r.waves EXCEPT ![Group(i)] = <<>>]
          /\ q.ready = [j \in DOMAIN r.ready \cup (Members(Group(i)) \ {i}) |->
                          IF j \in Members(Group(i)) THEN w ELSE r.ready[j]]
          /\ q.made = r.made \cup {w} /\ q.answers = <<w>> /\ w \in Line
      BY <2>13 DEF JoinStarts, w
    <3>4. StartsWave(m, q, n, w)
      BY <2>8, <2>9, <3>1, <3>2, <3>3 DEF StartsWave, Readied
    <3> QED
      BY <1>9, <2>7, <2>10, <2>11, <3>3, <3>4 DEF Gives, q
  <2> QED
    BY <2>6, <2>12, <2>13
<1> QED
  BY <1>7, <1>8, <1>9

(* The instance goes to sleep, or its NPU has nothing to do for now. *)
Ending(m, q, n, line) ==
  /\ MayEnd(m, n[1]) /\ (Group(n[1]) = 0 \/ GroupEmpty(m, n[1]))
  /\ q.doneNpus = [m.doneNpus EXCEPT ![n[1]] = @ \cup {n}]
  /\ q.doneInst = m.doneInst \/ q.doneInst = m.doneInst \cup {n[1]}
  /\ q.prefillDone = (m.prefillDone \/ Cardinality(q.doneInst) = Cardinality(PrefillInstances))
  /\ line \in {Done, Exit}
SameRest(m, q) ==
  /\ SameDone(m, q) /\ SameGroups(m, q) /\ q.inflight = m.inflight /\ q.queue = m.queue
  /\ q.current = m.current

LEMMA ClosedKeeps ==
  ASSUME sim \in Simulations, NEW m, Placed(m), NEW n \in Npus, NEW b,
         \/ m.answers = <<>> /\ b = NoBatch
         \/ HasWork(m, n[1]) /\ m.answers # <<>>
  PROVE  LET q == Closed(m, n, b)
         IN  \/ m.answers # <<>> /\ q = m
             \/ /\ m.answers = <<>> /\ Placed(q) /\ SameRest(m, q)
                /\ \E line \in Line :
                     /\ q.answers = <<line>>
                     /\ (line = Pass /\ SameEnds(m, q)) \/ Ending(m, q, n, line)
<1> DEFINE i    == n[1]
           npus == m.doneNpus[i] \cup {n}
           inst == IF Cardinality(npus) = (IF sim.inst[i].npus = 1 THEN 1 ELSE 2)
                   THEN m.doneInst \cup {i} ELSE m.doneInst
           line == IF inst = Instances THEN Exit ELSE Done
           all  == [m.doneNpus EXCEPT ![i] = npus]
           done == m.prefillDone \/ Cardinality(inst) = Cardinality(PrefillInstances)
           q    == Closed(m, n, b)
           may  == MayEnd(m, i) /\ (Group(i) = 0 \/ GroupEmpty(m, i))
<1>1. i \in Instances /\ i \in Members(Group(i))
  BY NpuPairs DEF Members
<1>2. m \in LoopType
  BY DEF Placed
<1>3. /\ m.doneNpus \in [Instances -> SUBSET Npus] /\ m.doneInst \in SUBSET Instances
      /\ m.prefillDone \in BOOLEAN
  BY <1>2 DEF LoopType
<1>4. q = IF may THEN Ends(m, n)
          ELSE IF b = NoBatch /\ m.answers = <<>> THEN Answer(m, Pass) ELSE m
  BY DEF Closed
<1>5. HasWork(m, i) => ~may
  <2> SUFFICES ASSUME HasWork(m, i), may PROVE FALSE
    OBVIOUS
  <2>1. PICK k \in Instances : Busy(m, k) /\ (k = i \/ (Group(i) # 0 /\ k \in Members(Group(i))))
    BY DEF HasWork
  <2>2. IsEmpty(m, k)
    BY <2>1 DEF MayEnd, GroupEmpty
  <2> QED
    BY <2>1, <2>2 DEF IsEmpty, Busy
<1>6. CASE m.answers # <<>>
  BY <1>4, <1>5, <1>6
<1>7. CASE m.answers = <<>> /\ ~may
  <2>1. q = [m EXCEPT !.answers = <<Pass>>]
    <3>1. Append(<<>>, Pass) = <<Pass>>
      OBVIOUS
    <3> QED
      BY <1>4, <1>7, <3>1 DEF Answer
  <2>2. Pass \in Line /\ <<Pass>> \in Seq(Line)
    BY DEF Pass, Line
  <2> HIDE DEF q
  <2>3. q \in LoopType /\ SameRest(m, q) /\ SameEnds(m, q) /\ q.answers = <<Pass>>
    BY <1>2, <2>1, <2>2 DEF LoopType, SameRest, SameDone, SameGroups, SameEnds
  <2>4. Placed(q)
    BY <2>3, WorkKeeps DEF SameRest, SameWork
  <2> QED
    BY <1>7, <2>2, <2>3, <2>4 DEF q
<1>8. CASE m.answers = <<>> /\ may
  <2>1. all \in [Instances -> SUBSET Npus]
    BY <1>1, <1>3
  <2>2. inst \in SUBSET Instances /\ (inst = m.doneInst \/ inst = m.doneInst \cup {i})
    BY <1>1, <1>3
  <2>3. done \in BOOLEAN
    BY <1>3
  <2>4. line \in Line /\ line \in {Done, Exit} /\ <<line>> \in Seq(Line)
    BY DEF Done, Exit, Line
  <2>5. q = [m EXCEPT !.doneNpus = all, !.doneInst = inst, !.prefillDone = done, !.answers = <<line>>]
    <3>1. q = Answer([m EXCEPT !.doneNpus[i] = npus, !.doneInst = inst,
                        !.prefillDone = @ \/ Cardinality(inst) = Cardinality(PrefillInstances)], line)
      BY <1>4, <1>8 DEF Ends
    <3> HIDE DEF q, inst, npus, line
    <3>2. Append(<<>>, line) = <<line>>
      OBVIOUS
    <3> QED
      BY <1>2, <1>8, <3>1, <3>2 DEF Answer, LoopType
  <2> HIDE DEF q, inst, line, all, done
  <2>6. /\ q \in LoopType /\ SameRest(m, q) /\ q.answers = <<line>>
        /\ q.doneNpus = all /\ q.doneInst = inst /\ q.prefillDone = done
    BY <1>2, <2>1, <2>2, <2>3, <2>4, <2>5 DEF LoopType, SameRest, SameDone, SameGroups
  <2>7. Placed(q)
    <3>1. q.queue = m.queue /\ q.inflight = m.inflight /\ q.pending = m.pending /\ q.finished = m.finished
      BY <2>6 DEF SameRest, SameDone
    <3>2. OnePlace(q)
      BY <3>1 DEF Placed, OnePlace, InQueue, InBatch
    <3>3. InTurn(q)
      BY <3>1 DEF Placed, InTurn, Known, InQueue, InBatch
    <3> QED
      BY <2>6, <3>2, <3>3 DEF Placed
  <2>8. Ending(m, q, n, line)
    BY <1>8, <2>2, <2>4, <2>6 DEF Ending, all, done
  <2> QED
    BY <1>8, <2>4, <2>6, <2>7, <2>8 DEF q
<1> QED
  BY <1>6, <1>7, <1>8

-----------------------------------------------------------------------------
(* One report *)

StaysEmpty(m, q, i) ==
  /\ \A j \in Instances : j # i => q.queue[j] = m.queue[j] /\ q.inflight[j] = m.inflight[j]
  /\ IsEmpty(m, i) => IsEmpty(q, i)
Outcome(m, q, n, line) ==
  \/ Gives(m, q, n, line) /\ SameEnds(m, q)
  \/ /\ SameGroups(m, q) /\ q.inflight = m.inflight
     /\ (line = Pass /\ SameEnds(m, q)) \/ Ending(m, q, n, line)

(* NPU n reports: the loop is in h when what has arrived is routed, in m   *)
(* when the batch that ended is accounted for, and in q at the end.        *)
Reported(h, m, q, n, line) ==
  /\ Placed(h) /\ SameGroups(loop, h) /\ SameEnds(loop, h)
  /\ h.inflight = loop.inflight /\ h.finished = loop.finished
  /\ loop.pending = {} => h.pending = {} /\ h.queue = loop.queue
  /\ Placed(m) /\ SameGroups(h, m) /\ SameEnds(h, m)
  /\ AddDoneShape(h, m, n, Iteration(npu, n)) /\ h.finished \subseteq m.finished
  /\ ~HasDeferred(h) => m.pending = h.pending
  /\ Grouped(m, Polls(npu, n, Iteration(npu, n)), joined)
  /\ Placed(q) /\ SameDone(m, q) /\ StaysEmpty(m, q, n[1])
  /\ Outcome(m, q, n, line)
  /\ line \in Line /\ q.answers = <<line>>

LEMMA RoutedFirst ==
  ASSUME sim \in Simulations, now \in Nat, Placed(loop)
  PROVE  LET h == Route([loop EXCEPT !.answers = <<>>, !.current = now])
         IN  /\ Placed(h) /\ SameGroups(loop, h) /\ SameEnds(loop, h)
             /\ h.inflight = loop.inflight /\ h.finished = loop.finished /\ h.answers = <<>>
             /\ loop.pending = {} => h.pending = {} /\ h.queue = loop.queue
<1> DEFINE o == [loop EXCEPT !.answers = <<>>, !.current = now]
           h == Route(o)
<1>1. loop \in LoopType
  BY DEF Placed
<1>2. <<>> \in Seq(Line)
  OBVIOUS
<1>3. /\ o \in LoopType /\ SameGroups(loop, o) /\ SameEnds(loop, o) /\ o.answers = <<>>
      /\ o.queue = loop.queue /\ o.inflight = loop.inflight
      /\ o.pending = loop.pending /\ o.finished = loop.finished
  BY <1>1, <1>2 DEF LoopType, SameGroups, SameEnds
<1> HIDE DEF o
<1>4. Placed(o)
  <2>1. OnePlace(o)
    BY <1>3 DEF Placed, OnePlace, InQueue, InBatch
  <2>2. InTurn(o)
    BY <1>3 DEF Placed, InTurn, Known, InQueue, InBatch
  <2> QED
    BY <1>3, <2>1, <2>2 DEF Placed
<1>5. /\ Placed(h) /\ SameGroups(o, h) /\ SameEnds(o, h)
      /\ h.answers = o.answers /\ h.inflight = o.inflight /\ h.finished = o.finished
      /\ o.pending = {} => h.pending = {} /\ h.queue = o.queue
  BY <1>4, RouteKeeps
<1> HIDE DEF h
<1> QED
  BY <1>3, <1>5 DEF h, o, SameGroups, SameEnds

LEMMA ReportShape ==
  ASSUME sim \in Simulations, now \in Nat, SingleNpuGroups, Works(loop, npu, joined),
         NEW n \in Npus, Report(n)
  PROVE  \E h, m, line : /\ Reported(h, m, loop', n, line)
                         /\ Obeys(n, Iteration(npu, n), line)
<1> DEFINE i  == n[1]
           id == Iteration(npu, n)
           t  == Polls(npu, n, id)
           h  == Route([loop EXCEPT !.answers = <<>>, !.current = now])
           m  == AddDone(h, n, id)
<1>1. i \in Instances
  BY NpuPairs
<1>2. Placed(loop) /\ npu \in [Npus -> NpuType]
  BY DEF Works, Typed, Placed
<1>3. id \in Int
  <2>1. Iteration(npu, n) \in Nat \cup {-1}
    BY <1>2, PollsTyped
  <2> QED
    BY <2>1
<1>4. PICK s \in Scheduled(m, n, id) :
        /\ loop' = Closed(IF s.batch = NoBatch THEN AnswerIdle(s.m, n)
                          ELSE AnswerBatch(s.m, n, s.batch), n, s.batch)
        /\ Obeys(n, id, loop'.answers[Len(loop'.answers)])
  BY DEF Report, Iteration, One
<1> DEFINE r == IF s.batch = NoBatch THEN AnswerIdle(s.m, n) ELSE AnswerBatch(s.m, n, s.batch)
           q == Closed(r, n, s.batch)
<1>5. /\ Placed(h) /\ SameGroups(loop, h) /\ SameEnds(loop, h)
      /\ h.inflight = loop.inflight /\ h.finished = loop.finished /\ h.answers = <<>>
      /\ loop.pending = {} => h.pending = {} /\ h.queue = loop.queue
  BY <1>2, RoutedFirst
<1> HIDE DEF h
<1>6. /\ Placed(m) /\ SameGroups(h, m) /\ SameEnds(h, m)
      /\ m.answers = <<>>
      /\ AddDoneShape(h, m, n, id) /\ h.finished \subseteq m.finished
      /\ ~HasDeferred(h) => m.pending = h.pending
  BY <1>3, <1>5, AddDoneKeeps
<1> HIDE DEF m
<1>7. Grouped(m, t, joined)
  <2>1. h \in LoopType /\ m \in LoopType /\ CanReport(n)
    BY <1>5, <1>6 DEF Placed, Report
  <2> QED
    BY <1>5, <1>6, <2>1, PollInStep
<1> HIDE DEF id
<1>8. /\ Placed(s.m) /\ SameEnds(m, s.m) /\ SameDone(m, s.m)
      /\ s.m.current = m.current /\ s.m.answers = <<>>
      /\ ScheduledShape(m, s, n)
  BY <1>3, <1>6, ScheduledKeeps
<1> HIDE DEF t
<1>9. \/ s.batch = NoBatch /\ s.m = m /\ r = m
      \/ /\ Placed(r) /\ SameDone(m, r) /\ SameEnds(m, r)
         /\ r.current = m.current /\ r.queue = s.m.queue
         /\ s.batch = NoBatch => r.inflight = m.inflight
         /\ HasWork(r, i)
         /\ \E line \in Line : r.answers = <<line>> /\ Gives(m, r, n, line)
  <2>1. CASE s.batch = NoBatch
    <3>1. s.m = m /\ r = AnswerIdle(m, n)
      BY <1>8, <2>1 DEF ScheduledShape
    <3> HIDE DEF r
    <3> QED
      BY <1>6, <1>7, <1>8, <2>1, <3>1, IdleGives
  <2>2. CASE s.batch # NoBatch
    <3> DEFINE b == s.batch
               k == s.m
    <3>1. /\ Placed(k) /\ SameDone(m, k) /\ SameEnds(m, k) /\ k.current = m.current
          /\ k.answers = <<>> /\ (FormsBatch(m, k, n, b) \/ PicksBatch(m, k, n, b))
      BY <1>8, <2>2 DEF ScheduledShape
    <3>2. r = AnswerBatch(k, n, b)
      BY <2>2
    <3> HIDE DEF r, k, b
    <3>3. /\ Placed(r) /\ SameDone(m, r) /\ SameEnds(m, r)
          /\ r.current = m.current /\ r.queue = k.queue
          /\ HasWork(r, i)
          /\ \E line \in Line : r.answers = <<line>> /\ Gives(m, r, n, line)
      BY <1>6, <1>7, <3>1, <3>2, BatchGives
    <3> QED
      BY <2>2, <3>3 DEF k
  <2> QED
    BY <2>1, <2>2
<1>10. StaysEmpty(m, r, i)
  <2>1. m.inflight \in [Instances -> SUBSET Batch]
    BY <1>6 DEF Placed, LoopType
  <2>2. CASE r = m
    BY <2>2 DEF StaysEmpty
  <2>3. CASE r # m
    <3>1. /\ r.queue = s.m.queue
          /\ s.batch = NoBatch => r.inflight = m.inflight
          /\ \E line \in Line : Gives(m, r, n, line)
      BY <1>9, <2>3
    <3> HIDE DEF r
    <3>2. \/ s.batch = NoBatch /\ s.m = m
          \/ FormsBatch(m, s.m, n, s.batch)
          \/ PicksBatch(m, s.m, n, s.batch)
      BY <1>8 DEF ScheduledShape
    <3>3. \A j \in Instances : j # i => r.queue[j] = m.queue[j]
      BY <3>1, <3>2 DEF FormsBatch, PicksBatch
    <3>4. \A j \in Instances : j # i => r.inflight[j] = m.inflight[j]
      BY <2>1, <3>1 DEF Gives, HandsOut, LetsWait, StartsWave, StartsAlone, RunsAgain, Brings
    <3>5. IsEmpty(m, i) => IsEmpty(r, i)
      <4> SUFFICES ASSUME IsEmpty(m, i) PROVE IsEmpty(r, i)
        OBVIOUS
      <4>1. m.queue[i] = {} /\ m.inflight[i] = {}
        BY DEF IsEmpty
      <4>2. s.batch = NoBatch /\ s.m = m
        BY <3>2, <4>1 DEF FormsBatch, PicksBatch
      <4> QED
        BY <3>1, <4>1, <4>2 DEF IsEmpty
    <3> QED
      BY <3>3, <3>4, <3>5 DEF StaysEmpty
  <2> QED
    BY <2>2, <2>3
<1> HIDE DEF r
<1>11. \/ r.answers = <<>> /\ s.batch = NoBatch /\ r = m
       \/ r.answers # <<>> /\ HasWork(r, i)
  <2>1. \A x \in Line : <<x>> # <<>>
    OBVIOUS
  <2> QED
    BY <1>6, <1>9, <2>1
<1>12. Placed(r) /\ SameDone(m, r) /\ SameEnds(m, r) /\ r.current = m.current
  BY <1>6, <1>9 DEF SameDone, SameEnds
<1>13. \/ r.answers # <<>> /\ q = r
       \/ /\ r.answers = <<>> /\ Placed(q) /\ SameRest(r, q)
          /\ \E line \in Line :
               /\ q.answers = <<line>>
               /\ (line = Pass /\ SameEnds(r, q)) \/ Ending(r, q, n, line)
  BY <1>11, <1>12, ClosedKeeps
<1>14. loop' = q
  BY <1>4 DEF r
<1> HIDE DEF q
<1>15. \E line \in Line : /\ q.answers = <<line>> /\ Outcome(m, q, n, line)
                          /\ Placed(q) /\ SameDone(m, q) /\ StaysEmpty(m, q, i)
  <2>1. CASE r.answers # <<>> /\ q = r
    <3>1. PICK line \in Line : r.answers = <<line>> /\ Gives(m, r, n, line)
      BY <1>6, <1>9, <2>1
    <3>2. Outcome(m, q, n, line)
      BY <1>12, <2>1, <3>1 DEF Outcome
    <3> QED
      BY <1>10, <1>12, <2>1, <3>1, <3>2
  <2>2. CASE r.answers = <<>>
    <3>1. r = m
      BY <1>11, <2>2
    <3>2. PICK line \in Line :
            /\ q.answers = <<line>>
            /\ (line = Pass /\ SameEnds(m, q)) \/ Ending(m, q, n, line)
      BY <1>13, <2>2, <3>1
    <3>3. Placed(q) /\ SameRest(m, q)
      BY <1>13, <2>2, <3>1
    <3>4. Outcome(m, q, n, line)
      BY <3>2, <3>3 DEF Outcome, SameRest
    <3>5. StaysEmpty(m, q, i)
      BY <3>3 DEF StaysEmpty, SameRest, IsEmpty
    <3> QED
      BY <3>2, <3>3, <3>4, <3>5 DEF SameRest
  <2> QED
    BY <1>13, <2>1, <2>2
<1>16. PICK line \in Line : /\ q.answers = <<line>> /\ Outcome(m, q, n, line)
                           /\ Placed(q) /\ SameDone(m, q) /\ StaysEmpty(m, q, i)
  BY <1>15
<1>17. Obeys(n, id, line)
  <2>1. loop'.answers[Len(loop'.answers)] = line
    BY <1>14, <1>16
  <2> QED
    BY <1>4, <2>1
<1>18. Reported(h, m, q, n, line)
  BY <1>5, <1>6, <1>7, <1>16 DEF Reported, id, t
<1> QED
  BY <1>14, <1>17, <1>18 DEF id

LEMMA ToldTyped ==
  ASSUME sim \in Simulations, NEW p \in [Npus -> NpuType], NEW n \in Npus, NEW line \in Line,
         NEW J \in Partial(Line, SUBSET Npus)
  PROVE  /\ Told(p, n, Iteration(p, n), line) \in [Npus -> NpuType]
         /\ Told(p, n, Iteration(p, n), line)[n] =
              [ran |-> Iteration(p, n),
               todo |-> IF ~Idle(line) THEN "run" ELSE IF line = Pass THEN "wait" ELSE "sleep",
               load |-> IF Idle(line) THEN Nothing ELSE line]
         /\ \A k \in Npus : k # n => Told(p, n, Iteration(p, n), line)[k] = p[k]
         /\ Heard(J, n, line) \in Partial(Line, SUBSET Npus)
<1> DEFINE id == Iteration(p, n)
           e == [ran |-> id,
                 todo |-> IF ~Idle(line) THEN "run" ELSE IF line = Pass THEN "wait" ELSE "sleep",
                 load |-> IF Idle(line) THEN Nothing ELSE line]
<1>1. id \in Nat \cup {-1}
  BY PollsTyped
<1>2. Nothing \in Line
  BY DEF Nothing, Line
<1> HIDE DEF id
<1>3. e \in NpuType
  BY <1>1, <1>2 DEF NpuType
<1>4. Told(p, n, id, line) = [p EXCEPT ![n] = e]
  BY DEF Told
<1> HIDE DEF e
<1>5. /\ Told(p, n, id, line) \in [Npus -> NpuType] /\ Told(p, n, id, line)[n] = e
      /\ \A k \in Npus : k # n => Told(p, n, id, line)[k] = p[k]
  BY <1>3, <1>4
<1>6. Heard(J, n, line) \in Partial(Line, SUBSET Npus)
  <2> DEFINE S == {n} \cup IF line \in DOMAIN J THEN J[line] ELSE {}
             T == SUBSET Npus
  <2>1. line \in DOMAIN J => J[line] \in SUBSET Npus
    BY PartialType
  <2>2. S \in T /\ J \in Partial(Line, T)
    BY <2>1
  <2>3. Heard(J, n, line) = IF Idle(line) THEN J ELSE With(J, line, S)
    BY DEF Heard
  <2> HIDE DEF S, T
  <2>4. With(J, line, S) \in Partial(Line, T)
    BY <2>2, WithEntry
  <2> QED
    BY <2>2, <2>3, <2>4 DEF T
<1> QED
  BY <1>5, <1>6 DEF e, id

LEMMA GroupElsewhere ==
  ASSUME sim \in Simulations, NEW n \in Npus, NEW g \in Groups, n[1] \notin Members(g),
         NEW m, NEW q, NEW p, NEW t, NEW J, NEW K, InStep(m, p, J, g),
         \A j \in Instances : j # n[1] =>
           q.inflight[j] = m.inflight[j] /\ q.batchIds[j] = m.batchIds[j],
         \A k \in Npus : k # n => t[k] = p[k],
         q.waves[g] = m.waves[g],
         \A j \in Members(g) : j \in DOMAIN q.ready <=> j \in DOMAIN m.ready,
         \A j \in Members(g) : j \in DOMAIN m.ready => q.ready[j] = m.ready[j],
         \A w : w[1] = "dp" /\ w[2] = g => (w \in DOMAIN K <=> w \in DOMAIN J),
         \A w \in DOMAIN J : w[1] = "dp" /\ w[2] = g => K[w] = J[w]
  PROVE  InStep(q, t, K, g)
<1>1. \A j \in Members(g) : j \in Instances /\ j # n[1] /\ Start(j) \in Npus /\ Start(j)[1] = j
  BY NpuPairs DEF Members
<1>2. \A j \in Members(g) : q.inflight[j] = m.inflight[j] /\ q.batchIds[j] = m.batchIds[j]
  BY <1>1
<1>3. \A j \in Members(g) : t[Start(j)] = p[Start(j)]
  BY <1>1
<1> QED
  BY <1>2, <1>3, GroupUnmoved

LEMMA GroupedKept ==
  ASSUME sim \in Simulations, SingleNpuGroups, Works(loop, npu, joined), NEW n \in Npus,
         NEW h, NEW m, NEW q, NEW line, Reported(h, m, q, n, line)
  PROVE  Grouped(q, Told(npu, n, Iteration(npu, n), line), Heard(joined, n, line))
<1> DEFINE i  == n[1]
           id == Iteration(npu, n)
           p  == Polls(npu, n, id)
           t  == Told(npu, n, id, line)
           K  == Heard(joined, n, line)
<1>1. /\ i \in Instances /\ n \in Reporting(i)
      /\ \A j \in Instances : Start(j) \in Npus /\ Start(j)[1] = j
  BY NpuPairs
<1>2. /\ npu \in [Npus -> NpuType] /\ joined \in Partial(Line, SUBSET Npus) /\ line \in Line
  BY DEF Works, Typed, Reported
<1>3. /\ p \in [Npus -> NpuType]
      /\ p[n].ran = id /\ p[n].todo = "wait" /\ p[n].load = Nothing
      /\ \A k \in Npus : k # n => p[k] = npu[k]
  <2>1. p[n] = [ran |-> id, todo |-> "wait", load |-> Nothing]
    BY <1>2, PollsTyped
  <2> QED
    BY <1>2, <2>1, PollsTyped
<1>4. /\ t[n].ran = id
      /\ Idle(line) => t[n].todo # "run" /\ t[n].load = Nothing
      /\ ~Idle(line) => t[n].todo = "run" /\ t[n].load = line
      /\ \A k \in Npus : k # n => t[k] = npu[k]
  <2>1. t[n] = [ran |-> id,
               todo |-> IF ~Idle(line) THEN "run" ELSE IF line = Pass THEN "wait" ELSE "sleep",
               load |-> IF Idle(line) THEN Nothing ELSE line]
    BY <1>2, ToldTyped
  <2>2. \A k \in Npus : k # n => t[k] = npu[k]
    BY <1>2, ToldTyped
  <2> HIDE DEF t
  <2> QED
    BY <2>1, <2>2
<1>5. /\ Idle(line) => K = joined
      /\ ~Idle(line) =>
           K = With(joined, line, {n} \cup IF line \in DOMAIN joined THEN joined[line] ELSE {})
  BY DEF Heard
<1>6. /\ m \in LoopType /\ q \in LoopType
      /\ \A j \in DOMAIN m.ready : Group(j) # 0
      /\ \A g \in Groups : InStep(m, p, joined, g)
      /\ Outcome(m, q, n, line)
  BY DEF Reported, Placed, Grouped
<1> HIDE DEF p, t, K, id
<1>7. \A k \in Npus : k # n => t[k] = p[k]
  BY <1>3, <1>4
<1>8. \A j \in Instances : j # i => t[Start(j)] = p[Start(j)]
  BY <1>1, <1>7
<1>9. /\ m.inflight \in [Instances -> SUBSET Batch] /\ m.batchIds \in [Instances -> Nat]
      /\ m.waves \in [Groups -> Partial(Instances, Nat)]
  BY <1>6 DEF LoopType
<1>10. CASE SameGroups(m, q) /\ q.inflight = m.inflight /\ Idle(line)
  <2>1. /\ q.batchIds = m.batchIds /\ q.waves = m.waves /\ q.ready = m.ready
    BY <1>10 DEF SameGroups
  <2>2. ASSUME NEW g \in Groups
        PROVE  InStep(q, t, K, g)
    <3>1. InStep(m, p, joined, g) /\ K = joined
      BY <1>5, <1>6, <1>10
    <3>2. \A j \in Members(g) : Start(j) \in Npus
      BY <1>1 DEF Members
    <3>3. \A j \in Members(g) : /\ t[Start(j)].ran = p[Start(j)].ran
                                /\ t[Start(j)].load = p[Start(j)].load
                                /\ t[Start(j)].todo = "run" <=> p[Start(j)].todo = "run"
      BY <1>3, <1>4, <1>7, <1>10, <3>2
    <3> QED
      BY <1>10, <2>1, <3>1, <3>3, GroupUnmoved
  <2> QED
    BY <1>6, <2>1, <2>2 DEF Grouped, t, K, id
<1>11. ASSUME Group(i) = 0, q.waves = m.waves, q.ready = m.ready,
              \A j \in Instances : j # i =>
                q.inflight[j] = m.inflight[j] /\ q.batchIds[j] = m.batchIds[j],
              \E x : line = Own(i, x)
       PROVE  Grouped(q, t, K)
  <2>1. ASSUME NEW g \in Groups
        PROVE  InStep(q, t, K, g)
    <3>1. InStep(m, p, joined, g)
      BY <1>6
    <3>2. i \notin Members(g)
      BY <1>11, GroupTypes
    <3>3. line[1] = "instance"
      BY <1>11 DEF Own
    <3>4. ~Idle(line)
      BY <3>3 DEF Idle, Pass, Done, Exit
    <3>5. K = With(joined, line, {n} \cup IF line \in DOMAIN joined THEN joined[line] ELSE {})
      BY <1>5, <3>4
    <3>6. \A w : w[1] = "dp" /\ w[2] = g => (w \in DOMAIN K <=> w \in DOMAIN joined)
      BY <3>3, <3>5 DEF With
    <3>7. \A w \in DOMAIN joined : w[1] = "dp" /\ w[2] = g => K[w] = joined[w]
      BY <3>3, <3>5 DEF With
    <3> QED
      BY <1>7, <1>11, <3>1, <3>2, <3>6, <3>7, GroupElsewhere
  <2> QED
    BY <1>6, <1>11, <2>1 DEF Grouped
<1>12. ASSUME Group(i) # 0, InStep(q, t, K, Group(i)),
              \A g \in Groups : g # Group(i) => q.waves[g] = m.waves[g],
              \A j \in Instances : j # i =>
                q.inflight[j] = m.inflight[j] /\ q.batchIds[j] = m.batchIds[j],
              \A j \in Instances : Group(j) # Group(i) =>
                /\ j \in DOMAIN q.ready <=> j \in DOMAIN m.ready
                /\ j \in DOMAIN m.ready => q.ready[j] = m.ready[j],
              \A j \in DOMAIN q.ready : j \in DOMAIN m.ready \/ Group(j) # 0,
              Idle(line) \/ line[2] = Group(i)
       PROVE  Grouped(q, t, K)
  <2>1. ASSUME NEW g \in Groups, g # Group(i)
        PROVE  InStep(q, t, K, g)
    <3>1. InStep(m, p, joined, g)
      BY <1>6
    <3>2. i \notin Members(g) /\ \A j \in Members(g) : j \in Instances /\ Group(j) # Group(i)
      BY <2>1, GroupTypes
    <3>3. q.waves[g] = m.waves[g]
      BY <1>12, <2>1
    <3>4. \A w : w[1] = "dp" /\ w[2] = g => (w \in DOMAIN K <=> w \in DOMAIN joined)
      BY <1>5, <1>12, <2>1 DEF With
    <3>5. \A w \in DOMAIN joined : w[1] = "dp" /\ w[2] = g => K[w] = joined[w]
      BY <1>5, <1>12, <2>1 DEF With
    <3>6. \A j \in Members(g) : j \in DOMAIN q.ready <=> j \in DOMAIN m.ready
      BY <1>12, <3>2
    <3>7. \A j \in Members(g) : j \in DOMAIN m.ready => q.ready[j] = m.ready[j]
      BY <1>12, <3>2
    <3> QED
      BY <1>7, <1>12, <3>1, <3>2, <3>3, <3>4, <3>5, <3>6, <3>7, GroupElsewhere
  <2> QED
    BY <1>6, <1>12, <2>1 DEF Grouped
<1>13. CASE Group(i) = 0 /\ (StartsAlone(m, q, n, line) \/ RunsAgain(m, q, n, line))
  <2>1. q.waves = m.waves /\ q.ready = m.ready /\ \E x : line = Own(i, x)
    BY <1>13 DEF StartsAlone, RunsAgain, SameGroups
  <2>2. \A j \in Instances : j # i =>
          q.inflight[j] = m.inflight[j] /\ q.batchIds[j] = m.batchIds[j]
    BY <1>9, <1>13 DEF StartsAlone, RunsAgain, SameGroups
  <2> QED
    BY <1>11, <1>13, <2>1, <2>2 DEF t, K, id
<1>14. ASSUME Group(i) # 0
       PROVE  /\ Group(i) \in Groups /\ n = Start(i) /\ i \in Members(Group(i))
              /\ InStep(m, p, joined, Group(i))
              /\ t[Start(i)].ran = p[Start(i)].ran
              /\ p[Start(i)].todo # "run" /\ p[Start(i)].load = Nothing
  <2>1. Group(i) \in Groups /\ n = Start(i) /\ i \in Members(Group(i))
    BY <1>1, <1>14, GroupTypes
  <2> QED
    BY <1>3, <1>4, <1>6, <2>1
<1>15. CASE Group(i) # 0 /\ HandsOut(m, q, n, line)
  <2> DEFINE g == Group(i)
  <2>1. /\ i \in DOMAIN m.ready /\ line = m.ready[i]
        /\ q.inflight = m.inflight /\ q.batchIds = m.batchIds /\ q.waves = m.waves
        /\ q.ready = Without(m.ready, i)
    BY <1>15 DEF HandsOut
  <2>2. line[1] = "dp" /\ line[2] = g
    <3>1. i \in Waiting(m, g) /\ Started(m, p, joined, g)
      BY <1>14, <1>15, <2>1 DEF Waiting, InStep
    <3> QED
      BY <2>1, <3>1 DEF Started, Starter
  <2>3. ~Idle(line)
    BY <2>2 DEF Idle, Pass, Done, Exit
  <2>4. t[Start(i)].todo = "run" /\ t[Start(i)].load = m.ready[i]
    BY <1>4, <1>14, <1>15, <2>1, <2>3
  <2>5. K = Heard(joined, Start(i), m.ready[i])
    BY <1>14, <1>15, <2>1 DEF K
  <2>6. InStep(q, t, K, g)
    <3>1. /\ InStep(m, p, joined, g) /\ t[Start(i)].ran = p[Start(i)].ran
          /\ p[Start(i)].todo # "run" /\ p[Start(i)].load = Nothing
      BY <1>14, <1>15
    <3>2. Group(i) # 0
      BY <1>15
    <3>3. m \in LoopType /\ joined \in Partial(Line, SUBSET Npus) /\ i \in Instances
      BY <1>1, <1>2, <1>6
    <3> HIDE DEF i
    <3>4. InStep(q, t, Heard(joined, Start(i), m.ready[i]), Group(i))
      BY <1>8, <2>1, <2>4, <3>1, <3>2, <3>3, ReadyInStep
    <3> QED
      BY <2>5, <3>4
  <2>7. /\ DOMAIN q.ready = DOMAIN m.ready \ {i}
        /\ \A j \in DOMAIN m.ready : j # i => q.ready[j] = m.ready[j]
    BY <2>1 DEF Without
  <2> QED
    BY <1>12, <1>15, <2>1, <2>2, <2>6, <2>7 DEF t, K, id
<1>16. ASSUME Brings(m, q, i)
       PROVE  \A j \in Instances : j # i =>
                q.inflight[j] = m.inflight[j] /\ q.batchIds[j] = m.batchIds[j]
  BY <1>9, <1>16 DEF Brings
<1>17. CASE Group(i) # 0 /\ LetsWait(m, q, n, line)
  <2> DEFINE g == Group(i)
  <2>1. /\ Brings(m, q, i) /\ line = Pass
        /\ q.waves = [m.waves EXCEPT ![Group(i)] = Longer(m, i)] /\ q.ready = m.ready
    BY <1>17 DEF LetsWait
  <2>2. Idle(line) /\ K = joined
    BY <1>5, <2>1 DEF Idle
  <2>3. InStep(q, t, joined, g)
    <3>1. /\ InStep(m, p, joined, g) /\ t[Start(i)].ran = p[Start(i)].ran
          /\ p[Start(i)].todo # "run" /\ p[Start(i)].load = Nothing
          /\ t[Start(i)].todo # "run" /\ t[Start(i)].load = Nothing
      BY <1>4, <1>14, <1>17, <2>2
    <3> HIDE DEF i
    <3> QED
      BY <1>1, <1>2, <1>3, <1>6, <1>8, <1>17, <2>1, <3>1, WaveWaits
  <2>4. \A x \in Groups : x # g => q.waves[x] = m.waves[x]
    BY <1>9, <2>1
  <2> QED
    BY <1>12, <1>16, <1>17, <2>1, <2>2, <2>3, <2>4 DEF t, K, id
<1>18. CASE Group(i) # 0 /\ StartsWave(m, q, n, line)
  <2> DEFINE g == Group(i)
  <2>1. /\ Brings(m, q, i) /\ DOMAIN Longer(m, i) = Members(Group(i))
        /\ line = NewName(m, i) /\ q.ready = Readied(m, i, line)
        /\ q.waves = [m.waves EXCEPT ![Group(i)] = <<>>]
    BY <1>18 DEF StartsWave
  <2>2. line[1] = "dp" /\ line[2] = g
    BY <2>1 DEF Wave, NewName
  <2>3. ~Idle(line)
    BY <2>2 DEF Idle, Pass, Done, Exit
  <2>4. t[Start(i)].todo = "run" /\ t[Start(i)].load = line
    BY <1>4, <1>14, <1>18, <2>3
  <2>5. K = Heard(joined, Start(i), NewName(m, i)) /\ q.ready = Readied(m, i, NewName(m, i))
          /\ t[Start(i)].load = NewName(m, i)
    BY <1>14, <1>18, <2>1, <2>4 DEF K
  <2>6. InStep(q, t, K, g)
    <3>1. /\ InStep(m, p, joined, g) /\ t[Start(i)].ran = p[Start(i)].ran
          /\ p[Start(i)].todo # "run" /\ p[Start(i)].load = Nothing
      BY <1>14, <1>18
    <3> HIDE DEF i
    <3> QED
      BY <1>1, <1>2, <1>3, <1>6, <1>8, <1>18, <2>1, <2>4, <2>5, <3>1, WaveStarts
  <2>7. \A x \in Groups : x # g => q.waves[x] = m.waves[x]
    BY <1>9, <2>1
  <2>8. /\ DOMAIN q.ready = DOMAIN m.ready \cup (Members(g) \ {i})
        /\ \A j \in DOMAIN q.ready : j \notin Members(g) => q.ready[j] = m.ready[j]
    BY <2>1 DEF Readied
  <2>9. \A j \in Instances : Group(j) = g <=> j \in Members(g)
    BY DEF Members
  <2>10. \A j \in Instances : Group(j) # Group(i) =>
           /\ j \in DOMAIN q.ready <=> j \in DOMAIN m.ready
           /\ j \in DOMAIN m.ready => q.ready[j] = m.ready[j]
    BY <2>8, <2>9
  <2>11. \A j \in DOMAIN q.ready : j \in DOMAIN m.ready \/ Group(j) # 0
    BY <1>18, <2>8 DEF Members
  <2> QED
    BY <1>12, <1>16, <1>18, <2>1, <2>2, <2>6, <2>7, <2>10, <2>11 DEF t, K, id
<1>19. \/ SameGroups(m, q) /\ q.inflight = m.inflight /\ Idle(line)
       \/ Gives(m, q, n, line)
  BY <1>6 DEF Outcome, Ending, Idle
<1> QED
  BY <1>10, <1>13, <1>15, <1>17, <1>18, <1>19 DEF Gives

LEMMA GeneratesKept ==
  ASSUME sim \in Simulations, SingleNpuGroups, Works(loop, npu, joined), NEW n \in Npus,
         NEW h, NEW m, NEW q, NEW line, Reported(h, m, q, n, line)
  PROVE  Generates(q, Told(npu, n, Iteration(npu, n), line))
<1> DEFINE i == n[1]
           t == Told(npu, n, Iteration(npu, n), line)
<1>1. i \in Instances
  BY NpuPairs
<1>2. /\ npu \in [Npus -> NpuType] /\ joined \in Partial(Line, SUBSET Npus) /\ line \in Line
      /\ Generates(loop, npu)
  BY DEF Works, Typed, Reported
<1>3. /\ t[n].load = IF Idle(line) THEN Nothing ELSE line
      /\ \A k \in Npus : k # n => t[k] = npu[k]
  <2>1. t[n] = [ran |-> Iteration(npu, n),
                todo |-> IF ~Idle(line) THEN "run" ELSE IF line = Pass THEN "wait" ELSE "sleep",
                load |-> IF Idle(line) THEN Nothing ELSE line]
    BY <1>2, ToldTyped
  <2>2. \A k \in Npus : k # n => t[k] = npu[k]
    BY <1>2, ToldTyped
  <2> HIDE DEF t
  <2> QED
    BY <2>1, <2>2
<1> HIDE DEF t
<1>4. /\ h.made = loop.made /\ m.made = loop.made /\ m.ready = loop.ready
      /\ h.inflight = loop.inflight /\ m.inflight \in [Instances -> SUBSET Batch]
      /\ h.inflight \in [Instances -> SUBSET Batch] /\ m.ready \in Partial(Instances, Line)
  BY DEF Reported, SameGroups, Placed, LoopType
<1>5. ASSUME NEW j \in Instances, NEW b \in m.inflight[j]
      PROVE  \E c \in loop.inflight[j] : c.id = b.id
  <2>1. CASE m.inflight[j] = h.inflight[j]
    BY <1>4, <2>1
  <2>2. CASE m.inflight[j] # h.inflight[j]
    <3>1. PICK c \in h.inflight[i] : EndsBatch(h, m, n, Iteration(npu, n), c)
      BY <2>2 DEF Reported, AddDoneShape
    <3>2. j = i
      BY <1>1, <1>4, <2>2, <3>1 DEF EndsBatch
    <3>3. b \in h.inflight[i] \/ b = Marked(c, n)
      BY <1>1, <1>4, <3>1, <3>2 DEF EndsBatch
    <3>4. c \in Batch
      BY <1>1, <1>4
    <3>5. Marked(c, n).id = c.id
      BY <3>4 DEF Marked, Batch
    <3> QED
      BY <1>4, <3>2, <3>3, <3>5
  <2> QED
    BY <2>1, <2>2
<1>6. /\ \A j \in Instances : Group(j) = 0 => \A b \in m.inflight[j] : Own(j, b.id) \in m.made
      /\ \A j \in DOMAIN m.ready : m.ready[j] \in m.made
      /\ \A k \in Npus : npu[k].load \in m.made \cup {Event, Nothing}
  BY <1>2, <1>4, <1>5 DEF Generates
<1>7. m.made \subseteq q.made
  BY DEF Reported, Outcome, Gives, HandsOut, LetsWait, StartsWave, StartsAlone, RunsAgain, SameGroups
<1>8. \A k \in Npus : k # n => t[k].load \in q.made \cup {Event, Nothing}
  BY <1>3, <1>6, <1>7
<1>9. CASE SameGroups(m, q) /\ q.inflight = m.inflight /\ Idle(line)
  <2>1. t[n].load = Nothing
    BY <1>3, <1>9
  <2>2. q.ready = m.ready /\ q.made = m.made
    BY <1>9 DEF SameGroups
  <2>3. \A k \in Npus : t[k].load \in q.made \cup {Event, Nothing}
    BY <1>8, <2>1
  <2> QED
    BY <1>6, <1>9, <2>2, <2>3 DEF Generates, t
<1>10. ASSUME line \in q.made \/ Idle(line)
       PROVE  \A k \in Npus : t[k].load \in q.made \cup {Event, Nothing}
  BY <1>3, <1>8, <1>10
<1>11. CASE Group(i) # 0 /\ HandsOut(m, q, n, line)
  <2>1. /\ i \in DOMAIN m.ready /\ line = m.ready[i] /\ q.inflight = m.inflight /\ q.made = m.made
        /\ q.ready = Without(m.ready, i)
    BY <1>11 DEF HandsOut
  <2>2. DOMAIN q.ready = DOMAIN m.ready \ {i} /\ \A j \in DOMAIN q.ready : q.ready[j] = m.ready[j]
    BY <2>1 DEF Without
  <2> QED
    BY <1>6, <1>10, <2>1, <2>2 DEF Generates, t
<1>12. ASSUME Brings(m, q, i), Group(i) # 0, m.made \subseteq q.made
       PROVE  \A j \in Instances : Group(j) = 0 => \A b \in q.inflight[j] : Own(j, b.id) \in q.made
  <2>1. \A j \in Instances : Group(j) = 0 => q.inflight[j] = m.inflight[j]
    BY <1>4, <1>12 DEF Brings
  <2> QED
    BY <1>6, <1>12, <2>1
<1>13. CASE Group(i) # 0 /\ LetsWait(m, q, n, line)
  <2>1. Brings(m, q, i) /\ Idle(line) /\ q.ready = m.ready /\ q.made = m.made
    BY <1>13 DEF LetsWait, Idle
  <2>2. \A j \in Instances : Group(j) = 0 => \A b \in q.inflight[j] : Own(j, b.id) \in q.made
    BY <1>12, <1>13, <2>1
  <2> QED
    BY <1>6, <1>10, <2>1, <2>2 DEF Generates, t
<1>14. CASE Group(i) # 0 /\ StartsWave(m, q, n, line)
  <2>1. Brings(m, q, i) /\ q.ready = Readied(m, i, line) /\ q.made = m.made \cup {line}
    BY <1>14 DEF StartsWave
  <2>2. \A j \in Instances : Group(j) = 0 => \A b \in q.inflight[j] : Own(j, b.id) \in q.made
    BY <1>7, <1>12, <1>14, <2>1
  <2>3. \A j \in DOMAIN q.ready : (j \in DOMAIN m.ready /\ q.ready[j] = m.ready[j]) \/ q.ready[j] = line
    BY <2>1 DEF Readied
  <2> QED
    BY <1>6, <1>10, <2>1, <2>2, <2>3 DEF Generates, t
<1>15. CASE Group(i) = 0 /\ StartsAlone(m, q, n, line)
  <2>1. PICK b \in Batch : line = Own(i, b.id)
                           /\ q.inflight = [m.inflight EXCEPT ![i] = @ \cup {b}]
    BY <1>15 DEF StartsAlone
  <2>2. q.made = m.made \cup {line} /\ q.ready = m.ready
    BY <1>15 DEF StartsAlone
  <2>3. \A j \in Instances : \A c \in q.inflight[j] : c \in m.inflight[j] \/ (j = i /\ c = b)
    BY <1>1, <1>4, <2>1
  <2>4. \A j \in Instances : Group(j) = 0 => \A c \in q.inflight[j] : Own(j, c.id) \in q.made
    BY <1>6, <2>1, <2>2, <2>3
  <2> QED
    BY <1>6, <1>10, <2>2, <2>4 DEF Generates, t
<1>16. CASE Group(i) = 0 /\ RunsAgain(m, q, n, line)
  <2>1. PICK b \in m.inflight[i] : line = Own(i, b.id)
                           /\ q.inflight = [m.inflight EXCEPT ![i] = (@ \ {b}) \cup {Fired(b, n)}]
    BY <1>16 DEF RunsAgain
  <2>2. q.made = m.made /\ q.ready = m.ready
    BY <1>16 DEF RunsAgain, SameGroups
  <2>3. Fired(b, n).id = b.id
    <3>1. b \in Batch
      BY <1>1, <1>4
    <3> QED
      BY <3>1 DEF Fired, Batch
  <2>4. \A j \in Instances : \A c \in q.inflight[j] : c \in m.inflight[j] \/ (j = i /\ c.id = b.id)
    BY <1>1, <1>4, <2>1, <2>3
  <2>5. line \in q.made
    BY <1>1, <1>6, <1>16, <2>1, <2>2
  <2>6. \A j \in Instances : Group(j) = 0 => \A c \in q.inflight[j] : Own(j, c.id) \in q.made
    BY <1>6, <2>1, <2>2, <2>4, <2>5
  <2> QED
    BY <1>6, <1>10, <2>2, <2>5, <2>6 DEF Generates, t
<1>17. \/ SameGroups(m, q) /\ q.inflight = m.inflight /\ Idle(line)
       \/ Gives(m, q, n, line)
  BY DEF Reported, Outcome, Ending, Idle
<1> QED
  BY <1>9, <1>11, <1>13, <1>14, <1>15, <1>16, <1>17 DEF Gives

LEMMA WorksKept ==
  ASSUME sim \in Simulations, SingleNpuGroups, Works(loop, npu, joined), NEW n \in Npus,
         NEW h, NEW m, NEW q, NEW line, Reported(h, m, q, n, line)
  PROVE  Works(q, Told(npu, n, Iteration(npu, n), line), Heard(joined, n, line))
<1> DEFINE i == n[1]
           t == Told(npu, n, Iteration(npu, n), line)
           K == Heard(joined, n, line)
<1>1. i \in Instances /\ n \in Reporting(i)
  BY NpuPairs
<1>2. /\ npu \in [Npus -> NpuType] /\ joined \in Partial(Line, SUBSET Npus) /\ line \in Line
      /\ \A j \in Instances : loop.doneNpus[j] \subseteq Reporting(j)
      /\ \A k \in Npus : npu[k].load # Nothing => npu[k].todo = "run"
      /\ loop \in LoopType
  BY DEF Works, Typed, Reported
<1>3. /\ t \in [Npus -> NpuType] /\ K \in Partial(Line, SUBSET Npus)
      /\ \A k \in Npus : k # n => t[k] = npu[k]
      /\ t[n] = [ran |-> Iteration(npu, n),
                 todo |-> IF ~Idle(line) THEN "run" ELSE IF line = Pass THEN "wait" ELSE "sleep",
                 load |-> IF Idle(line) THEN Nothing ELSE line]
  BY <1>2, ToldTyped
<1> HIDE DEF t, K
<1>4. t[n].load # Nothing => t[n].todo = "run"
  BY <1>3
<1>5. /\ Placed(q) /\ q.answers = <<line>>
      /\ q.doneNpus = loop.doneNpus \/ q.doneNpus = [loop.doneNpus EXCEPT ![i] = @ \cup {n}]
  BY DEF Reported, Outcome, SameEnds, Ending
<1>6. \A j \in Instances : q.doneNpus[j] \subseteq Reporting(j)
  <2>1. loop.doneNpus \in [Instances -> SUBSET Npus]
    BY <1>2 DEF LoopType
  <2> QED
    BY <1>1, <1>2, <1>5, <2>1
<1>7. \A k \in Npus : t[k].load # Nothing => t[k].todo = "run"
  BY <1>2, <1>3, <1>4
<1>8. Typed(q, t, K)
  BY <1>3, <1>5, <1>6, <1>7 DEF Typed, Placed
<1>9. Generates(q, t) /\ Grouped(q, t, K)
  BY GeneratesKept, GroupedKept DEF t, K
<1>10. Len(q.answers) <= 1
  BY <1>5
<1> QED
  BY <1>5, <1>8, <1>9, <1>10 DEF Works, Placed, t, K

-----------------------------------------------------------------------------
(* Sleep *)

LEMMA AsleepKept ==
  ASSUME sim \in Simulations, SingleNpuGroups, NotMixed,
         Works(loop, npu, joined), Asleep(loop, npu), NEW n \in Npus,
         NEW h, NEW m, NEW q, NEW line, Reported(h, m, q, n, line)
  PROVE  Asleep(q, Told(npu, n, Iteration(npu, n), line))
<1> DEFINE i == n[1]
           t == Told(npu, n, Iteration(npu, n), line)
<1>1. i \in Instances /\ n \in Reporting(i)
  BY NpuPairs
<1>2. /\ npu \in [Npus -> NpuType] /\ joined \in Partial(Line, SUBSET Npus) /\ line \in Line
  BY DEF Works, Typed, Reported
<1>3. /\ t[n].todo = "sleep" => line \in {Done, Exit}
      /\ \A k \in Npus : k # n => t[k] = npu[k]
  <2>1. t[n] = [ran |-> Iteration(npu, n),
                todo |-> IF ~Idle(line) THEN "run" ELSE IF line = Pass THEN "wait" ELSE "sleep",
                load |-> IF Idle(line) THEN Nothing ELSE line]
    BY <1>2, ToldTyped
  <2>2. \A k \in Npus : k # n => t[k] = npu[k]
    BY <1>2, ToldTyped
  <2> HIDE DEF t
  <2>3. t[n].todo = IF ~Idle(line) THEN "run" ELSE IF line = Pass THEN "wait" ELSE "sleep"
    BY <2>1
  <2> QED
    BY <2>2, <2>3 DEF Idle
<1> HIDE DEF t
<1>4. /\ m.doneNpus = loop.doneNpus /\ m.doneInst = loop.doneInst /\ m.prefillDone = loop.prefillDone
      /\ h.inflight = loop.inflight /\ h.finished = loop.finished
      /\ loop.pending = {} => h.pending = {} /\ h.queue = loop.queue
      /\ h.finished \subseteq m.finished /\ (~HasDeferred(h) => m.pending = h.pending)
      /\ AddDoneShape(h, m, n, Iteration(npu, n))
      /\ h \in LoopType /\ m \in LoopType /\ q \in LoopType
      /\ SameDone(m, q) /\ StaysEmpty(m, q, i) /\ Outcome(m, q, n, line)
  BY DEF Reported, SameEnds, Placed
<1>5. /\ h.inflight \in [Instances -> SUBSET Batch] /\ m.doneNpus \in [Instances -> SUBSET Npus]
      /\ m.doneInst \subseteq Instances /\ q.doneInst \subseteq Instances
      /\ m.prefillDone \in BOOLEAN
  BY <1>4 DEF LoopType
<1>6. /\ \A k \in Npus : npu[k].todo = "sleep" => loop.doneNpus[k[1]] # {}
      /\ \A j \in Instances : loop.doneNpus[j] # {} => Ended(loop, j)
      /\ \A j \in loop.doneInst : loop.doneNpus[j] # {}
      /\ ~loop.prefillDone => \A j \in loop.doneInst : Role(j) # "decode"
      /\ loop.prefillDone /\ (\E j \in Instances : Role(j) = "decode") =>
           PrefillInstances \subseteq loop.doneInst
  BY DEF Asleep
<1>7. \/ \A j \in Instances : Role(j) = "none"
      \/ \A j \in Instances : Role(j) # "none"
  BY DEF NotMixed, Instances, Role
<1>8. \A j \in Instances : /\ Role(j) \in {"none", "prefill", "decode"}
                           /\ Group(j) # 0 => Role(j) # "prefill"
  BY SimulationTypes, GroupTypes
<1>9. ASSUME NEW k \in Instances, IsEmpty(loop, k), loop.pending = {},
             Role(k) = "decode" => loop.prefillDone
      PROVE  IsEmpty(m, k)
  <2>1. IsEmpty(h, k)
    BY <1>4, <1>9 DEF IsEmpty
  <2>2. CASE m = h
    BY <2>1, <2>2
  <2>3. CASE m # h
    <3>1. PICK b \in h.inflight[i] : EndsBatch(h, m, n, Iteration(npu, n), b)
      BY <1>4, <2>3 DEF AddDoneShape
    <3>2. \A j \in Instances :
            j = i \/ m.queue[j] = h.queue[j] \/ (Role(i) = "prefill" /\ Role(j) = "decode")
      BY <1>4, <2>3 DEF AddDoneShape
    <3>3. k # i
      BY <2>1, <3>1 DEF IsEmpty
    <3>4. m.inflight[k] = h.inflight[k]
      BY <1>1, <1>5, <3>1, <3>3 DEF EndsBatch
    <3>5. ~(Role(i) = "prefill" /\ Role(k) = "decode")
      <4> SUFFICES ASSUME Role(i) = "prefill", Role(k) = "decode" PROVE FALSE
        OBVIOUS
      <4>1. i \in PrefillInstances
        BY <1>1 DEF PrefillInstances
      <4>2. i \in loop.doneInst
        BY <1>6, <1>9, <4>1
      <4>3. loop.inflight[i] = {}
        BY <1>1, <1>6, <4>2 DEF Ended, IsEmpty
      <4> QED
        BY <1>4, <3>1, <4>3
    <3> QED
      BY <2>1, <3>2, <3>3, <3>4, <3>5 DEF IsEmpty
  <2> QED
    BY <2>2, <2>3
<1>10. NothingLeft(loop) => NothingLeft(m)
  <2> SUFFICES ASSUME loop.pending = {}, ~HasDeferred(loop)
               PROVE  m.pending = {} /\ ~HasDeferred(m)
    BY DEF NothingLeft
  <2>1. h.pending = {} /\ ~HasDeferred(h)
    BY <1>4 DEF HasDeferred
  <2>2. ~HasDeferred(m)
    BY <1>4, <2>1 DEF HasDeferred
  <2> QED
    BY <1>4, <2>1, <2>2
<1>11. ASSUME NEW j \in Instances, loop.doneNpus[j] # {}
       PROVE  Ended(m, j)
  <2>1. /\ NothingLeft(loop) /\ IsEmpty(loop, j)
        /\ Group(j) # 0 => GroupEmpty(loop, j)
        /\ Role(j) = "decode" => loop.prefillDone
    BY <1>6, <1>11 DEF Ended
  <2>2. loop.pending = {}
    BY <2>1 DEF NothingLeft
  <2>3. IsEmpty(m, j)
    BY <1>9, <2>1, <2>2
  <2>4. Group(j) # 0 => GroupEmpty(m, j)
    <3> SUFFICES ASSUME Group(j) # 0, NEW k \in Members(Group(j)) PROVE IsEmpty(m, k)
      BY DEF GroupEmpty
    <3>1. k \in Instances /\ IsEmpty(loop, k) /\ Group(k) # 0
      BY <2>1 DEF Members, GroupEmpty
    <3>2. Role(k) = "decode" => Role(j) = "decode"
      BY <1>7, <1>8, <3>1
    <3> QED
      BY <1>9, <2>1, <2>2, <3>1, <3>2
  <2> QED
    BY <1>4, <1>10, <2>1, <2>3, <2>4 DEF Ended
<1>12. \/ SameEnds(m, q) /\ line \notin {Done, Exit}
       \/ Ending(m, q, n, line)
  <2>1. CASE Gives(m, q, n, line) /\ SameEnds(m, q)
    <3>1. CASE Group(i) # 0 /\ HandsOut(m, q, n, line)
      <4>1. i \in Waiting(m, Group(i)) /\ Group(i) \in Groups /\ line = m.ready[i]
        BY <1>1, <3>1, GroupTypes DEF Waiting, HandsOut
      <4>2. Started(m, Polls(npu, n, Iteration(npu, n)), joined, Group(i))
        BY <4>1 DEF Reported, Grouped, InStep
      <4>3. line[1] = "dp"
        BY <4>1, <4>2 DEF Started, Starter
      <4> QED
        BY <2>1, <4>3 DEF Done, Exit
    <3>2. CASE LetsWait(m, q, n, line)
      BY <2>1, <3>2 DEF LetsWait, Pass, Done, Exit
    <3>3. CASE StartsWave(m, q, n, line)
      BY <2>1, <3>3 DEF StartsWave, NewName, Wave, Done, Exit
    <3>4. CASE StartsAlone(m, q, n, line)
      BY <2>1, <3>4 DEF StartsAlone, Own, Done, Exit
    <3>5. CASE RunsAgain(m, q, n, line)
      BY <2>1, <3>5 DEF RunsAgain, Own, Done, Exit
    <3>6. \/ Group(i) # 0 /\ HandsOut(m, q, n, line)
          \/ LetsWait(m, q, n, line) \/ StartsWave(m, q, n, line)
          \/ StartsAlone(m, q, n, line) \/ RunsAgain(m, q, n, line)
      BY <2>1 DEF Gives
    <3> QED
      BY <3>1, <3>2, <3>3, <3>4, <3>5, <3>6
  <2>2. CASE line = Pass /\ SameEnds(m, q)
    BY <2>2 DEF Pass, Done, Exit
  <2>3. CASE Ending(m, q, n, line)
    BY <2>3
  <2> QED
    BY <1>4, <2>1, <2>2, <2>3 DEF Outcome
<1>13. ASSUME NEW j \in Instances, Ended(m, j), m.prefillDone => q.prefillDone
       PROVE  Ended(q, j)
  <2>1. \A k \in Instances : IsEmpty(m, k) => IsEmpty(q, k)
    BY <1>4 DEF StaysEmpty, IsEmpty
  <2>2. NothingLeft(q)
    BY <1>4, <1>13 DEF Ended, NothingLeft, HasDeferred, SameDone
  <2>3. Group(j) # 0 => GroupEmpty(q, j)
    BY <1>13, <2>1 DEF Ended, GroupEmpty, Members
  <2> QED
    BY <1>13, <2>1, <2>2, <2>3 DEF Ended
<1>14. CASE SameEnds(m, q) /\ line \notin {Done, Exit}
  <2>1. /\ q.doneNpus = loop.doneNpus /\ q.doneInst = loop.doneInst
        /\ q.prefillDone = loop.prefillDone
    BY <1>4, <1>14 DEF SameEnds
  <2>2. \A j \in Instances : q.doneNpus[j] # {} => Ended(q, j)
    BY <1>4, <1>11, <1>13, <2>1
  <2>3. \A k \in Npus : t[k].todo = "sleep" => q.doneNpus[k[1]] # {}
    BY <1>3, <1>6, <1>14, <2>1
  <2> QED
    BY <1>6, <2>1, <2>2, <2>3 DEF Asleep, t
<1>15. CASE Ending(m, q, n, line)
  <2>1. /\ MayEnd(m, i) /\ (Group(i) = 0 \/ GroupEmpty(m, i))
        /\ q.doneNpus = [loop.doneNpus EXCEPT ![i] = @ \cup {n}]
        /\ q.doneInst = loop.doneInst \/ q.doneInst = loop.doneInst \cup {i}
        /\ q.prefillDone = (loop.prefillDone \/ Cardinality(q.doneInst) = Cardinality(PrefillInstances))
    BY <1>4, <1>15 DEF Ending
  <2>2. /\ \A j \in Instances : j # i => q.doneNpus[j] = loop.doneNpus[j]
        /\ n \in q.doneNpus[i]
        /\ \A j \in Instances : loop.doneNpus[j] # {} => q.doneNpus[j] # {}
    BY <1>1, <1>4, <1>5, <2>1
  <2>3. Ended(m, i)
    BY <2>1 DEF MayEnd, Ended, NothingLeft
  <2>4. m.prefillDone => q.prefillDone
    BY <1>4, <2>1
  <2>5. \A j \in Instances : q.doneNpus[j] # {} => Ended(q, j)
    BY <1>11, <1>13, <2>2, <2>3, <2>4
  <2>6. \A k \in Npus : t[k].todo = "sleep" => q.doneNpus[k[1]] # {}
    <3> SUFFICES ASSUME NEW k \in Npus, t[k].todo = "sleep" PROVE q.doneNpus[k[1]] # {}
      OBVIOUS
    <3>1. CASE k = n
      BY <2>2, <3>1
    <3>2. CASE k # n
      <4>1. npu[k].todo = "sleep" /\ k[1] \in Instances
        BY <1>3, <3>2, NpuPairs
      <4> QED
        BY <1>6, <2>2, <4>1
    <3> QED
      BY <3>1, <3>2
  <2>7. \A j \in q.doneInst : q.doneNpus[j] # {}
    <3> SUFFICES ASSUME NEW j \in q.doneInst PROVE q.doneNpus[j] # {}
      OBVIOUS
    <3>1. j \in Instances /\ (j = i \/ j \in loop.doneInst)
      BY <1>5, <2>1
    <3> QED
      BY <1>6, <2>2, <3>1
  <2>8. Role(i) = "decode" => loop.prefillDone
    BY <1>4, <2>1 DEF MayEnd
  <2>9. ~q.prefillDone => \A j \in q.doneInst : Role(j) # "decode"
    BY <1>6, <2>1, <2>8
  <2>10. ASSUME q.prefillDone, \E j \in Instances : Role(j) = "decode"
         PROVE  PrefillInstances \subseteq q.doneInst
    <3>1. CASE loop.prefillDone
      BY <1>6, <2>1, <2>10, <3>1
    <3>2. CASE ~loop.prefillDone
      <4>1. \A j \in Instances : Role(j) # "none"
        BY <1>7, <2>10
      <4>2. \A j \in q.doneInst : j \in Instances /\ Role(j) # "decode"
        BY <1>1, <1>5, <1>6, <2>1, <2>8, <3>2
      <4>3. q.doneInst \subseteq PrefillInstances
        BY <1>8, <4>1, <4>2 DEF PrefillInstances
      <4>4. Cardinality(q.doneInst) = Cardinality(PrefillInstances)
        BY <2>1, <2>10, <3>2
      <4>5. IsFiniteSet(PrefillInstances)
        <5>1. PrefillInstances \in SUBSET Instances /\ IsFiniteSet(Instances)
          BY SimulationTypes DEF PrefillInstances
        <5> QED
          BY <5>1, FS_Subset
      <4>6. q.doneInst \in SUBSET PrefillInstances
        BY <4>3
      <4>7. q.doneInst = PrefillInstances
        BY <4>4, <4>5, <4>6, FS_Subset
      <4> QED
        BY <4>7
    <3> QED
      BY <3>1, <3>2
  <2> QED
    BY <2>5, <2>6, <2>7, <2>9, <2>10 DEF Asleep, t
<1> QED
  BY <1>12, <1>14, <1>15 DEF t

-----------------------------------------------------------------------------
(* The specification *)

LEMMA FreshWorks ==
  ASSUME Init
  PROVE  Works(loop, npu, joined) /\ Asleep(loop, npu)
<1>1. sim \in Simulations /\ loop = Fresh /\ joined = <<>>
      /\ npu = [n \in Npus |-> [ran |-> -1, todo |-> "run", load |-> Event]]
  BY DEF Init
<1>2. /\ loop.current = 0 /\ loop.pending = {r \in Req : After(r) = 0}
      /\ loop.arrival = [r \in Req |-> Arrival(r)]
      /\ loop.queue = [i \in Instances |-> {}] /\ loop.inflight = [i \in Instances |-> {}]
      /\ loop.batchIds = [i \in Instances |-> 0]
      /\ loop.left = [r \in Req |-> sim.reqs[r].prompt + sim.reqs[r].gen]
      /\ loop.finished = {} /\ loop.waves = [g \in Groups |-> <<>>] /\ loop.ready = <<>>
      /\ loop.made = {} /\ loop.doneNpus = [i \in Instances |-> {}] /\ loop.doneInst = {}
      /\ loop.prefillDone = FALSE /\ loop.answers = <<>>
  BY <1>1 DEF Fresh
<1>3. loop \in LoopType
  <2>1. /\ loop.arrival \in [Req -> Nat] /\ loop.left \in [Req -> Int]
    BY <1>1, <1>2, SimulationTypes
  <2>2. loop.waves \in [Groups -> Partial(Instances, Nat)] /\ loop.ready \in Partial(Instances, Line)
    <3>1. <<>> \in Partial(Instances, Nat) /\ <<>> \in Partial(Instances, Line)
      BY EmptyEntry
    <3> QED
      BY <1>2, <3>1
  <2>3. /\ loop.queue \in [Instances -> SUBSET Req] /\ loop.inflight \in [Instances -> SUBSET Batch]
    BY <1>2
  <2>5. /\ loop.batchIds \in [Instances -> Nat] /\ loop.doneNpus \in [Instances -> SUBSET Npus]
    BY <1>2
  <2>6. loop.current \in Nat /\ loop.prefillDone \in BOOLEAN
    <3>1. loop.prefillDone \in BOOLEAN
      <4>1. loop.prefillDone = FALSE
        BY <1>2
      <4> QED
        BY <4>1, Zenon
    <3>2. loop.current \in Nat
      BY <1>2
    <3> QED
      BY <3>1, <3>2
  <2>9. loop.pending \in SUBSET Req
    BY <1>2
  <2>7. /\ loop.finished \in SUBSET Req /\ loop.made \in SUBSET Line
        /\ loop.doneInst \in SUBSET Instances
    BY <1>2
  <2>8. loop.answers \in Seq(Line)
    BY <1>2
  <2>4. loop = [current |-> loop.current, pending |-> loop.pending, arrival |-> loop.arrival,
          queue |-> loop.queue, inflight |-> loop.inflight, batchIds |-> loop.batchIds,
          left |-> loop.left, finished |-> loop.finished, waves |-> loop.waves,
          ready |-> loop.ready, made |-> loop.made, doneNpus |-> loop.doneNpus,
          doneInst |-> loop.doneInst, prefillDone |-> loop.prefillDone, answers |-> loop.answers]
    BY <1>1, <1>2 DEF Fresh
  <2> QED
    BY <2>1, <2>2, <2>3, <2>4, <2>5, <2>6, <2>7, <2>8, <2>9 DEF LoopType
<1>4. \A n \in Npus : npu[n].ran = -1 /\ npu[n].todo = "run" /\ npu[n].load = Event
  BY <1>1
<1>5. joined \in Partial(Line, SUBSET Npus) /\ DOMAIN joined = {}
  BY <1>1, EmptyEntry
<1>6. Typed(loop, npu, joined)
  <2>1. Event \in Line
    BY DEF Event, Line
  <2>2. [ran |-> -1, todo |-> "run", load |-> Event] \in NpuType
    BY <2>1 DEF NpuType
  <2>3. npu \in [Npus -> NpuType]
    BY <1>1, <2>2
  <2> QED
    BY <1>2, <1>3, <1>4, <1>5, <2>3 DEF Typed
<1>7. OnePlace(loop)
  BY <1>2 DEF OnePlace, InQueue, InBatch
<1>8. InTurn(loop)
  BY <1>2 DEF InTurn, Known, InQueue, InBatch
<1>9. DOMAIN loop.ready = {} /\ \A g \in Groups : loop.waves[g] = <<>> /\ DOMAIN loop.waves[g] = {}
  BY <1>2, EmptyEntry
<1>10. Generates(loop, npu)
  BY <1>2, <1>4, <1>9 DEF Generates
<1>11. ASSUME NEW g \in Groups PROVE InStep(loop, npu, joined, g)
  <2>1. \A i \in Members(g) : i \in Instances /\ Group(i) = g /\ Start(i) \in Npus
    BY <1>1, NpuPairs DEF Members
  <2>2. ASSUME NEW i \in Members(g) PROVE Counted(loop, npu, i)
    <3>1. npu[Start(i)].ran = -1 /\ npu[Start(i)].todo = "run"
      BY <1>4, <2>1
    <3>2. i \notin DOMAIN loop.ready /\ i \notin DOMAIN loop.waves[Group(i)]
      BY <1>9, <2>1
    <3>3. Debt(loop, npu, i) = 1
      BY <3>1, <3>2 DEF Debt, One
    <3>4. loop.inflight[i] = {} /\ loop.batchIds[i] = 0
      BY <1>2, <2>1
    <3> QED
      BY <3>1, <3>3, <3>4 DEF Counted
  <2>3. Begun(loop, g)
    BY <1>9 DEF Begun
  <2>4. Started(loop, npu, joined, g)
    BY <1>9 DEF Started, Waiting
  <2>5. Named(loop, joined, g)
    BY <1>5 DEF Named
  <2> QED
    BY <2>2, <2>3, <2>4, <2>5 DEF InStep
<1>12. Grouped(loop, npu, joined)
  BY <1>9, <1>11 DEF Grouped
<1>13. Len(loop.answers) <= 1
  BY <1>2
<1>14. Works(loop, npu, joined)
  BY <1>6, <1>7, <1>8, <1>10, <1>12, <1>13 DEF Works
<1>15. Asleep(loop, npu)
  BY <1>2, <1>4 DEF Asleep
<1> QED
  BY <1>14, <1>15

(* The simulation stays the same, and with it what is said about it. *)
LEMMA SameSimulation ==
  ASSUME sim' = sim
  PROVE  /\ Works(loop', npu', joined') => Works(loop, npu, joined)'
         /\ Asleep(loop', npu') => Asleep(loop, npu)'
<1>1. Instances' = Instances /\ Req' = Req
  BY DEF Instances, Req
<1>2. \A i : Role(i)' = Role(i) /\ Group(i)' = Group(i)
  BY DEF Role, Group
<1>3. \A r : After(r)' = After(r)
  BY DEF After
<1>4. \A g : Members(g)' = Members(g)
  BY <1>1 DEF Members, Group
<1>5. Groups' = Groups
  BY <1>1 DEF Groups, Group
<1>6. \A i : Reporting(i)' = Reporting(i)
  BY DEF Reporting, Role
<1>7. Npus' = Npus
  BY <1>1 DEF Npus, Reporting, Role
<1>8. PrefillInstances' = PrefillInstances
  BY <1>1 DEF PrefillInstances, Role
<1>9. Batch' = Batch
  BY <1>1, <1>7 DEF Batch
<1>10. LoopType' = LoopType
  BY <1>1, <1>5, <1>7, <1>9 DEF LoopType
<1>11. Typed(loop, npu, joined)' <=> Typed(loop', npu', joined')
  BY <1>1, <1>6, <1>7, <1>10 DEF Typed
<1>12. OnePlace(loop)' <=> OnePlace(loop')
  BY <1>1 DEF OnePlace, InQueue, InBatch
<1>13. InTurn(loop)' <=> InTurn(loop')
  BY <1>1, <1>3 DEF InTurn, Known, InQueue, InBatch
<1>14. Generates(loop, npu)' <=> Generates(loop', npu')
  BY <1>1, <1>2, <1>7 DEF Generates
<1>15. \A i : Counted(loop, npu, i)' <=> Counted(loop', npu', i)
  BY <1>2 DEF Counted, Debt
<1>16. \A g : Begun(loop, g)' <=> Begun(loop', g)
  BY <1>4 DEF Begun, Busy
<1>17. \A g : Started(loop, npu, joined, g)' <=> Started(loop', npu', joined', g)
  BY <1>4 DEF Started, Starter, Waiting, Busy
<1>18. \A g : Named(loop, joined, g)' <=> Named(loop', joined', g)
  BY <1>4 DEF Named, Leader
<1>19. \A g : InStep(loop, npu, joined, g)' <=> InStep(loop', npu', joined', g)
  BY <1>4, <1>15, <1>16, <1>17, <1>18 DEF InStep
<1>20. Grouped(loop, npu, joined)' <=> Grouped(loop', npu', joined')
  BY <1>2, <1>5, <1>19 DEF Grouped
<1>21. Works(loop, npu, joined)' <=> Works(loop', npu', joined')
  BY <1>11, <1>12, <1>13, <1>14, <1>20 DEF Works
<1>22. \A i : Ended(loop, i)' <=> Ended(loop', i)
  BY <1>1, <1>2, <1>3, <1>4 DEF Ended, NothingLeft, HasDeferred, InSession, IsEmpty, GroupEmpty
<1>23. Asleep(loop, npu)' <=> Asleep(loop', npu')
  BY <1>1, <1>2, <1>7, <1>8, <1>22 DEF Asleep
<1> QED
  BY <1>21, <1>23

(* Steps *)

LEMMA ToldByObeys ==
  ASSUME NEW n, NEW line, Obeys(n, Iteration(npu, n), line)
  PROVE  /\ npu' = Told(npu, n, Iteration(npu, n), line)
         /\ joined' = Heard(joined, n, line)
BY DEF Obeys, Told, Heard, Idle

LEMMA Inv1Starts == Init => Inv1
BY FreshWorks DEF Init, Inv1

LEMMA Inv1Kept ==
  ASSUME SingleNpuGroups, Inv1, [Next]_vars
  PROVE  Inv1'
<1>1. sim \in Simulations /\ now \in Nat /\ Works(loop, npu, joined)
  BY DEF Inv1
<1>2. CASE Tick
  <2>1. sim' = sim /\ loop' = loop /\ npu' = npu /\ joined' = joined /\ now' = now + 1
    BY <1>2 DEF Tick
  <2>2. Works(loop, npu, joined)'
    BY <1>1, <2>1, SameSimulation
  <2> QED
    BY <1>1, <2>1, <2>2 DEF Inv1
<1>3. ASSUME NEW n \in Npus, Report(n) PROVE Inv1'
  <2>1. sim' = sim /\ now' = now
    BY <1>3 DEF Report
  <2>2. PICK h, m, line : Reported(h, m, loop', n, line) /\ Obeys(n, Iteration(npu, n), line)
    BY <1>1, <1>3, ReportShape
  <2>3. npu' = Told(npu, n, Iteration(npu, n), line) /\ joined' = Heard(joined, n, line)
    BY <2>2, ToldByObeys
  <2>4. Works(loop', npu', joined')
    <3>1. Works(loop', Told(npu, n, Iteration(npu, n), line), Heard(joined, n, line))
      BY <1>1, <2>2, WorksKept
    <3> QED
      BY <2>3, <3>1
  <2>5. Works(loop, npu, joined)'
    BY <2>1, <2>4, SameSimulation
  <2> QED
    BY <1>1, <2>1, <2>5 DEF Inv1
<1>4. CASE UNCHANGED vars
  <2>1. sim' = sim /\ loop' = loop /\ npu' = npu /\ joined' = joined /\ now' = now
    BY <1>4 DEF vars
  <2>2. Works(loop, npu, joined)'
    BY <1>1, <2>1, SameSimulation
  <2> QED
    BY <1>1, <2>1, <2>2 DEF Inv1
<1> QED
  BY <1>2, <1>3, <1>4 DEF Next, Exited

LEMMA Inv2Starts == Init => Inv2
BY FreshWorks, Inv1Starts DEF Inv2

LEMMA Inv2Kept ==
  ASSUME SingleNpuGroups, NotMixed, Inv2, [Next]_vars
  PROVE  Inv2'
<1>1. Inv1 /\ sim \in Simulations /\ now \in Nat /\ Works(loop, npu, joined) /\ Asleep(loop, npu)
  BY DEF Inv1, Inv2
<1>2. Inv1'
  BY <1>1, Inv1Kept
<1>3. CASE Tick \/ UNCHANGED vars
  <2>1. sim' = sim /\ loop' = loop /\ npu' = npu
    BY <1>3 DEF Tick, vars
  <2>2. Asleep(loop, npu)'
    BY <1>1, <2>1, SameSimulation
  <2> QED
    BY <1>2, <2>2 DEF Inv2
<1>4. ASSUME NEW n \in Npus, Report(n) PROVE Inv2'
  <2>1. sim' = sim
    BY <1>4 DEF Report
  <2>2. PICK h, m, line : Reported(h, m, loop', n, line) /\ Obeys(n, Iteration(npu, n), line)
    BY <1>1, <1>4, ReportShape
  <2>3. npu' = Told(npu, n, Iteration(npu, n), line)
    BY <2>2, ToldByObeys
  <2>4. Asleep(loop', npu')
    <3>1. Asleep(loop', Told(npu, n, Iteration(npu, n), line))
      BY <1>1, <2>2, AsleepKept
    <3> QED
      BY <2>3, <3>1
  <2>5. Asleep(loop, npu)'
    BY <2>1, <2>4, SameSimulation
  <2> QED
    BY <1>2, <2>5 DEF Inv2
<1> QED
  BY <1>3, <1>4 DEF Next, Exited

(* What the invariants say. *)

LEMMA AnswersFromInv1 ==
  ASSUME Inv1
  PROVE  AnswersExist
<1>1. Typed(loop, npu, joined) /\ OnePlace(loop) /\ Generates(loop, npu) /\ Len(loop.answers) <= 1
  BY DEF Inv1, Works
<1>2. ASSUME NEW r \in Req PROVE Cardinality(Places(r)) <= 1
  <2> DEFINE place(x) == \/ x[1] = "queue" /\ x[2] \in Instances /\ InQueue(loop, x[2], r)
                         \/ x[1] = "batch" /\ x[2] \in Instances /\ InBatch(loop, x[2], r)
                         \/ x[1] = "set" /\ x[2] = 1 /\ r \in loop.pending
                         \/ x[1] = "set" /\ x[2] = 2 /\ r \in loop.finished
  <2>1. \A x \in Places(r) : x = <<x[1], x[2]>> /\ place(x)
    <3> SUFFICES ASSUME NEW x \in Places(r) PROVE x = <<x[1], x[2]>> /\ place(x)
      OBVIOUS
    <3>1. CASE \E i \in Instances : r \in loop.queue[i] /\ x = <<"queue", i>>
      BY <3>1 DEF InQueue
    <3>2. CASE \E i \in Instances : (\E b \in loop.inflight[i] : r \in b.reqs) /\ x = <<"batch", i>>
      BY <3>2 DEF InBatch
    <3>3. CASE \E k \in 1 .. 2 : r \in <<loop.pending, loop.finished>>[k] /\ x = <<"set", k>>
      <4>1. PICK k \in 1 .. 2 : r \in <<loop.pending, loop.finished>>[k] /\ x = <<"set", k>>
        BY <3>3
      <4>2. k = 1 \/ k = 2
        OBVIOUS
      <4> QED
        BY <4>1, <4>2
    <3> QED
      BY <3>1, <3>2, <3>3 DEF Places
  <2>2. \A x, y \in Places(r) : place(x) /\ place(y) => x[1] = y[1] /\ x[2] = y[2]
    <3>1. /\ \A i, j \in Instances : InBatch(loop, i, r) /\ InBatch(loop, j, r) => i = j
          /\ \A i, j \in Instances : InQueue(loop, i, r) /\ InQueue(loop, j, r) => i = j
          /\ \A i, j \in Instances : ~(InQueue(loop, i, r) /\ InBatch(loop, j, r))
          /\ \A i \in Instances : r \in loop.pending \cup loop.finished =>
               ~InQueue(loop, i, r) /\ ~InBatch(loop, i, r)
          /\ ~(r \in loop.pending /\ r \in loop.finished)
      BY <1>1 DEF OnePlace, InBatch
    <3> QED
      BY <3>1
  <2>3. \A x, y \in Places(r) : x = y
    BY <2>1, <2>2
  <2>4. CASE Places(r) = {}
    BY <2>4, FS_EmptySet
  <2>5. CASE Places(r) # {}
    <3>1. PICK x : x \in Places(r)
      BY <2>5
    <3>2. Places(r) = {x}
      BY <2>3, <3>1
    <3> QED
      BY <3>2, FS_Singleton
  <2> QED
    BY <2>4, <2>5
<1>3. /\ loop.pending \subseteq Req /\ loop.finished \subseteq Req
      /\ loop.doneInst \subseteq Instances /\ \A i \in Instances : loop.queue[i] \subseteq Req
  BY <1>1 DEF Typed, LoopType
<1>4. \A n \in Npus : npu[n].todo \in {"run", "wait", "sleep"} /\ npu[n].ran \in Nat \cup {-1}
  BY <1>1 DEF Typed, NpuType
<1>5. TypeOK
  BY <1>1, <1>2, <1>3, <1>4 DEF TypeOK, Typed
<1> QED
  BY <1>1, <1>5 DEF AnswersExist, AnsweredOnce, WorkloadsExist, Generates

LEMMA SleepFromInv2 ==
  ASSUME SingleNpuGroups, Inv2
  PROVE  SleepersNotNeeded
<1>1. sim \in Simulations /\ Works(loop, npu, joined) /\ Asleep(loop, npu)
  BY DEF Inv1, Inv2
<1> SUFFICES ASSUME NEW i \in Instances, npu[Start(i)].todo = "sleep"
             PROVE  /\ IsEmpty(loop, i) /\ i \notin DOMAIN loop.ready
                    /\ Group(i) # 0 => loop.waves[Group(i)] = <<>>
  BY DEF SleepersNotNeeded
<1>2. Start(i) \in Npus /\ Start(i)[1] = i
  BY <1>1, NpuPairs
<1>3. Ended(loop, i)
  BY <1>1, <1>2 DEF Asleep
<1>4. IsEmpty(loop, i) /\ (Group(i) # 0 => \A k \in Members(Group(i)) : ~Busy(loop, k))
  BY <1>3 DEF Ended, GroupEmpty, IsEmpty, Busy
<1>5. Group(i) # 0 => Group(i) \in Groups /\ i \in Members(Group(i))
  BY <1>1, GroupTypes
<1>6. \A g \in Groups : Begun(loop, g) /\ Started(loop, npu, joined, g)
  BY <1>1 DEF Works, Grouped, InStep
<1>7. i \notin DOMAIN loop.ready
  <2> SUFFICES ASSUME i \in DOMAIN loop.ready PROVE FALSE
    OBVIOUS
  <2>1. Group(i) # 0
    BY <1>1 DEF Works, Grouped
  <2>2. Waiting(loop, Group(i)) # {}
    BY <1>5, <2>1 DEF Waiting
  <2>3. \E k \in Members(Group(i)) : Busy(loop, k)
    BY <1>5, <1>6, <2>1, <2>2 DEF Started, Starter
  <2> QED
    BY <1>4, <2>1, <2>3
<1>8. Group(i) # 0 => loop.waves[Group(i)] = <<>>
  BY <1>4, <1>5, <1>6 DEF Begun
<1> QED
  BY <1>4, <1>7, <1>8

-----------------------------------------------------------------------------
(* Theorems *)

(* What AnswersExist says, whatever the instances, groups and requests:    *)
(* every report is answered by one line, a workload that an NPU runs has   *)
(* been generated under the name it was given, and a request is pending,   *)
(* queued, in one batch or finished, through handovers and follow-ups.     *)
THEOREM AnswersExistCorrect ==
  ASSUME SingleNpuGroups
  PROVE  Spec => []AnswersExist
<1>1. Init => Inv1
  BY Inv1Starts
<1>2. Inv1 /\ [Next]_vars => Inv1'
  BY Inv1Kept
<1>3. Inv1 => AnswersExist
  BY AnswersFromInv1
<1> QED
  BY <1>1, <1>2, <1>3, PTL DEF Spec

(* What SleepersNotNeeded says: an instance that was answered "done" holds *)
(* no request, no workload is ready for it, and no wave waits for it.      *)
THEOREM SleepersNotNeededCorrect ==
  ASSUME SingleNpuGroups, NotMixed
  PROVE  Spec => []SleepersNotNeeded
<1>1. Init => Inv2
  BY Inv2Starts
<1>2. Inv2 /\ [Next]_vars => Inv2'
  BY Inv2Kept
<1>3. Inv2 => SleepersNotNeeded
  BY SleepFromInv2
<1> QED
  BY <1>1, <1>2, <1>3, PTL DEF Spec

-----------------------------------------------------------------------------
(* Numbers and waves *)

(* Groups of two: in a larger one a member may bring a second batch to a   *)
(* wave, and its numbers run ahead of ASTRA-Sim (the run DpThree).         *)
PairedGroups ==
  \A s \in Simulations : \A i, j, k \in DOMAIN s.inst :
    /\ s.inst[i].group # 0
    /\ s.inst[i].group = s.inst[j].group /\ s.inst[j].group = s.inst[k].group
    => i = j \/ j = k \/ i = k

(* The next number of an independent instance is that of the next          *)
(* iteration of its first NPU, and what that NPU runs is in the pipeline.  *)
Alone(m, p, i) ==
  /\ m.batchIds[i] = p[Start(i)].ran + One(p[Start(i)].todo = "run")
  /\ p[Start(i)].load \notin {Event, Nothing} =>
       \E b \in m.inflight[i] : b.id = p[Start(i)].ran /\ Start(i) \notin b.end
(* A member has run all its numbers but those of Debt; one that waits for  *)
(* the other or has a workload ready has a batch of its own.               *)
Paired(m, p, i) ==
  /\ m.batchIds[i] = p[Start(i)].ran + Debt(m, p, i)
  /\ i \in DOMAIN m.ready => p[Start(i)].todo # "run" /\ Busy(m, i)
  /\ i \in DOMAIN m.waves[Group(i)] =>
       p[Start(i)].todo # "run" /\ Busy(m, i) /\ i \notin DOMAIN m.ready
OneWave(p, g) ==
  \A i, j \in Members(g) :
    p[Start(i)].load[1] = "dp" /\ p[Start(j)].load[1] = "dp" => p[Start(i)].load = p[Start(j)].load
OwnWaves(p) ==
  \A n \in Npus : p[n].load[1] = "dp" => Group(n[1]) # 0 /\ p[n].load[2] = Group(n[1])
Aligned(m, p) ==
  /\ OwnWaves(p)
  /\ \A i \in Instances : Group(i) = 0 => Alone(m, p, i)
  /\ \A i \in Instances : Group(i) # 0 => Paired(m, p, i)
  /\ \A g \in Groups : OneWave(p, g)

Inv3 == Inv1 /\ Aligned(loop, npu)

LEMMA EmptyDictionary ==
  ASSUME NEW S, NEW T, NEW f \in Partial(S, T), DOMAIN f = {}
  PROVE  f = <<>>
<1>1. f \in [{} -> T] /\ <<>> \in [{} -> T]
  BY PartialType
<1> QED
  BY <1>1

LEMMA AlignedStarts ==
  ASSUME Init
  PROVE  Aligned(loop, npu)
<1>1. sim \in Simulations /\ loop = Fresh
      /\ npu = [n \in Npus |-> [ran |-> -1, todo |-> "run", load |-> Event]]
  BY DEF Init
<1>2. /\ loop.batchIds = [i \in Instances |-> 0] /\ loop.waves = [g \in Groups |-> <<>>]
      /\ loop.ready = <<>>
  BY <1>1 DEF Fresh
<1>3. \A n \in Npus : npu[n].ran = -1 /\ npu[n].todo = "run" /\ npu[n].load = Event
  BY <1>1
<1>4. /\ \A i \in Instances : Start(i) \in Npus
      /\ \A i \in Instances : Group(i) # 0 => Group(i) \in Groups
      /\ \A g \in Groups : \A i \in Members(g) : i \in Instances
  BY <1>1, NpuPairs DEF Groups, Members
<1>5. DOMAIN loop.ready = {} /\ \A g \in Groups : DOMAIN loop.waves[g] = {}
  BY <1>2, EmptyEntry
<1>6. OwnWaves(npu) /\ \A g \in Groups : OneWave(npu, g)
  BY <1>3, <1>4 DEF OwnWaves, OneWave, Event
<1>7. ASSUME NEW i \in Instances, Group(i) = 0 PROVE Alone(loop, npu, i)
  BY <1>2, <1>3, <1>4 DEF Alone, One
<1>8. ASSUME NEW i \in Instances, Group(i) # 0 PROVE Paired(loop, npu, i)
  <2>1. npu[Start(i)].ran = -1 /\ npu[Start(i)].todo = "run"
    BY <1>3, <1>4
  <2>2. i \notin DOMAIN loop.ready /\ i \notin DOMAIN loop.waves[Group(i)]
    BY <1>4, <1>5, <1>8
  <2>3. Debt(loop, npu, i) = 1
    BY <2>1, <2>2 DEF Debt, One
  <2> QED
    BY <1>2, <2>1, <2>2, <2>3 DEF Paired
<1> QED
  BY <1>6, <1>7, <1>8 DEF Aligned

(* An independent instance: its first NPU runs a new batch, or the other   *)
(* one reports and the batches keep their numbers.                         *)
LEMMA AloneKept ==
  ASSUME sim \in Simulations, SingleNpuGroups, Works(loop, npu, joined), NEW n \in Npus,
         NEW h, NEW m, NEW q, NEW line, Reported(h, m, q, n, line),
         Group(n[1]) = 0, Alone(loop, npu, n[1])
  PROVE  Alone(q, Told(npu, n, Iteration(npu, n), line), n[1])
<1> DEFINE i  == n[1]
           id == Iteration(npu, n)
           t  == Told(npu, n, id, line)
<1>1. /\ i \in Instances /\ n \in Reporting(i) /\ Start(i) \in Npus /\ Start(i) \in Reporting(i)
  BY NpuPairs
<1>2. /\ npu \in [Npus -> NpuType] /\ joined \in Partial(Line, SUBSET Npus) /\ line \in Line
  BY DEF Works, Typed, Reported
<1>3. /\ \A k \in Npus : k # n => t[k] = npu[k]
      /\ t[n].ran = id /\ t[n].todo = IF ~Idle(line) THEN "run" ELSE IF line = Pass THEN "wait" ELSE "sleep"
      /\ t[n].load = IF Idle(line) THEN Nothing ELSE line
  <2>1. /\ t[n] = [ran |-> id,
                   todo |-> IF ~Idle(line) THEN "run" ELSE IF line = Pass THEN "wait" ELSE "sleep",
                   load |-> IF Idle(line) THEN Nothing ELSE line]
        /\ \A k \in Npus : k # n => t[k] = npu[k]
    BY <1>2, ToldTyped
  <2> HIDE DEF t, id
  <2> QED
    BY <2>1
<1>4. id \in Int /\ npu[n].ran \in Int
  <2>1. npu[n] \in NpuType /\ npu[n].ran \in Nat \cup {-1}
    BY <1>2 DEF NpuType
  <2> QED
    BY <2>1 DEF Iteration, One
<1>5. /\ loop.batchIds = m.batchIds /\ loop.inflight = h.inflight
      /\ AddDoneShape(h, m, n, id) /\ Outcome(m, q, n, line)
      /\ h.inflight \in [Instances -> SUBSET Batch] /\ m.inflight \in [Instances -> SUBSET Batch]
      /\ m.batchIds \in [Instances -> Nat]
  BY DEF Reported, SameGroups, Placed, LoopType
<1> HIDE DEF t
<1>6. CASE n = Start(i)
  <2>1. m.batchIds[i] = id
    BY <1>4, <1>5, <1>6 DEF Alone, Iteration, One
  <2> HIDE DEF id
  <2>2. CASE StartsAlone(m, q, n, line)
    <3>1. PICK b \in Batch : /\ line = Own(i, b.id) /\ b.id = m.batchIds[i] /\ b.end = {}
                             /\ q.inflight = [m.inflight EXCEPT ![i] = @ \cup {b}]
      BY <2>2 DEF StartsAlone
    <3>2. b \in q.inflight[i] /\ q.batchIds[i] = m.batchIds[i] + 1
      BY <1>1, <1>5, <2>2, <3>1 DEF StartsAlone
    <3>3. t[n].todo = "run" /\ t[n].ran = id
      BY <1>3, <3>1 DEF Idle, Own, Pass, Done, Exit
    <3> QED
      BY <1>4, <1>6, <2>1, <3>1, <3>2, <3>3 DEF Alone, One, t, id
  <2>3. CASE SameGroups(m, q) /\ Idle(line)
    <3>1. t[n].todo # "run" /\ t[n].ran = id /\ t[n].load = Nothing
      BY <1>3, <2>3
    <3> QED
      BY <1>4, <1>6, <2>1, <2>3, <3>1 DEF Alone, One, t, id, SameGroups
  <2>4. StartsAlone(m, q, n, line) \/ (SameGroups(m, q) /\ Idle(line))
    BY <1>5, <1>6 DEF Outcome, Gives, Ending, Idle
  <2> QED
    BY <2>2, <2>3, <2>4
<1>7. CASE n # Start(i)
  <2> DEFINE s == Start(i)
  <2>1. t[s] = npu[s]
    BY <1>1, <1>3, <1>7
  <2>2. ASSUME NEW x \in h.inflight[i], s \notin x.end
        PROVE  \E y \in m.inflight[i] : y.id = x.id /\ s \notin y.end
    <3>1. CASE m = h
      BY <2>2, <3>1
    <3>2. CASE m # h
      <4>1. PICK b \in h.inflight[i] : EndsBatch(h, m, n, id, b)
        BY <1>5, <3>2 DEF AddDoneShape
      <4>2. CASE b.end \cup {n} = Reporting(i) /\ m.inflight = [h.inflight EXCEPT ![i] = @ \ {b}]
        <5>1. x # b
          BY <1>1, <1>7, <2>2, <4>2
        <5> QED
          BY <1>1, <1>5, <2>2, <4>2, <5>1
      <4>3. CASE m.inflight = [h.inflight EXCEPT ![i] = (@ \ {b}) \cup {Marked(b, n)}]
        <5>1. m.inflight[i] = (h.inflight[i] \ {b}) \cup {Marked(b, n)}
          BY <1>1, <1>5, <4>3
        <5>2. b \in Batch
          BY <1>1, <1>5
        <5>3. Marked(b, n).id = b.id /\ Marked(b, n).end = b.end \cup {n}
          BY <5>2 DEF Marked, Batch
        <5>4. CASE x = b
          BY <1>7, <2>2, <5>1, <5>3, <5>4
        <5>5. CASE x # b
          BY <2>2, <5>1, <5>5
        <5> QED
          BY <5>4, <5>5
      <4> QED
        BY <4>1, <4>2, <4>3 DEF EndsBatch
    <3> QED
      BY <3>1, <3>2
  <2>3. /\ q.batchIds = m.batchIds
        /\ \/ q.inflight = m.inflight
           \/ \E b \in m.inflight[i] : q.inflight = [m.inflight EXCEPT ![i] = (@ \ {b}) \cup {Fired(b, n)}]
    BY <1>5, <1>7 DEF Outcome, Gives, RunsAgain, SameGroups
  <2>4. ASSUME NEW y \in m.inflight[i], s \notin y.end
        PROVE  \E z \in q.inflight[i] : z.id = y.id /\ s \notin z.end
    <3>1. CASE q.inflight = m.inflight
      BY <2>4, <3>1
    <3>2. ASSUME NEW b \in m.inflight[i],
                 q.inflight = [m.inflight EXCEPT ![i] = (@ \ {b}) \cup {Fired(b, n)}]
          PROVE  \E z \in q.inflight[i] : z.id = y.id /\ s \notin z.end
      <4>1. q.inflight[i] = (m.inflight[i] \ {b}) \cup {Fired(b, n)}
        BY <1>1, <1>5, <3>2
      <4>2. b \in Batch
        BY <1>1, <1>5
      <4>3. Fired(b, n).id = b.id /\ Fired(b, n).end = b.end
        BY <4>2 DEF Fired, Batch
      <4>4. CASE y = b
        BY <2>4, <4>1, <4>3, <4>4
      <4>5. CASE y # b
        BY <2>4, <4>1, <4>5
      <4> QED
        BY <4>4, <4>5
    <3> QED
      BY <2>3, <3>1, <3>2
  <2>5. /\ loop.batchIds[i] = npu[s].ran + One(npu[s].todo = "run")
        /\ npu[s].load \notin {Event, Nothing} =>
             \E b \in h.inflight[i] : b.id = npu[s].ran /\ s \notin b.end
    BY <1>5 DEF Alone
  <2>6. q.batchIds[i] = t[s].ran + One(t[s].todo = "run")
    BY <1>5, <2>1, <2>3, <2>5
  <2>7. t[s].load \notin {Event, Nothing} =>
          \E b \in q.inflight[i] : b.id = t[s].ran /\ s \notin b.end
    <3> SUFFICES ASSUME npu[s].load \notin {Event, Nothing}
                 PROVE  \E b \in q.inflight[i] : b.id = npu[s].ran /\ s \notin b.end
      BY <2>1
    <3>1. PICK x \in h.inflight[i] : x.id = npu[s].ran /\ s \notin x.end
      BY <2>5
    <3>2. PICK y \in m.inflight[i] : y.id = x.id /\ s \notin y.end
      BY <2>2, <3>1
    <3> HIDE DEF s
    <3>3. PICK z \in q.inflight[i] : z.id = y.id /\ s \notin z.end
      BY <2>4, <3>2
    <3> QED
      BY <3>1, <3>2, <3>3
  <2> QED
    BY <2>6, <2>7 DEF Alone, t
<1> QED
  BY <1>6, <1>7

(* The member that reports still has its batch when the wave or the        *)
(* workload that is ready needs it.                                        *)
LEMMA PairPolls ==
  ASSUME sim \in Simulations, SingleNpuGroups, Works(loop, npu, joined), Aligned(loop, npu),
         NEW n \in Npus, Group(n[1]) # 0,
         NEW h \in LoopType, SameGroups(loop, h), h.inflight = loop.inflight,
         NEW m \in LoopType, SameGroups(h, m), AddDoneShape(h, m, n, Iteration(npu, n))
  PROVE  \A j \in Members(Group(n[1])) : Paired(m, Polls(npu, n, Iteration(npu, n)), j)
<1> DEFINE i  == n[1]
           g  == Group(i)
           id == Iteration(npu, n)
           p  == Polls(npu, n, id)
<1>1. /\ i \in Instances /\ g \in Groups /\ i \in Members(g) /\ n = Start(i)
      /\ \A j \in Members(g) : j \in Instances /\ Group(j) = g
      /\ \A j \in Instances : Start(j) \in Npus /\ Start(j)[1] = j
  <2>1. i \in Instances /\ n \in Reporting(i)
        /\ \A j \in Instances : Start(j) \in Npus /\ Start(j)[1] = j
    BY NpuPairs
  <2> QED
    BY <2>1, GroupTypes
<1>2. npu \in [Npus -> NpuType] /\ InStep(loop, npu, joined, g)
  BY <1>1 DEF Works, Typed, Grouped
<1>3. /\ p[n].ran = id /\ p[n].todo = "wait" /\ \A k \in Npus : k # n => p[k] = npu[k]
  <2>1. p[n] = [ran |-> id, todo |-> "wait", load |-> Nothing] /\ \A k \in Npus : k # n => p[k] = npu[k]
    BY <1>2, PollsTyped
  <2> HIDE DEF p, id
  <2> QED
    BY <2>1
<1>4. /\ m.batchIds = loop.batchIds /\ m.waves = loop.waves /\ m.ready = loop.ready
      /\ h.inflight = loop.inflight
  BY DEF SameGroups
<1>5. \A j \in Members(g) : Paired(loop, npu, j) /\ Counted(loop, npu, j)
  BY <1>1, <1>2 DEF Aligned, InStep
<1>6. npu[n].ran \in Int
  <2>1. npu[n].ran \in Nat \cup {-1}
    BY <1>2 DEF NpuType
  <2> QED
    BY <2>1
<1>7. id = npu[n].ran + One(npu[n].todo = "run")
  BY DEF Iteration
<1> HIDE DEF p, id
<1>8. Paired(m, p, i)
  <2> DEFINE rest == One(i \in DOMAIN loop.ready) + One(i \in DOMAIN loop.waves[g])
  <2>1. rest \in Nat
    BY DEF One
  <2>2. Debt(loop, npu, i) = One(npu[n].todo = "run") + rest
    BY <1>1 DEF Debt, One
  <2>3. Debt(m, p, i) = rest
    BY <1>1, <1>3, <1>4 DEF Debt, One
  <2>4. m.batchIds[i] = p[n].ran + Debt(m, p, i)
    <3>1. loop.batchIds[i] = npu[n].ran + Debt(loop, npu, i)
      BY <1>1, <1>5 DEF Paired
    <3> HIDE DEF rest
    <3> QED
      BY <1>3, <1>4, <1>6, <1>7, <2>1, <2>2, <2>3, <3>1 DEF One
  <2>5. ASSUME i \in DOMAIN loop.ready \/ i \in DOMAIN loop.waves[g]
        PROVE  Busy(m, i)
    <3>1. npu[n].todo # "run" /\ Busy(loop, i)
      BY <1>1, <1>5, <2>5 DEF Paired
    <3>2. rest >= 1
      BY <2>5 DEF One
    <3>3. id = npu[n].ran
      BY <1>6, <1>7, <3>1 DEF One
    <3>4. \A b \in h.inflight[i] : b.id >= id
      <4> SUFFICES ASSUME NEW b \in h.inflight[i] PROVE b.id >= id
        OBVIOUS
      <4>1. b.id = loop.batchIds[i] - 1
        BY <1>1, <1>4, <1>5 DEF Counted
      <4>2. loop.batchIds[i] = id + rest
        BY <1>3, <1>4, <2>3, <2>4
      <4> HIDE DEF rest
      <4> QED
        BY <1>6, <2>1, <3>2, <3>3, <4>1, <4>2
    <3>5. m = h
      <4>1. \A b \in h.inflight[i] : b.id # id - 1
        <5>1. \A b \in h.inflight[i] : b.id \in Int
          <6>1. h.inflight[i] \subseteq Batch
            BY <1>1 DEF LoopType
          <6> QED
            BY <6>1 DEF Batch
        <5> QED
          BY <1>6, <3>3, <3>4, <5>1
      <4> QED
        BY <4>1 DEF AddDoneShape, EndsBatch, id
    <3> QED
      BY <1>4, <3>1, <3>5 DEF Busy
  <2>6. /\ i \in DOMAIN m.ready => p[n].todo # "run" /\ Busy(m, i)
        /\ i \in DOMAIN m.waves[g] => p[n].todo # "run" /\ Busy(m, i) /\ i \notin DOMAIN m.ready
    <3>1. i \in DOMAIN loop.waves[g] => i \notin DOMAIN loop.ready
      BY <1>1, <1>5 DEF Paired
    <3> QED
      BY <1>3, <1>4, <2>5, <3>1
  <2> QED
    BY <1>1, <2>4, <2>6 DEF Paired
<1>9. ASSUME NEW j \in Members(g), j # i
      PROVE  Paired(m, p, j)
  <2>1. p[Start(j)] = npu[Start(j)]
    BY <1>1, <1>3, <1>9
  <2>2. m.inflight[j] = loop.inflight[j]
    <3>1. h.inflight \in [Instances -> SUBSET Batch]
      BY DEF LoopType
    <3> QED
      BY <1>1, <1>4, <1>9, <3>1 DEF AddDoneShape, EndsBatch
  <2>3. Debt(m, p, j) = Debt(loop, npu, j)
    BY <1>1, <1>4, <2>1 DEF Debt
  <2> QED
    BY <1>1, <1>4, <1>5, <2>1, <2>2, <2>3 DEF Paired, Busy
<1> QED
  BY <1>8, <1>9 DEF p, id

LEMMA PairTypes ==
  ASSUME sim \in Simulations, PairedGroups, NEW g \in Groups, NEW i \in Members(g)
  PROVE  \A j, k \in Members(g) : j # i /\ k # i => j = k
BY DEF PairedGroups, Groups, Members, Instances, Group

(* A report of a member: it runs what the other one has made ready, waits  *)
(* for it with a batch, or runs a wave while the other one waits.          *)
LEMMA PairKept ==
  ASSUME sim \in Simulations, SingleNpuGroups, PairedGroups,
         Works(loop, npu, joined), Aligned(loop, npu), NEW n \in Npus, Group(n[1]) # 0,
         NEW h, NEW m, NEW q, NEW line, Reported(h, m, q, n, line)
  PROVE  LET t == Told(npu, n, Iteration(npu, n), line)
         IN  /\ \A j \in Members(Group(n[1])) : Paired(q, t, j)
             /\ OneWave(t, Group(n[1]))
             /\ t[n].load[1] = "dp" => t[n].load[2] = Group(n[1])
<1> DEFINE i  == n[1]
           g  == Group(i)
           id == Iteration(npu, n)
           p  == Polls(npu, n, id)
           t  == Told(npu, n, id, line)
           Goal == /\ \A j \in Members(g) : Paired(q, t, j)
                   /\ OneWave(t, g)
                   /\ t[n].load[1] = "dp" => t[n].load[2] = g
<1>1. /\ i \in Instances /\ g \in Groups /\ i \in Members(g) /\ n = Start(i)
      /\ \A j \in Members(g) : j \in Instances /\ Group(j) = g
      /\ \A j \in Members(g) : Start(j) \in Npus /\ Start(j)[1] = j
      /\ \A j, k \in Members(g) : j # i /\ k # i => j = k
  <2>1. i \in Instances /\ n \in Reporting(i)
        /\ \A j \in Instances : Start(j) \in Npus /\ Start(j)[1] = j
    BY NpuPairs
  <2>2. g \in Groups /\ i \in Members(g) /\ n = Start(i)
        /\ \A j \in Members(g) : j \in Instances /\ Group(j) = g
    BY <2>1, GroupTypes
  <2> QED
    BY <2>1, <2>2, PairTypes
<1>2. /\ npu \in [Npus -> NpuType] /\ joined \in Partial(Line, SUBSET Npus) /\ line \in Line
      /\ \A k \in Npus : npu[k].load # Nothing => npu[k].todo = "run"
  BY DEF Works, Typed, Reported
<1>3. /\ p[n].ran = id /\ p[n].todo = "wait" /\ p[n].load = Nothing
      /\ \A k \in Npus : k # n => p[k] = npu[k]
  <2>1. p[n] = [ran |-> id, todo |-> "wait", load |-> Nothing] /\ \A k \in Npus : k # n => p[k] = npu[k]
    BY <1>2, PollsTyped
  <2> HIDE DEF p, id
  <2> QED
    BY <2>1
<1>4. /\ t[n].ran = id
      /\ t[n].todo = IF ~Idle(line) THEN "run" ELSE IF line = Pass THEN "wait" ELSE "sleep"
      /\ t[n].load = IF Idle(line) THEN Nothing ELSE line
      /\ \A k \in Npus : k # n => t[k] = npu[k]
  <2>1. /\ t[n] = [ran |-> id,
                   todo |-> IF ~Idle(line) THEN "run" ELSE IF line = Pass THEN "wait" ELSE "sleep",
                   load |-> IF Idle(line) THEN Nothing ELSE line]
        /\ \A k \in Npus : k # n => t[k] = npu[k]
    BY <1>2, ToldTyped
  <2> HIDE DEF t, id
  <2> QED
    BY <2>1
<1>5. /\ m \in LoopType /\ q \in LoopType /\ Outcome(m, q, n, line)
      /\ InStep(m, p, joined, g)
  BY <1>1 DEF Reported, Placed, Grouped
<1>6. \A j \in Members(g) : Paired(m, p, j)
  <2>1. /\ h \in LoopType /\ SameGroups(loop, h) /\ h.inflight = loop.inflight
        /\ SameGroups(h, m) /\ AddDoneShape(h, m, n, Iteration(npu, n))
    BY DEF Reported, Placed
  <2> QED
    BY <1>5, <2>1, PairPolls
<1>7. id \in Int
  <2>1. Iteration(npu, n) \in Nat \cup {-1}
    BY <1>2, PollsTyped
  <2> QED
    BY <2>1
<1>8. /\ m.inflight \in [Instances -> SUBSET Batch] /\ m.batchIds \in [Instances -> Nat]
      /\ m.waves \in [Groups -> Partial(Instances, Nat)] /\ m.ready \in Partial(Instances, Line)
  BY <1>5 DEF LoopType
<1> HIDE DEF p, t, id
<1>9. \A j \in Members(g) : j # i => t[Start(j)] = npu[Start(j)] /\ p[Start(j)] = npu[Start(j)]
  BY <1>1, <1>3, <1>4
(* Whoever does not run has no workload. *)
<1>10. /\ \A j \in Members(g) : npu[Start(j)].todo # "run" => npu[Start(j)].load = Nothing
       /\ Nothing[1] # "dp"
  BY <1>1, <1>2 DEF Nothing
<1>11. CASE SameGroups(m, q) /\ q.inflight = m.inflight /\ Idle(line)
  <2>1. t[n].todo # "run" /\ t[n].load = Nothing
    BY <1>4, <1>11
  <2>2. q.batchIds = m.batchIds /\ q.waves = m.waves /\ q.ready = m.ready
    BY <1>11 DEF SameGroups
  <2>3. ASSUME NEW j \in Members(g) PROVE Paired(q, t, j)
    <3>1. /\ t[Start(j)].ran = p[Start(j)].ran
          /\ t[Start(j)].todo = "run" <=> p[Start(j)].todo = "run"
      BY <1>1, <1>3, <1>4, <1>9, <2>1
    <3>2. Debt(q, t, j) = Debt(m, p, j)
      BY <2>2, <3>1 DEF Debt, One
    <3>3. Paired(m, p, j)
      BY <1>6
    <3> QED
      BY <1>11, <2>2, <3>1, <3>2, <3>3 DEF Paired, Busy
  <2>4. OneWave(t, g)
    BY <1>1, <1>9, <1>10, <2>1 DEF OneWave
  <2> QED
    BY <1>10, <2>1, <2>3, <2>4 DEF t, id
<1>12. CASE HandsOut(m, q, n, line)
  <2>1. /\ i \in DOMAIN m.ready /\ line = m.ready[i]
        /\ q.inflight = m.inflight /\ q.batchIds = m.batchIds /\ q.waves = m.waves
        /\ q.ready = Without(m.ready, i)
    BY <1>12 DEF HandsOut
  <2>2. i \in Waiting(m, g) /\ Started(m, p, joined, g)
    BY <1>1, <1>5, <2>1 DEF Waiting, InStep
  <2>3. PICK s \in Members(g) : Starter(m, p, joined, g, s, p[Start(s)].load)
    BY <2>2 DEF Started
  <2>4. s # i /\ p[Start(s)].load = line /\ line[1] = "dp" /\ line[2] = g
    BY <2>1, <2>2, <2>3 DEF Starter
  <2>5. ~Idle(line)
    BY <2>4 DEF Idle, Pass, Done, Exit
  <2>6. t[n].todo = "run" /\ t[n].load = line
    BY <1>4, <2>5
  <2>7. OneWave(t, g)
    <3>1. t[Start(s)].load = line
      BY <1>9, <2>4
    <3>2. \A j \in Members(g) : t[Start(j)].load = line
      BY <1>1, <2>4, <2>6, <3>1
    <3> QED
      BY <3>2 DEF OneWave
  <2>8. DOMAIN q.ready = DOMAIN m.ready \ {i}
    BY <2>1 DEF Without
  <2>9. Paired(q, t, i)
    <3>1. /\ m.batchIds[i] = id + Debt(m, p, i) /\ Busy(m, i)
          /\ i \notin DOMAIN m.waves[g]
      BY <1>1, <1>3, <1>6, <2>1 DEF Paired
    <3>2. Debt(m, p, i) = 1 /\ Debt(q, t, i) = 1
      BY <1>1, <1>3, <2>1, <2>6, <2>8, <3>1 DEF Debt, One
    <3> QED
      BY <1>1, <1>4, <2>1, <2>8, <3>1, <3>2 DEF Paired
  <2>10. ASSUME NEW j \in Members(g), j # i PROVE Paired(q, t, j)
    <3>1. t[Start(j)] = p[Start(j)] /\ (j \in DOMAIN q.ready <=> j \in DOMAIN m.ready)
      BY <1>9, <2>8, <2>10
    <3>2. Debt(q, t, j) = Debt(m, p, j)
      BY <2>1, <3>1 DEF Debt, One
    <3>3. Paired(m, p, j)
      BY <1>6
    <3> QED
      BY <2>1, <3>1, <3>2, <3>3 DEF Paired, Busy
  <2> QED
    BY <2>4, <2>6, <2>7, <2>9, <2>10 DEF t, id
(* A batch or a dummy is brought. *)
<1>13. ASSUME Brings(m, q, i)
       PROVE  /\ Brought(m, q, i) /\ i \notin DOMAIN m.ready /\ i \notin DOMAIN m.waves[g]
              /\ m.batchIds[i] = id /\ q.batchIds[i] = id + 1
  <2>1. Brought(m, q, i)
    BY <1>1, <1>5, <1>13, BringsBatch DEF InStep
  <2>2. i \notin DOMAIN m.ready /\ i \notin DOMAIN m.waves[g]
    BY <1>1, <1>6, <1>13 DEF Paired, Brings, Busy
  <2>3. Debt(m, p, i) = 0
    BY <1>1, <1>3, <2>2 DEF Debt, One
  <2>4. m.batchIds[i] = id
    BY <1>1, <1>3, <1>6, <1>7, <2>3 DEF Paired
  <2> QED
    BY <2>1, <2>2, <2>4 DEF Brought
<1>14. CASE LetsWait(m, q, n, line)
  <2>1. /\ Brings(m, q, i) /\ DOMAIN Longer(m, i) # Members(g) /\ line = Pass
        /\ q.waves = [m.waves EXCEPT ![g] = Longer(m, i)] /\ q.ready = m.ready
    BY <1>14 DEF LetsWait
  <2>2. t[n].todo # "run" /\ t[n].load = Nothing
    BY <1>4, <2>1 DEF Idle
  <2>3. q.waves[g] = Longer(m, i) /\ DOMAIN q.waves[g] = DOMAIN m.waves[g] \cup {i}
    BY <1>1, <1>8, <1>13, <2>1 DEF Brought
  <2>4. m.waves[g] = <<>>
    <3>1. DOMAIN m.waves[g] \subseteq Members(g)
      BY <1>5 DEF InStep, Begun
    <3>2. ASSUME NEW k \in DOMAIN m.waves[g] PROVE FALSE
      <4>1. k \in Members(g) /\ k # i
        BY <1>13, <2>1, <3>1, <3>2
      <4>2. \A j \in Members(g) : j = i \/ j = k
        BY <1>1, <4>1
      <4> QED
        BY <1>1, <2>1, <2>3, <3>1, <3>2, <4>2
    <3>3. m.waves[g] \in Partial(Instances, Nat)
      BY <1>1, <1>8
    <3> QED
      BY <3>2, <3>3, EmptyDictionary
  <2>5. Busy(q, i)
    <3>1. PICK b \in Batch : q.inflight = [m.inflight EXCEPT ![i] = {b}]
      BY <2>1, <2>4 DEF Brings
    <3>2. q.inflight[i] = {b}
      BY <1>1, <1>8, <3>1
    <3> QED
      BY <3>2 DEF Busy
  <2>6. Paired(q, t, i)
    <3>1. Debt(q, t, i) = 1
      BY <1>1, <1>13, <2>1, <2>2, <2>3 DEF Debt, One
    <3> QED
      BY <1>1, <1>4, <1>7, <1>13, <2>1, <2>2, <2>5, <3>1 DEF Paired
  <2>7. ASSUME NEW j \in Members(g), j # i PROVE Paired(q, t, j)
    <3>1. /\ t[Start(j)] = p[Start(j)] /\ (j \in DOMAIN q.waves[g] <=> j \in DOMAIN m.waves[g])
          /\ q.batchIds[j] = m.batchIds[j] /\ q.inflight[j] = m.inflight[j]
      BY <1>1, <1>9, <1>13, <2>1, <2>3, <2>7 DEF Brought
    <3>2. Debt(q, t, j) = Debt(m, p, j)
      BY <1>1, <2>1, <3>1 DEF Debt, One
    <3>3. Paired(m, p, j)
      BY <1>6
    <3> QED
      BY <1>1, <2>1, <3>1, <3>2, <3>3 DEF Paired, Busy
  <2>8. OneWave(t, g)
    BY <1>1, <1>9, <1>10, <2>2 DEF OneWave
  <2> QED
    BY <1>10, <2>2, <2>6, <2>7, <2>8 DEF t, id
<1>15. CASE StartsWave(m, q, n, line)
  <2>1. /\ Brings(m, q, i) /\ DOMAIN Longer(m, i) = Members(g) /\ line = NewName(m, i)
        /\ q.waves = [m.waves EXCEPT ![g] = <<>>] /\ q.ready = Readied(m, i, line)
    BY <1>15 DEF StartsWave
  <2>2. line[1] = "dp" /\ line[2] = g
    BY <2>1 DEF NewName, Wave
  <2>3. ~Idle(line)
    BY <2>2 DEF Idle, Pass, Done, Exit
  <2>4. t[n].todo = "run" /\ t[n].load = line
    BY <1>4, <2>3
  <2>5. DOMAIN q.waves[g] = {}
    BY <1>1, <1>8, <2>1, EmptyEntry
  <2>6. DOMAIN q.ready = DOMAIN m.ready \cup (Members(g) \ {i})
    BY <2>1 DEF Readied
  <2>7. Members(g) \ {i} \subseteq DOMAIN m.waves[g]
    BY <1>13, <2>1 DEF Brought
  <2>8. Paired(q, t, i)
    <3>1. i \notin DOMAIN q.ready
      BY <1>13, <2>1, <2>6
    <3>2. Debt(q, t, i) = 1
      BY <1>1, <2>4, <2>5, <3>1 DEF Debt, One
    <3> QED
      BY <1>1, <1>4, <1>13, <2>1, <2>5, <3>1, <3>2 DEF Paired
  <2>9. ASSUME NEW j \in Members(g), j # i
        PROVE  Paired(q, t, j) /\ t[Start(j)].load = Nothing
    <3>1. j \in DOMAIN m.waves[g] /\ j \in DOMAIN q.ready
      BY <2>6, <2>7, <2>9
    <3>2. /\ m.batchIds[j] = p[Start(j)].ran + Debt(m, p, j) /\ p[Start(j)].todo # "run"
          /\ Busy(m, j) /\ j \notin DOMAIN m.ready
      BY <1>1, <1>6, <3>1 DEF Paired
    <3>3. /\ t[Start(j)] = p[Start(j)] /\ p[Start(j)] = npu[Start(j)]
          /\ q.batchIds[j] = m.batchIds[j] /\ q.inflight[j] = m.inflight[j]
      BY <1>1, <1>9, <1>13, <2>1, <2>9 DEF Brought
    <3>4. Debt(m, p, j) = 1
      BY <1>1, <3>1, <3>2 DEF Debt, One
    <3>5. Debt(q, t, j) = 1
      BY <1>1, <2>5, <3>1, <3>2, <3>3 DEF Debt, One
    <3>6. Paired(q, t, j)
      BY <1>1, <2>5, <3>2, <3>3, <3>4, <3>5 DEF Paired, Busy
    <3> QED
      BY <1>10, <3>2, <3>3, <3>6
  <2>10. OneWave(t, g)
    BY <1>10, <2>9 DEF OneWave
  <2> QED
    BY <2>2, <2>4, <2>8, <2>9, <2>10 DEF t, id
<1>16. \/ SameGroups(m, q) /\ q.inflight = m.inflight /\ Idle(line)
       \/ HandsOut(m, q, n, line) \/ LetsWait(m, q, n, line) \/ StartsWave(m, q, n, line)
  BY <1>5 DEF Outcome, Gives, Ending, Idle
<1> QED
  BY <1>11, <1>12, <1>14, <1>15, <1>16 DEF t, id

(* Whom a report of n does not concern. *)
Untouched(q, n, j) ==
  /\ q.inflight[j] = loop.inflight[j] /\ q.batchIds[j] = loop.batchIds[j]
  /\ Group(j) # 0 =>
       /\ q.waves[Group(j)] = loop.waves[Group(j)]
       /\ j \in DOMAIN q.ready <=> j \in DOMAIN loop.ready

LEMMA OthersUntouched ==
  ASSUME sim \in Simulations, SingleNpuGroups, NEW n \in Npus,
         NEW h, NEW m, NEW q, NEW line, Reported(h, m, q, n, line)
  PROVE  \A j \in Instances :
           j # n[1] /\ (Group(n[1]) = 0 \/ Group(j) # Group(n[1])) => Untouched(q, n, j)
<1> DEFINE i == n[1]
<1> SUFFICES ASSUME NEW j \in Instances, j # i, Group(i) = 0 \/ Group(j) # Group(i)
             PROVE  Untouched(q, n, j)
  OBVIOUS
<1>1. i \in Instances /\ (Group(j) # 0 => Group(j) \in Groups) /\ (Group(i) # 0 => Group(i) \in Groups)
  BY NpuPairs, GroupTypes
<1>2. /\ h \in LoopType /\ m \in LoopType /\ SameGroups(loop, h) /\ SameGroups(h, m)
      /\ h.inflight = loop.inflight /\ AddDoneShape(h, m, n, Iteration(npu, n))
      /\ Outcome(m, q, n, line)
  BY DEF Reported, Placed
<1>3. /\ h.inflight \in [Instances -> SUBSET Batch] /\ m.inflight \in [Instances -> SUBSET Batch]
      /\ m.batchIds \in [Instances -> Nat] /\ m.waves \in [Groups -> Partial(Instances, Nat)]
  BY <1>2 DEF LoopType
<1>4. m.inflight[j] = loop.inflight[j]
  BY <1>1, <1>2, <1>3 DEF AddDoneShape, EndsBatch
<1>5. m.batchIds = loop.batchIds /\ m.waves = loop.waves /\ m.ready = loop.ready
  BY <1>2 DEF SameGroups
<1>6. CASE SameGroups(m, q) /\ q.inflight = m.inflight
  BY <1>4, <1>5, <1>6 DEF SameGroups, Untouched
<1>7. CASE StartsAlone(m, q, n, line)
  <2>1. q.inflight[j] = m.inflight[j]
    BY <1>3, <1>7 DEF StartsAlone
  <2>2. q.batchIds[j] = m.batchIds[j] /\ q.waves = m.waves /\ q.ready = m.ready
    BY <1>3, <1>7 DEF StartsAlone
  <2> QED
    BY <1>4, <1>5, <2>1, <2>2 DEF Untouched
<1>8. CASE HandsOut(m, q, n, line)
  BY <1>4, <1>5, <1>8 DEF HandsOut, Without, Untouched
<1>9. ASSUME Brings(m, q, i)
      PROVE  q.inflight[j] = m.inflight[j] /\ q.batchIds[j] = m.batchIds[j]
  BY <1>1, <1>3, <1>9 DEF Brings
<1>10. CASE Group(i) # 0 /\ LetsWait(m, q, n, line)
  <2>1. Group(j) # 0 => q.waves[Group(j)] = m.waves[Group(j)]
    BY <1>1, <1>3, <1>10 DEF LetsWait
  <2>2. q.ready = m.ready /\ Brings(m, q, i)
    BY <1>10 DEF LetsWait
  <2> QED
    BY <1>4, <1>5, <1>9, <2>1, <2>2 DEF Untouched
<1>11. CASE Group(i) # 0 /\ StartsWave(m, q, n, line)
  <2>1. Group(j) # 0 => q.waves[Group(j)] = m.waves[Group(j)]
    BY <1>1, <1>3, <1>11 DEF StartsWave
  <2>2. q.ready = Readied(m, i, line) /\ Brings(m, q, i)
    BY <1>11 DEF StartsWave
  <2>3. j \in DOMAIN q.ready <=> j \in DOMAIN m.ready
    <3>1. j \notin Members(Group(i))
      BY <1>11 DEF Members
    <3>2. DOMAIN q.ready = DOMAIN m.ready \cup (Members(Group(i)) \ {i})
      BY <2>2 DEF Readied
    <3> QED
      BY <3>1, <3>2
  <2> QED
    BY <1>4, <1>5, <1>9, <2>1, <2>2, <2>3 DEF Untouched
<1>12. CASE RunsAgain(m, q, n, line)
  <2>1. q.inflight[j] = m.inflight[j]
    BY <1>3, <1>12 DEF RunsAgain
  <2>2. q.batchIds[j] = m.batchIds[j] /\ q.waves = m.waves /\ q.ready = m.ready
    BY <1>12 DEF RunsAgain, SameGroups
  <2> QED
    BY <1>4, <1>5, <2>1, <2>2 DEF Untouched
<1> QED
  BY <1>2, <1>6, <1>7, <1>8, <1>10, <1>11, <1>12 DEF Outcome, Gives

LEMMA AlignedKept ==
  ASSUME sim \in Simulations, SingleNpuGroups, PairedGroups,
         Works(loop, npu, joined), Aligned(loop, npu), NEW n \in Npus,
         NEW h, NEW m, NEW q, NEW line, Reported(h, m, q, n, line)
  PROVE  Aligned(q, Told(npu, n, Iteration(npu, n), line))
<1> DEFINE i == n[1]
           t == Told(npu, n, Iteration(npu, n), line)
<1>1. /\ i \in Instances
      /\ \A j \in Instances : Start(j) \in Npus /\ Start(j)[1] = j
      /\ Group(i) # 0 => Group(i) \in Groups /\ i \in Members(Group(i))
      /\ \A j \in Instances : Group(j) # 0 => Group(j) \in Groups /\ j \in Members(Group(j))
      /\ \A g \in Groups : g # 0 /\ \A j \in Members(g) : j \in Instances /\ Group(j) = g
  BY NpuPairs, GroupTypes
<1>2. /\ npu \in [Npus -> NpuType] /\ joined \in Partial(Line, SUBSET Npus) /\ line \in Line
  BY DEF Works, Typed, Reported
<1>3. /\ t[n].load = IF Idle(line) THEN Nothing ELSE line
      /\ \A k \in Npus : k # n => t[k] = npu[k]
  <2>1. /\ t[n] = [ran |-> Iteration(npu, n),
                   todo |-> IF ~Idle(line) THEN "run" ELSE IF line = Pass THEN "wait" ELSE "sleep",
                   load |-> IF Idle(line) THEN Nothing ELSE line]
        /\ \A k \in Npus : k # n => t[k] = npu[k]
    BY <1>2, ToldTyped
  <2> HIDE DEF t
  <2> QED
    BY <2>1
<1>4. Group(i) = 0 => Alone(q, t, i)
  <2> SUFFICES ASSUME Group(i) = 0 PROVE Alone(q, t, i)
    OBVIOUS
  <2>1. Alone(loop, npu, i)
    BY <1>1 DEF Aligned
  <2> QED
    BY <2>1, AloneKept
<1>5. Group(i) # 0 => /\ \A j \in Members(Group(i)) : Paired(q, t, j)
                      /\ OneWave(t, Group(i))
                      /\ t[n].load[1] = "dp" => t[n].load[2] = Group(i)
  BY PairKept
<1> HIDE DEF t
<1>6. ASSUME NEW j \in Instances, j # i, Group(i) = 0 \/ Group(j) # Group(i)
      PROVE  /\ Group(j) = 0 => Alone(q, t, j)
             /\ Group(j) # 0 => Paired(q, t, j)
  <2>1. Untouched(q, n, j) /\ t[Start(j)] = npu[Start(j)]
    BY <1>1, <1>3, <1>6, OthersUntouched
  <2>2. CASE Group(j) = 0
    <3>1. Alone(loop, npu, j)
      BY <2>2 DEF Aligned
    <3> QED
      BY <2>1, <2>2, <3>1 DEF Alone, Untouched
  <2>3. CASE Group(j) # 0
    <3>1. Paired(loop, npu, j)
      BY <2>3 DEF Aligned
    <3>2. Debt(q, t, j) = Debt(loop, npu, j)
      BY <2>1, <2>3 DEF Debt, Untouched
    <3> QED
      BY <2>1, <2>3, <3>1, <3>2 DEF Paired, Untouched, Busy
  <2> QED
    BY <2>2, <2>3
<1>7. \A j \in Instances : Group(j) = 0 => Alone(q, t, j)
  BY <1>4, <1>6
<1>8. \A j \in Instances : Group(j) # 0 => Paired(q, t, j)
  BY <1>1, <1>5, <1>6
<1>9. ASSUME NEW g \in Groups PROVE OneWave(t, g)
  <2>1. CASE g = Group(i)
    BY <1>1, <1>5, <2>1
  <2>2. CASE g # Group(i)
    <3>1. \A j \in Members(g) : t[Start(j)] = npu[Start(j)]
      BY <1>1, <1>3, <2>2
    <3>2. OneWave(npu, g)
      BY DEF Aligned
    <3> QED
      BY <3>1, <3>2 DEF OneWave
  <2> QED
    BY <2>1, <2>2
<1>10. OwnWaves(t)
  <2>1. ASSUME NEW k \in Npus, k # n, t[k].load[1] = "dp"
        PROVE  Group(k[1]) # 0 /\ t[k].load[2] = Group(k[1])
    BY <1>3, <2>1 DEF Aligned, OwnWaves
  <2>2. t[n].load[1] = "dp" => Group(i) # 0
    <3> SUFFICES ASSUME Group(i) = 0 PROVE t[n].load[1] # "dp"
      OBVIOUS
    <3>1. Idle(line) \/ \E x : line = Own(i, x)
      BY DEF Reported, Outcome, Gives, Ending, Idle, StartsAlone, RunsAgain
    <3> QED
      BY <1>3, <3>1 DEF Own, Nothing
  <2> QED
    BY <1>5, <2>1, <2>2 DEF OwnWaves
<1> QED
  BY <1>7, <1>8, <1>9, <1>10 DEF Aligned, t

LEMMA Inv3Starts == Init => Inv3
BY AlignedStarts, Inv1Starts DEF Inv3

LEMMA SameAligned ==
  ASSUME sim' = sim, Aligned(loop', npu')
  PROVE  Aligned(loop, npu)'
<1>1. Instances' = Instances
  BY DEF Instances
<1>2. \A i : Group(i)' = Group(i)
  BY DEF Group
<1>3. \A g : Members(g)' = Members(g)
  BY <1>1 DEF Members, Group
<1>4. Groups' = Groups
  BY <1>1 DEF Groups, Group
<1>5. Npus' = Npus
  BY <1>1 DEF Npus, Reporting, Role
<1>6. OwnWaves(npu)' <=> OwnWaves(npu')
  BY <1>2, <1>5 DEF OwnWaves
<1>7. \A i : Alone(loop, npu, i)' <=> Alone(loop', npu', i)
  BY DEF Alone
<1>8. \A i : Paired(loop, npu, i)' <=> Paired(loop', npu', i)
  BY <1>2 DEF Paired, Debt, Busy
<1>9. \A g : OneWave(npu, g)' <=> OneWave(npu', g)
  BY <1>3 DEF OneWave
<1> QED
  BY <1>1, <1>2, <1>4, <1>6, <1>7, <1>8, <1>9 DEF Aligned

LEMMA Inv3Kept ==
  ASSUME SingleNpuGroups, PairedGroups, Inv3, [Next]_vars
  PROVE  Inv3'
<1>1. Inv1 /\ sim \in Simulations /\ now \in Nat /\ Works(loop, npu, joined) /\ Aligned(loop, npu)
  BY DEF Inv1, Inv3
<1>2. Inv1'
  BY <1>1, Inv1Kept
<1>3. CASE Tick \/ UNCHANGED vars
  <2>1. sim' = sim /\ loop' = loop /\ npu' = npu
    BY <1>3 DEF Tick, vars
  <2>2. Aligned(loop, npu)'
    BY <1>1, <2>1, SameAligned
  <2> QED
    BY <1>2, <2>2 DEF Inv3
<1>4. ASSUME NEW n \in Npus, Report(n) PROVE Inv3'
  <2>1. sim' = sim
    BY <1>4 DEF Report
  <2>2. PICK h, m, line : Reported(h, m, loop', n, line) /\ Obeys(n, Iteration(npu, n), line)
    BY <1>1, <1>4, ReportShape
  <2>3. npu' = Told(npu, n, Iteration(npu, n), line)
    BY <2>2, ToldByObeys
  <2>4. Aligned(loop', npu')
    <3>1. Aligned(loop', Told(npu, n, Iteration(npu, n), line))
      BY <1>1, <2>2, AlignedKept
    <3> QED
      BY <2>3, <3>1
  <2>5. Aligned(loop, npu)'
    BY <2>1, <2>4, SameAligned
  <2> QED
    BY <1>2, <2>5 DEF Inv3
<1> QED
  BY <1>3, <1>4 DEF Next, Exited

LEMMA AlignedFromInv3 ==
  ASSUME SingleNpuGroups, Inv3
  PROVE  WavesAligned
<1>1. sim \in Simulations /\ Works(loop, npu, joined) /\ Aligned(loop, npu)
  BY DEF Inv1, Inv3
<1>2. /\ \A n \in Npus : n[1] \in Instances /\ n \in Reporting(n[1])
      /\ \A i \in Instances : Start(i) \in Npus
      /\ \A i \in Instances : Group(i) # 0 =>
           Reporting(i) = {Start(i)} /\ Group(i) \in Groups /\ i \in Members(Group(i))
  BY <1>1, NpuPairs, GroupTypes
<1>3. WavesInStep
  <2> SUFFICES ASSUME NEW n \in Npus, NEW k \in Npus,
                      npu[n].load[1] = "dp", npu[k].load[1] = "dp", npu[n].load[2] = npu[k].load[2]
               PROVE  npu[n].load = npu[k].load
    BY DEF WavesInStep
  <2>1. Group(n[1]) # 0 /\ Group(n[1]) = Group(k[1])
    BY <1>1 DEF Aligned, OwnWaves
  <2>2. n = Start(n[1]) /\ k = Start(k[1])
    BY <1>2, <2>1
  <2>3. OneWave(npu, Group(n[1]))
    BY <1>1, <1>2, <2>1 DEF Aligned
  <2> QED
    BY <1>2, <2>1, <2>2, <2>3 DEF OneWave
<1>4. ASSUME NEW i \in Instances, npu[Start(i)].load \notin {Event, Nothing}, loop.inflight[i] # {}
      PROVE  \E b \in loop.inflight[i] : b.id = npu[Start(i)].ran
  <2>1. CASE Group(i) = 0
    BY <1>1, <1>4, <2>1 DEF Aligned, Alone
  <2>2. CASE Group(i) # 0
    <3>1. npu[Start(i)].todo = "run"
      BY <1>1, <1>2, <1>4 DEF Works, Typed
    <3>2. Paired(loop, npu, i) /\ Counted(loop, npu, i)
      BY <1>1, <1>2, <2>2 DEF Aligned, Works, Grouped, InStep
    <3>3. Debt(loop, npu, i) = 1
      BY <2>2, <3>1, <3>2 DEF Paired, Debt, One
    <3>4. npu[Start(i)].ran \in Int
      <4>1. npu[Start(i)].ran \in Nat \cup {-1}
        BY <1>1, <1>2 DEF Works, Typed, NpuType
      <4> QED
        BY <4>1
    <3>5. PICK b \in loop.inflight[i] : TRUE
      BY <1>4
    <3>6. b.id = loop.batchIds[i] - 1 /\ loop.batchIds[i] = npu[Start(i)].ran + 1
      BY <3>2, <3>3 DEF Counted, Paired
    <3> QED
      BY <3>4, <3>6
  <2> QED
    BY <2>1, <2>2
<1>5. NumbersInStep
  BY <1>4 DEF NumbersInStep
<1> QED
  BY <1>3, <1>5 DEF WavesAligned

(* What WavesAligned says, for any number of groups of two and of          *)
(* instances without a group, however many stages their pipelines have:    *)
(* members of a group never run different waves, and the workload an NPU   *)
(* runs has the number of a batch in the pipeline of its instance.         *)
THEOREM WavesAlignedCorrect ==
  ASSUME SingleNpuGroups, PairedGroups
  PROVE  Spec => []WavesAligned
<1>1. Init => Inv3
  BY Inv3Starts
<1>2. Inv3 /\ [Next]_vars => Inv3'
  BY Inv3Kept
<1>3. Inv3 => WavesAligned
  BY AlignedFromInv3
<1> QED
  BY <1>1, <1>2, <1>3, PTL DEF Spec

=============================================================================
