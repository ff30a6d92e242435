---------------------- MODULE ParallelInstances_proofs ----------------------
(***************************************************************************)
(* Proofs about the merged driver of ParallelInstances, for any number of  *)
(* instances, channels and requests: the merged timeline never runs back,  *)
(* and reloads are serialised on their channels.                           *)
(***************************************************************************)
EXTENDS ParallelInstances, Lists_proofs

Npus == L!Npus

-----------------------------------------------------------------------------
(* The inductive invariant *)

Batch == [id : Nat, reqs : SUBSET Req, fired : SUBSET Npus, end : SUBSET Npus]
LoopType ==
  [current : Nat, pending : SUBSET Req, arrival : [Req -> Nat],
   queue : [Instances -> SUBSET Req], inflight : [Instances -> SUBSET Batch],
   batchIds : [Instances -> Nat], left : [Req -> Int], finished : SUBSET Req,
   waves : {[g \in L!Groups |-> <<>>]}, ready : {<<>>}, made : {{}},
   doneNpus : [Instances -> SUBSET Npus], doneInst : SUBSET Instances,
   prefillDone : {FALSE}, answers : {<<>>}]
NpuType == [ran : Int, todo : {"run", "wait", "sleep"}, at : Nat]

MergedType ==
  /\ loop \in LoopType
  /\ npu \in [Npus -> NpuType]
  /\ heap \in SUBSET [clock : Nat, npu : Npus]
  /\ offset \in [Instances -> Nat]
  /\ free \in [Channels -> Nat]
  /\ charged \in SUBSET (Instances \X Nat)

(* A report in the heap is the next one of its process, at the clock of    *)
(* the NPU plus the waits of its instance, and lies ahead of the timeline. *)
Ahead(e) ==
  /\ e.npu \in Earliest(npu, e.npu[1])
  /\ e.clock = npu[e.npu].at + offset[e.npu[1]]
  /\ e.clock >= loop.current
HeapAhead == \A e \in heap : Ahead(e)

(* Numbers of batches are not given again; a request that has begun does   *)
(* not become one that has not.                                            *)
Work(r) == sim.reqs[r].prompt + sim.reqs[r].gen
Numbered ==
  /\ \A i \in Instances : \A b \in loop.inflight[i] : b.id < loop.batchIds[i]
  /\ \A k \in charged : k[2] < loop.batchIds[k[1]]
  /\ \A r \in Req : loop.left[r] <= Work(r)

(* A channel is free when all reloads over it so far have ended.           *)
Reload == [inst : Instances, id : Nat, chan : Channels, from : Nat, to : Nat]
Overlap(a, b) == a.chan = b.chan /\ a # b /\ a.to > b.from /\ b.to > a.from
ChannelsFree ==
  /\ reloads \in SUBSET Reload
  /\ \A a \in reloads : a.to <= free[a.chan]
  /\ \A a, b \in reloads : ~Overlap(a, b)

(* Batch b of instance i has a reload over channel c, and nobody reports   *)
(* for the instance before it begins.                                      *)
Reloaded(i, b, c) ==
  \E a \in reloads :
    /\ a.inst = i /\ a.id = b.id /\ a.chan = c
    /\ \A e \in heap : e.npu[1] = i => e.clock >= a.from
AllReloaded ==
  sim.contention =>
    \A i \in Instances : \A b \in loop.inflight[i] : \A c \in Used(loop, b) : Reloaded(i, b, c)

(* Mode A charges nothing. *)
Inv ==
  /\ sim \in Simulations
  /\ sim.mode = "A" => reloads = {}
  /\ sim.mode = "B" => MergedType /\ HeapAhead /\ Numbered /\ ChannelsFree /\ AllReloaded

-----------------------------------------------------------------------------
(* The simulation *)

LEMMA SimulationTypes ==
  ASSUME sim \in Simulations
  PROVE  /\ L!Instances = Instances /\ L!Req = Req /\ L!Npus = Npus
         /\ sim.mode \in {"A", "B"}
         /\ \A i \in Instances : L!Role(i) = "none" /\ Start(i) \in L!Reporting(i) /\ Start(i)[1] = i
         /\ IsFiniteSet(Req) /\ IsFiniteSet(Channels)
         /\ \A r \in Req : /\ L!Arrival(r) \in Nat /\ Work(r) \in Nat
                           /\ \A c \in DOMAIN sim.reqs[r].loads :
                                c \in Channels /\ sim.reqs[r].loads[c] \in Nat
<1>1. /\ sim.mode \in {"A", "B"}
      /\ sim.inst \in Seq([role : {"none"}, npus : Nat \ {0}, group : {0}, pp : {1}])
      /\ IsFiniteSet(DOMAIN sim.reqs)
      /\ \A r \in DOMAIN sim.reqs :
           /\ {sim.reqs[r].arrival, sim.reqs[r].prompt, sim.reqs[r].gen} \subseteq Nat
           /\ IsFiniteSet(DOMAIN sim.reqs[r].loads)
           /\ \A c \in DOMAIN sim.reqs[r].loads : sim.reqs[r].loads[c] \in Nat
  BY SimulationAssumption
<1>2. /\ L!Instances = Instances /\ L!Req = Req /\ L!Npus = Npus
      /\ Instances = DOMAIN sim.inst /\ Req = DOMAIN sim.reqs
  BY DEF Instances, Req, Npus, L!Instances, L!Req
<1>3. ASSUME NEW i \in Instances
      PROVE  L!Role(i) = "none" /\ Start(i) \in L!Reporting(i) /\ Start(i)[1] = i
  <2> DEFINE T == [role : {"none"}, npus : Nat \ {0}, group : {0}, pp : {1}]
  <2>1. sim.inst[i] \in T
    <3>1. sim.inst \in Seq(T)
      BY <1>1
    <3> HIDE DEF T
    <3>2. i \in 1 .. Len(sim.inst)
      BY <1>2, <3>1
    <3> QED
      BY <3>1, <3>2, ElementOfSeq
  <2>2. Start(i) = <<i, 1>>
    BY DEF Start, L!Start
  <2> QED
    BY <2>1, <2>2 DEF L!Role, L!Reporting
<1>4. IsFiniteSet(Channels)
  <2> DEFINE d == [r \in Req |-> DOMAIN sim.reqs[r].loads]
             D == {DOMAIN sim.reqs[r].loads : r \in Req}
  <2>1. d \in Surjection(Req, D)
    BY DEF Surjection
  <2>2. IsFiniteSet(Req)
    BY <1>1, <1>2
  <2>3. IsFiniteSet(D)
    <3> HIDE DEF d, D
    <3> QED
      BY <2>1, <2>2, FS_Surjection
  <2>4. \A S \in D : IsFiniteSet(S)
    BY <1>1, <1>2
  <2>5. Channels = UNION D
    BY DEF Channels
  <2> HIDE DEF D
  <2> QED
    BY <2>3, <2>4, <2>5, FS_UNION
<1>5. \A r \in Req : /\ L!Arrival(r) \in Nat /\ Work(r) \in Nat
                     /\ \A c \in DOMAIN sim.reqs[r].loads :
                          c \in Channels /\ sim.reqs[r].loads[c] \in Nat
  BY <1>1, <1>2 DEF L!Arrival, Work, Channels
<1> QED
  BY <1>1, <1>2, <1>3, <1>4, <1>5

LEMMA NpuPairs ==
  ASSUME sim \in Simulations
  PROVE  /\ \A n \in Npus : n[1] \in Instances /\ n \in L!Reporting(n[1])
         /\ \A i \in Instances : \A n \in L!Reporting(i) : n \in Npus /\ n[1] = i
<1>1. Npus = UNION {L!Reporting(i) : i \in Instances}
  BY SimulationTypes DEF L!Npus, Npus
<1>2. \A i : \A n \in L!Reporting(i) : n[1] = i
  BY DEF L!Reporting
<1> QED
  BY <1>1, <1>2

-----------------------------------------------------------------------------
(* What the loop does with a report, as far as the merging relies on it:   *)
(* the time stays, batches keep their number and requests, what is left of *)
(* a request never grows, and numbers go up.                               *)

Comes(m, q, i, b) == \E a \in m.inflight[i] : a.id = b.id /\ a.reqs = b.reqs
Follows(m, q) ==
  /\ q \in LoopType
  /\ q.current = m.current
  /\ \A r \in Req : q.left[r] <= m.left[r]
  /\ \A i \in Instances : q.batchIds[i] >= m.batchIds[i]
Keeps(m, q) ==
  /\ Follows(m, q)
  /\ \A i \in Instances : \A b \in q.inflight[i] : Comes(m, q, i, b)

LEMMA RouteKeeps ==
  ASSUME sim \in Simulations, NEW m \in LoopType
  PROVE  Keeps(m, L!Route(m))
<1> DEFINE come == {r \in m.pending : m.arrival[r] <= m.current}
           queue == [i \in Instances |-> m.queue[i] \cup {r \in come : sim.reqs[r].inst = i}]
           q == [m EXCEPT !.pending = @ \ come, !.queue = queue]
<1>1. L!Route(m) = q
  BY SimulationTypes DEF L!Route
<1>2. queue \in [Instances -> SUBSET Req] /\ m.pending \ come \in SUBSET Req
  BY DEF LoopType
<1> HIDE DEF queue, come
<1>3. q \in LoopType
  BY <1>2 DEF LoopType
<1>4. /\ q.current = m.current /\ q.left = m.left /\ q.batchIds = m.batchIds
      /\ q.inflight = m.inflight
  BY DEF LoopType
<1>5. m.left \in [Req -> Int] /\ m.batchIds \in [Instances -> Nat]
  BY DEF LoopType
<1> HIDE DEF q
<1> QED
  BY <1>1, <1>3, <1>4, <1>5 DEF Keeps, Follows, Comes

LEMMA KeepsItself ==
  ASSUME NEW m \in LoopType
  PROVE  Keeps(m, m)
<1>1. m.left \in [Req -> Int] /\ m.batchIds \in [Instances -> Nat]
  BY DEF LoopType
<1> QED
  BY <1>1 DEF Keeps, Follows, Comes

LEMMA CompletedKeeps ==
  ASSUME sim \in Simulations, NEW m \in LoopType, NEW S
  PROVE  LET q == L!Completed(m, S)
         IN  S \subseteq Req =>
               /\ q \in LoopType /\ q.current = m.current /\ q.left = m.left
               /\ q.batchIds = m.batchIds /\ q.inflight = m.inflight
<1> SUFFICES ASSUME S \subseteq Req
             PROVE  LET q == L!Completed(m, S)
                    IN  /\ q \in LoopType /\ q.current = m.current /\ q.left = m.left
                        /\ q.batchIds = m.batchIds /\ q.inflight = m.inflight
  OBVIOUS
<1> DEFINE next == {r \in Req : L!After(r) \in S}
           arr == [r \in Req |-> IF r \in next THEN m.current + L!Arrival(r) ELSE m.arrival[r]]
           q == [m EXCEPT !.finished = @ \cup S, !.pending = @ \cup next, !.arrival = arr]
<1>1. L!Completed(m, S) = q
  BY SimulationTypes DEF L!Completed
<1>2. m.current \in Nat /\ m.arrival \in [Req -> Nat] /\ m.pending \in SUBSET Req
      /\ m.finished \in SUBSET Req
  BY DEF LoopType
<1>3. \A r \in Req : L!Arrival(r) \in Nat
  BY SimulationTypes
<1>4. arr \in [Req -> Nat]
  BY <1>2, <1>3
<1>5. m.pending \cup next \in SUBSET Req /\ m.finished \cup S \in SUBSET Req
  BY <1>2
<1> HIDE DEF next, arr
<1>6. q \in LoopType
  BY <1>4, <1>5 DEF LoopType
<1>7. /\ q.current = m.current /\ q.left = m.left /\ q.batchIds = m.batchIds
      /\ q.inflight = m.inflight
  BY DEF LoopType
<1> HIDE DEF q
<1> QED
  BY <1>1, <1>6, <1>7

LEMMA AddDoneKeeps ==
  ASSUME sim \in Simulations, NEW m \in LoopType, NEW n \in Npus, NEW id \in Int
  PROVE  Keeps(m, L!AddDone(m, n, id))
<1> DEFINE i     == n[1]
           found == {b \in m.inflight[i] : b.id = id - 1 /\ n \notin b.end}
           b     == CHOOSE x \in found : TRUE
           b2    == [b EXCEPT !.end = b.end \cup {n}]
           left  == [r \in Req |-> m.left[r] - IF r \in b.reqs THEN 1 ELSE 0]
           over  == {r \in b.reqs : left[r] <= 0}
           done  == L!Queued([m EXCEPT !.inflight[i] = @ \ {b}, !.left = left],
                             i, m.queue[i] \cup (b.reqs \ over))
           ended == [m EXCEPT !.inflight[i] = (@ \ {b}) \cup {b2}]
<1>1. i \in Instances /\ L!Role(i) = "none" /\ L!Instances = Instances /\ L!Req = Req
  BY SimulationTypes, NpuPairs
<1>2. L!AddDone(m, n, id) =
        IF found = {} THEN m
        ELSE IF b.end \cup {n} # L!Reporting(i) THEN ended ELSE L!Completed(done, over)
  BY <1>1 DEF L!AddDone
<1>3. CASE found = {}
  BY <1>2, <1>3, KeepsItself
<1>4. CASE found # {}
  <2>1. b \in m.inflight[i]
    BY <1>4
  <2>2. m.inflight \in [Instances -> SUBSET Batch] /\ m.left \in [Req -> Int]
        /\ m.queue \in [Instances -> SUBSET Req] /\ m.batchIds \in [Instances -> Nat]
    BY DEF LoopType
  <2>3. b \in Batch
    BY <1>1, <2>1, <2>2
  <2> HIDE DEF found, b
  <2>4. CASE b.end \cup {n} # L!Reporting(i)
    <3>1. b2 \in Batch /\ b2.id = b.id /\ b2.reqs = b.reqs
      BY <2>3 DEF Batch
    <3> DEFINE fl == [m.inflight EXCEPT ![i] = (@ \ {b}) \cup {b2}]
    <3>2. fl \in [Instances -> SUBSET Batch]
      BY <1>1, <2>2, <3>1
    <3>3. ended = [m EXCEPT !.inflight = fl]
      BY DEF LoopType
    <3> HIDE DEF b2
    <3>4. \A j \in Instances : fl[j] \subseteq m.inflight[j] \/ (j = i /\ fl[j] \subseteq m.inflight[j] \cup {b2})
      BY <1>1, <2>2
    <3> HIDE DEF fl, ended, i
    <3>5. /\ ended \in LoopType /\ ended.current = m.current /\ ended.left = m.left
          /\ ended.batchIds = m.batchIds /\ ended.inflight = fl
      BY <3>2, <3>3 DEF LoopType
    <3>6. \A j \in Instances : \A x \in fl[j] : Comes(m, ended, j, x)
      BY <2>1, <3>1, <3>4 DEF Comes
    <3>7. Follows(m, ended)
      BY <2>2, <3>5 DEF Follows
    <3> QED
      BY <1>2, <1>4, <2>4, <3>5, <3>6, <3>7 DEF Keeps
  <2>5. CASE b.end \cup {n} = L!Reporting(i)
    <3> DEFINE fl == [m.inflight EXCEPT ![i] = @ \ {b}]
               qu == [j \in Instances |-> IF j = i THEN m.queue[i] \cup (b.reqs \ over) ELSE m.queue[j]]
    <3>1. fl \in [Instances -> SUBSET Batch] /\ \A j \in Instances : fl[j] \subseteq m.inflight[j]
      BY <1>1, <2>2
    <3>2. left \in [Req -> Int] /\ \A r \in Req : left[r] <= m.left[r]
      BY <2>2
    <3>3. b.reqs \subseteq Req
      BY <2>3 DEF Batch
    <3>4. over \subseteq Req
      BY <3>3
    <3>5. qu \in [Instances -> SUBSET Req]
      BY <1>1, <2>2, <3>3
    <3>6. done = [m EXCEPT !.inflight = fl, !.left = left, !.queue = qu]
      BY <1>1 DEF L!Queued, LoopType
    <3> HIDE DEF fl, qu, over, done, left, i
    <3>7. done \in LoopType /\ done.current = m.current /\ done.left = left
          /\ done.batchIds = m.batchIds /\ done.inflight = fl
      BY <3>1, <3>2, <3>5, <3>6 DEF LoopType
    <3> DEFINE q == L!Completed(done, over)
    <3>8. q \in LoopType /\ q.current = m.current /\ q.left = left
          /\ q.batchIds = m.batchIds /\ q.inflight = fl
      BY <3>4, <3>7, CompletedKeeps
    <3>9. L!AddDone(m, n, id) = q
      BY <1>2, <1>4, <2>5
    <3> HIDE DEF q
    <3>10. Follows(m, q)
      BY <2>2, <3>2, <3>8 DEF Follows
    <3>11. \A j \in Instances : \A x \in fl[j] : Comes(m, q, j, x)
      BY <3>1 DEF Comes
    <3> QED
      BY <3>8, <3>9, <3>10, <3>11 DEF Keeps
  <2> QED
    BY <2>4, <2>5
<1> QED
  BY <1>3, <1>4

(* A scheduled batch is one that was in flight, now started on one more    *)
(* NPU, or a new one with a number of its own.                             *)
IsNew(m, q, i, b) == b.id >= m.batchIds[i] /\ b.id < q.batchIds[i]
Schedules(m, i, s) ==
  /\ Follows(m, s.m)
  /\ \A j \in Instances : \A b \in s.m.inflight[j] :
       Comes(m, s.m, j, b) \/ (j = i /\ b = s.batch /\ IsNew(m, s.m, i, b))
  /\ s.batch # L!NoBatch =>
       s.batch \in Batch /\ (Comes(m, s.m, i, s.batch) \/ IsNew(m, s.m, i, s.batch))

LEMMA ScheduledSchedules ==
  ASSUME sim \in Simulations, NEW m \in LoopType, NEW n \in Npus, NEW id \in Int,
         NEW s \in L!Scheduled(m, n, id)
  PROVE  Schedules(m, n[1], s)
<1> DEFINE i     == n[1]
           found == {b \in m.inflight[i] : b.id = id /\ n \notin b.fired}
           more(b) == [b EXCEPT !.fired = b.fired \cup {n}]
           new(b) == L!Queued([m EXCEPT !.inflight[i] = @ \cup {b}, !.batchIds[i] = @ + 1],
                              i, m.queue[i] \ b.reqs)
           started(b) == [m EXCEPT !.inflight[i] = (@ \ {b}) \cup {more(b)}]
<1>1. i \in Instances /\ L!Instances = Instances /\ n \in Npus
  BY SimulationTypes, NpuPairs
<1>2. m.inflight \in [Instances -> SUBSET Batch] /\ m.left \in [Req -> Int]
      /\ m.queue \in [Instances -> SUBSET Req] /\ m.batchIds \in [Instances -> Nat]
  BY DEF LoopType
<1>3. CASE n = L!Start(i)
  <2>1. PICK b \in L!NewBatches(m, n) :
             s = [batch |-> b, m |-> IF b = L!NoBatch THEN m ELSE new(b)]
    BY <1>3 DEF L!Scheduled
  <2>2. CASE b = L!NoBatch
    BY <2>1, <2>2, KeepsItself DEF Schedules, Keeps
  <2>3. CASE b # L!NoBatch
    <3> DEFINE arrived == {r \in m.queue[i] : m.arrival[r] <= m.current}
    <3>1. PICK S \in SUBSET arrived : b = [id |-> m.batchIds[i], reqs |-> S, fired |-> {n}, end |-> {}]
      BY <2>1, <2>3 DEF L!NewBatches
    <3>2. S \subseteq Req /\ m.batchIds[i] \in Nat
      BY <1>1, <1>2, <3>1
    <3>3. b \in Batch /\ b.id = m.batchIds[i]
      BY <1>1, <3>1, <3>2 DEF Batch
    <3> DEFINE fl == [m.inflight EXCEPT ![i] = @ \cup {b}]
               ids == [m.batchIds EXCEPT ![i] = @ + 1]
               qu == [j \in Instances |-> IF j = i THEN m.queue[i] \ b.reqs ELSE m.queue[j]]
    <3>4. fl \in [Instances -> SUBSET Batch]
          /\ \A j \in Instances : fl[j] \subseteq m.inflight[j] \/ (j = i /\ fl[j] \subseteq m.inflight[j] \cup {b})
      BY <1>1, <1>2, <3>3
    <3>5. ids \in [Instances -> Nat] /\ ids[i] = m.batchIds[i] + 1
          /\ \A j \in Instances : ids[j] >= m.batchIds[j]
      BY <1>1, <1>2
    <3>6. qu \in [Instances -> SUBSET Req]
      BY <1>1, <1>2
    <3>7. new(b) = [m EXCEPT !.inflight = fl, !.batchIds = ids, !.queue = qu]
      BY <1>1 DEF L!Queued, LoopType
    <3> HIDE DEF fl, ids, qu, new, i
    <3> DEFINE q == new(b)
    <3>8. q \in LoopType /\ q.current = m.current /\ q.left = m.left
          /\ q.batchIds = ids /\ q.inflight = fl
      BY <3>4, <3>5, <3>6, <3>7 DEF LoopType
    <3> HIDE DEF q
    <3>9. Follows(m, q) /\ IsNew(m, q, i, b)
      <4>1. Follows(m, q)
        BY <1>2, <3>5, <3>8 DEF Follows
      <4>2. q.batchIds[i] = b.id + 1 /\ b.id \in Nat
        BY <3>2, <3>3, <3>5, <3>8
      <4> QED
        BY <3>3, <4>1, <4>2 DEF IsNew
    <3>10. \A j \in Instances : \A x \in fl[j] : Comes(m, q, j, x) \/ (j = i /\ x = b)
      BY <3>4 DEF Comes
    <3>11. s.batch = b /\ s.m = q
      BY <2>1, <2>3 DEF q
    <3> QED
      BY <3>3, <3>8, <3>9, <3>10, <3>11 DEF Schedules, i
  <2> QED
    BY <2>2, <2>3
<1>4. CASE n # L!Start(i) /\ found = {}
  <2>1. s = [batch |-> L!NoBatch, m |-> m]
    BY <1>4 DEF L!Scheduled
  <2> QED
    BY <2>1, KeepsItself DEF Schedules, Keeps
<1>5. CASE n # L!Start(i) /\ found # {}
  <2>1. PICK b \in found : s = [batch |-> b, m |-> started(b)]
    BY <1>5 DEF L!Scheduled
  <2>2. b \in m.inflight[i] /\ b \in Batch
    BY <1>1, <1>2, <2>1
  <2> DEFINE b2 == more(b)
             fl == [m.inflight EXCEPT ![i] = (@ \ {b}) \cup {b2}]
  <2>3. b2 \in Batch /\ b2.id = b.id /\ b2.reqs = b.reqs
    BY <1>1, <2>2 DEF Batch
  <2> HIDE DEF b2
  <2>4. fl \in [Instances -> SUBSET Batch]
        /\ \A j \in Instances : fl[j] \subseteq m.inflight[j] \/ (j = i /\ fl[j] \subseteq m.inflight[j] \cup {b2})
    BY <1>1, <1>2, <2>3
  <2>5. started(b) = [m EXCEPT !.inflight = fl]
    BY DEF LoopType, b2
  <2> HIDE DEF fl, started, i
  <2> DEFINE q == started(b)
  <2>6. q \in LoopType /\ q.current = m.current /\ q.left = m.left
        /\ q.batchIds = m.batchIds /\ q.inflight = fl
    BY <2>4, <2>5 DEF LoopType
  <2> HIDE DEF q
  <2>7. Follows(m, q)
    BY <1>2, <2>6 DEF Follows
  <2>8. \A j \in Instances : \A x \in fl[j] : Comes(m, q, j, x)
    BY <2>2, <2>3, <2>4 DEF Comes
  <2>9. s.batch = b /\ s.m = q /\ Comes(m, q, i, b)
    BY <2>1, <2>2 DEF q, Comes
  <2> QED
    BY <2>2, <2>6, <2>7, <2>8, <2>9 DEF Schedules, i
<1> QED
  BY <1>3, <1>4, <1>5

(* What a whole report does to the loop.                                   *)
LEMMA HandledSchedules ==
  ASSUME sim \in Simulations, NEW m \in LoopType, NEW n \in Npus, npu[n].ran \in Int,
         NEW s \in Handled(L!Route(m), n)
  PROVE  Schedules(m, n[1], s)
<1> DEFINE it == Iteration(n)
           p == L!Route(m)
           q == L!AddDone(p, n, it)
           i == n[1]
<1>1. it \in Int
  BY DEF Iteration
<1>2. Keeps(m, p)
  BY RouteKeeps
<1> HIDE DEF it, p
<1>3. p \in LoopType
  BY <1>2 DEF Keeps, Follows
<1>4. Keeps(p, q)
  BY <1>1, <1>3, AddDoneKeeps
<1>5. s \in L!Scheduled(q, n, it)
  BY DEF Handled, it, p
<1> HIDE DEF q
<1>6. q \in LoopType
  BY <1>4 DEF Keeps, Follows
<1>7. Schedules(q, i, s)
  BY <1>1, <1>5, <1>6, ScheduledSchedules
<1>8. i \in Instances
  BY NpuPairs
<1> HIDE DEF i
<1>9. /\ m.left \in [Req -> Int] /\ m.batchIds \in [Instances -> Nat]
      /\ p.left \in [Req -> Int] /\ p.batchIds \in [Instances -> Nat]
      /\ q.left \in [Req -> Int] /\ q.batchIds \in [Instances -> Nat]
      /\ s.m \in LoopType
  BY <1>3, <1>6, <1>7 DEF LoopType, Schedules, Follows
<1>10. s.m.left \in [Req -> Int] /\ s.m.batchIds \in [Instances -> Nat]
  BY <1>9 DEF LoopType
<1>11. Follows(m, s.m)
  BY <1>2, <1>4, <1>7, <1>9, <1>10 DEF Schedules, Keeps, Follows
<1>12. ASSUME NEW j \in Instances, NEW b, Comes(q, s.m, j, b)
       PROVE  Comes(m, s.m, j, b)
  BY <1>2, <1>4, <1>12 DEF Keeps, Comes
<1>13. ASSUME NEW b \in Batch, IsNew(q, s.m, i, b)
       PROVE  IsNew(m, s.m, i, b)
  <2>1. m.batchIds[i] <= p.batchIds[i] /\ p.batchIds[i] <= q.batchIds[i]
    BY <1>2, <1>4, <1>8 DEF Keeps, Follows
  <2>2. b.id \in Nat /\ q.batchIds[i] \in Nat /\ p.batchIds[i] \in Nat /\ m.batchIds[i] \in Nat
    BY <1>8, <1>9 DEF Batch
  <2> QED
    BY <1>13, <2>1, <2>2 DEF IsNew
<1>14. \A j \in Instances : s.m.inflight[j] \subseteq Batch
  BY <1>9 DEF LoopType
<1>15. \A j \in Instances : \A b \in s.m.inflight[j] :
         Comes(m, s.m, j, b) \/ (j = i /\ b = s.batch /\ IsNew(m, s.m, i, b))
  BY <1>7, <1>12, <1>13, <1>14 DEF Schedules
<1>16. s.batch # L!NoBatch =>
         s.batch \in Batch /\ (Comes(m, s.m, i, s.batch) \/ IsNew(m, s.m, i, s.batch))
  BY <1>7, <1>8, <1>12, <1>13 DEF Schedules
<1> QED
  BY <1>11, <1>15, <1>16 DEF Schedules, i

-----------------------------------------------------------------------------
(* Numbers: the largest and the smallest of a set, and loads               *)

LEMMA MaxMin ==
  ASSUME NEW S, S \subseteq Int, IsFiniteSet(S), S # {}
  PROVE  /\ Max(S) \in S /\ \A x \in S : Max(S) >= x
         /\ Min(S) \in S
<1> QED
  BY Extremes DEF Max, Min

(* A channel is used by a batch when a request in it that has not begun    *)
(* loads anything over it.                                                 *)
LEMMA UsedBy ==
  ASSUME sim \in Simulations, NEW m, NEW b \in Batch, NEW c
  PROVE  /\ Load(m, b, c) \in Nat
         /\ c \in Used(m, b) <=>
              c \in Channels /\ \E r \in Loading(m, b, c) : sim.reqs[r].loads[c] > 0
<1> DEFINE S == Loading(m, b, c)
           f == [r \in S |-> 1 .. sim.reqs[r].loads[c]]
<1>1. S \subseteq Req /\ \A r \in S : sim.reqs[r].loads[c] \in Nat
  BY SimulationTypes DEF Loading, Batch
<1>2. IsFiniteSet(S)
  BY <1>1, SimulationTypes, FS_Subset
<1> HIDE DEF S
<1>3. \A r \in DOMAIN f : \E x, y \in Int : f[r] = x .. y
  BY <1>1
<1>4. IsFiniteSet(Pairs(f)) /\ Cardinality(Pairs(f)) \in Nat
  BY <1>2, <1>3, PairsOfIntervals
<1>5. Load(m, b, c) = Cardinality(Pairs(f))
  BY DEF Load, S
<1>6. Pairs(f) # {} <=> \E r \in S : sim.reqs[r].loads[c] > 0
  <2>1. Pairs(f) # {} <=> \E r \in S : f[r] # {}
    <3>1. Pairs(f) = UNION {{r} \X f[r] : r \in S}
      BY DEF Pairs
    <3>2. ASSUME NEW r \in S, NEW x \in f[r]
          PROVE  <<r, x>> \in Pairs(f)
      BY <3>1
    <3>3. ASSUME NEW p \in Pairs(f)
          PROVE  \E r \in S : f[r] # {}
      <4>1. PICK r \in S : p \in {r} \X f[r]
        BY <3>1
      <4> QED
        BY <4>1
    <3> HIDE DEF f
    <3> QED
      BY <3>2, <3>3
  <2>2. \A r \in S : f[r] # {} <=> sim.reqs[r].loads[c] > 0
    BY <1>1
  <2> QED
    BY <2>1, <2>2
<1> HIDE DEF f
<1>7. Cardinality(Pairs(f)) = 0 <=> Pairs(f) = {}
  BY <1>4, FS_EmptySet
<1> DEFINE k == Cardinality(Pairs(f))
<1>8. k > 0 <=> Pairs(f) # {}
  <2>1. k \in Nat /\ (k = 0 <=> Pairs(f) = {})
    BY <1>4, <1>7
  <2> HIDE DEF k
  <2> QED
    BY <2>1
<1>9. c \in Used(m, b) <=> c \in Channels /\ k > 0
  BY <1>5 DEF Used
<1> HIDE DEF k
<1> QED
  BY <1>4, <1>5, <1>6, <1>8, <1>9 DEF S, k

(* As requests proceed, a batch does not come to use another channel.      *)
LEMMA UsedShrinks ==
  ASSUME sim \in Simulations, NEW m \in LoopType, NEW q \in LoopType,
         NEW a \in Batch, NEW b \in Batch, a.reqs = b.reqs,
         \A r \in Req : q.left[r] <= m.left[r] /\ m.left[r] <= Work(r)
  PROVE  Used(q, b) \subseteq Used(m, a)
<1>1. m.left \in [Req -> Int] /\ q.left \in [Req -> Int]
  BY DEF LoopType
<1>2. ASSUME NEW c
      PROVE  Loading(q, b, c) \subseteq Loading(m, a, c)
  <2> SUFFICES ASSUME NEW r \in Loading(q, b, c)
               PROVE  r \in Loading(m, a, c)
    OBVIOUS
  <2>1. /\ r \in b.reqs /\ r \in Req /\ c \in DOMAIN sim.reqs[r].loads /\ q.left[r] = Work(r)
    BY DEF Loading, Batch, Work
  <2>2. Work(r) \in Nat
    BY <2>1, SimulationTypes
  <2>3. m.left[r] = Work(r)
    BY <1>1, <2>1, <2>2
  <2> QED
    BY <2>1, <2>3 DEF Loading, Work
<1> QED
  BY <1>2, UsedBy

LEMMA WaitLongEnough ==
  ASSUME sim \in Simulations, NEW m \in LoopType, NEW b \in Batch, free \in [Channels -> Nat]
  PROVE  /\ WaitFor(m, b) \in Nat
         /\ \A c \in Used(m, b) : WaitFor(m, b) >= free[c] - m.current
<1> DEFINE U == Used(m, b)
           g == [c \in U |-> free[c] - m.current]
           D == {free[c] - m.current : c \in U}
<1>1. U \subseteq Channels /\ IsFiniteSet(U)
  BY SimulationTypes, FS_Subset DEF Used
<1>2. m.current \in Nat
  BY DEF LoopType
<1>3. D \subseteq Int
  BY <1>1, <1>2
<1>4. IsFiniteSet(D)
  <2>1. g \in Surjection(U, D)
    BY DEF Surjection
  <2> HIDE DEF g, D, U
  <2> QED
    BY <1>1, <2>1, FS_Surjection
<1>5. WaitFor(m, b) = Max({0} \cup D)
  BY DEF WaitFor
<1>6. \A c \in Used(m, b) : free[c] - m.current \in D
  OBVIOUS
<1> HIDE DEF D
<1> DEFINE E == {0} \cup D
<1>7. IsFiniteSet(E) /\ E # {} /\ E \subseteq Int
  BY <1>3, <1>4, FS_AddElement, E = D \cup {0}
<1> HIDE DEF E
<1>8. Max(E) \in E /\ \A x \in E : Max(E) >= x
  BY <1>7, MaxMin
<1>9. Max(E) >= 0 /\ Max(E) \in Int
  BY <1>7, <1>8 DEF E
<1>10. ASSUME NEW c \in Used(m, b)
       PROVE  Max(E) >= free[c] - m.current
  BY <1>6, <1>8 DEF E
<1> QED
  BY <1>5, <1>9, <1>10 DEF E

LEMMA NextArrivalType ==
  ASSUME sim \in Simulations, NEW m \in LoopType
  PROVE  NextArrival(m) \in Nat
<1>1. m.pending \subseteq Req /\ m.arrival \in [Req -> Nat]
  BY DEF LoopType
<1> DEFINE D == {m.arrival[r] : r \in m.pending}
           g == [r \in m.pending |-> m.arrival[r]]
<1>2. CASE m.pending = {}
  BY <1>2 DEF NextArrival
<1>3. CASE m.pending # {}
  <2>1. IsFiniteSet(m.pending)
    BY <1>1, SimulationTypes, FS_Subset
  <2>2. g \in Surjection(m.pending, D)
    BY DEF Surjection
  <2>3. D \subseteq Nat /\ D # {}
    BY <1>1, <1>3
  <2>4. NextArrival(m) = Min(D)
    BY <1>3 DEF NextArrival
  <2> HIDE DEF g, D
  <2>5. IsFiniteSet(D)
    BY <2>1, <2>2, FS_Surjection
  <2>6. D \subseteq Int
    BY <2>3
  <2>7. Min(D) \in D
    BY <2>3, <2>5, <2>6, MaxMin
  <2> QED
    BY <2>3, <2>4, <2>7
<1> QED
  BY <1>2, <1>3

-----------------------------------------------------------------------------
(* A process that is resumed                                               *)

LEMMA EarliestSame ==
  ASSUME UNCHANGED sim, NEW CONSTANT c, NEW CONSTANT i
  PROVE  Earliest(c, i)' = Earliest(c, i)
BY DEF Earliest, L!Reporting, L!Role

LEMMA HeapType ==
  ASSUME MergedType, NEW e \in heap
  PROVE  /\ e.npu \in Npus /\ e.clock \in Nat
BY DEF MergedType

(* Its next report is behind the one before by the wait at least; the      *)
(* reports of the other processes are not earlier than that one either.    *)
LEMMA ResumeForward ==
  ASSUME sim \in Simulations, MergedType, HeapAhead, NEW e \in heap, IsNext(e),
         NEW todo \in {"run", "wait", "sleep"}, NEW d \in Nat, NEW wait \in Nat, NEW arrival \in Nat,
         Resume(e.npu, todo, d, wait, arrival), loop'.current = e.clock, UNCHANGED sim
  PROVE  /\ npu' \in [Npus -> NpuType] /\ offset' \in [Instances -> Nat]
         /\ heap' \in SUBSET [clock : Nat, npu : Npus]
         /\ HeapAhead'
         /\ \A x \in heap' : IF x.npu[1] = e.npu[1] THEN x.clock >= e.clock + wait ELSE x \in heap
<1> DEFINE n == e.npu
           i == n[1]
<1>1. /\ n \in Npus /\ e.clock \in Nat /\ i \in Instances
      /\ npu \in [Npus -> NpuType] /\ offset \in [Instances -> Nat]
      /\ heap \in SUBSET [clock : Nat, npu : Npus]
  BY NpuPairs DEF MergedType
<1>2. n \in Earliest(npu, i) /\ e.clock = npu[n].at + offset[i]
  BY DEF HeapAhead, Ahead
<1>3. PICK c \in {[npu EXCEPT ![n] = [ran |-> Iteration(n), todo |-> todo, at |-> npu[n].at + d]]} :
      \E k \in Earliest(c, i) :
        /\ npu' = c
        /\ offset' = [offset EXCEPT ![i] = Greatest(@ + wait, arrival - c[k].at)]
        /\ heap' = {x \in heap : x.npu[1] # i} \cup {[clock |-> c[k].at + offset'[i], npu |-> k]}
  BY DEF Resume
<1>4. PICK k \in Earliest(c, i) :
        /\ npu' = c
        /\ offset' = [offset EXCEPT ![i] = Greatest(@ + wait, arrival - c[k].at)]
        /\ heap' = {x \in heap : x.npu[1] # i} \cup {[clock |-> c[k].at + offset'[i], npu |-> k]}
  BY <1>3
<1>5. /\ npu[n] \in NpuType /\ npu[n].at \in Nat /\ npu[n].ran \in Int
  BY <1>1 DEF NpuType
<1>6. Iteration(n) \in Int
  BY <1>5 DEF Iteration
<1>7. [ran |-> Iteration(n), todo |-> todo, at |-> npu[n].at + d] \in NpuType
  BY <1>5, <1>6 DEF NpuType
<1>8. c \in [Npus -> NpuType] /\ c[n].at = npu[n].at + d /\ \A x \in Npus : x # n => c[x] = npu[x]
  BY <1>1, <1>3, <1>7
<1> HIDE DEF n, i
<1>9. k \in Npus /\ k[1] = i /\ k \in L!Reporting(i) /\ c[k].todo # "sleep"
  BY <1>1, <1>4, NpuPairs DEF Earliest
<1>10. c[k].at \in Nat /\ npu[k].at \in Nat
  BY <1>1, <1>8, <1>9 DEF NpuType
<1>11. c[k].at >= npu[n].at
  <2>1. CASE k = n
    BY <1>5, <1>8, <2>1
  <2>2. CASE k # n
    <3>1. c[k] = npu[k]
      BY <1>8, <1>9, <2>2
    <3>2. npu[n].at <= npu[k].at
      BY <1>2, <1>9, <3>1 DEF Earliest
    <3> QED
      BY <1>5, <1>10, <3>1, <3>2
  <2> QED
    BY <2>1, <2>2
<1> DEFINE o == offset[i]
           o2 == Greatest(o + wait, arrival - c[k].at)
<1>12. offset' = [offset EXCEPT ![i] = o2]
  BY <1>4
<1>13. o \in Nat /\ o2 \in Nat /\ o2 >= o + wait
  <2>1. o \in Nat
    BY <1>1
  <2> HIDE DEF o
  <2> QED
    BY <1>10, <2>1 DEF Greatest
<1> HIDE DEF o2
<1>14. offset' \in [Instances -> Nat] /\ offset'[i] = o2
       /\ \A j \in Instances : j # i => offset'[j] = offset[j]
  BY <1>1, <1>12, <1>13
<1> DEFINE new == [clock |-> c[k].at + o2, npu |-> k]
<1>15. heap' = {x \in heap : x.npu[1] # i} \cup {new}
  BY <1>4, <1>14
<1>16. new.clock >= e.clock + wait /\ new.clock \in Nat /\ new.npu = k
  BY <1>1, <1>2, <1>5, <1>10, <1>11, <1>13
<1> HIDE DEF new, o
<1>17. heap' \in SUBSET [clock : Nat, npu : Npus]
  <2>1. new \in [clock : Nat, npu : Npus]
    BY <1>9, <1>16 DEF new
  <2> QED
    BY <1>1, <1>15, <2>1
<1>18. \A x \in heap' : IF x.npu[1] = i THEN x.clock >= e.clock + wait ELSE x \in heap
  BY <1>9, <1>15, <1>16
<1>19. HeapAhead'
  <2> SUFFICES ASSUME NEW CONSTANT x \in heap'
               PROVE  /\ x.npu \in Earliest(npu', x.npu[1])
                      /\ x.clock = npu'[x.npu].at + offset'[x.npu[1]]
                      /\ x.clock >= loop'.current
    BY EarliestSame DEF HeapAhead, Ahead, Earliest, L!Reporting, L!Role
  <2>1. CASE x = new
    <3>1. new.clock = c[k].at + o2
      BY DEF new
    <3>2. new.clock >= e.clock
      BY <1>1, <1>16
    <3> QED
      BY <1>4, <1>9, <1>14, <1>16, <2>1, <3>1, <3>2
  <2>2. CASE x \in heap /\ x.npu[1] # i
    <3>1. x.npu \in Earliest(npu, x.npu[1]) /\ x.clock = npu[x.npu].at + offset[x.npu[1]]
      BY <2>2 DEF HeapAhead, Ahead
    <3>2. x.npu \in Npus /\ x.npu[1] \in Instances /\ x.clock \in Nat
      BY <1>1, <2>2, NpuPairs
    <3>3. \A y \in L!Reporting(x.npu[1]) : c[y] = npu[y]
      BY <1>8, <2>2, <3>2, NpuPairs DEF i
    <3>4. x.npu \in Earliest(c, x.npu[1])
      BY <3>1, <3>3 DEF Earliest
    <3>5. c[x.npu] = npu[x.npu]
      BY <1>8, <2>2, <3>2 DEF i
    <3>6. x.clock >= e.clock
      BY <1>1, <2>2, <3>2 DEF IsNext
    <3> QED
      BY <1>4, <1>14, <2>2, <3>1, <3>2, <3>4, <3>5, <3>6
  <2> QED
    BY <1>15, <2>1, <2>2
<1> QED
  BY <1>4, <1>8, <1>14, <1>17, <1>18, <1>19 DEF n, i

-----------------------------------------------------------------------------
(* A batch whose reloads are charged                                       *)

LEMMA UsedNext ==
  ASSUME UNCHANGED sim, NEW CONSTANT q, loop' = q, NEW CONSTANT b
  PROVE  Used(loop, b)' = Used(q, b)
BY DEF Used, Load, Loading, Channels, Req, L!Req

(* A reload begins when its channel is free and keeps the channel until it *)
(* ends, so it overlaps no other.                                          *)
LEMMA ChargeSerialises ==
  ASSUME sim \in Simulations, MergedType, ChannelsFree, UNCHANGED sim,
         NEW m \in LoopType, NEW i \in Instances, NEW b \in Batch, Charge(m, i, b)
  PROVE  /\ free' \in [Channels -> Nat]
         /\ charged' = charged \cup {<<i, b.id>>}
         /\ ChannelsFree'
         /\ reloads \subseteq reloads'
         /\ \A c \in Used(m, b) : \E a \in reloads' :
              a.inst = i /\ a.id = b.id /\ a.chan = c /\ a.from = Greatest(m.current, free[c])
<1> DEFINE U == Used(m, b)
           from(c) == Greatest(m.current, free[c])
           new(c) == [inst |-> i, id |-> b.id, chan |-> c, from |-> from(c), to |-> free'[c]]
<1>1. /\ charged' = charged \cup {<<i, b.id>>}
      /\ free' = [c \in Channels |-> IF c \in U THEN from(c) + Load(m, b, c) ELSE free[c]]
      /\ reloads' = reloads \cup {new(c) : c \in U}
  BY DEF Charge, Key, FreeAt
<1>2. U \subseteq Channels
  BY DEF Used
<1>3. ASSUME NEW c \in Channels
      PROVE  /\ free[c] \in Nat /\ free'[c] \in Nat /\ free[c] <= free'[c]
             /\ c \in U => from(c) \in Nat /\ free[c] <= from(c) /\ from(c) <= free'[c]
  <2>1. free[c] \in Nat /\ m.current \in Nat
    BY DEF MergedType, LoopType
  <2>2. Load(m, b, c) \in Nat
    BY UsedBy
  <2>3. free'[c] = IF c \in U THEN from(c) + Load(m, b, c) ELSE free[c]
    BY <1>1
  <2>4. from(c) \in Nat /\ free[c] <= from(c)
    BY <2>1 DEF Greatest
  <2> HIDE DEF U, from
  <2> QED
    BY <2>1, <2>2, <2>3, <2>4
<1>4. free' \in [Channels -> Nat]
  <2>1. \A c \in Channels : (IF c \in U THEN from(c) + Load(m, b, c) ELSE free[c]) \in Nat
    BY <1>1, <1>3
  <2> HIDE DEF U, from
  <2> QED
    BY <1>1, <2>1
<1>5. b.id \in Nat
  BY DEF Batch
<1>6. \A c \in U : new(c) \in Reload
  BY <1>2, <1>3, <1>5 DEF Reload
<1>7. \A c \in U : new(c).inst = i /\ new(c).id = b.id /\ new(c).chan = c /\ new(c).from = from(c)
                   /\ new(c).to = free'[c]
  OBVIOUS
<1>8. Channels' = Channels /\ Instances' = Instances
  BY DEF Channels, Instances, Req, L!Req, L!Instances
<1> HIDE DEF U, from, new
<1>9. reloads \in SUBSET Reload /\ (\A a \in reloads : a.to <= free[a.chan])
      /\ \A a, x \in reloads : ~Overlap(a, x)
  BY DEF ChannelsFree
<1>10. \A a \in reloads' : a \in Reload
  BY <1>1, <1>6, <1>9
<1>11. \A a \in reloads' : a.to <= free'[a.chan]
  <2>1. ASSUME NEW a \in reloads
        PROVE  a.to <= free'[a.chan]
    <3>1. a.chan \in Channels /\ a.to \in Nat /\ a.to <= free[a.chan]
      BY <1>9 DEF Reload
    <3> QED
      BY <1>3, <3>1
  <2>2. ASSUME NEW c \in U
        PROVE  new(c).to <= free'[new(c).chan]
    BY <1>2, <1>3, <1>7
  <2> QED
    BY <1>1, <2>1, <2>2
<1>12. \A a, x \in reloads' : ~Overlap(a, x)
  <2>1. ASSUME NEW a \in reloads, NEW c \in U
        PROVE  ~Overlap(a, new(c)) /\ ~Overlap(new(c), a)
    <3>1. CASE a.chan = c
      <4>1. a.to \in Nat /\ a.to <= free[c] /\ free[c] \in Nat
        BY <1>9, <3>1, <1>2, <1>3 DEF Reload
      <4>2. a.to <= from(c) /\ from(c) \in Nat
        BY <1>2, <1>3, <4>1
      <4> QED
        BY <1>7, <4>1, <4>2 DEF Overlap
    <3>2. CASE a.chan # c
      BY <1>7, <3>2 DEF Overlap
    <3> QED
      BY <3>1, <3>2
  <2>2. ASSUME NEW c \in U, NEW k \in U
        PROVE  ~Overlap(new(c), new(k))
    BY <1>7 DEF Overlap
  <2> QED
    BY <1>1, <1>9, <2>1, <2>2
<1>13. Reload' = Reload
  BY <1>8 DEF Reload
<1>14. ChannelsFree'
  BY <1>10, <1>11, <1>12, <1>13 DEF ChannelsFree, Overlap
<1>15. ASSUME NEW c \in U
       PROVE  \E a \in reloads' : a.inst = i /\ a.id = b.id /\ a.chan = c /\ a.from = from(c)
  BY <1>1, <1>7
<1> QED
  BY <1>1, <1>4, <1>14, <1>15 DEF U, from

-----------------------------------------------------------------------------
(* A report of Mode B                                                      *)

(* The heap after the report e, whose process waits for a while.           *)
Moved(e, wait) ==
  /\ npu' \in [Npus -> NpuType] /\ offset' \in [Instances -> Nat]
  /\ heap' \in SUBSET [clock : Nat, npu : Npus]
  /\ HeapAhead'
  /\ \A x \in heap' : IF x.npu[1] = e.npu[1] THEN x.clock >= e.clock + wait ELSE x \in heap

(* The channels after it: if its batch is new, its reloads begin before    *)
(* the wait is over.                                                       *)
Charged(e, q, b, wait) ==
  /\ free' \in [Channels -> Nat] /\ charged' \in SUBSET (Instances \X Nat)
  /\ ChannelsFree'
  /\ reloads \subseteq reloads'
  /\ \A k \in charged' : k[2] < q.batchIds[k[1]]
  /\ sim.contention /\ b \in Batch /\ IsNew(loop, q, e.npu[1], b) =>
       \A c \in Used(q, b) : \E a \in reloads' :
         a.inst = e.npu[1] /\ a.id = b.id /\ a.chan = c /\ a.from <= e.clock + wait

Reported(e) == [loop EXCEPT !.current = e.clock]

LEMMA ReportedType ==
  ASSUME MergedType, NEW e \in heap
  PROVE  /\ Reported(e) \in LoopType /\ Reported(e).current = e.clock
         /\ Reported(e).left = loop.left /\ Reported(e).batchIds = loop.batchIds
         /\ Reported(e).inflight = loop.inflight
BY HeapType DEF MergedType, LoopType, Reported

LEMMA ReportKeeps ==
  ASSUME Inv, sim.mode = "B", NEW e \in heap, IsNext(e), UNCHANGED sim,
         NEW s, Schedules(Reported(e), e.npu[1], s),
         NEW CONSTANT q, loop' = q, q \in LoopType, q.current = s.m.current, q.left = s.m.left,
         q.inflight = s.m.inflight, q.batchIds = s.m.batchIds,
         NEW wait \in Nat, Moved(e, wait), Charged(e, q, s.batch, wait)
  PROVE  Inv' /\ loop'.current >= loop.current
<1> DEFINE n == e.npu
           i == n[1]
           m == Reported(e)
<1>1. /\ sim \in Simulations /\ MergedType /\ HeapAhead /\ Numbered /\ ChannelsFree /\ AllReloaded
  BY DEF Inv
<1>2. /\ m \in LoopType /\ m.current = e.clock /\ m.left = loop.left
      /\ m.batchIds = loop.batchIds /\ m.inflight = loop.inflight
  BY <1>1, ReportedType
<1>3. i \in Instances /\ e.clock \in Nat /\ loop \in LoopType
  BY <1>1, HeapType, NpuPairs DEF MergedType
<1>4. /\ \A r \in Req : q.left[r] <= loop.left[r] /\ loop.left[r] <= Work(r)
      /\ \A j \in Instances : q.batchIds[j] >= loop.batchIds[j]
      /\ q.current = e.clock
      /\ \A j \in Instances : \A b \in q.inflight[j] :
           (\E a \in loop.inflight[j] : a.id = b.id /\ a.reqs = b.reqs)
             \/ (j = i /\ b = s.batch /\ IsNew(loop, q, i, b))
  BY <1>1, <1>2 DEF Schedules, Follows, Comes, IsNew, Numbered
<1> HIDE DEF m
<1>5. /\ loop.left \in [Req -> Int] /\ loop.batchIds \in [Instances -> Nat]
      /\ q.left \in [Req -> Int] /\ q.batchIds \in [Instances -> Nat]
      /\ loop.inflight \in [Instances -> SUBSET Batch] /\ q.inflight \in [Instances -> SUBSET Batch]
      /\ loop.current \in Nat
  BY <1>3 DEF LoopType
<1>6. \A r \in Req : Work(r) \in Nat
  BY <1>1, SimulationTypes
<1>7. /\ Instances' = Instances /\ Req' = Req /\ Npus' = Npus /\ Channels' = Channels
      /\ LoopType' = LoopType /\ L!Groups' = L!Groups
  BY DEF Instances, Req, Npus, Channels, L!Instances, L!Req, L!Npus, L!Reporting, L!Role,
     LoopType, Batch, L!Groups, L!Group
<1>8. e.clock >= loop.current
  BY <1>1 DEF HeapAhead, Ahead
<1>9. MergedType'
  BY <1>7 DEF MergedType, Moved, Charged, NpuType
<1>10. Numbered'
  <2>1. ASSUME NEW j \in Instances, NEW b \in q.inflight[j]
        PROVE  b.id < q.batchIds[j]
    <3>1. CASE \E a \in loop.inflight[j] : a.id = b.id
      <4>1. b.id < loop.batchIds[j]
        BY <1>1, <3>1 DEF Numbered
      <4>2. b.id \in Nat /\ loop.batchIds[j] \in Nat /\ q.batchIds[j] \in Nat
        BY <1>5 DEF Batch
      <4> QED
        BY <1>4, <4>1, <4>2
    <3>2. CASE j = i /\ IsNew(loop, q, i, b)
      BY <3>2 DEF IsNew
    <3> QED
      BY <1>4, <3>1, <3>2
  <2>2. \A r \in Req : q.left[r] <= Work(r)
    BY <1>4, <1>5, <1>6
  <2>3. \A r \in Req : Work(r)' = Work(r)
    BY DEF Work
  <2>4. \A k \in charged' : k[2] < q.batchIds[k[1]]
    BY DEF Charged
  <2> QED
    BY <1>7, <2>1, <2>2, <2>3, <2>4 DEF Numbered
<1>11. AllReloaded'
  <2> SUFFICES ASSUME sim.contention, NEW CONSTANT j \in Instances, NEW CONSTANT b \in q.inflight[j],
                      NEW CONSTANT c \in Used(q, b)
               PROVE  Reloaded(j, b, c)'
    BY <1>7, UsedNext DEF AllReloaded
  <2>1. b \in Batch
    BY <1>5
  <2> SUFFICES \E a \in reloads' :
                 /\ a.inst = j /\ a.id = b.id /\ a.chan = c
                 /\ \A x \in heap' : x.npu[1] = j => x.clock >= a.from
    BY DEF Reloaded
  <2>2. \A x \in heap' : x.clock \in Nat
    BY DEF Moved
  <2>3. CASE \E a \in loop.inflight[j] : a.id = b.id /\ a.reqs = b.reqs
    <3>1. PICK a \in loop.inflight[j] : a.id = b.id /\ a.reqs = b.reqs
      BY <2>3
    <3>2. a \in Batch
      BY <1>5
    <3>3. c \in Used(loop, a)
      BY <1>1, <1>3, <1>4, <2>1, <3>1, <3>2, UsedShrinks
    <3>4. PICK x \in reloads : /\ x.inst = j /\ x.id = a.id /\ x.chan = c
                               /\ \A y \in heap : y.npu[1] = j => y.clock >= x.from
      BY <1>1, <3>3 DEF AllReloaded, Reloaded
    <3>5. x \in reloads' /\ x.from \in Nat
      BY <1>1, <3>4 DEF Charged, ChannelsFree, Reload
    <3>6. ASSUME NEW y \in heap', y.npu[1] = j
          PROVE  y.clock >= x.from
      <4>1. CASE y \in heap
        BY <3>4, <3>6, <4>1
      <4>2. CASE j = i /\ y.clock >= e.clock + wait
        <5>1. e.clock >= x.from
          BY <3>4, <4>2
        <5> QED
          BY <1>3, <2>2, <3>5, <4>2, <5>1
      <4> QED
        BY <3>6, <4>1, <4>2 DEF Moved
    <3> QED
      BY <3>1, <3>4, <3>5, <3>6
  <2>4. CASE j = i /\ b = s.batch /\ IsNew(loop, q, i, b)
    <3>1. PICK a \in reloads' : a.inst = i /\ a.id = b.id /\ a.chan = c /\ a.from <= e.clock + wait
      BY <2>1, <2>4 DEF Charged
    <3>2. a.from \in Nat
      BY DEF Charged, ChannelsFree, Reload
    <3>3. \A x \in heap' : x.npu[1] = i => x.clock >= e.clock + wait
      BY DEF Moved
    <3> QED
      BY <1>3, <2>2, <2>4, <3>1, <3>2, <3>3
  <2> QED
    BY <1>4, <2>3, <2>4
<1>12. HeapAhead' /\ ChannelsFree'
  BY DEF Moved, Charged
<1> QED
  BY <1>1, <1>4, <1>8, <1>9, <1>10, <1>11, <1>12 DEF Inv

LEMMA NoChargeCharged ==
  ASSUME Inv, sim.mode = "B", NEW e \in heap, UNCHANGED sim, NoCharge,
         NEW CONSTANT q \in LoopType, \A j \in Instances : q.batchIds[j] >= loop.batchIds[j],
         NEW b, NEW wait \in Nat,
         b \in Batch /\ sim.contention /\ IsNew(loop, q, e.npu[1], b) => Used(q, b) = {}
  PROVE  Charged(e, q, b, wait)
<1>1. MergedType /\ ChannelsFree /\ Numbered
  BY DEF Inv
<1>2. free' = free /\ charged' = charged /\ reloads' = reloads
  BY DEF NoCharge
<1>3. ChannelsFree'
  <2>1. Reload' = Reload
    BY DEF Reload, Instances, L!Instances, Channels, Req, L!Req
  <2> QED
    BY <1>1, <1>2, <2>1 DEF ChannelsFree, Overlap
<1>4. ASSUME NEW k \in charged'
      PROVE  k[2] < q.batchIds[k[1]]
  <2>1. k[1] \in Instances /\ k[2] \in Nat /\ k[2] < loop.batchIds[k[1]]
    BY <1>1, <1>2 DEF Numbered, MergedType
  <2>2. q.batchIds[k[1]] \in Nat /\ loop.batchIds[k[1]] \in Nat
    BY <1>1, <2>1 DEF LoopType, MergedType
  <2> QED
    BY <2>1, <2>2
<1>5. free' \in [Channels -> Nat] /\ charged' \in SUBSET (Instances \X Nat)
  BY <1>1, <1>2 DEF MergedType
<1> QED
  BY <1>2, <1>3, <1>4, <1>5 DEF Charged

LEMMA BatchCharged ==
  ASSUME Inv, sim.mode = "B", NEW e \in heap, UNCHANGED sim,
         NEW CONSTANT q, NEW CONSTANT b \in Batch, Follows(Reported(e), q),
         Comes(Reported(e), q, e.npu[1], b) \/ IsNew(Reported(e), q, e.npu[1], b),
         (MustCharge(q, e.npu[1], b) /\ Charge(q, e.npu[1], b)) \/ (~MustCharge(q, e.npu[1], b) /\ NoCharge)
  PROVE  LET wait == IF charged' # charged THEN WaitFor(q, b) ELSE 0
         IN  wait \in Nat /\ Charged(e, q, b, wait)
<1> DEFINE i == e.npu[1]
           wait == IF charged' # charged THEN WaitFor(q, b) ELSE 0
           m == Reported(e)
<1>1. sim \in Simulations /\ MergedType /\ ChannelsFree /\ Numbered
  BY DEF Inv
<1>2. i \in Instances /\ loop \in LoopType /\ e.clock \in Nat
  BY <1>1, HeapType, NpuPairs DEF MergedType
<1>3. /\ m.current = e.clock /\ m.batchIds = loop.batchIds /\ m.inflight = loop.inflight
  BY <1>1, ReportedType
<1>4. /\ q \in LoopType /\ q.current = e.clock
      /\ \A j \in Instances : q.batchIds[j] >= loop.batchIds[j]
  BY <1>3 DEF Follows
<1>5. (\E a \in loop.inflight[i] : a.id = b.id) \/ IsNew(loop, q, i, b)
  BY <1>3 DEF Comes, IsNew
<1> HIDE DEF m
<1>6. free \in [Channels -> Nat] /\ charged \in SUBSET (Instances \X Nat)
  BY <1>1 DEF MergedType
<1>7. WaitFor(q, b) \in Nat /\ \A c \in Used(q, b) : WaitFor(q, b) >= free[c] - q.current
  BY <1>1, <1>4, <1>6, WaitLongEnough
<1>8. wait \in Nat
  BY <1>7
<1>9. loop.batchIds \in [Instances -> Nat] /\ q.batchIds \in [Instances -> Nat] /\ b.id \in Nat
  BY <1>2, <1>4 DEF LoopType, Batch
<1>10. CASE ~MustCharge(q, i, b) /\ NoCharge
  <2>1. ASSUME sim.contention, IsNew(loop, q, i, b)
        PROVE  Used(q, b) = {}
    <3>1. <<i, b.id>> \notin charged
      BY <1>1, <1>2, <1>9, <2>1 DEF Numbered, IsNew
    <3> QED
      BY <1>10, <2>1, <3>1 DEF MustCharge, Key
  <2> HIDE DEF wait
  <2>2. Charged(e, q, b, wait)
    BY <1>4, <1>8, <1>10, <2>1, NoChargeCharged
  <2> QED
    BY <1>8, <2>2 DEF wait
<1>11. CASE MustCharge(q, i, b) /\ Charge(q, i, b)
  <2>1. /\ free' \in [Channels -> Nat]
        /\ charged' = charged \cup {<<i, b.id>>}
        /\ ChannelsFree'
        /\ reloads \subseteq reloads'
        /\ \A c \in Used(q, b) : \E a \in reloads' :
             a.inst = i /\ a.id = b.id /\ a.chan = c /\ a.from = Greatest(q.current, free[c])
    BY <1>1, <1>2, <1>4, <1>11, ChargeSerialises
  <2>2. wait = WaitFor(q, b)
    BY <1>11, <2>1 DEF MustCharge, Key
  <2> HIDE DEF wait
  <2>3. charged' \in SUBSET (Instances \X Nat)
    BY <1>2, <1>6, <1>9, <2>1
  <2>4. b.id < q.batchIds[i]
    <3>1. CASE \E a \in loop.inflight[i] : a.id = b.id
      <4>1. b.id < loop.batchIds[i]
        BY <1>1, <1>2, <3>1 DEF Numbered
      <4> QED
        BY <1>2, <1>4, <1>9, <4>1
    <3>2. CASE IsNew(loop, q, i, b)
      BY <3>2 DEF IsNew
    <3> QED
      BY <1>5, <3>1, <3>2
  <2>5. ASSUME NEW k \in charged
        PROVE  k[2] < q.batchIds[k[1]]
    <3>1. k[1] \in Instances /\ k[2] \in Nat /\ k[2] < loop.batchIds[k[1]]
      BY <1>1, <1>6 DEF Numbered
    <3>2. q.batchIds[k[1]] \in Nat /\ loop.batchIds[k[1]] \in Nat
      BY <1>9, <3>1
    <3> QED
      BY <1>4, <3>1, <3>2
  <2>6. ASSUME NEW c \in Used(q, b)
        PROVE  Greatest(q.current, free[c]) <= e.clock + wait
    <3>1. c \in Channels
      BY DEF Used
    <3>2. free[c] \in Nat /\ wait >= free[c] - q.current
      BY <1>6, <1>7, <2>2, <3>1
    <3> QED
      BY <1>2, <1>4, <1>8, <3>2 DEF Greatest
  <2>7. \A k \in charged' : k[2] < q.batchIds[k[1]]
    BY <2>1, <2>4, <2>5
  <2>8. \A c \in Used(q, b) : \E a \in reloads' :
          a.inst = i /\ a.id = b.id /\ a.chan = c /\ a.from <= e.clock + wait
    BY <2>1, <2>6
  <2>9. Charged(e, q, b, wait)
    BY <2>1, <2>3, <2>7, <2>8 DEF Charged
  <2> QED
    BY <1>8, <2>9 DEF wait
<1> QED
  BY <1>10, <1>11

LEMMA ResumeMoved ==
  ASSUME Inv, sim.mode = "B", NEW e \in heap, IsNext(e), UNCHANGED sim, loop'.current = e.clock,
         NEW todo \in {"run", "wait", "sleep"}, NEW d \in Nat, NEW wait \in Nat, NEW arrival \in Nat,
         Resume(e.npu, todo, d, wait, arrival)
  PROVE  Moved(e, wait)
BY ResumeForward DEF Inv, Moved

LEMMA ExitMoved ==
  ASSUME Inv, sim.mode = "B", NEW e \in heap, IsNext(e), UNCHANGED sim, loop'.current = e.clock,
         heap' = heap \ {e}, UNCHANGED <<npu, offset>>
  PROVE  Moved(e, 0)
<1>1. MergedType /\ HeapAhead
  BY DEF Inv
<1>2. \A x \in heap : x.clock \in Nat /\ x.clock >= e.clock
  BY <1>1, HeapType DEF IsNext
<1>3. HeapAhead'
  <2> SUFFICES ASSUME NEW CONSTANT x \in heap'
               PROVE  /\ x.npu \in Earliest(npu', x.npu[1])
                      /\ x.clock = npu'[x.npu].at + offset'[x.npu[1]]
                      /\ x.clock >= loop'.current
    BY DEF HeapAhead, Ahead, Earliest, L!Reporting, L!Role
  <2> QED
    BY <1>1, <1>2 DEF HeapAhead, Ahead
<1>4. e.clock + 0 = e.clock
  BY <1>1, HeapType
<1> QED
  BY <1>1, <1>2, <1>3, <1>4 DEF Moved, MergedType

LEMMA SleepingType ==
  ASSUME NEW m \in LoopType, NEW n \in Npus, n[1] \in Instances
  PROVE  LET q == Sleeping(m, n)
         IN  /\ q \in LoopType /\ q.current = m.current /\ q.left = m.left
             /\ q.inflight = m.inflight /\ q.batchIds = m.batchIds
<1> DEFINE i == n[1]
           done == m.doneNpus[i] \cup {n}
           npus == [m.doneNpus EXCEPT ![i] = done]
           inst == IF Cardinality(done) >= (IF sim.inst[i].npus = 1 THEN 1 ELSE 2)
                   THEN m.doneInst \cup {i} ELSE m.doneInst
           q == [m EXCEPT !.doneNpus = npus, !.doneInst = inst]
<1>1. m.doneNpus \in [Instances -> SUBSET Npus] /\ m.doneInst \in SUBSET Instances
  BY DEF LoopType
<1>2. done \in SUBSET Npus
  BY <1>1
<1>3. npus \in [Instances -> SUBSET Npus]
  BY <1>1, <1>2
<1>4. inst \in SUBSET Instances
  BY <1>1
<1>5. Sleeping(m, n) = q
  BY DEF Sleeping, LoopType
<1> HIDE DEF npus, inst, done
<1>6. /\ q \in LoopType /\ q.current = m.current /\ q.left = m.left
      /\ q.inflight = m.inflight /\ q.batchIds = m.batchIds
  BY <1>3, <1>4 DEF LoopType
<1> QED
  BY <1>5, <1>6

LEMMA DurationsType ==
  ASSUME sim \in Simulations, MergedType, NEW n \in Npus
  PROVE  Durations(n) \subseteq Nat
<1>1. Start(n[1]) \in Npus
  BY NpuPairs, SimulationTypes
<1>2. npu[n].at \in Nat /\ npu[Start(n[1])].at \in Nat
  BY <1>1 DEF MergedType, NpuType
<1> QED
  BY <1>2 DEF Durations, Greatest

LEMMA SharedStep ==
  ASSUME Inv, NEW e \in heap, Shared(e)
  PROVE  Inv' /\ loop'.current >= loop.current
<1> DEFINE n == e.npu
           i == n[1]
<1>1. /\ sim.mode = "B" /\ IsNext(e) /\ UNCHANGED sim
      /\ sim \in Simulations /\ MergedType /\ HeapAhead
  BY DEF Shared, Inv
<1>2. n \in Npus /\ i \in Instances /\ e.clock \in Nat
  BY <1>1, HeapType, NpuPairs
<1>3. PICK s \in Handled(L!Route(Reported(e)), n) :
         \/ /\ s.batch # L!NoBatch
            /\ loop' = s.m
            /\ \/ MustCharge(s.m, i, s.batch) /\ Charge(s.m, i, s.batch)
               \/ ~MustCharge(s.m, i, s.batch) /\ NoCharge
            /\ \E d \in Durations(n) :
                 Resume(n, "run", d, IF charged' # charged THEN WaitFor(s.m, s.batch) ELSE 0, 0)
         \/ /\ s.batch = L!NoBatch /\ Drained(s.m, i)
            /\ loop' = Sleeping(s.m, n)
            /\ IF i \in loop'.doneInst
               THEN heap' = heap \ {e} /\ UNCHANGED <<npu, offset>>
               ELSE Resume(n, "sleep", 0, 0, 0)
            /\ NoCharge
         \/ /\ s.batch = L!NoBatch /\ ~Drained(s.m, i)
            /\ loop' = s.m
            /\ Resume(n, "wait", 1, 0, NextArrival(s.m))
            /\ NoCharge
  BY DEF Shared, Reported
<1>4. Reported(e) \in LoopType /\ Reported(e).current = e.clock
      /\ Reported(e).batchIds = loop.batchIds
  BY <1>1, ReportedType
<1>5. npu[n].ran \in Int
  BY <1>1, <1>2 DEF MergedType, NpuType
<1>6. Schedules(Reported(e), i, s)
  BY <1>1, <1>2, <1>3, <1>4, <1>5, HandledSchedules
<1>7. /\ s.m \in LoopType /\ s.m.current = e.clock
      /\ \A j \in Instances : s.m.batchIds[j] >= loop.batchIds[j]
      /\ Follows(Reported(e), s.m)
  BY <1>4, <1>6 DEF Schedules, Follows
<1>8. L!NoBatch \notin Batch
  BY DEF L!NoBatch, Batch
<1>9. CASE /\ s.batch # L!NoBatch
           /\ loop' = s.m
           /\ \/ MustCharge(s.m, i, s.batch) /\ Charge(s.m, i, s.batch)
              \/ ~MustCharge(s.m, i, s.batch) /\ NoCharge
           /\ \E d \in Durations(n) :
                Resume(n, "run", d, IF charged' # charged THEN WaitFor(s.m, s.batch) ELSE 0, 0)
  <2> DEFINE wait == IF charged' # charged THEN WaitFor(s.m, s.batch) ELSE 0
  <2>1. s.batch \in Batch /\ (Comes(Reported(e), s.m, i, s.batch) \/ IsNew(Reported(e), s.m, i, s.batch))
    BY <1>6, <1>9 DEF Schedules
  <2>2. wait \in Nat /\ Charged(e, s.m, s.batch, wait)
    BY <1>1, <1>7, <1>9, <2>1, BatchCharged
  <2>3. PICK d \in Durations(n) : Resume(n, "run", d, wait, 0)
    BY <1>9
  <2> HIDE DEF wait
  <2>4. d \in Nat
    BY <1>1, <1>2, DurationsType
  <2>5. Moved(e, wait)
    BY <1>1, <1>7, <1>9, <2>2, <2>3, <2>4, ResumeMoved
  <2> QED
    BY <1>1, <1>6, <1>7, <1>9, <2>2, <2>5, ReportKeeps
<1>10. CASE /\ s.batch = L!NoBatch
            /\ loop' = Sleeping(s.m, n)
            /\ IF i \in loop'.doneInst
               THEN heap' = heap \ {e} /\ UNCHANGED <<npu, offset>>
               ELSE Resume(n, "sleep", 0, 0, 0)
            /\ NoCharge
  <2> DEFINE q == Sleeping(s.m, n)
  <2>1. /\ q \in LoopType /\ q.current = s.m.current /\ q.left = s.m.left
        /\ q.inflight = s.m.inflight /\ q.batchIds = s.m.batchIds
    BY <1>2, <1>7, SleepingType
  <2>2. loop' = q
    BY <1>10
  <2> HIDE DEF q
  <2>3. Moved(e, 0)
    <3>1. CASE heap' = heap \ {e} /\ UNCHANGED <<npu, offset>>
      BY <1>1, <1>7, <2>1, <2>2, <3>1, ExitMoved
    <3>2. CASE Resume(n, "sleep", 0, 0, 0)
      BY <1>1, <1>7, <2>1, <2>2, <3>2, ResumeMoved
    <3> QED
      BY <1>10, <3>1, <3>2
  <2>4. Charged(e, q, s.batch, 0)
    BY <1>1, <1>7, <1>8, <1>10, <2>1, NoChargeCharged
  <2> QED
    BY <1>1, <1>6, <1>7, <2>1, <2>2, <2>3, <2>4, ReportKeeps
<1>11. CASE /\ s.batch = L!NoBatch
            /\ loop' = s.m
            /\ Resume(n, "wait", 1, 0, NextArrival(s.m))
            /\ NoCharge
  <2>1. NextArrival(s.m) \in Nat
    BY <1>1, <1>7, NextArrivalType
  <2>2. Moved(e, 0)
    BY <1>1, <1>7, <1>11, <2>1, ResumeMoved
  <2>3. Charged(e, s.m, s.batch, 0)
    BY <1>1, <1>7, <1>8, <1>11, NoChargeCharged
  <2> QED
    BY <1>1, <1>6, <1>7, <1>11, <2>2, <2>3, ReportKeeps
<1> QED
  BY <1>3, <1>9, <1>10, <1>11

-----------------------------------------------------------------------------
(* The invariant                                                           *)

LEMMA InvInit == Init => Inv
<1> SUFFICES ASSUME Init
             PROVE  Inv
  OBVIOUS
<1>1. sim \in Simulations /\ reloads = {} /\ charged = {}
  BY DEF Init
<1>2. ASSUME sim.mode = "B"
      PROVE  MergedType /\ HeapAhead /\ Numbered /\ ChannelsFree /\ AllReloaded
  <2>1. /\ loop = L!Fresh
        /\ npu = [n \in Npus |-> [ran |-> -1, todo |-> "run", at |-> 0]]
        /\ heap = {First(i) : i \in Instances}
        /\ offset = [i \in Instances |-> 0] /\ free = [c \in Channels |-> 0]
    BY <1>2 DEF Init, Npus
  <2>2. /\ L!Instances = Instances /\ L!Req = Req
        /\ \A r \in Req : L!Arrival(r) \in Nat /\ Work(r) \in Nat
        /\ \A i \in Instances : Start(i) \in L!Reporting(i) /\ Start(i)[1] = i /\ Start(i) \in Npus
    BY <1>1, SimulationTypes, NpuPairs
  <2>3. loop = [current |-> 0, pending |-> {r \in Req : L!After(r) = 0},
                arrival |-> [r \in Req |-> L!Arrival(r)],
                queue |-> [i \in Instances |-> {}], inflight |-> [i \in Instances |-> {}],
                batchIds |-> [i \in Instances |-> 0],
                left |-> [r \in Req |-> Work(r)], finished |-> {},
                waves |-> [g \in L!Groups |-> <<>>], ready |-> <<>>, made |-> {},
                doneNpus |-> [i \in Instances |-> {}], doneInst |-> {}, prefillDone |-> FALSE,
                answers |-> <<>>]
    BY <2>1, <2>2 DEF L!Fresh, Work
  <2>4. /\ [r \in Req |-> L!Arrival(r)] \in [Req -> Nat]
        /\ [r \in Req |-> Work(r)] \in [Req -> Int]
    BY <2>2
  <2>5. loop \in LoopType
    BY <2>3, <2>4 DEF LoopType
  <2>6. npu \in [Npus -> NpuType]
    BY <2>1 DEF NpuType
  <2>7. heap \in SUBSET [clock : Nat, npu : Npus]
    BY <2>1, <2>2 DEF First
  <2>8. MergedType
    BY <1>1, <2>1, <2>5, <2>6, <2>7 DEF MergedType
  <2>9. ASSUME NEW i \in Instances
        PROVE  Ahead(First(i))
    <3>1. First(i).npu = Start(i) /\ First(i).clock = 0
      BY DEF First
    <3>2. \A n \in L!Reporting(i) : npu[n].at = 0 /\ npu[n].todo = "run"
      BY <1>1, <2>1, <2>9, NpuPairs
    <3>3. Start(i) \in Earliest(npu, i)
      BY <2>2, <3>2 DEF Earliest
    <3>4. npu[Start(i)].at = 0 /\ offset[i] = 0 /\ loop.current = 0
      BY <2>1, <2>2, <2>3
    <3> QED
      BY <2>2, <3>1, <3>3, <3>4 DEF Ahead
  <2>10. HeapAhead
    BY <2>1, <2>9 DEF HeapAhead
  <2>11. Numbered /\ ChannelsFree /\ AllReloaded
    BY <1>1, <2>2, <2>3 DEF Numbered, ChannelsFree, AllReloaded
  <2> QED
    BY <2>8, <2>10, <2>11
<1> QED
  BY <1>1, <1>2 DEF Inv

(* Nothing changes in a step of Mode A that Mode B relies on.              *)
LEMMA SequentialStep ==
  ASSUME Inv, NEW e \in heap, Sequential(e)
  PROVE  Inv' /\ sim'.mode = "A"
BY DEF Sequential, NoCharge, Inv, SimulationAssumption

LEMMA StutterStep ==
  ASSUME Inv, UNCHANGED vars
  PROVE  Inv'
<1>1. /\ UNCHANGED <<sim, loop, npu, heap, offset>>
      /\ UNCHANGED <<free, charged, reloads>>
  BY DEF vars
<1>2. /\ Instances' = Instances /\ Req' = Req /\ Npus' = Npus /\ Channels' = Channels
      /\ LoopType' = LoopType
  BY <1>1 DEF Instances, Req, Npus, Channels, L!Instances, L!Req, L!Npus, L!Reporting, L!Role,
     LoopType, Batch, L!Groups, L!Group
<1>3. MergedType => MergedType'
  BY <1>1, <1>2 DEF MergedType, NpuType
<1>4. HeapAhead => HeapAhead'
  BY <1>1 DEF HeapAhead, Ahead, Earliest, L!Reporting, L!Role
<1>5. Numbered => Numbered'
  BY <1>1, <1>2 DEF Numbered, Work
<1>6. ChannelsFree => ChannelsFree'
  BY <1>1, <1>2 DEF ChannelsFree, Overlap, Reload
<1>7. AllReloaded => AllReloaded'
  <2>1. \A b : Used(loop, b)' = Used(loop, b)
    BY <1>1 DEF Used, Load, Loading, Channels, Req, L!Req
  <2> QED
    BY <1>1, <1>2, <2>1 DEF AllReloaded, Reloaded
<1> QED
  BY <1>1, <1>3, <1>4, <1>5, <1>6, <1>7 DEF Inv

LEMMA InvStep == Inv /\ [Next]_vars => Inv'
BY SharedStep, SequentialStep, StutterStep DEF Next, Exited

LEMMA AlwaysInv == Spec => []Inv
<1>1. Init => Inv
  BY InvInit
<1>2. Inv /\ [Next]_vars => Inv'
  BY InvStep
<1> QED
  BY <1>1, <1>2, PTL DEF Spec

-----------------------------------------------------------------------------
(* The theorems                                                            *)

(* The reload of every batch in flight is charged once, two reloads never  *)
(* overlap on a channel, and no report of an instance comes before the     *)
(* reload that it waits for begins (__main__.py, Mode B with contention).  *)
THEOREM ReloadsSerialisedCorrect == Spec => []ReloadsSerialised
<1>1. Inv => ReloadsSerialised
  <2> SUFFICES ASSUME Inv
               PROVE  ReloadsSerialised
    OBVIOUS
  <2>1. \A a, b \in reloads : a.chan = b.chan /\ a # b => a.to <= b.from \/ b.to <= a.from
    <3>1. CASE sim.mode = "A"
      BY <3>1 DEF Inv
    <3>2. CASE sim.mode = "B"
      <4> SUFFICES ASSUME NEW a \in reloads, NEW b \in reloads, a.chan = b.chan, a # b
                   PROVE  a.to <= b.from \/ b.to <= a.from
        OBVIOUS
      <4>1. ~Overlap(a, b) /\ {a.to, a.from, b.to, b.from} \subseteq Nat
        BY <3>2 DEF Inv, ChannelsFree, Reload
      <4> QED
        BY <4>1 DEF Overlap
    <3> QED
      BY <3>1, <3>2, SimulationTypes DEF Inv
  <2>2. sim.mode = "B" /\ sim.contention =>
          \A i \in Instances : \A b \in loop.inflight[i] : \A c \in Used(loop, b) : Reloaded(i, b, c)
    BY DEF Inv, AllReloaded
  <2> QED
    BY <2>1, <2>2 DEF ReloadsSerialised, Reloaded
<1> QED
  BY <1>1, AlwaysInv, PTL

(* The merged timeline of Mode B never runs back: "cur is non-decreasing   *)
(* across pops" (__main__.py), although processes wait and jump.           *)
THEOREM ClockForwardCorrect == Spec => ClockForward
<1>1. Inv /\ [Next]_vars => [sim.mode = "B" => loop'.current >= loop.current]_vars
  <2> SUFFICES ASSUME Inv, Next, sim.mode = "B"
               PROVE  loop'.current >= loop.current
    OBVIOUS
  <2>1. CASE \E e \in heap : Shared(e)
    BY <2>1, SharedStep
  <2>2. CASE \E e \in heap : Sequential(e)
    BY <2>2 DEF Sequential
  <2>3. CASE Exited
    <3>1. loop.current \in Nat
      BY DEF Inv, MergedType, LoopType
    <3> QED
      BY <2>3, <3>1 DEF Exited, vars
  <2> QED
    BY <2>1, <2>2, <2>3 DEF Next
<1> QED
  BY <1>1, AlwaysInv, PTL DEF Spec, ClockForward

=============================================================================
