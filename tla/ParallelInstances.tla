-------------------------- MODULE ParallelInstances --------------------------
(***************************************************************************)
(* The two drivers of serving/__main__.py for --parallel-instances: every  *)
(* instance has an ASTRA-Sim process of its own, with a clock of its own.  *)
(* Mode A runs them one after the other.  Mode B merges their reports by   *)
(* time, so that the shared prefix pools see one timeline, and makes up    *)
(* for what the separate processes cannot see: a batch that reloads KV     *)
(* over a channel in use waits, and the wait is added to the clock of its  *)
(* instance.                                                               *)
(*                                                                         *)
(* Schedulers, batches and the router are those of MainLoop.               *)
(***************************************************************************)
EXTENDS Lists, FiniteSetsExt

CONSTANT Simulations

(* The drivers are for instances that do not depend on each other; every   *)
(* request of the dataset may load KV over some channels.                  *)
ASSUME SimulationAssumption ==
  \A x \in Simulations :
    /\ x.mode \in {"A", "B"}
    /\ x.inst \in Seq([role : {"none"}, npus : Nat \ {0}, group : {0}, pp : {1}])
    /\ IsFiniteSet(DOMAIN x.reqs)
    /\ \A r \in DOMAIN x.reqs :
         /\ {x.reqs[r].arrival, x.reqs[r].prompt, x.reqs[r].gen} \subseteq Nat
         /\ IsFiniteSet(DOMAIN x.reqs[r].loads)
         /\ \A c \in DOMAIN x.reqs[r].loads : x.reqs[r].loads[c] \in Nat

VARIABLES
  sim,      \* the cluster and dataset that run, and the mode
  loop,     \* the variables of the driver, the schedulers and the router
  npu,      \* per NPU: the last iteration, what it does, when it reports next
  heap,     \* one report per process that runs
  offset,   \* per instance: waits added to the clock of its process
  free,     \* chan_free: when each channel is free again
  charged,  \* the batches whose reloads were charged
  reloads   \* history: the times at which batches use channels

vars == <<sim, loop, npu, heap, offset, free, charged, reloads>>

L == INSTANCE MainLoop WITH now <- 0, joined <- <<>>

Instances == L!Instances
Req       == L!Req
Start(i)  == L!Start(i)
Channels  == UNION {DOMAIN sim.reqs[r].loads : r \in Req}

(* How long the workload of a batch takes that NPU n is given, in          *)
(* multiples of INTERVAL; the NPUs of an instance end it together.         *)
Durations(n) ==
  IF n = Start(n[1]) THEN {1, 2} ELSE {Greatest(0, npu[Start(n[1])].at - npu[n].at)}
-----------------------------------------------------------------------------
(* Processes *)

(* The NPUs of process i that may be the next to report, when the NPUs are *)
(* at c.                                                                   *)
Earliest(c, i) ==
  LET awake == {n \in L!Reporting(i) : c[n].todo # "sleep"}
  IN  {n \in awake : \A k \in awake : c[n].at <= c[k].at}

(* The iteration that NPU n reports: a new one after a workload, the same  *)
(* one after "pass".                                                       *)
Iteration(n) == npu[n].ran + IF npu[n].todo = "run" THEN 1 ELSE 0

(* NPU n is told to run, wait or sleep, which takes d; the process runs    *)
(* until its next report, whose clock is behind by the waits so far, by    *)
(* one more wait, and is moved to `arrival' if it comes before.            *)
ResumeWithoutPast(n, todo, d, wait, arrival) ==
  \E c \in {[npu EXCEPT ![n] = [ran |-> Iteration(n), todo |-> todo, at |-> npu[n].at + d]]} :
  \E k \in Earliest(c, n[1]) :
    /\ npu' = c
    /\ offset' = [offset EXCEPT ![n[1]] = Greatest(wait, arrival - c[k].at)]
    /\ heap' = {e \in heap : e.npu[1] # n[1]} \cup {[clock |-> c[k].at + offset'[n[1]], npu |-> k]}
Resume(n, todo, d, wait, arrival) ==
  \E c \in {[npu EXCEPT ![n] = [ran |-> Iteration(n), todo |-> todo, at |-> npu[n].at + d]]} :
  \E k \in Earliest(c, n[1]) :
    /\ npu' = c
    /\ offset' = [offset EXCEPT ![n[1]] = Greatest(@ + wait, arrival - c[k].at)]
    /\ heap' = {e \in heap : e.npu[1] # n[1]} \cup {[clock |-> c[k].at + offset'[n[1]], npu |-> k]}

First(i) == [clock |-> 0, npu |-> Start(i)]
-----------------------------------------------------------------------------
(* Reloads *)

(* What batch b of instance i loads over channel c: its requests load      *)
(* their cached prefix with their first batch.                             *)
Loading(m, b, c) ==
  {r \in b.reqs : /\ c \in DOMAIN sim.reqs[r].loads
                  /\ m.left[r] = sim.reqs[r].prompt + sim.reqs[r].gen}
Load(m, b, c) ==
  Cardinality(Pairs([r \in Loading(m, b, c) |-> 1 .. sim.reqs[r].loads[c]]))
Used(m, b) == {c \in Channels : Load(m, b, c) > 0}

(* A channel is used by one batch at a time, in the order of issue; the    *)
(* batch waits for the busiest of its channels.                            *)
WaitFor(m, b)    == Max({0} \cup {free[c] - m.current : c \in Used(m, b)})
FreeAt(m, b, c)  == Greatest(m.current, free[c]) + Load(m, b, c)

KeyBatch(i, b) == <<0, b.id>>
Key(i, b)      == <<i, b.id>>
MustCharge(m, i, b) == sim.contention /\ Used(m, b) # {} /\ Key(i, b) \notin charged

Charge(m, i, b) ==
  /\ charged' = charged \cup {Key(i, b)}
  /\ free' = [c \in Channels |-> IF c \in Used(m, b) THEN FreeAt(m, b, c) ELSE free[c]]
  /\ reloads' = reloads \cup
       {[inst |-> i, id |-> b.id, chan |-> c,
         from |-> Greatest(m.current, free[c]), to |-> free'[c]] : c \in Used(m, b)}
NoCharge == UNCHANGED <<free, charged, reloads>>
-----------------------------------------------------------------------------
(* Handling a report *)

(* Before an answer: what ended is done, and the next batch is scheduled.  *)
Handled(m, n) == L!Scheduled(L!AddDone(m, n, Iteration(n)), n, Iteration(n))

(* NPU n has nothing to do; the process exits with the second one.         *)
Sleeping(m, n) ==
  LET i == n[1]
      done == m.doneNpus[i] \cup {n}
  IN  [m EXCEPT !.doneNpus[i] = done,
                !.doneInst = IF Cardinality(done) >= (IF sim.inst[i].npus = 1 THEN 1 ELSE 2)
                             THEN @ \cup {i} ELSE @]

(* Mode B: the earliest report of all is next.  Nothing is left for an     *)
(* instance when it is empty and the router has nothing for anybody.       *)
IsNext(e) ==
  \A x \in heap : e.clock < x.clock \/ (e.clock = x.clock /\ e.npu[1] <= x.npu[1])
DrainedNow(m, i) == L!IsEmpty(m, i) /\ m.pending = {}
Drained(m, i)    == L!IsEmpty(m, i) /\ m.pending = {} /\ ~L!HasDeferred(m)
NextArrival(m)   == IF m.pending = {} THEN 0 ELSE Min({m.arrival[r] : r \in m.pending})

Shared(e) ==
  LET n == e.npu
      i == n[1]
  IN  /\ sim.mode = "B" /\ IsNext(e)
      /\ \E s \in Handled(L!Route([loop EXCEPT !.current = e.clock]), n) :
         \/ /\ s.batch # L!NoBatch
            /\ loop' = s.m
            /\ \/ MustCharge(s.m, i, s.batch) /\ Charge(s.m, i, s.batch)
               \/ ~MustCharge(s.m, i, s.batch) /\ NoCharge
            /\ \E d \in Durations(n) :
                 Resume(n, "run", d, IF charged' # charged THEN WaitFor(s.m, s.batch) ELSE 0, 0)
         \/ /\ s.batch = L!NoBatch /\ Drained(s.m, i)
            /\ loop' = Sleeping(s.m, n)
            /\ IF i \in loop'.doneInst
               THEN heap' = heap \ {e} /\ UNCHANGED <<npu, offset>>
               ELSE Resume(n, "sleep", 0, 0, 0)
            /\ NoCharge
         \/ /\ s.batch = L!NoBatch /\ ~Drained(s.m, i)
            /\ loop' = s.m
            /\ Resume(n, "wait", 1, 0, NextArrival(s.m))
            /\ NoCharge
      /\ UNCHANGED sim

(* Mode A: everything was routed before the first process started.         *)
Sequential(e) ==
  LET n == e.npu
      i == n[1]
  IN  /\ sim.mode = "A"
      /\ \E s \in Handled([loop EXCEPT !.current = e.clock], n) :
         \/ /\ s.batch # L!NoBatch
            /\ loop' = s.m
            /\ \E d \in Durations(n) : Resume(n, "run", d, 0, 0)
         \/ /\ s.batch = L!NoBatch /\ L!IsEmpty(s.m, i)
            /\ loop' = Sleeping(s.m, n)
            /\ IF i \in loop'.doneInst
               THEN /\ heap' = {First(j) : j \in {i + 1} \cap Instances}
                    /\ UNCHANGED <<npu, offset>>
               ELSE Resume(n, "sleep", 0, 0, 0)
         \/ /\ s.batch = L!NoBatch /\ ~L!IsEmpty(s.m, i)
            /\ loop' = s.m
            /\ Resume(n, "wait", 1, 0, 0)
      /\ NoCharge /\ UNCHANGED sim

Exited == heap = {} /\ UNCHANGED vars

(* Every process starts with the event handler as iteration 0.             *)
RoutedAll(m) == [L!Route([m EXCEPT !.current = Max({m.arrival[r] : r \in Req})]) EXCEPT !.current = 0]
Init ==
  /\ sim \in Simulations
  /\ loop = IF sim.mode = "A" THEN RoutedAll(L!Fresh) ELSE L!Fresh
  /\ npu = [n \in L!Npus |-> [ran |-> -1, todo |-> "run", at |-> 0]]
  /\ heap = {First(i) : i \in IF sim.mode = "A" THEN {1} ELSE Instances}
  /\ offset = [i \in Instances |-> 0]
  /\ free = [c \in Channels |-> 0]
  /\ charged = {} /\ reloads = {}

Next == (\E e \in heap : Shared(e) \/ Sequential(e)) \/ Exited

Spec == Init /\ [][Next]_vars

(* The processes go on computing.                                          *)
FairSpec == Spec /\ WF_vars(Next)
-----------------------------------------------------------------------------
(* Properties *)

(* "cur is non-decreasing across pops": with waits and jumps of single     *)
(* processes in it too, the merged timeline of Mode B never runs back.     *)
ClockForward == [][sim.mode = "B" => loop'.current >= loop.current]_vars

(* The reload of every batch in flight is charged once, two reloads never  *)
(* overlap on a channel, and no report of an instance comes before the     *)
(* reload that it waits for begins.                                        *)
ReloadsSerialised ==
  /\ \A a, b \in reloads : a.chan = b.chan /\ a # b => a.to <= b.from \/ b.to <= a.from
  /\ sim.mode = "B" /\ sim.contention =>
       \A i \in Instances : \A b \in loop.inflight[i] : \A c \in Used(loop, b) :
         \E a \in reloads :
           /\ a.inst = i /\ a.id = b.id /\ a.chan = c
           /\ \A e \in heap : e.npu[1] = i => e.clock >= a.from

(* Both drivers end, and every request is served: no process exits while   *)
(* its instance is still needed, by a later request of a session too.      *)
RunsToTheEnd == <>(heap = {} /\ loop.finished = Req)
=============================================================================
