------------------------------ MODULE MainLoop ------------------------------
(***************************************************************************)
(* The main loop of serving/__main__.py: one ASTRA-Sim process reports for *)
(* all NPUs, and each report is answered with a workload, "pass", "done"   *)
(* or "exit".  Instances may form data-parallel groups, whose batches run  *)
(* together, or be prefill and decode instances.                           *)
(*                                                                         *)
(* Schedulers and router are abstract here (BaseScheduler, PrefixScheduler *)
(* and Router have them in detail): a batch is any arrived part of the     *)
(* queue, and a request needs a number of batches.                         *)
(*                                                                         *)
(* One report is one action.  It is a pipeline of operators on a record m  *)
(* of what the loop changes.  An operator defined right before another one *)
(* and named after it is a plausible mistake in it and not used.           *)
(***************************************************************************)
EXTENDS Lists, FiniteSetsExt

CONSTANT Simulations

(* Every pipeline stage of an instance has NPUs of its own; requests are   *)
(* numbered from 1 and are handed to decode instances only.                *)
ASSUME MainLoopAssumption ==
  \A s \in Simulations :
    /\ s.inst \in Seq([role : {"none", "prefill", "decode"}, npus : Nat \ {0},
                       group : Nat, pp : Nat \ {0}])
    /\ \A i \in DOMAIN s.inst : s.inst[i].pp <= s.inst[i].npus
    /\ DOMAIN s.reqs \subseteq Nat \ {0}
    /\ \A r \in DOMAIN s.reqs :
         /\ {s.reqs[r].arrival, s.reqs[r].prompt, s.reqs[r].gen} \subseteq Nat
         /\ \A i \in DOMAIN s.inst : s.reqs[r].decode = i => s.inst[i].role = "decode"

VARIABLES
  sim,      \* the cluster and dataset that run
  now,      \* the cycle ASTRA-Sim has reached
  loop,     \* the variables of the loop, its schedulers and its router
  npu,      \* ASTRA-Sim: what each NPU has to do, and how many workloads it ran
  joined    \* ASTRA-Sim: the NPUs that were handed each workload

vars == <<sim, now, loop, npu, joined>>
-----------------------------------------------------------------------------
Instances  == DOMAIN sim.inst
Role(i)    == sim.inst[i].role           \* "none", "prefill" or "decode"
Group(i)   == sim.inst[i].group          \* dp_group, 0 for none
Members(g) == {i \in Instances : Group(i) = g}   \* dp_groups
Groups     == {Group(i) : i \in Instances} \ {0}
Req        == DOMAIN sim.reqs
Arrival(r) == sim.reqs[r].arrival        \* of a follow-up: the tool time before it
After(r)   == sim.reqs[r].after          \* the request it follows in its session, or 0

(* The first NPU of an instance and the last one report to the loop; a     *)
(* prefill instance has twice as many NPUs.                                *)
Reporting(i) ==
  {<<i, 1>>} \cup (IF sim.inst[i].npus > 1 \/ Role(i) = "prefill" THEN {<<i, 2>>} ELSE {})
Npus == UNION {Reporting(i) : i \in Instances}
Start(i) == <<i, 1>>

(* Names of generated workloads. *)
Own(i, id)  == <<"instance", i, id>>
Wave(g, id) == <<"dp", g, id>>
Event == <<"event", 0, 0>>
Nothing == <<"none", 0, 0>>

(* The other lines of the protocol. *)
Pass == <<"pass", 0, 0>>
Done == <<"done", 0, 0>>
Exit == <<"exit", 0, 0>>

MaxInstances == 3    \* that the simulations have

NoBatch == [id |-> -1, reqs |-> {}, fired |-> {}, end |-> {}]
-----------------------------------------------------------------------------
(* The queue of instance i becomes S. *)
Queued(m, i, S) ==
  [m EXCEPT !.queue = [j \in Instances |-> IF j = i THEN S ELSE m.queue[j]]]

(* Router: what has arrived goes to its instance; the loop ends when       *)
(* nothing is pending and no session has a request left.                   *)
Route(m) ==
  LET come == {r \in m.pending : m.arrival[r] <= m.current}
  IN  [m EXCEPT !.pending = @ \ come,
                !.queue = [i \in Instances |-> m.queue[i] \cup {r \in come : sim.reqs[r].inst = i}]]

InSession(r) == After(r) # 0 \/ \E q \in Req : After(q) = r
HasDeferred(m) == \E r \in Req \ m.finished : InSession(r)

(* Finished requests are counted and release what follows them; prompts    *)
(* computed on a prefill instance go to the decode instance.               *)
Completed(m, S) ==
  LET next == {r \in Req : After(r) \in S}
  IN  [m EXCEPT !.finished = @ \cup S, !.pending = @ \cup next,
                !.arrival = [r \in Req |-> IF r \in next THEN m.current + Arrival(r) ELSE m.arrival[r]]]
Transferred(m, S) ==
  [m EXCEPT !.queue = [i \in Instances |-> m.queue[i] \cup {r \in S : sim.reqs[r].decode = i}]]

(* Scheduler.add_done: the batch before iteration `id' ends with the       *)
(* second of its two reports.                                              *)
AddDone(m, n, id) ==
  LET i     == n[1]
      found == {b \in m.inflight[i] : b.id = id - 1 /\ n \notin b.end}
      b     == CHOOSE x \in found : TRUE
      left  == [r \in Req |-> m.left[r] - IF r \in b.reqs THEN 1 ELSE 0]
      over  == {r \in b.reqs : left[r] <= IF Role(i) = "prefill" THEN sim.reqs[r].gen ELSE 0}
      done  == Queued([m EXCEPT !.inflight[i] = @ \ {b}, !.left = left],
                      i, m.queue[i] \cup (b.reqs \ over))
  IN  IF found = {} THEN m
      ELSE IF b.end \cup {n} # Reporting(i)
           THEN [m EXCEPT !.inflight[i] = (@ \ {b}) \cup {[b EXCEPT !.end = b.end \cup {n}]}]
      ELSE IF Role(i) = "prefill" THEN Transferred(done, over) ELSE Completed(done, over)

(* Scheduler.schedule: on the first NPU a new batch of what has arrived,   *)
(* unless the pipeline is full; on the last one the batch of its iteration. *)
NewBatches(m, n) ==
  LET i == n[1]
      arrived == {r \in m.queue[i] : m.arrival[r] <= m.current}
  IN  IF arrived = {} \/ Cardinality(m.inflight[i]) >= sim.inst[i].pp THEN {NoBatch}
      ELSE {[id |-> m.batchIds[i], reqs |-> S, fired |-> {n}, end |-> {}]
            : S \in (SUBSET arrived) \ {{}}}
           \cup (IF m.inflight[i] = {} THEN {} ELSE {NoBatch})
Scheduled(m, n, id) ==
  LET i     == n[1]
      found == {b \in m.inflight[i] : b.id = id /\ n \notin b.fired}
  IN  IF n = Start(i)
      THEN {[batch |-> b,
             m |-> IF b = NoBatch THEN m
                   ELSE Queued([m EXCEPT !.inflight[i] = @ \cup {b}, !.batchIds[i] = @ + 1],
                               i, m.queue[i] \ b.reqs)] : b \in NewBatches(m, n)}
      ELSE IF found = {} THEN {[batch |-> NoBatch, m |-> m]}
      ELSE {[batch |-> b, m |-> [m EXCEPT !.inflight[i] =
              (@ \ {b}) \cup {[b EXCEPT !.fired = b.fired \cup {n}]}]] : b \in found}
-----------------------------------------------------------------------------
(* The answer *)

(* A dictionary with an entry set, with an entry removed. *)
With(f, x, y)  == [z \in DOMAIN f \cup {x} |-> IF z = x THEN y ELSE f[z]]
Without(f, x) == [z \in DOMAIN f \ {x} |-> f[z]]

Answer(m, line) == [m EXCEPT !.answers = Append(@, line)]
Generated(m, w) == [m EXCEPT !.made = @ \cup {w}]

(* Instance i brings batch number id into the wave of its data-parallel    *)
(* group.  With the last member all batches are padded to the largest and  *)
(* generated under one name; the other members find it ready.              *)
StartWave(m, g, i, wave, w) ==
  Answer(Generated([m EXCEPT !.waves[g] = <<>>,
           !.ready = [j \in DOMAIN m.ready \cup (Members(g) \ {i}) |->
                        IF j \in Members(g) THEN w ELSE m.ready[j]]], w), w)

JoinEarly(m, g, i, wave) == StartWave(m, g, i, wave, Wave(g, wave[Min(DOMAIN wave)]))
Join(m, g, i, wave) ==
  IF DOMAIN wave # Members(g) THEN Answer([m EXCEPT !.waves[g] = wave], Pass)
  ELSE StartWave(m, g, i, wave, Wave(g, wave[Min(Members(g))]))
Joins(m, i, id) == Join(m, Group(i), i, With(m.waves[Group(i)], i, id))

(* No batch for this NPU: a workload that was generated with a wave is     *)
(* handed out; an idle member of a group joins a wave that others have     *)
(* begun with a dummy batch.                                               *)
AnswerIdleAlone(m, n) ==
  LET i == n[1]
  IN  IF i \in DOMAIN m.ready
      THEN Answer([m EXCEPT !.ready = Without(m.ready, i)], m.ready[i])
      ELSE m
AnswerIdle(m, n) ==
  LET i == n[1]
  IN  IF i \in DOMAIN m.ready
      THEN Answer([m EXCEPT !.ready = Without(m.ready, i)], m.ready[i])
      ELSE IF Group(i) # 0 /\ n = Start(i) /\ m.inflight[i] = {} /\ m.waves[Group(i)] # <<>>
      THEN Joins([m EXCEPT !.batchIds[i] = @ + 1], i, m.batchIds[i])
      ELSE m

(* A batch: the first NPU has its workload generated, the last one is sent *)
(* the same name.                                                          *)
AnswerBatchNext(m, n, b) ==
  LET i == n[1]
  IN  IF n # Start(i) THEN Answer(m, Own(i, b.id))
      ELSE IF Group(i) # 0 THEN Joins(m, i, b.id)
      ELSE Answer(Generated(m, Own(i, m.batchIds[i])), Own(i, b.id))
AnswerBatch(m, n, b) ==
  LET i == n[1]
  IN  IF n # Start(i) THEN Answer(m, Own(i, b.id))
      ELSE IF Group(i) # 0 THEN Joins(m, i, b.id)
      ELSE Answer(Generated(m, Own(i, b.id)), Own(i, b.id))

(* An instance is done when nothing can reach it any more; with the last   *)
(* one the simulation ends.                                                *)
IsEmpty(m, i) == m.queue[i] = {} /\ m.inflight[i] = {}
MayEndUnrouted(m, i) ==
  /\ Role(i) # "decode" \/ m.prefillDone
  /\ i \notin m.doneInst
  /\ IsEmpty(m, i)
  /\ ~HasDeferred(m)
MayEndAlone(m, i) ==
  /\ i \notin m.doneInst
  /\ IsEmpty(m, i)
  /\ m.pending = {} /\ ~HasDeferred(m)
MayEnd(m, i) ==
  /\ Role(i) # "decode" \/ m.prefillDone
  /\ i \notin m.doneInst
  /\ IsEmpty(m, i)
  /\ m.pending = {} /\ ~HasDeferred(m)
GroupEmpty(m, i) == \A j \in Members(Group(i)) : IsEmpty(m, j)
PrefillInstances == {i \in Instances : Role(i) = "prefill"}

Ends(m, n) ==
  LET i    == n[1]
      npus == m.doneNpus[i] \cup {n}
      inst == IF Cardinality(npus) = (IF sim.inst[i].npus = 1 THEN 1 ELSE 2)
              THEN m.doneInst \cup {i} ELSE m.doneInst
  IN  Answer([m EXCEPT !.doneNpus[i] = npus, !.doneInst = inst,
                !.prefillDone = @ \/ Cardinality(inst) = Cardinality(PrefillInstances)],
             IF inst = Instances THEN Exit ELSE Done)

Closed(m, n, b) ==
  IF MayEnd(m, n[1]) /\ (Group(n[1]) = 0 \/ GroupEmpty(m, n[1])) THEN Ends(m, n)
  ELSE IF b = NoBatch /\ m.answers = <<>> THEN Answer(m, Pass) ELSE m
-----------------------------------------------------------------------------
(* ASTRA-Sim *)

(* An NPU that was handed a workload runs it; the workload of a wave ends  *)
(* only when all members of the group run it, since they exchange tokens.  *)
CanReport(n) ==
  /\ npu[n].todo # "sleep"
  /\ npu[n].todo # "wait" /\ npu[n].load[1] = "dp" =>
       \A i \in Members(npu[n].load[2]) : \E s \in Reporting(i) : s \in joined[npu[n].load]

Obeys(n, id, line) ==
  LET idle == line \in {Pass, Done, Exit}
  IN  /\ npu' = [npu EXCEPT ![n] =
           [ran |-> id,
            todo |-> IF ~idle THEN "run" ELSE IF line = Pass THEN "wait" ELSE "sleep",
            load |-> IF idle THEN Nothing ELSE line]]
      /\ joined' = IF idle THEN joined
                   ELSE With(joined, line,
                             {n} \cup IF line \in DOMAIN joined THEN joined[line] ELSE {})

(* NPU n reports the last workload it ran, again when it was told "pass".  *)
Report(n) ==
  /\ loop.answers # <<Exit>>
  /\ CanReport(n)
  /\ \E id \in {npu[n].ran + IF npu[n].todo = "run" THEN 1 ELSE 0} :
     \E m \in {AddDone(Route([loop EXCEPT !.answers = <<>>, !.current = now]), n, id)} :
     \E s \in Scheduled(m, n, id) :
       /\ loop' = Closed(IF s.batch = NoBatch THEN AnswerIdle(s.m, n)
                         ELSE AnswerBatch(s.m, n, s.batch), n, s.batch)
       /\ Obeys(n, id, loop'.answers[Len(loop'.answers)])
  /\ UNCHANGED <<sim, now>>

(* Time stops mattering when everything has arrived. *)
Tick ==
  /\ \E r \in loop.pending : loop.arrival[r] > now
  /\ now' = now + 1
  /\ UNCHANGED <<sim, loop, npu, joined>>

(* ASTRA-Sim has left its loop. *)
Exited == loop.answers = <<Exit>> /\ UNCHANGED vars

(* Every NPU starts with the event handler as iteration 0. *)
Fresh ==
  [current |-> 0, pending |-> {r \in Req : After(r) = 0}, arrival |-> [r \in Req |-> Arrival(r)],
   queue |-> [i \in Instances |-> {}], inflight |-> [i \in Instances |-> {}],
   batchIds |-> [i \in Instances |-> 0],
   left |-> [r \in Req |-> sim.reqs[r].prompt + sim.reqs[r].gen], finished |-> {},
   waves |-> [g \in Groups |-> <<>>], ready |-> <<>>, made |-> {},
   doneNpus |-> [i \in Instances |-> {}], doneInst |-> {}, prefillDone |-> FALSE,
   answers |-> <<>>]
Init ==
  /\ sim \in Simulations
  /\ now = 0
  /\ loop = Fresh
  /\ npu = [n \in Npus |-> [ran |-> -1, todo |-> "run", load |-> Event]]
  /\ joined = <<>>

Next == Tick \/ (\E n \in Npus : Report(n)) \/ Exited

Spec == Init /\ [][Next]_vars

(* ASTRA-Sim ends every iteration it can end, polls with every NPU that    *)
(* waits, and time passes.                                                 *)
FairSpec ==
  /\ Spec
  /\ WF_vars(Tick)
  /\ \A i \in 1 .. MaxInstances, k \in 1 .. 2 : WF_vars(<<i, k>> \in Npus /\ Report(<<i, k>>))
-----------------------------------------------------------------------------
(* Properties *)

(* Types of the state; a request is in one place, over the handover from a *)
(* prefill to a decode instance and the release of follow-ups too.         *)
Places(r) ==
  {<<"queue", i>> : i \in {j \in Instances : r \in loop.queue[j]}}
    \cup {<<"batch", i>> : i \in {j \in Instances : \E b \in loop.inflight[j] : r \in b.reqs}}
    \cup {<<"set", k>> : k \in {j \in 1 .. 2 : r \in <<loop.pending, loop.finished>>[j]}}
TypeOK ==
  /\ loop.pending \subseteq Req /\ loop.finished \subseteq Req
  /\ \A r \in Req : Cardinality(Places(r)) <= 1
  /\ \A n \in Npus : npu[n].todo \in {"run", "wait", "sleep"} /\ npu[n].ran \in Nat \cup {-1}
  /\ loop.doneInst \subseteq Instances
  /\ \A i \in Instances : loop.queue[i] \subseteq Req /\ loop.doneNpus[i] \subseteq Reporting(i)

(* The loop and ASTRA-Sim take turns: every report is answered with        *)
(* exactly one line, whichever branches of the loop the report runs        *)
(* through.                                                                *)
AnsweredOnce == Len(loop.answers) <= 1

(* A workload that is handed out has been generated under that name.       *)
WorkloadsExist ==
  \A n \in Npus : npu[n].load \in loop.made \cup {Event, Nothing}

(* Every answer is given once and names work that exists; requests are in  *)
(* one place of the typed state between the answers.                       *)
AnswersExist == TypeOK /\ AnsweredOnce /\ WorkloadsExist

(* "single coordinated wave": two members of a data-parallel group never   *)
(* run different waves at a time, or their exchange of tokens would wait   *)
(* for ever.  (Not so in a group of three: the run DpThree.)               *)
WavesInStep ==
  \A n, k \in Npus :
    npu[n].load[1] = "dp" /\ npu[k].load[1] = "dp" /\ npu[n].load[2] = npu[k].load[2]
      => npu[n].load = npu[k].load

(* add_done knows a batch by the number of the iteration that is reported. *)
(* What the first NPU of an instance runs is in that step, with dummies    *)
(* and workloads made by other members between its own: its number is that *)
(* of a batch in the pipeline, or nothing is in the pipeline.              *)
NumbersInStep ==
  \A i \in Instances :
    npu[Start(i)].load \notin {Event, Nothing} =>
      loop.inflight[i] = {} \/ \E b \in loop.inflight[i] : b.id = npu[Start(i)].ran

(* Members of a group stay in step with each other, and every instance     *)
(* with the numbers of ASTRA-Sim.                                          *)
WavesAligned == WavesInStep /\ NumbersInStep

(* An instance that was told to sleep is never needed again: no request is *)
(* sent to it, no wave of its group waits for it.                          *)
SleepersNotNeeded ==
  \A i \in Instances :
    npu[Start(i)].todo = "sleep" =>
      IsEmpty(loop, i) /\ i \notin DOMAIN loop.ready
        /\ (Group(i) # 0 => loop.waves[Group(i)] = <<>>)

(* Every simulation ends, and then every request is served.                *)
RunsToTheEnd == <>(loop.answers = <<Exit>> /\ loop.finished = Req)
=============================================================================
