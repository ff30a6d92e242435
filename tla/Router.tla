------------------------------- MODULE Router -------------------------------
(***************************************************************************)
(* The router: it holds back the requests of a dataset until they arrive,  *)
(* gives each to an instance, hands computed prompts over to the decode    *)
(* instances, and releases the requests of agentic sessions one by one.    *)
(*                                                                         *)
(* Translated from serving/core/router.py, with the calls the main loop    *)
(* makes to it.  The instances are abstract here: a request of theirs      *)
(* waits or runs, and a running one may complete.  BaseScheduler is what   *)
(* an instance really does.                                                *)
(*                                                                         *)
(* As in BaseScheduler, an operator defined right before another one and   *)
(* named after it (NotifyEarly before Notify) is a plausible mistake in it *)
(* and not used.                                                           *)
(*                                                                         *)
(* Request <<s, k>> is the k-th request of row s of the dataset, from 0:   *)
(* the id the code gives it is id_base + k.  A list index of the code is   *)
(* one less than the position here.                                        *)
(***************************************************************************)
EXTENDS Lists

CONSTANT Simulations   \* datasets with their cluster and routing policy

(* A line of the dataset: an independent request, or a session with the    *)
(* tool time after each of its requests.                                   *)
RowType == [agentic : BOOLEAN, arrival : Nat, tools : Seq(Nat),
            target : Nat]   \* target_instance + 1, or 0 when it has none

SimulationType ==
  [rows      : Seq(RowType),
   policy    : {"RR", "RAND", "LOAD", "CUSTOM"},
   pdType    : Seq({"none", "prefill", "decode"}),  \* of each instance
   numSeqs   : Seq(Nat),       \* max_num_seqs of each instance, 0 = endless
   preRouted : BOOLEAN]        \* Mode A: everything is routed before the run

ASSUME SimulationAssumption ==
  \A x \in Simulations :
    /\ x \in SimulationType
    /\ Len(x.numSeqs) = Len(x.pdType)
    /\ \A s \in DOMAIN x.rows : ~x.rows[s].agentic => Len(x.rows[s].tools) = 1
    /\ \E i \in DOMAIN x.pdType : x.pdType[i] # "decode"
    /\ (\E i \in DOMAIN x.pdType : x.pdType[i] = "prefill")
         => \E i \in DOMAIN x.pdType : x.pdType[i] = "decode"

VARIABLES
  sim,        \* the simulation that runs, one of Simulations
  now,        \* the cycle of the last report
  routing,    \* route_arrived_requests is running
  pending,    \* _pending_requests
  idx,        \* _pending_idx
  deferred,   \* the keys of _deferred_sessions
  nextIndex,  \* next_index of every session
  owner,      \* the keys of _request_to_session
  rr,         \* prefill_rr_counter, decode_rr_counter
  instance,   \* Request.instance_id, 0 before routing
  waiting,    \* the requests in Scheduler.request, per instance
  running,    \* the requests in Scheduler.inflight, per instance
  finished    \* requests counted in req_cnt

sessionState == <<deferred, nextIndex, owner>>
queues == <<waiting, running>>
vars == <<sim, now, routing, pending, idx, deferred, nextIndex, owner, rr, instance,
          waiting, running, finished>>
-----------------------------------------------------------------------------
Rows       == DOMAIN sim.rows
Tools(s)   == sim.rows[s].tools
Length(s)  == Len(Tools(s))
Requests   == UNION {{s} \X (0 .. Length(s) - 1) : s \in Rows}
Instances  == DOMAIN sim.pdType
Roles      == {"prefill", "decode"}

(* prefill_schedulers, decode_schedulers *)
Schedulers(role) ==
  Keep([i \in Instances |-> i], {i \in Instances : sim.pdType[i] = "decode" <=> role = "decode"})

Unrouted == {pending[i].req : i \in idx + 1 .. Len(pending)}
AtInstances == UNION {waiting[i] \cup running[i] : i \in Instances}

-----------------------------------------------------------------------------
(* Selection of an instance: c is its index in the list of schedulers. *)

(* _least_load_select: the smallest (4 waiting + running) / max_num_seqs,  *)
(* the first one from the counter on when several have it.                 *)
RawScore(i) == 4 * Cardinality(waiting[i]) + Cardinality(running[i])
Capacity(i) == IF sim.numSeqs[i] = 0 THEN 1 ELSE sim.numSeqs[i]
Lighter(i, j) == RawScore(i) * Capacity(j) < RawScore(j) * Capacity(i)
Offset(role, c) ==
  LET n == Len(Schedulers(role)) IN ((c - (rr[role] % n)) + n) % n
LeastLoaded(role, c) ==
  \A b \in 0 .. Len(Schedulers(role)) - 1 :
    LET i == Schedulers(role)[c + 1]
        j == Schedulers(role)[b + 1]
    IN  b # c => \/ Lighter(i, j)
                 \/ ~Lighter(j, i) /\ Offset(role, c) < Offset(role, b)

SelectsAgain(role, c) ==
  UNCHANGED rr /\ (sim.policy = "RAND" \/ c = rr[role] % Len(Schedulers(role)))
(* _select_instance *)
Selects(role, c) ==
  LET n == Len(Schedulers(role))
  IN  \/ /\ sim.policy \in {"RR", "CUSTOM"}
         /\ c = rr[role] % n
         /\ rr' = [rr EXCEPT ![role] = c + 1]
      \/ sim.policy = "RAND" /\ UNCHANGED rr
      \/ /\ sim.policy = "LOAD"
         /\ LeastLoaded(role, c)
         /\ rr' = [rr EXCEPT ![role] = (c + 1) % n]

(* Request r enters the queue of scheduler c of the role. *)
Placed(role, c, r) ==
  LET i == Schedulers(role)[c + 1]
  IN  /\ waiting' = [waiting EXCEPT ![i] = @ \cup {r}]
      /\ instance' = [instance EXCEPT ![r] = i]

-----------------------------------------------------------------------------
(* route_arrived_requests: every report of an NPU begins with it, and what *)
(* the instances do comes between two calls.  Mode A calls it once, with   *)
(* an endless time, before the run.                                        *)

(* Time is compared with arrivals only: it passes while one is ahead. *)
Report ==
  /\ ~routing /\ ~sim.preRouted
  /\ idx < Len(pending) \/ AtInstances # {}
  /\ routing' = TRUE
  /\ \/ UNCHANGED now
     \/ /\ idx < Len(pending) /\ pending[idx + 1].arrival > now
        /\ now' = now + 1
  /\ UNCHANGED <<sim, pending, idx, sessionState, rr, instance, queues, finished>>

(* The next entry of the list has arrived. *)
Arrived == idx < Len(pending) /\ (sim.preRouted \/ pending[idx + 1].arrival <= now)

RouteEnd ==
  /\ routing /\ ~Arrived
  /\ routing' = FALSE
  /\ UNCHANGED <<sim, now, pending, idx, sessionState, rr, instance, queues, finished>>

RouteNext ==
  /\ routing /\ Arrived
  /\ \E c \in 0 .. Len(Schedulers("prefill")) - 1 :
       LET r      == pending[idx + 1].req
           target == sim.rows[r[1]].target
       IN  /\ IF sim.policy = "CUSTOM" /\ target # 0
              THEN c = (target - 1) % Len(Schedulers("prefill")) /\ UNCHANGED rr
              ELSE Selects("prefill", c)
           /\ Placed("prefill", c, r)
  /\ idx' = idx + 1
  /\ UNCHANGED <<sim, now, routing, pending, sessionState, running, finished>>

-----------------------------------------------------------------------------
(* notify_request_completed *)

InsertedLeft(entry) ==
  LET lo == Cardinality({i \in DOMAIN pending : pending[i].arrival < entry.arrival})
  IN  SubSeq(pending, 1, lo) \o <<entry>> \o SubSeq(pending, lo + 1, Len(pending))
InsertedLast(entry) == Append(pending, entry)
(* _insert_pending_sorted: behind the entries of the rest of the list that *)
(* arrive no later.                                                        *)
Inserted(entry) ==
  LET lo == idx + Cardinality({i \in idx + 1 .. Len(pending) : pending[i].arrival <= entry.arrival})
  IN  SubSeq(pending, 1, lo) \o <<entry>> \o SubSeq(pending, lo + 1, Len(pending))

NotifyUnchecked(r) ==
  LET s    == r[1]
      next == nextIndex[s]
  IN  IF r \notin owner THEN UNCHANGED <<pending, sessionState>>
      ELSE /\ pending' = Inserted([req |-> <<s, next>>, arrival |-> now + Tools(s)[r[2] + 1]])
           /\ owner' = (owner \ {r}) \cup {<<s, next>>}
           /\ nextIndex' = [nextIndex EXCEPT ![s] = next + 1]
           /\ UNCHANGED deferred
NotifyEarly(r) ==
  LET s    == r[1]
      next == nextIndex[s]
  IN  IF r \in owner /\ next < Length(s)
      THEN /\ pending' = Inserted([req |-> <<s, next>>, arrival |-> now + Tools(s)[r[2] + 1]])
           /\ owner' = (owner \ {r}) \cup {<<s, next>>}
           /\ nextIndex' = [nextIndex EXCEPT ![s] = next + 1]
           /\ deferred' = IF next + 1 = Length(s) THEN deferred \ {s} ELSE deferred
      ELSE owner' = owner \ {r} /\ UNCHANGED <<pending, nextIndex, deferred>>
NotifyOnce(r) ==
  LET s    == r[1]
      next == nextIndex[s]
  IN  IF r \in owner /\ s \in deferred /\ next < Length(s)
      THEN /\ pending' = Inserted([req |-> <<s, next>>, arrival |-> now + Tools(s)[r[2] + 1]])
           /\ owner' = owner \ {r}
           /\ nextIndex' = [nextIndex EXCEPT ![s] = next + 1]
           /\ UNCHANGED deferred
      ELSE UNCHANGED <<pending, sessionState>>
(* The session ends with the call that finds nothing left to release. *)
Notify(r) ==
  LET s    == r[1]
      next == nextIndex[s]
  IN  IF r \notin owner THEN UNCHANGED <<pending, sessionState>>
      ELSE IF s \notin deferred
      THEN owner' = owner \ {r} /\ UNCHANGED <<pending, deferred, nextIndex>>
      ELSE IF next < Length(s)
      THEN /\ pending' = Inserted([req |-> <<s, next>>, arrival |-> now + Tools(s)[r[2] + 1]])
           /\ owner' = (owner \ {r}) \cup {<<s, next>>}
           /\ nextIndex' = [nextIndex EXCEPT ![s] = next + 1]
           /\ UNCHANGED deferred
      ELSE /\ owner' = owner \ {r}
           /\ deferred' = deferred \ {s}
           /\ UNCHANGED <<pending, nextIndex>>

-----------------------------------------------------------------------------
(* The instances, as far as the router sees them *)

(* A waiting request becomes part of a batch; a batch ends and puts an     *)
(* unfinished request back.                                                *)
Start(i, r) ==
  /\ ~routing
  /\ r \in waiting[i]
  /\ waiting' = [waiting EXCEPT ![i] = @ \ {r}]
  /\ running' = [running EXCEPT ![i] = @ \cup {r}]
  /\ UNCHANGED <<sim, now, routing, pending, idx, sessionState, rr, instance, finished>>
PutBack(i, r) ==
  /\ ~routing
  /\ r \in running[i]
  /\ running' = [running EXCEPT ![i] = @ \ {r}]
  /\ waiting' = [waiting EXCEPT ![i] = @ \cup {r}]
  /\ UNCHANGED <<sim, now, routing, pending, idx, sessionState, rr, instance, finished>>

(* A request ends: on a prefill instance it goes on to a decode instance   *)
(* (transfer_prefill_request), elsewhere the router is notified.           *)
HandOverLost(i, r) ==
  /\ ~routing
  /\ sim.pdType[i] = "prefill" /\ r \in running[i]
  /\ running' = [running EXCEPT ![i] = @ \ {r}]
  /\ UNCHANGED <<sim, now, routing, pending, idx, sessionState, rr, instance, waiting, finished>>
HandOverNotified(i, r) ==
  /\ ~routing
  /\ sim.pdType[i] = "prefill" /\ r \in running[i]
  /\ running' = [running EXCEPT ![i] = @ \ {r}]
  /\ \E c \in 0 .. Len(Schedulers("decode")) - 1 :
       Selects("decode", c) /\ Placed("decode", c, r)
  /\ Notify(r)
  /\ UNCHANGED <<sim, now, routing, idx, finished>>
HandOver(i, r) ==
  /\ ~routing
  /\ sim.pdType[i] = "prefill" /\ r \in running[i]
  /\ running' = [running EXCEPT ![i] = @ \ {r}]
  /\ \E c \in 0 .. Len(Schedulers("decode")) - 1 :
       Selects("decode", c) /\ Placed("decode", c, r)
  /\ UNCHANGED <<sim, now, routing, pending, idx, sessionState, finished>>
Finish(i, r) ==
  /\ ~routing
  /\ sim.pdType[i] # "prefill" /\ r \in running[i]
  /\ running' = [running EXCEPT ![i] = @ \ {r}]
  /\ finished' = finished \cup {r}
  /\ Notify(r)
  /\ UNCHANGED <<sim, now, routing, idx, rr, instance, waiting>>

-----------------------------------------------------------------------------
(* load_requests: the first request of every row, sorted by arrival; rows  *)
(* with the same arrival stay in order, rows without a request are skipped.*)
LoadedRows == {s \in Rows : Length(s) > 0}
Loads(p) ==
  \A i, j \in DOMAIN p : i < j =>
    \/ sim.rows[p[i]].arrival < sim.rows[p[j]].arrival
    \/ sim.rows[p[i]].arrival = sim.rows[p[j]].arrival /\ p[i] < p[j]

Init ==
  /\ sim \in Simulations
  /\ now = 0
  /\ routing = TRUE
  /\ \E p \in Arrangements(LoadedRows) :
       /\ Loads(p)
       /\ pending = [i \in DOMAIN p |-> [req |-> <<p[i], 0>>, arrival |-> sim.rows[p[i]].arrival]]
  /\ idx = 0
  /\ deferred = {s \in LoadedRows : sim.rows[s].agentic}
  /\ nextIndex = [s \in Rows |-> IF Length(s) > 0 THEN 1 ELSE 0]
  /\ owner = {<<s, 0>> : s \in deferred}
  /\ rr = [role \in Roles |-> 0]
  /\ instance = [r \in Requests |-> 0]
  /\ waiting = [i \in Instances |-> {}]
  /\ running = [i \in Instances |-> {}]
  /\ finished = {}

(* The drivers leave their loops: no instance has a request left and, when *)
(* not all was routed before the run, the router has none either.          *)
Stopped ==
  /\ ~routing /\ AtInstances = {}
  /\ sim.preRouted \/ (idx = Len(pending) /\ deferred = {})
  /\ UNCHANGED vars

SomeStart == \E i \in Instances : \E r \in waiting[i] : Start(i, r)
SomeEnd   == \E i \in Instances : \E r \in running[i] : HandOver(i, r) \/ Finish(i, r)

Next ==
  \/ Report
  \/ RouteNext
  \/ RouteEnd
  \/ SomeStart
  \/ \E i \in Instances : \E r \in running[i] : PutBack(i, r)
  \/ SomeEnd
  \/ Stopped

Spec == Init /\ [][Next]_vars

(* The main loop goes on and so does time; instances with requests form    *)
(* batches, and among the batches they form again and again some completes *)
(* a request: the run Base checks that of BaseScheduler.  Which request is *)
(* left open.                                                              *)
FairSpec ==
  /\ Spec
  /\ WF_vars(RouteNext) /\ WF_vars(RouteEnd) /\ WF_vars(Report)
  /\ SF_vars(Report /\ now' # now)
  /\ SF_vars(SomeStart) /\ SF_vars(SomeEnd)
-----------------------------------------------------------------------------
(* Properties *)

Entry == [req : Requests, arrival : Nat]

(* Types of the router's state. *)
TypeOK ==
  /\ sim \in Simulations
  /\ now \in Nat
  /\ routing \in BOOLEAN
  /\ pending \in Seq(Entry)
  /\ idx \in 0 .. Len(pending)
  /\ deferred \subseteq Rows
  /\ nextIndex \in [Rows -> Nat]
  /\ owner \subseteq Requests
  /\ rr \in [Roles -> Nat]
  /\ instance \in [Requests -> Instances \cup {0}]
  /\ waiting \in [Instances -> SUBSET Requests]
  /\ running \in [Instances -> SUBSET Requests]
  /\ finished \subseteq Requests

(* Every request is in exactly one place: held back by its session, in the *)
(* part of the pending list that is not routed, with one instance in one   *)
(* of its two lists, or finished.  A released request that is inserted     *)
(* before _pending_idx, routed twice or left with two instances by the     *)
(* hand-over would show here.                                              *)
Released(s) == {s} \X (0 .. nextIndex[s] - 1)
RoutedOnce ==
  /\ \A i, j \in idx + 1 .. Len(pending) : pending[i].req = pending[j].req => i = j
  /\ \A i, j \in Instances : i # j =>
       (waiting[i] \cup running[i]) \cap (waiting[j] \cup running[j]) = {}
  /\ \A i \in Instances : waiting[i] \cap running[i] = {}
  /\ UNION {Released(s) : s \in Rows} = Unrouted \cup AtInstances \cup finished
  /\ Unrouted \cap (AtInstances \cup finished) = {}
  /\ AtInstances \cap finished = {}

(* The requests of a session run one after the other: all before the one   *)
(* released last are finished, and it is the only one of its session the   *)
(* router still waits for.                                                 *)
OneAtATime ==
  \A s \in Rows : \A k \in 0 .. nextIndex[s] - 1 :
    /\ k < nextIndex[s] - 1 => <<s, k>> \in finished
    /\ <<s, k>> \in owner <=> s \in deferred /\ <<s, k>> \notin finished

(* has_deferred_sessions tells the main loop whether it may end: a session *)
(* counts from the start until its last request is finished.               *)
SessionsCounted ==
  \A s \in Rows :
    s \in deferred <=> sim.rows[s].agentic /\ ~({s} \X (0 .. Length(s) - 1) \subseteq finished)

(* The binary search of _insert_pending_sorted and the early end of the    *)
(* routing loop rely on a sorted list, also over what is routed already.   *)
PendingSorted ==
  ~sim.preRouted => \A i, j \in DOMAIN pending : i < j => pending[i].arrival <= pending[j].arrival

(* Round robin without decode instances: the instances have had the same   *)
(* number of requests, give or take one.                                   *)
Assigned(i) == {r \in Requests : instance[r] = i}
RoundRobinEven ==
  sim.policy = "RR" /\ (\A i \in Instances : sim.pdType[i] = "none") =>
    \A i, j \in Instances : Cardinality(Assigned(i)) <= Cardinality(Assigned(j)) + 1

(* All requests are served, the follow-ups of sessions included: "so       *)
(* schedulers[*].done is populated exactly as single-process would"        *)
(* (run_parallel_instances).                                               *)
AllServed == <>(finished = Requests)

(* The promise of Sessions: a request is open from its release until it is *)
(* finished, whatever happens to it in between.                            *)
Promise == INSTANCE Sessions WITH
  Workloads <- {[s \in DOMAIN x.rows |-> Len(x.rows[s].tools)] : x \in Simulations},
  lengths   <- [s \in Rows |-> Length(s)],
  open      <- Unrouted \cup AtInstances,
  complete  <- finished
KeepsPromise == Promise!Spec
=============================================================================
