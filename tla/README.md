# A TLA+ model of the serving simulator

The repository simulates LLM serving clusters: Python code under
`src/serving` decides which requests run, where, in which batch and on which
memory, and ASTRA-Sim (a submodule, empty at this commit) times every
iteration from a trace the code writes for it.  `src/profiler` measures the
GPU kernels whose times go into these traces.  This directory models the
deciding, the counting and the bookkeeping of both.  It checks with TLC on
small instances what the parts promise, and proves the most important promises
with TLAPS for all instances.

How to run it, from this directory (section 3 lists the runs):

    tlc -workers 2 -config Base.cfg MCBaseScheduler.tla
    tlc -workers 2 -config PrefixSafety.cfg MCPrefixScheduler.tla
    tlapm BaseScheduler_proofs.tla     (and every other module named ..._proofs)

## 1. The system

`serving/__main__.py` reads a cluster file and flags, builds instances, memory
pools and schedulers, starts ASTRA-Sim and enters its loop.  The loop reads
reports from ASTRA-Sim ("NPU s finished iteration i at cycle c"), and answers
each one with a line: a workload to run, `pass` (ask again later), `done`
(sleep) or `exit`.  Between a report and its answer it calls, in this order:

1. `Router.route_arrived_requests`: requests whose arrival time has come go to
   the queue of one scheduler;
2. `Scheduler.add_done`: the batch of iteration `i` is over when the first
   and the last stage of the pipeline have reported it; its requests advance,
   end, or go back to the queue, and the prefix caches learn their KV;
3. `Router.notify_request_completed` (the next request of an agentic session
   is released) and `Router.transfer_prefill_request` (a request whose prompt
   is computed goes to a decode instance);
4. `Scheduler.schedule`: on the first NPU of an instance a new batch is
   formed; the other NPUs pick up the batch whose id they have reached;
5. `generate_trace`: the batch becomes a file of rows, one per layer, with
   times looked up in the profile; the members of a data-parallel group wait
   until all of them have one.

In the main loop nothing runs in parallel, and yet little of it is sequential:
which NPU reports next is up to the simulated hardware, several batches of an
instance are in its pipeline at once, and every step reads counters that older
batches will change when they end.  With `--parallel-instances` there is one
ASTRA-Sim process per instance and a driver that merges their reports.  The
profiler is a separate program whose sessions meet in a folder of CSV files:
they may differ in their arguments, and any of them may be killed.

| component | state | operations | what makes it correct |
|---|---|---|---|
| Scheduler (`core/scheduler.py`) | queue, batches in flight, batch id, per request: computed tokens, chunk length, evicted flag | `schedule_base`, `schedule_with_prefix`, `add_done`, `add_request`, `add_decode` | requests are neither lost nor doubled, limits hold, batches leave in order, everything is served |
| Memory model (`core/memory_model.py`) | bytes used on NPU, CPU and deeper tiers; prefix caches; nodes and locks of requests | allocate, free, evict, spill, match, lock, `make_room_deep_tiers`, `apply_kv_cache_events` | the counters are the KV that exists; nothing needed is evicted; tiers respect capacity and policy |
| Radix cache (`core/radix_tree.py`) | the tree of cached prefixes, lock counts, access times, events | match, insert, split, evict, lock, unlock | sizes agree with the tree, locked paths stay, evictable means unlocked |
| Router (`core/router.py`) | pending list and index, session chains, round-robin counters | load, route, select, release, transfer | each request is routed once and in time; sessions run to their end |
| Main loop (`serving/__main__.py`) | clock, finished NPUs and instances, deferred batches of data-parallel groups | one report | one answer per report, members of a group in step, no early end, no sleeping instance with work to do |
| Parallel drivers (`run_parallel_instances`, `run_parallel_shared`) | a heap of reports, clock offsets, reload channels | one report | one timeline; reloads do not overlap on a channel; nobody exits early |
| Cluster configuration (`core/config_builder.py`, first half of `main`) | instances, NPU ids, network dimensions, memory tiers, placements, pools | read, validate, derive | the ids, the network, the pools and the placements describe one machine |
| Trace generation (`core/trace_generator.py`, `core/gate_function.py`) | the file of a batch, its sub-batches | lookup, interpolate, emit, copy, interleave | a whole forward pass, once; the energy charged is that of the rows |
| Power and PIM models | energies, standby times | charge | no time is charged twice |
| Profiler (`profiler/core`) | CSV files per degree and category, `skew_fit.csv`, `meta.yaml` | sweep, resume, replicate, fit | what is fired runs, nothing measured is lost, what is missing is measured but for what a kill has cut, what is fitted is found |
| Controller (`core/controller.py`) | the pipe | read, write | the line protocol |
| Dashboard, flow tracer, logger, paths; bench; profiler v0; workload generators | output | | not modelled |

The hard behaviours, each with its line, are the `hazards` of `PROJECT.json`.

## 2. The modules

| module | models |
|---|---|
| `Lists` | Python's list idioms (comprehension with a condition, slices, sums of lengths) without recursion |
| `BaseScheduler` | one instance without prefix caching: `schedule_base`, `add_done`, `add_request`, `add_decode` with the KV accounting of `MemoryModel` |
| `RadixTree` | the radix tree of `core/radix_tree.py` as operators on a tree value |
| `PrefixScheduler` | one instance with prefix caching: `schedule_with_prefix` and `add_done` with all tiers; what is as in `schedule_base` comes from an `INSTANCE` of `BaseScheduler` |
| `Sessions` | the promise: sessions are chains of requests that complete one after the other |
| `Router` | `core/router.py` with the calls the drivers make to it; instances are abstract; implements `Sessions` |
| `MainLoop` | one report of the main loop as one action, several instances, data-parallel groups, prefill and decode; and ASTRA-Sim as the loop sees it |
| `ParallelInstances` | Mode A and Mode B of `--parallel-instances`; schedulers and router come from an `INSTANCE` of `MainLoop` |
| `ModelSizes` | weights, KV of a token, activations, PIM latency: the arithmetic of `memory_model.py` |
| `Placements` | placement rules: parsing, merging, `get_device` |
| `ClusterConfig` | `build_cluster_config`: the cluster file node by node |
| `Deployment` | extends it by the first half of `main`: runtime limits, pools, schedulers' memory, processes |
| `Lookups` | the lookups and interpolations in the profile |
| `MoEGate` | `GateRouter.route_ep` |
| `PowerModel` | energies of `power_model.py` |
| `Trace` | `generate_trace` for one batch, and the standby charges that follow it; extends the four above and `Placements` |
| `ProfileGrids` | what the profiler fires: the grids of `categories.py`, the cases of `skew.py`, the limits of `engine.py`, the blocks of `hooks/batch.py` |
| `SkewFit` | `fit_alpha.py` and the skew block of `meta.yaml`, up to its reader in `trace_generator.py` (`Lookups`) |
| `Profiler` | sessions on one folder: runner, sinks, files, replication, kills between and in rows |
| `MC...` | the instances that TLC checks |
| `Lists_proofs` | what the operators of `Lists` return, and what folds over lists keep |
| `BaseScheduler_proofs` | type correctness, `OnePlace`, `SpilledWaits`, `WithinLimits`, `FinishesExactly`, `KvAccounted`, `PipelineFifo` and `QueueInOrder`, for every dataset and all limits |
| `PrefixScheduler_proofs` | type correctness, `FinishesExactly` and `KvAccounted` (radix trees and byte counters) with prefix caching, for every dataset, memory, tiers and policy |
| `Router_proofs` | types, `RoutedOnce`, `OneAtATime`, `SessionsCounted`, `PendingSorted`, `RoundRobinEven` and the refinement of `Sessions`, for every dataset, cluster and policy |
| `ParallelInstances_proofs` | `ReloadsSerialised` and `ClockForward`, for any number of processes and channels |
| `MainLoop_proofs` | `AnswersExist`, `SleepersNotNeeded` and `WavesAligned`, for any instances, groups and requests |
| `Deployment_proofs` | `PlacementServed` and `NpusLaidOut`, for every cluster file and all flags |
| `Profiler_proofs` | `Covered`, `KeepsRows` and `ShotsRun`, for any number of sessions, failing cases and kills, in a row or between two |

Conventions.  A handler of the code is one action.  Long handlers are pipelines
of operators on a record `m` of the variables they change; where the code has a
choice that the model leaves open (which unlocked leaf is evicted) they map `m`
to a set.  `Simulations` (`Inputs`, `Jobs`, `Sessions` of the profiler) is a set
of records with one value per parameter of the program: `Init` picks one, which
never changes, so a run checks many deployments at once and a theorem holds for
all.  An operator that stands before another one and is named after it
(`RequeueBehind` before `Requeue`) is a plausible mistake in it, which the
specification does not use; section 3 says which property finds it.

### BaseScheduler

A simulation is a dataset with one value for every parameter of
`Scheduler.__init__`.  The state is the scheduler's own: `request` (the queue),
`inflight`, and per request `computed`, `chunk` and `evict`; the counters
`npuUsed` and `cpuUsed` of the memory model; and what the scheduler sees of
its surroundings: `now` (the cycle of the last report), `pending` (requests the
router has not handed over) and `iter` (the iteration each NPU has reached).

| action | code |
|---|---|
| `AddRequest` | the router calls `add_request`: in arrival order, or all before the run in Mode A (`preRouted`) |
| `AddDecode` | `add_decode` on a decode instance: the whole KV is allocated at once |
| `ScheduleBase` | `schedule_base` on the first NPU: candidates, order, token budget, memory check, preemption, reload, allocation, batch |
| `ScheduleExisting` | `schedule_base` on another NPU |
| `Report` | `add_done` when the batch still waits for a report |
| `AddDone` | `add_done` when it does not: requests advance, end, or go back to the queue |
| `Tick` | time passes; it stops mattering after the last arrival |
| `Stopped` | all done, or a `RuntimeError` ended the run (`failed`) |

`ScheduleBase` is one call.  The preemption loop of the code looks at the
decodes from the back and stops at the first that makes room: `m` is how many
it looked at, `Victims` those it spilled, `Limit` the length the batch was cut
to, `n` the number of requests that finally fit.

Abstractions, all on data:

- Memory is counted in KV blocks.  A block of one rank has
  `block_size * get_kv(1)` bytes and both factors are fixed during a run.
  `npuUsed` leaves out the weight.  `cpuUsed` counts what the code adds per
  evicted request: the blocks of one rank times `num_npus`.
- NPUs are the first and the last of the instance, the two that report.
  `LastNpu` stands for `start_npu + num_npus - 1`, and on a prefill instance
  for the `start_npu + 2 * num_npus - 1` of line 739.
- ASTRA-Sim is the choice of the NPU that reports next.
- The clock is only compared with arrival times, so it stops after the last
  one.
- Latency statistics, logging and the numbers that a batch carries for the
  trace generator are left out.

Bounds: `MCReq` has three requests, numbered as they arrive, `MCSimulations` five
deployments with prompts of one to four tokens, up to four generated tokens and
arrivals at 0, 1 and 2: few combinations, since section 4 proves the safety
properties for any work and liveness is checked on the same graph.  Blocks have two tokens, so that a step may or may not open a new
block; three to five NPU blocks hold one long request or two short ones, so that
preemption, reload, refusal and a full host all occur; two stages and two
NPUs let batches overlap.  Three requests are the least with a batch running,
one preempted and one waiting.  No action has an artificial bound: the state
space is finite because requests end.

Fairness: `FairSpec` assumes `WF_vars(Next)` and no more: the loop of
`__main__.py` answers every report and ASTRA-Sim ends every iteration, so some
step is always taken.  No step is preferred to another.

### Router and Sessions

A simulation is: the rows of a dataset (independent
requests, and sessions with the tool time after each request), the routing
policy, and for every instance its role and `max_num_seqs`.  The state is the
router's: the list `pending` with `idx` (`_pending_requests`, `_pending_idx`),
the sessions (`deferred`, `nextIndex`), the requests that belong to one
(`owner`, the keys of `_request_to_session`) and the two counters `rr`.  The
instances are abstract: two sets of requests each, `waiting` and `running`,
which is all that the least-loaded policy reads.

| action | code |
|---|---|
| `Report` | a report arrives: the clock moves on and `route_arrived_requests` is called (`routing`) |
| `RouteNext` | one turn of its loop: select an instance, `add_request`, advance `_pending_idx` |
| `RouteEnd` | the loop ends: the next entry has not arrived |
| `Start`, `PutBack` | a batch takes a request from the queue, `add_done` puts an unfinished one back |
| `HandOver` | a request ends on a prefill instance: `transfer_prefill_request` |
| `Finish` | a request ends elsewhere: it is counted and `notify_request_completed` releases the next of its session (`_insert_pending_sorted`) or ends the session |
| `Stopped` | the driver leaves its loop |

Abstractions:

- Request `<<s, k>>` has the id `id_base + k` in the code; ids of different rows
  do not collide because `_next_request_id` only grows.
- Between two calls of `route_arrived_requests` the instances may do any number
  of things in any order.  The code does what one report causes; the model
  allows that and more.
- The random policy may choose any instance.
- Scores of the least-loaded policy are compared as fractions.
- In Mode A (`preRouted`) the loop runs once, before everything else, and never
  again.

Bounds: datasets of two to four rows, sessions of none to three requests, arrivals
at 0 to 2 and tool times of 0 to 2 in all combinations, so that a follow-up comes
before, between, together with and after the arrivals; two or three instances, with
one or two decode instances.  Two sessions beside an independent request are the
least at which a follow-up of one is inserted before and behind other
entries.  The clock moves only while an arrival is ahead, so nothing is cut
off.

Fairness: the main loop runs (`RouteNext`, `RouteEnd`, `Report`), time passes,
instances with a queue form batches (`SomeStart`) and some batch completes some
request (`SomeEnd`).  The last two are strong because they are possible only
between two calls of the routing loop and a request may be put back again and
again; `Base` checks of the detailed scheduler that this does end.  Which
request completes is left open.

`Sessions` has two sets, `open` and `complete`, and one action.  `Promise` in
`Router` maps `open` to what is pending and not routed or with an instance, and
`complete` to the finished requests; `KeepsPromise` is checked and proved.

### RadixTree and PrefixScheduler

A tree is a value: its nodes with parent, lock count and whether they are in
the tree, the two sizes `evictable` and `protected`, and the tokens stored and
removed since the events were last taken.  A node is named by its full prefix
and a number, so that a request may hold a node that was evicted or split under
it, as in Python.  `Insert`, `Split`, `IncLock`, `DecLock`, `Delete` are the
methods; `Evictions` and `Collected` are the sets of nodes, and their orders,
that `evict` may remove.  Access times are left out: any unlocked leaf may be
the least recently used, which contains every LRU order.

`PrefixScheduler` has the state of `BaseScheduler`, the tree `npu`, one tree
per lower tier (`tiers`, the host or CXL first, then FLASH, JBOF, COLDSTORE)
and per request what the code keeps on it (`info`: hits, nodes, whether it is
locked).

| action | code |
|---|---|
| `AddRequest` | `add_request` |
| `AddDecode` | `add_decode`: room is made for what the cache lacks, and all of it enters the cache |
| `ScheduleWithPrefix` | `schedule_with_prefix` on the first NPU: `Dealt` (matching, dealing the budget, locking), `Preempted` (the victims), then `Launch` with `FormBatch` (eviction, reload, allocation, parking of the victims, rollback of what was cut off), or `GiveUp` when nothing fits (rollback, and the deadlock check) |
| `ScheduleExisting` | the same on another NPU |
| `Report`, `AddDone` | `add_done`: `EndPhase` per request (the chunk is computed, the cache learns the prompt or moves the lock), `EndRequest` (ends, is handed over or goes back) |
| `Tick`, `Stopped` | as in `BaseScheduler` |

`Spill` is `_evict_tier` with its recursion, `Demote` and `EvictNpu` are
`_evict_npu`, `Apply` is `apply_kv_cache_events`, which makes room before it
counts.  A `RuntimeError` sets `failed` and skips the rest of the handler.
Memory is counted in tokens.  `pooled` says what other instances left in a
shared pool before the run; that they write to it meanwhile is not modelled.

Bounds: two requests out of four prompts that branch inside a page and at its
end; ten deployments (NPU only, private host cache written through or filled by
eviction, two pipeline stages, a host smaller than the KV of one request, a pool
with a deep tier of both policies, CXL, prefill, decode).  Two requests are the
least that share, split and compete; three to six blocks hold one of them or
both; one generated token lets a request end with the decode step that follows a
prompt found whole, three let it be preempted in between.  Nothing else is
bounded.

`FinishesExactly` allows one more token than without caching: a prompt that was
matched whole is not prefilled, its request is scheduled as a decode at once and
one decode step is always counted, also when only one token is to be generated
(`AfterWholeHit`); a decode instance starts every request there.

### MainLoop

`loop` is a record of the variables of the loop, of its schedulers and of its
router, as far as the answers depend on them; `npu` and `joined` are ASTRA-Sim:
what every NPU was told, how many workloads it ran, and who has been handed
each workload.

| action | code |
|---|---|
| `Report(n)` | one turn of the loop: `Route`, `AddDone`, `Scheduled`, then `AnswerBatch` (trace written, or the member joins its wave) or `AnswerIdle` (a ready wave, a dummy batch, `pass`), then `Closed` (the `done` and `exit` part), and what the NPU does with the answer (`Obeys`) |
| `Tick` | time passes while a request has not arrived |
| `Exited` | ASTRA-Sim has left its loop |

Instances are reduced to a queue, the batches in flight and the number of
batches each request still needs; a batch is any part of the arrived queue.  The
first and the last NPU report; one that is told to wait asks again.  The
workload of a wave ends only when every member runs it (`CanReport`), because
its collectives span the group.  Bounds: one to three instances, one to three
requests of one to three batches; time ends with the last arrival.

Fairness: every NPU that can report does (`FairSpec`: weak fairness of each
`Report(n)` and of `Tick`).  ASTRA-Sim ends what it can end and polls with
every NPU that waits; the loop answers each line it reads.

### ParallelInstances

The schedulers, the routing and the batches are the operators of `MainLoop`,
taken by `INSTANCE`.  New are `heap` (one report per running process), `offset`
(the waits added to the clock of an instance), `free` and `charged` (the reload
channels).  `Shared(e)` is one turn of `run_parallel_shared`, `Sequential(e)`
one of `run_parallel_instances`.  A workload takes any number of intervals from
a set that depends on the batch; `reloads` is a history of channel use.  Bounds:
two and three processes, of one and two NPUs, loads of one to three intervals on
two channels, a session across instances.  Fairness: `WF_vars(Next)`.

### ModelSizes, Placements, ClusterConfig and Deployment

Start-up is a sequence of phases: `ConfigNext` reads the file node by node and
ends in `built`; `ResolveRuntime`, `BuildPools`, `StartSchedulers` and
`StartProcesses` are the steps of `main`; every check that raises leads to
`error`.  The interesting part is not the order but the inputs: `MCInputs` has
thousands of files and flags - parallelism given in part, inconsistently or not
at all; pairs and triples of instances with groups, roles and driver choices; CPU
memory per node and per instance with tiers and scopes; placement rules of all
levels with unknown and missing devices; and files that must be refused.  `InputAssumption` says no more than
that the file's reader hands over lists, and whole numbers where a degree is given:
negative, zero and contradicting ones are for the checks to refuse, and a cluster
without an instance ends in `error` (`_compute_network_dims` divides by it).  Block
names in the file (memory, CXL, tiers) are `None`, incomplete or a size.  Sizes
are chosen to divide evenly where the code keeps floats.  The text of the files
written for ASTRA-Sim is not modelled, their content is (`cluster.memory`,
`dims`, `PerInstance`).

### Lookups, MoEGate, PowerModel and Trace

A job is a batch on an instance with its flags.  `Begin` builds the contexts
(`_build_trace_ctx`, `_build_batch_ctx`, `_make_sub_batch`, the PIM load
balancer); then per part of the trace `StartPart`, `EmitNext` (one layer:
lookup, placement, rows, charges) and `WritePart` (the copies of a block);
`WriteFile` adds the load and evict rows, `Finish` charges the batch, and
`Report` is a poll of the idle instance with its standby charge.  In a block, a
layer of the catalog without a table is left out; the prologue and the head are
emitted without that test, so an unmeasured layer there ends the run
(`EmitRaises`; the model `old` has a profile without the sampler).  Whether a
request's prompt was computed and its `is_init` are independent: a decode after a
whole prefix hit still has `is_init` (`WholeHit`), a chunk under `--skip-prefill`
has lost it (`SkipPrefill`), and the jobs have both, alone and beside other
requests, with and without PIM offloading.  Times are
integers from a small profile whose grid is smaller than the batches, so that
every kind of interpolation and extrapolation happens; fractions are exact; `Log`
is a table.  Bounds: batches of one, two and four requests with chunks and
decodes of unequal length; two and three blocks; tensor, expert and pipeline
parallelism of two; placements of weights per instance, block and layer;
`MaxTime` ends the polls.

### ProfileGrids, SkewFit and Profiler

A session is the arguments of one call.  `Start`, `Boot` (or `BootFails`, which
ends the session at a degree the model cannot be sharded by), `FireCategory` (the
rows on disk, the shots they do not cover, the flush), `SampleSkew`, `MeasureCase` or
`CaseFails` (one skew case, with the flush every `FlushEvery` cases),
`NextDegree`, then for each degree `Replicate` per file of stable layers
(`NextReplica`, `Replicas`), `WriteSkewFitCsv` per degree and `PersistMeta`.  The
engine is `Gpu`, its caps per degree, and `Timing`, what a case takes; timings are
integers, alphas hundredths.  `disk` has for each degree the files that exist; a
row is its key and the degree it was measured at, or `None` where it has something
else than a measurement: the values only matter for the fit.

`Crash` loses what is in memory.  `CrashWriting` also cuts the CSV file that is being
written, since all are written in place through a buffer.  What is left (`Tear`) ends

- between two rows, or is empty;
- in a row that is then too short for the readers: no time in a row of a category
  (`float(None)`), no whole key in a row of `skew.csv` (`int(NaN)`).  The file is
  in `broken`, and a session that reads it ends there (`ReadFails`), until a
  forced one, or the replication to a degree, writes it anew;
- in what a row has measured: its key is whole, its time is a part of the time or its
  TPOTs are missing.  The readers take it for measured; the row is in `spoilt`.

A row cut at the comma before its time, which the readers skip, and a skew row cut in
the digits of its last key, which is then no case's and has no alpha, count for
nothing.  The header is never cut.  `Beginnings` is the bound: the rows before the cut
and the row it falls in; in the run nothing, one row, half of the rows or all but
the last.  A file that fits in the buffer really is empty or whole after a kill, so
for small files this is more than the code can do.  `partial` has the files that
may hold a shot for some layers only: those a kill has cut, and those to which the
stable layers of tp1 were copied before the degree measured its own (`Seeds`).
Only a forced session that fires the category again takes a file out of `partial`; a
row in `spoilt` stays an exception.

Bounds: two sessions out of six kinds (full at two limits, forced skew only,
without skew, slices of two groups), degrees one to three of which three cannot
be sharded, one kill and one failing case per history; grids of the real shape
with small first values.  Two sessions are the least of which one finds what another
left behind, one kill is the least that cuts a file; `Covered` and `KeepsRows` are
proved for any number of both and any `Beginnings`, `ShotsRun` for any grids and
engines.

## 3. What the runs show

| run | instances | shows |
|---|---|---|
| `Base` | chunked prefill over two stages; whole prompts with prioritised prefill; pre-routed with capped chunks; prefill-only; decode-only | no request or byte is lost or counted twice, limits hold, the queue has the order the early returns rely on, requests end with the right token, batches leave in order; every request is served, preempted ones too, or an error ends the run |
| `PrefixSafety` | the ten deployments above | trees, locks, byte counters and resident KV stay consistent; the exclusive policy forgets only at the end of the chain |
| `PrefixLeak` | preemption with nothing below the NPU | violated: a lock is never released, and the run ends with "Memory leak detected" (`memory_model.py:301`) |
| `RouterSafety` | sessions and independent requests under `RR`, `RAND`, `LOAD` and `CUSTOM`, three clusters | routing, sessions, the pending list, even round robin; everything is served; `Sessions` is implemented |
| `RouterModeA` | a session, routed before the run | violated: follow-ups are never routed |
| `MainLoop` | independent instances, data-parallel pairs, prefill and decode | each report gets one answer that exists, members of a group stay in step, sleepers are not needed, the run ends with everything served |
| `DpTwoNpus` | a group whose members have two NPUs | violated: the last NPU of a member is handed a workload that nobody generates |
| `DpThree` | a group of three | violated: a member makes a second dummy for one wave, its batch numbers run ahead of the iterations, and its request never ends |
| `Parallel` | Mode A and Mode B | reloads do not overlap on a channel, the merged clock never goes back, both drivers end with everything served |
| `Startup` | the files and flags above | ids, network, placements, pools and weights describe one machine |
| `Trace` | the jobs above | each forward pass is written whole, the energy is that of the rows, sub-batches share the work |
| `Profile` | two sessions with kills (between rows and in a row) and failures | every shot runs; nothing measured is lost; what is missing is measured, but for at most one cut row a kill and the layers of files left with some rows only; every fitted alpha is found |

The properties are stated with comments beside their definitions.  Some join
parts that are defined and explained on their own: `KvAccounted`
(`KvConserved`, `NoAccountingError`; in `PrefixScheduler` `TreesWellFormed`,
`KvCounted`), `QueueInOrder` (`HeadArrivesFirst`, `QueueSorted`),
`EvictionsExact` (`LocksExact`, `TiersWithinCapacity`), `AnswersExist`, `WavesAligned`,
`NpusLaidOut`, `MemorySound`, `ForwardPassComplete`, `EnergyAccounted`.

`Startup`, `Trace` and `Profile` switch off the deadlock check: a start-up, a
trace and a bounded number of sessions end.  Everywhere else the last state
is an explicit stuttering step (`Stopped`, `Exited`), so TLC reports any other
halt.

Each property of a passing run is broken by a plausible mistake in the code:

| property | mistake |
|---|---|
| `BaseScheduler!TypeOK` | `ScheduledTokensOwnCharge`: a request's own demand is charged before its chunk is cut, so a chunk can be negative |
| `OnePlace` | `RequeueOnlyPool`: `add_done` forgets the queue when it puts the batch back |
| `BaseScheduler!KvAccounted` | `ReloadsNothing`: a reloaded request is not allocated again |
| `SpilledWaits` | `GenReqAll`: prefills may be preempted |
| `WithinLimits` | `SlotsIgnoringRunning`: the cap ignores the batches in flight |
| `QueueInOrder` | `RequeueBehind`: the batch is put back behind the queue |
| `BaseScheduler!FinishesExactly` | `LeavesLate`: a request ends one token late |
| `PipelineFifo` | `ScheduleAnyExisting`: an NPU picks up any batch |
| `EventuallyServed` | `NeverDeadlocked`: `_raise_if_deadlocked` does nothing |
| `PrefixScheduler!TypeOK` | `OverLate`: a request goes back to the queue when its last token is there |
| `EvictionsExact` | `SplitUnlocked`: the upper half of a split node does not inherit the locks |
| `PrefixScheduler!KvAccounted` | `FreeRemovedAgain`: what was removed is freed twice |
| `KvResident` | `RemovableLeaves`: locked leaves may be evicted |
| `PrefixScheduler!FinishesExactly` | `MatchableAll`: the tokens still to be generated are matched too |
| `ForgetsOnlyWhenFull` | `SpillDropped`: a tier drops what it evicts |
| `Router!TypeOK` | `NotifyUnchecked`: a follow-up is released behind the end of the session |
| `RoutedOnce` | `InsertedLeft`: the place is searched in the whole list, in front of equal arrivals |
| `OneAtATime` | `HandOverNotified`: the router is notified at the end of the prompt |
| `SessionsCounted` | `NotifyEarly`: the session is dropped with the release of its last request |
| `PendingSorted` | `InsertedLast`: the follow-up is appended |
| `RoundRobinEven` | `SelectsAgain`: the counter stands still |
| `AllServed` | `NotifyOnce`: the follow-up is not registered with its session |
| `KeepsPromise` | `HandOverLost`: a request is taken from the prefill instance and not handed over |
| `AnswersExist` | `AnswerBatchNext`: the last NPU is sent the name of the next batch |
| `WavesAligned` | `JoinEarly`: a wave starts with the first member that has a batch |
| `SleepersNotNeeded` | `MayEndAlone`: a decode instance does not wait for the prefill instances |
| `MainLoop!RunsToTheEnd` | `AnswerIdleAlone`: an idle member makes no dummy batch |
| `ReloadsSerialised` | `KeyBatch`: batches of different instances are charged under one key |
| `ClockForward` | `ResumeWithoutPast`: only the last wait is added to the clock of a process, not the earlier ones |
| `ParallelInstances!RunsToTheEnd` | `DrainedNow`: a process exits although a session has requests left |
| `NpusLaidOut` | `TakeNpusOnce`: a prefill instance is given one set of NPUs |
| `MemorySound` | `GroupOkAnyShare`: the experts of a member may be more than its ranks |
| `PlacementServed` | `MemoryOkDefaults`: only the default rules are checked against the memory file |
| `ForwardPassComplete` | `CopiesOfModel`: blocks are copied as often as the model has layers, also when they were built one by one |
| `EnergyAccounted` | `ChargedAnywhere`: memory is charged for weights that are on the NPU too |
| `SplitKeepsWork` | `MakeSubBatchUnsorted`: sub-batches stay in the order they were filled, the longest first |
| `ShotsRun` | `FeasibleAtKv`: the filter forgets the tokens added to the history |
| `Covered` | `ExistingKeysOfAnySkew`: a case counts as measured whatever its skew |
| `KeepsRows` | `PreloadNothing`: a resumed session does not load what is there |
| `FitFound` | `AxesTaken`: the axes of one degree are stored for all |

Where documentation and code differ, seen while modelling and not worth a run of
their own (paths without a directory are under `src/serving/core`, `docs` or
`src/profiler/core`):

Scheduler

- `scheduler.py:43` and `:854` call the queue sorted by arrival.  Chunked
  prefill puts decodes in front of prefills, so what goes back to the queue is
  not sorted; `QueueSorted` says when it is.  The early return on the queue
  head needs less, `HeadArrivesFirst`, and that always holds.
- `_raise_if_deadlocked` (`scheduler.py:196`) is raised although a queued
  request would fit; its docstring (`:877`) says nothing can be scheduled.
- A head request that does not fit keeps smaller ones out (`scheduler.py:185`),
  while `kv-cache-and-memory.md:153-159` describes a batch of what fits.
- Without chunked prefill a prompt above `max_num_batched_tokens` waits for ever
  with no error (`scheduler.py:180`).
- `max_num_seqs: 0`, documented as no limit, is converted to infinity and then
  by `int()` at `scheduler.py:86`, which fails.
- With `--no-enable-chunked-prefill`, a prefill whose prefix was matched and that
  is rolled back in the same call keeps `num_computed_tokens` while its
  `prefix_cache_hit` is cleared (`scheduler.py:522`).  It is later given its whole
  prompt as one chunk (`:433-439`), which `add_done` adds to what was hit, so it
  may end without a decode; the comment at `:609-613` says the chunk is what is
  computed on top of the hit.  The simulations of `PrefixSafety` prefill in chunks.
- `add_decode` allocates without looking for room and raises when there is
  none, while `kv-cache-and-memory.md:53-55` describes back-pressure.
- `continuous-batching.md:111-112` says that decodes fill the budget left by
  prioritised prefills; `scheduler.py:102-108` leaves every decode out.
- A full private host cache makes `add_done` raise (`memory_model.py:936`);
  `prefix-caching.md:134-136` says it evicts.

Router and main loop

- `agentic-sessions.md:182-187` says that a tool time after the last request
  keeps the session alive for that long; `notify_request_completed` deletes the
  session with the last request and never uses that time.
- `agentic-sessions.md:194-200` suggests `CUSTOM` for sticky sessions, but
  `target_instance` is read from independent requests only; sessions fall back
  to round robin.
- `is_prefill_done` compares counts (`__main__.py:1624`): with instances that
  are neither prefill nor decode beside them, decode instances may sleep early.
  A prefill instance with `num_npus` 1 counts as done after one of its two NPUs.
- `__main__.py:1182` sets the offset to the next arrival also while another NPU
  of the instance still runs a batch, which then counts as done at that
  arrival; the comment above speaks of idle gaps only.

Start-up

- `cluster-config.md` says `num_npus == tp * pp`; an explicit `pp_size` of 1 is
  overridden when the numbers disagree.
- For clusters of unequal instances the network dimensions do not multiply to
  the instances (comment at `config_builder.py:175`); `NetworkFits` is
  stated for equal ones, and for processes of their own.
- A layer rule takes what it leaves open from the default rule, not from the
  block rule.  Every private CPU cache has the whole memory of its node.  With
  `n_layer` not divisible by `pp`, `get_weight` counts too little.  A tier that
  only some nodes have is in the memory file and not in the chain.

Trace

- With PIM offloading the channels take the requests whose `is_init` is false
  (`trace_generator.py:1638`) and the NPU drops the decodes of the split
  (`:898`).  The two tests disagree.  A decode after a whole prefix hit is still
  `is_init` (`scheduler.py:805`, until `add_done`): the NPU drops it, the channels
  never get it, and its attention is computed nowhere.  Under `--skip-prefill`
  (`__main__.py:371`) a chunk of a prompt is not `is_init`: it is computed on the NPU
  and once more on the channels.  The jobs have both; `AttentionOnce` says that
  these requests (`OnNeither`, `OnBoth`) and no others are off, and by exactly that.
- A layer of the prologue or the head that the profile has not measured raises a
  `KeyError` (`:1242`, `:1282`) where one of a block is left out with a warning.
- `--no-enable-block-copy` on an MoE model writes one block only
  (`trace_generator.py:1331`, `cli-flags.md:41`); `LayersComplete` leaves this
  out.
- `route_ep` starts round robin at 0 in every call, so it never rotates
  (`gate_function.py:139`); `BALANCED` rounds small batches to no token on every
  rank.
- With sub-batches the transfers to other stages are charged for the first
  only; the prologue of a sharded instance is charged whole; the `kv_load` row
  becomes the first row against the comment at `:1543`; the split drops the
  padding of data parallelism.  `EnergyAccounted` excepts the first two.
- `req.input` never grows, so the PIM computes a decode's attention at its
  prompt length.  `trace-generation.md:220-232` describes a block-copy
  instruction where the code repeats rows.

Profiler

- A shot counts as measured when any layer has a row for it
  (`writer.py:155`).  After a slice of one dense group at tp1, replicated to
  tp2, a full session skips every dense shot of tp2; after a kill that cut a file
  of layers, the next sessions skip the shots of which some layers are left.  The
  other layers are missing for good.  The same makes a profile miss layers that
  were added later, which a warning of the simulator says a new session adds.
  `Covered` excepts the shots of these files (`partial`) and no others; a file
  that no kill and no copy has touched is covered, layered or not, at every degree.
- A row that a kill cut after its key passes for measured.  `_existing_keys` asks
  for the key columns only (`skew.py:376`), so a skew case without its times is never
  fired again, and the fit drops its NaN alpha (`fit_alpha.py:296`).  A category
  row with a part of its time is preloaded as that time (`writer.py:128`).  Only
  `--force` measures them again.  `Covered` excepts these rows (`spoilt`) and bounds
  them by the kills.
- A row cut before its time or within its key ends every later session that is not
  forced: `float(None)` is a `TypeError`, which the `except` of `writer.py:129`
  does not catch, and `int(NaN)` raises in `_existing_keys`.  An empty `skew.csv`
  ends a session that fits without having fired (`pandas.EmptyDataError`).
- The feasibility check of a skew case (`skew.py:221-229`) and the shot that is
  fired count tokens differently.
- `_flush_rows` says it rewrites atomically and writes in place, which is what makes
  the cuts above possible.  A failing case at a multiple of 20 skips the flush.
  Categories flush only at their end, `running.md:225` says per shot.
- A kill between `skew_fit.csv` and `meta.yaml` leaves new alphas under old
  axes.  A session with fewer degrees drops the fits of the others.
- `force` does not wipe a category before its first flush; a slice without
  it fires nothing when rows exist.

## 4. What is proved

`Lists_proofs` proves the facts about lists that everything else uses: how many
elements a filtered list has, that it keeps the order, the distinctness and any
relation between its elements, what a slice, a concatenation or a removal
contains, where an element stands, and how the pairs that stand for a sum split
and merge.  The numbering `Nth` of a finite set of positions is shown to exist by
the interval and cardinality lemmas of the library, without induction of our own;
so are the largest and the smallest number of a finite set (`Extremes`).

`BaseScheduler_proofs` proves, for every finite set of requests, every set of
simulations (all limits, both memories, any pipeline depth) and every order of
reports:

- `TypeCorrect`: `Spec => []TypeOK`.  The part that is not bookkeeping is that
  chunks are natural numbers: a request reached by the dealing loop finds
  budget left, because `Budgeted` keeps a prefix on which the demand before each
  element is below the budget (`BudgetedProperties`, `TokensPositive`).
- `OnePlaceCorrect` and `SpilledWaitsCorrect`, from the inductive invariant
  `Whereabouts == TypeOK /\ OnePlace /\ SpilledWaits`.  `OnePlace` alone is
  not inductive without the types, and neither is `SpilledWaits` without it:
  a batch comes out of the queue, so its requests are nowhere else, and what
  `add_done` puts back or retires was running and so not evicted.  Each action
  moves requests between two of the four places; the lemmas on `Keep` and on
  merges say which.

They use the three assumptions of `BaseScheduler`: ids are naturals and finitely
many, simulations have the type of `Scheduler.__init__`'s parameters and
generate at least one token, and the two reporting NPUs exist.

The same module proves the numbers, from the same assumptions:

- `WithinLimitsCorrect` and `FinishesExactlyCorrect`, from `Progress`.  Sums are
  cardinalities of sets of pairs, so that the tokens of a batch add up by
  `BudgetSum`: each request gets what it wants or what those before it left.
  That requests end with the right token needs that those of the router have
  computed nothing, that a prompt without chunks is computed in one step, and
  that what is not finished has something left to do (`NotOver`, per role).
- `KvAccountedCorrect`, from `Accounted == Progress /\ KvAccounted`.  `Balance`
  splits the blocks held on the NPU into those that stay, are spilled, come back
  or are new; `StepFitsBudget` shows that what a step is granted fits into what
  the evictions leave.

It also proves the orders:

- `PipelineFifoCorrect`, from `Stages`: ids grow along the pipeline (`Ids`), a
  stage behind the first has ended exactly the batches before its number
  (`Fronts`), and a batch leaves when both ends have ended it (`Starts`).  Then
  only the oldest batch can be completed (`OldestCompletes`).
- `QueueInOrderCorrect`, from `Order`: the router hands requests over in the
  order of arrival and never too early, and with one batch at a time what runs
  is older than what is queued (`OneAtATime`).  A merge of two sorted lists is
  sorted only under these (`MergeOrder`).

`Router_proofs` proves, for every set of simulations:

- `TypeCorrect` and `RoutedOnceCorrect`.  `TypeOK /\ RoutedOnce` is inductive:
  the released requests are exactly those somewhere in the system, so the next
  one of a session is nowhere yet (`ReleaseIsNew`), and `_insert_pending_sorted`
  puts it behind `_pending_idx` (`InsertedProperties`, `InsertedUnrouted`).
- `OneAtATimeCorrect` and `SessionsCountedCorrect`, with `RoutedOnce` in the
  invariant: what an instance finishes is the last released request of its
  session (`LastReleased`), so its end releases the next one or ends the session.
- `ImplementsSessions`: `Spec => Promise!Spec`.  The open requests are the
  released ones that are not finished (`OpenRequests`); only `Finish` changes
  either, and it is `Complete` of the promise.
- `PendingSortedCorrect`, from the stronger `SortedInv`: what is routed has
  arrived, and a follow-up arrives now or later.  `InsertionPoint` is the
  statement the binary search needs: in a sorted list, what arrives no later than
  the entry is a prefix of the part that is not routed.

- `RoundRobinEvenCorrect`, from `EvenInv`: what has been dealt out has an
  instance, and the counter of the round robin is how many have been
  (`OneKind`: one pool).

The one assumption is `SimulationAssumption`: rows and policies have the types
the loader gives them, an independent request is a chain of length one, and
there is an instance for every role that is used.

`ParallelInstances_proofs` proves, for any instances, channels and loads:

- `ReloadsSerialisedCorrect`: from `ChannelsFree` (no reload ends after its
  channel is free), `AllReloaded` (every batch in flight has its reload, and
  nobody reports for the instance before it) and `Numbered` (numbers of batches
  are not given again, so no batch is charged twice).
- `ClockForwardCorrect`: `HeapAhead` is what a merged timeline needs: an entry
  is the earliest report of its process plus the waits of its instance, and
  `ResumeForward` shows that the next one lies ahead of the current time, also
  when the instance skips to the next arrival.

They assume the type of a simulation (`SimulationAssumption`): instances of this
driver do everything and form no groups, durations and loads are naturals.

`MainLoop_proofs` proves the protocol between the loop and ASTRA-Sim, for any
number of instances, NPUs, groups and requests:

- `AnswersExistCorrect`, from `Inv1`: the types, `OnePlace` (a request is in one
  queue or one batch), `InTurn` (follow-ups come after what they follow),
  `Generates`, and for groups `InStep`.  The last is the invariant of the waves:
  a member has at most one batch, with the last number given; a wave that is
  begun has a batch that is not a dummy; while a workload waits for some
  members, the one that completed the wave runs it and cannot end (`Started`);
  names of waves are new (`Named`).  Without `Started` a member may be handed a
  workload another one has ended, without `Named` a wave may be overwritten.
- `SleepersNotNeededCorrect`, from `Inv2 == Inv1 /\ Asleep`: an instance whose
  NPU was told `done` has nothing left, and neither has its group.
- `WavesAlignedCorrect`, from `Inv3 == Inv1 /\ Aligned`: the next number of an
  independent instance is that of the next iteration, and a member has run all
  its numbers but those it is waiting for (`Alone`, `Paired`).

Each hypothesis excludes what a run or a hazard shows to go wrong:

| hypothesis | where | excludes |
|---|---|---|
| `SingleNpuGroups` | all three | members with two NPUs (the violated run `DpTwoNpus`), and members that only prefill |
| `NotMixed` | `SleepersNotNeededCorrect` | prefill and decode beside instances that do both: `__main__.py:1624` takes the number of finished instances for that of finished prefill instances |
| `PairedGroups` | `WavesAlignedCorrect` | groups of three and more (the violated run `DpThree`) |

`MainLoopAssumption` is the type of a simulation.

`Deployment_proofs` proves, for every cluster file and all flags, that what
`build_cluster_config` accepts is one machine:

- `NpusLaidOutCorrect`, from `DeploymentInv`.  While nodes are read (`Reading`) every
  list has one entry per instance, NPU ids come in runs without a gap (`Runs`),
  `npu2inst` and the runs name the same owner (`Owners`), the last NPU of every run
  is known (`EndsKnown`) and the inferred degrees are positive and fit
  (`DegreesOk`, `InstanceDegrees`).  When the cluster is complete (`Joined`) the
  total, the dimensions and the groups are those of its instances.  `NpusPartitioned`
  then needs that the offsets grow (`OffsetsGrow`) and end at the total
  (`AllNumbered`, a sum of sums).  `NetworkFits` is stated for equal instances:
  `UniformDims` computes their dimensions, `SpansFit` and `GroupFits` compare the
  flags of `resolve_group_involved_dims` with them.
- `PlacementServedCorrect`, from the same invariant: every rule that an instance
  can look up is one that `MemoryOk` has seen (`PlacementComplete`), whichever level
  of the file it was taken from, and what `main` adds later changes neither.

Instances, placements and sums are folds over lists.  `FoldExists` shows that the
`CHOOSE`n function behind a fold exists and `FoldRuns` that its value goes through
the elements one by one, both by `UpTo`: induction over a set of numbers, which
needs no operator parameter.  The only assumption is `InputAssumption`.

`Profiler_proofs` proves, for any degrees, grids, layers and engines and any number
of sessions, kills and failing cases, what the folder promises:

- `CoveredCorrect`, for any `Beginnings`, that is for kills anywhere, between rows or in
  a row, as often as they come, from two invariants.  `Inv`: the rows of its own
  layers that a degree has were measured at it, or a kill has cut them
  (`Genuine`, for every degree and file); a file that is not in `partial` has all own
  layers of a shot or none, so that a row stands for its shot (`WholeShots`, also
  for every degree); and a full session has all rows of the degrees, categories
  and cases it has left behind (`Advanced`).  `WholeShots` is why the skipped shots
  may be skipped (`SweptComplete`).  A copy of the stable layers keeps all three
  for the degree that gets them (`OneReplica`), a kill by adding to `partial` and
  `spoilt` (`TornFile`).  `FewSpoilt` bounds the exceptions: a kill spoils at most
  one row.  The skew sweep fires its cases sorted; `ToFireItems` shows
  that the order loses none: `GridBounds` bounds the axes, `PlaceOf` shows that two
  cases never stand at the same place, and `SortedByRank` that ranking a finite set
  by a strict total order lists all of it.
- `KeepsRowsCorrect`, an action property, from the same invariants: every write
  starts from what is there, and a step that loses rows is a kill that writes that
  file.
- `ShotsRunCorrect`: of the state it needs only the types; the rest is one lemma
  per category (`DenseRuns`, `SequenceRuns`, `AttentionRuns`, `ExpertsRun`) that
  compares the filter the host applies with what the worker hands out.  The
  requests of a shot are alike but for the first, so the tokens and blocks that
  the worker adds up one by one are `a + c * (n - 1)` (`AddedUp`).  For the
  experts, `c` consecutive numbers hit every remainder below `c` (`Remainder`).

`ProfilerAssumption` says what the command line accepts: tp1 is among the degrees
(`__main__.py:303`), `None` is no degree, numbers are naturals, and the KV axis of the skew grid starts
above one and not above its end (128 and 512 in the code); with a start of one the
skews 3/2 and 2 would have the same largest KV, and their cases the same place.
`ShotsRun` also needs room for at least one sequence and two tokens of context: vLLM
refuses to boot with less.

`PrefixScheduler_proofs` proves, for every dataset, any memory, number and size of
tiers, pool, policy and role:

- `PrefixTypeCorrect`, `PrefixFinishesExactly` and `PrefixKvAccounted`, from `Inv == Places /\ Counted`.
  `Places` is the types of the queue and the pipeline and `OnePlace`.  `Counted`
  says that the memory record `M` has its type and that `CountIs` holds of every
  request: its chunk keeps the budget and ends with the prompt at the latest, a
  request that is not finished has not passed its last step, a finished one has
  computed what it should, and on a decode instance what was handed over has its
  prompt.  It also says that who is preempted has computed something, since a
  preempted request is matched again and must keep its count.  For the trees the
  record has, between two steps, a radix tree on every level (`Sound`: a tree with
  `Shaped`, which is `IsTree` with what a split needs: a child's key goes on from
  its parent's, and two children of a node differ in their first page); the byte
  counters are `Balanced`, each is what its tree has `Booked`, its size but for the
  events in its queue; and the NPU's queue is `Quiet`, it has been emptied.
- Inside a step these last two do not hold: an eviction has taken nodes whose bytes
  are not freed yet, or an insertion has been allocated before its events are read.
  `Midway(P, q, d)` says how far a record is from them: `q` are the queues that are
  empty and `d` what the NPU's counter owes.  `Mem(P)` is the end of it, and
  `ApplyIs`, the lemma on `apply_kv_cache_events`, leads back there.
- Most of what `MemoryModel` does is shown to leave the counts of requests alone:
  `P` is the set their counts are in, and one lemma per operator maps
  `Mem(P)` to subsets of `Mem(P)` for every `P` (`SpillIs`, `EvictNpuIs`, `ApplyIs`,
  `MakeRoomIs`, `CacheAllIs`, `ParkIs`, `FormBatchIs`).  Under them are the lemmas
  about trees as values (`MatchedIs`, `InsertIs`, `LockIs`, `DeleteIs`,
  `ReachableIs`): the result has the type of a tree whatever is split, locked or
  evicted, and a match is a prefix of its key (`HitIsPrefix`), so a hit is never
  longer than the prompt (`MatchFinds`).  A tree that was only matched or locked is
  `Settled` (same size and same events, `SplitSettled`, `MatchedSettled`,
  `LockSettled`); one that grew or lost leaves is `Alike` (what its size changed by
  is in its events, `InsertAlike`, `DeleteAlike`).  What changes the counts is `DealtIs`
  (the match, then the chunk of what is left), `EndPhaseIs` and `EndRequestIs`.

They hold under one hypothesis, `AllChunked`: every simulation has
`--enable-chunked-prefill`, the default.  Without it `TypeOK` is false, and with it `Inv`: the un-chunked path
gives a request that was matched and rolled back its whole prompt once more (section
3, `scheduler.py:522`).  The assumptions are `PrefixReqAssumption` and
`PrefixAssumption`: finitely many ids, parameters of the right type, a tier where
there is a storage, a private cache that starts empty (only a pool is shared with
instances that may have filled it), at least one token to generate, and as many
hashed tokens as a request has.

Only model-checked: `EvictionsExact`, `KvResident` and `ForgetsOnlyWhenFull` of
`PrefixSafety`, the invariants of `Trace`, `MemorySound` of `Startup`, `FitFound` of
`Profile`, and everything about liveness (`ServedOrAborted`, `AllServed`,
`RunsToTheEnd` and the like), which needs fairness and ENABLED and is beyond the
prover. `MemorySound`, `EnergyAccounted` and `FitFound` compare sums and products of
the same data taken in different orders, `ForwardPassComplete` is a value of nested
folds.

`LocksExact` and `KvResident` do not hold of every simulation: in the deployment of
`PrefixLeak`, where a preempted request is matched again, TLC finds a node with more
locks than users and a request whose node is no longer the end of what it computed
(the finding at `scheduler.py:561`). A theorem would need the hypothesis that nobody
is preempted, which is about behaviours and not about constants; `KvAccounted` needs
no such hypothesis, and TLC finds it kept in that deployment too. The part of
`LocksExact` that remains, `CountersExact`, is about whole chains of parents:
`Chain` follows them by recursion, so that what a lock adds along it needs induction
over data. `TiersWithinCapacity` needs that what is parked, and locked, never fills
a tier, which is again about who is preempted. Section 5 lists them.

## 5. What comes next

All parts of the program that decide something are modelled.  What is left is
to prove more of what TLC shows, in this order:

1. `RadixTree`: `CountersExact` and the chains of locked nodes over `Split`,
   `IncLock` and `Delete`, as lemmas about values; then `KvResident` and the locks
   of `PrefixScheduler` for requests that are never preempted.
2. `SplitKeepsWork`, `StandbyBounded`, and that buckets of `SkewFit` cover their
   axes.

An abstract instance (each request waiting, running or done) that both
schedulers implement, and a driver with one clock that Mode B without channels
implements, are worth stating then.

## Not modelled

- ASTRA-Sim, the graph converter and vLLM are not in the repository; they are
  modelled from how the code uses them.
- The simulator's external MoE routing policy, dashboards, logs, run paths, the
  result CSV and the statistics of requests: they are output, or files of the
  user.
- Base power and the power time series: sums that nothing reads back.
- Matching GPU kernels to layers and the text of `meta.yaml` in the profiler:
  text handling on the output of other programs.
- Other instances writing into a shared pool while one instance is looked at:
  two schedulers in one module are beyond what TLC explores in minutes.
- `src/bench` (drives a server and compares files), `src/profiler/v0` (the
  superseded profiler, imported by nothing) and the workload generators
  (scripts that write datasets).
