----------------------------- MODULE Profiler -----------------------------
(***************************************************************************)
(* Sessions of the profiler on one variant folder: profiler/core/runner.py,*)
(* skew.sample_skew and the files of writer.py.                            *)
(*                                                                         *)
(* A session sweeps its degrees one after the other (boot, categories,     *)
(* skew), then copies the tp-stable layers, fits the alphas and writes     *)
(* meta.yaml.  It resumes: what the files hold is not fired again.  It may *)
(* end anywhere, by an exception or a kill, and a kill in the middle of a  *)
(* write leaves the file short, since every file is written in place.      *)
(*                                                                         *)
(* disk[tp] has the CSV files that are in tp{N}/: each a function from the *)
(* keys of its rows to the degree they were measured at, or to None when   *)
(* what the row has for a measurement is not one: a kill cut it there.     *)
(* Files go to disk a buffer at a time, so a cut leaves the file empty or  *)
(* ends it anywhere: between two rows, or in a row.                        *)
(*                                                                         *)
(* Beginnings(f, keys) has what a cut may leave of a file f with the rows  *)
(* keys: the rows before it and the row it falls in (a bound).             *)
(* MaxSessions, MaxKills and MaxFailures bound the sessions, the kills and *)
(* the failing cases of a session.  Here and in the other modules, an      *)
(* operator that stands before another and is named after it (like         *)
(* PreloadNothing before Preload) is a plausible mistake in it: the        *)
(* specification does not use it.                                          *)
(***************************************************************************)
EXTENDS SkewFit, Lists, Functions

CONSTANTS Degrees, Sessions, Gpu, Stable, Unshardable, FlushEvery,
          Beginnings(_, _), MaxSessions, MaxKills, MaxFailures, None

(* A session names degrees it sweeps, 1 among them; numbers are what the   *)
(* command line parses, and the spread of the skew axis starts above 1.    *)
(* vLLM boots only with room for a request, and a request has a token      *)
(* before the one that is sampled.                                         *)
ASSUME ProfilerAssumption ==
  /\ 1 \in Degrees
  /\ \A s \in Sessions :
       /\ s.tps \in Seq(Degrees) /\ {s.tp, 1} \subseteq Items(s.tps)
       /\ s.group \in Categories
       /\ {s.force, s.skip_skew, s.only_skew} \subseteq BOOLEAN
       /\ {s.args.mnbt, s.args.max_kv} \subseteq Nat /\ s.args.msq \in Nat \ {0}
  /\ None \notin Sessions /\ None \notin Degrees
  /\ \A tp \in Degrees : Gpu[tp] \in [mnbt : Nat, msq : Nat, mml : Nat \ {0, 1},
                                     blocks : Nat, experts : Nat, k : Nat]
  /\ Grid.block \in Nat \ {0}
  /\ {Grid.chunk, Grid.kv, Grid.pc, Grid.kp, Grid.kvs, Grid.kvs_top} \subseteq Nat
  /\ 2 <= Grid.kvs /\ Grid.kvs <= Grid.kvs_top

VARIABLES disk, meta, tables,                 \* the variant folder
          session, phase, queue, cats,        \* the process: what is left of its loops
          cases, rows, fired,                 \* in sample_skew
          broken,                             \* files whose last row the readers raise on
          failed, partial, spoilt, bounds     \* what happened: failed cases; files that
                                              \* may have a shot for some layers only;
                                              \* rows cut in what they measured; bounds
sweep == <<cases, rows, fired>>
seen == <<partial, spoilt>>
vars == <<disk, meta, tables, session, phase, queue, cats, sweep, broken, failed, seen, bounds>>

Files == Categories \cup {"skew"}
Rows(tp, f) == IF f \in DOMAIN disk[tp] THEN disk[tp][f] ELSE <<>>
Over(new, old) == [k \in DOMAIN new \cup DOMAIN old |-> IF k \in DOMAIN new THEN new[k] ELSE old[k]]
Without(map, k) == Restrict(map, DOMAIN map \ {k})
Written(tp, f, new) == [disk EXCEPT ![tp] = Over([x \in {f} |-> new], @)]
MeasuredAt(tp, keys) == [k \in keys |-> tp]

Full(s) == s.cmd = "profile"
Limits(s, tp) == ProbeLimits(FuseEngineKwargs(s.args, Gpu[tp]))

(* categories_for, has_tp_dependent_work.  Attention is never tp-stable,   *)
(* so there is work for every degree.                                      *)
CategoriesFor(tp) ==
  Keep(<<"dense", "per_sequence", "attention", "moe">>,
       {c \in Categories : /\ Layers[c] # {}
                           /\ tp = 1 \/ (c # "moe" /\ ~ Layers[c] \subseteq Stable)})

Init == /\ disk = [tp \in Degrees |-> <<>>] /\ meta = None
        /\ tables = [tp \in Degrees |-> <<>>]
        /\ session = None /\ phase = "idle" /\ queue = <<>> /\ cats = <<>>
        /\ cases = <<>> /\ rows = {} /\ fired = 0
        /\ broken = {} /\ failed = {} /\ partial = {} /\ spoilt = {}
        /\ bounds = [sessions |-> 0, kills |-> 0]

Start(s) ==
  /\ phase = "idle" /\ bounds.sessions < MaxSessions
  /\ session' = s /\ phase' = "boot"
  /\ queue' = IF Full(s) THEN s.tps ELSE <<s.tp>>
  /\ failed' = {} /\ bounds' = [bounds EXCEPT !.sessions = @ + 1]
  /\ UNCHANGED <<disk, meta, tables, cats, sweep, broken, seen>>

(* spin_up *)
Boot ==
  /\ phase = "boot" /\ queue # <<>> /\ Head(queue) \notin Unshardable
  /\ phase' = "sweep"
  /\ cats' = CASE ~Full(session) -> <<session.group>>
               [] session.only_skew -> <<>>
               [] OTHER -> CategoriesFor(Head(queue))
  /\ UNCHANGED <<disk, meta, tables, session, queue, sweep, broken, failed, seen, bounds>>

(* fuse_engine_kwargs raises when a field of the model is not divisible *)
BootFails ==
  /\ phase = "boot" /\ queue # <<>> /\ Head(queue) \in Unshardable
  /\ session' = None /\ phase' = "idle" /\ queue' = <<>>
  /\ UNCHANGED <<disk, meta, tables, cats, sweep, broken, failed, seen, bounds>>

(* A session that is not forced reads what is in the file, and raises on a *)
(* category row without a time (float(None)) and on a skew row without a   *)
(* key (int(NaN)).                                                         *)
Unreadable(tp, f) == ~session.force /\ <<tp, f>> \in broken

(* _fire_one_category: rows on disk are kept and the shots they are of are *)
(* skipped, unless the session is forced.                                  *)
PreloadNothing(tp, c) == <<>>
Preload(tp, c) == IF session.force THEN <<>> ELSE Rows(tp, c)
Swept(tp, c) ==
  LET old == Preload(tp, c)
      prior == PriorShotKeys(c, DOMAIN old)
      shots == {s \in ComposeShots(c, Limits(session, tp), session.args) : ShotKey(c, s) \notin prior}
  IN Over(MeasuredAt(tp, UNION {RowKeys(c, s) : s \in shots}), old)
Composes(tp, c) == ComposeShots(c, Limits(session, tp), session.args) # {}
FireCategory ==
  /\ phase = "sweep" /\ cats # <<>> /\ ~Unreadable(Head(queue), Head(cats))
  /\ LET tp == Head(queue)
         c == Head(cats)
         wiped == IF session.force /\ Composes(tp, c) THEN {<<tp, c>>} ELSE {}
     IN /\ disk' = IF Composes(tp, c) THEN Written(tp, c, Swept(tp, c)) ELSE disk
        /\ broken' = broken \ wiped /\ partial' = partial \ wiped
  /\ cats' = Tail(cats)
  /\ UNCHANGED <<meta, tables, session, phase, queue, sweep, failed, spoilt, bounds>>

(* sample_skew *)
ExistingKeysOfAnySkew(csv) == {[c EXCEPT !.skew = k] : c \in DOMAIN csv, k \in SkewMixed}
ExistingKeys(csv) == DOMAIN csv
Place(c) == IF c.skew = SkewRep THEN <<0, c.n, c.nb, c.pc, c.kp, c.kvs>>
            ELSE <<1, IF c.pc > 0 THEN 0 ELSE 1, c.nb, c.n, KvBig(c), 0>>
Precedes(a, b) == \E i \in DOMAIN a : a[i] < b[i] /\ \A j \in 1..i - 1 : a[j] = b[j]
InOrder(S) == [i \in 1..Cardinality(S) |->
                 CHOOSE c \in S : Cardinality({d \in S : Precedes(Place(d), Place(c))}) = i - 1]
Samples(s) == Full(s) /\ ~s.skip_skew
ToFire(tp, csv) ==
  InOrder({c \in BuildCases(Limits(session, tp), session.args) : c \notin ExistingKeys(csv)})
HasCases(tp) == BuildCases(Limits(session, tp), session.args) # {}
SampleSkew ==
  /\ phase = "sweep" /\ cats = <<>> /\ Samples(session)
  /\ ~(HasCases(Head(queue)) /\ Unreadable(Head(queue), "skew"))
  /\ LET tp == Head(queue)
         wipe == session.force /\ HasCases(tp)
         wiped == IF wipe THEN {<<tp, "skew">>} ELSE {}
     IN /\ disk' = IF wipe THEN [disk EXCEPT ![tp] = Without(@, "skew")] ELSE disk
        /\ broken' = broken \ wiped /\ partial' = partial \ wiped
        /\ cases' = ToFire(tp, IF wipe THEN <<>> ELSE Rows(tp, "skew"))
  /\ phase' = "skew" /\ rows' = {} /\ fired' = 0
  /\ UNCHANGED <<meta, tables, session, queue, cats, failed, spoilt, bounds>>

(* _flush_rows *)
Flushed(tp, new) == IF new = {} THEN disk
                    ELSE Written(tp, "skew", Over(MeasuredAt(tp, new), Rows(tp, "skew")))
Due == (fired + 1) % FlushEvery = 0
MeasureCase ==
  /\ phase = "skew" /\ cases # <<>>
  /\ rows' = rows \cup {Head(cases)}
  /\ disk' = IF Due THEN Flushed(Head(queue), rows') ELSE disk
  /\ cases' = Tail(cases) /\ fired' = fired + 1
  /\ UNCHANGED <<meta, tables, session, phase, queue, cats, broken, failed, seen, bounds>>
CaseFails ==
  /\ phase = "skew" /\ cases # <<>> /\ Cardinality(failed) < MaxFailures
  /\ failed' = failed \cup {<<Head(queue), Head(cases)>>}
  /\ cases' = Tail(cases) /\ fired' = fired + 1
  /\ UNCHANGED <<disk, meta, tables, session, phase, queue, cats, rows, broken, seen, bounds>>

(* spin_down after the last flush *)
NextDegree ==
  /\ \/ phase = "sweep" /\ cats = <<>> /\ ~Samples(session)
     \/ phase = "skew" /\ cases = <<>>
  /\ disk' = IF phase = "skew" THEN Flushed(Head(queue), rows) ELSE disk
  /\ phase' = "boot" /\ queue' = Tail(queue) /\ rows' = {} /\ fired' = 0
  /\ UNCHANGED <<meta, tables, session, cats, cases, broken, failed, seen, bounds>>

(* replicate_tp_stable, one file after the other: the rows of the stable   *)
(* layers of tp1 replace those of another degree; the other rows of that   *)
(* degree stay.                                                            *)
Replicates(s) == IF Full(s) THEN ~s.only_skew ELSE s.tp = 1
StableKeys(csv) == {k \in DOMAIN csv : k[1] \in Stable}
Owned(csv) == Restrict(csv, DOMAIN csv \ StableKeys(csv))
Merged(tp, f) == Over(Restrict(Rows(1, f), StableKeys(Rows(1, f))), Owned(Rows(tp, f)))
StableFiles == Keep(<<"dense", "per_sequence">>, {f \in Categories : Layers[f] \cap Stable # {}})
Copies(tp, f) == f \in DOMAIN disk[1] /\ DOMAIN Merged(tp, f) # {}
Sweeps == /\ phase = "boot" /\ queue = <<>>
          /\ phase' = IF Replicates(session) THEN "replicate" ELSE "fit"
          /\ queue' = IF Replicates(session) THEN Keep(session.tps, Degrees \ {1}) ELSE session.tps
          /\ cats' = IF Replicates(session) THEN StableFiles ELSE cats
          /\ UNCHANGED <<disk, meta, tables, session, sweep, broken, failed, seen, bounds>>

(* A stable row that is copied to a degree without the rows of its own     *)
(* layers for the same shot: the shot counts as measured from then on.     *)
OwnLayers(tp, f) == IF tp = 1 THEN Layers[f] ELSE Layers[f] \ Stable
Seeds(tp, f) == \E k \in StableKeys(Rows(1, f)) :
                  ~({<<l, k[2]>> : l \in OwnLayers(tp, f)} \subseteq DOMAIN Rows(tp, f))
(* A row without a time may be copied without one, which the readers skip. *)
Replicate ==
  /\ phase = "replicate" /\ queue # <<>> /\ cats # <<>>
  /\ LET tp == Head(queue)
         f == Head(cats)
     IN /\ disk' = IF Copies(tp, f) THEN Written(tp, f, Merged(tp, f)) ELSE disk
        /\ broken' = IF Copies(tp, f) THEN broken \ {<<tp, f>>} ELSE broken
        /\ partial' = IF Seeds(tp, f) THEN partial \cup {<<tp, f>>} ELSE partial
  /\ cats' = Tail(cats)
  /\ UNCHANGED <<meta, tables, session, phase, queue, sweep, failed, spoilt, bounds>>
NextReplica == /\ phase = "replicate" /\ queue # <<>> /\ cats = <<>>
               /\ queue' = Tail(queue) /\ cats' = StableFiles
               /\ UNCHANGED <<disk, meta, tables, session, phase, sweep, broken, failed, seen, bounds>>
Replicas == /\ phase = "replicate" /\ queue = <<>>
            /\ phase' = "fit" /\ queue' = session.tps /\ cats' = <<>>
            /\ UNCHANGED <<disk, meta, tables, session, sweep, broken, failed, seen, bounds>>

(* persist_meta: the alphas of each degree of the session that has rows to *)
(* fit, then what the simulator needs to read them.  A row cut in its      *)
(* measurement has no alpha; an empty file cannot be read.                 *)
Fittable(tp) == Valid(tp, {c \in DOMAIN Rows(tp, "skew") : Rows(tp, "skew")[c] # None})
Fits == [tp \in {t \in Items(session.tps) : Fittable(t) # {}} |-> FitAlpha(tp, Fittable(tp))]
NoColumns(tp) == "skew" \in DOMAIN disk[tp] /\ DOMAIN Rows(tp, "skew") = {}
Fitting == phase = "fit" /\ \A tp \in Items(session.tps) : ~NoColumns(tp)
WriteSkewFitCsv ==
  /\ Fitting /\ queue # <<>>
  /\ tables' = IF Head(queue) \in DOMAIN Fits THEN [tables EXCEPT ![Head(queue)] = Fits[Head(queue)].alphas]
               ELSE tables
  /\ queue' = Tail(queue)
  /\ UNCHANGED <<disk, meta, session, phase, cats, sweep, broken, failed, seen, bounds>>
PersistMeta ==
  /\ Fitting /\ queue = <<>>
  /\ meta' = SkewFitBlock(Fits)
  /\ phase' = "idle"
  /\ UNCHANGED <<disk, tables, session, queue, cats, sweep, broken, failed, seen, bounds>>

(* The session ends on a file it cannot read.  Whether replication can     *)
(* read a file that is cut in a row depends on where: a key that is not    *)
(* whole raises, if the row is one it keeps.                               *)
ReadFails ==
  /\ \/ phase = "sweep" /\ cats # <<>> /\ Unreadable(Head(queue), Head(cats))
     \/ phase = "sweep" /\ cats = <<>> /\ Samples(session)
        /\ HasCases(Head(queue)) /\ Unreadable(Head(queue), "skew")
     \/ phase = "replicate" /\ queue # <<>> /\ cats # <<>>
        /\ Head(cats) \in DOMAIN disk[1] /\ {<<1, Head(cats)>>, <<Head(queue), Head(cats)>>} \cap broken # {}
     \/ phase = "fit" /\ ~Fitting
  /\ session' = None /\ phase' = "idle" /\ queue' = <<>> /\ cats' = <<>>
  /\ UNCHANGED <<disk, meta, tables, sweep, broken, failed, seen, bounds>>

(* A shot of a category fails, which nobody catches, or the process is     *)
(* killed: what is not on disk is lost.                                    *)
Dies == /\ phase # "idle" /\ bounds.kills < MaxKills
        /\ session' = None /\ phase' = "idle" /\ queue' = <<>> /\ cats' = <<>>
        /\ cases' = <<>> /\ rows' = {} /\ fired' = 0
        /\ bounds' = [bounds EXCEPT !.kills = @ + 1]
        /\ UNCHANGED <<meta, tables, failed>>
Crash == Dies /\ UNCHANGED <<disk, broken, seen>>

(* A kill while a CSV file is written leaves it empty, or with some of its *)
(* rows and of the next nothing, too little for the readers, or the key    *)
(* and something else than its measurement.  (A category row that ends at  *)
(* the comma before its time, and a skew row that ends in the digits of    *)
(* its last key, which are no case's, count for nothing.)                  *)
Tear(tp, f, csv) ==
  /\ DOMAIN csv # {}
  /\ \E left \in Beginnings(f, DOMAIN csv) :
       LET kept == left.whole \cap DOMAIN csv
           short == Restrict(csv, kept)
       IN \/ /\ disk' = Written(tp, f, short)
             /\ broken' = broken \ {<<tp, f>>} /\ spoilt' = spoilt
          \/ /\ kept # {} /\ disk' = Written(tp, f, short)
             /\ broken' = broken \cup {<<tp, f>>} /\ spoilt' = spoilt
          \/ /\ kept # {} /\ left.cut \in DOMAIN csv
             /\ disk' = Written(tp, f, Over([k \in {left.cut} |-> None], short))
             /\ broken' = broken \ {<<tp, f>>} /\ spoilt' = spoilt \cup {<<tp, f, left.cut>>}
  /\ partial' = partial \cup {<<tp, f>>}
Flushing == IF cases = <<>> THEN rows ELSE IF Due THEN rows \cup {Head(cases)} ELSE {}
CrashWriting ==
  /\ Dies
  /\ \/ /\ phase = "sweep" /\ cats # <<>>
        /\ ~Unreadable(Head(queue), Head(cats)) /\ Composes(Head(queue), Head(cats))
        /\ Tear(Head(queue), Head(cats), Swept(Head(queue), Head(cats)))
     \/ /\ phase = "skew" /\ Flushing # {}
        /\ Tear(Head(queue), "skew", Flushed(Head(queue), Flushing)[Head(queue)].skew)
     \/ /\ phase = "replicate" /\ queue # <<>> /\ cats # <<>> /\ Copies(Head(queue), Head(cats))
        /\ Tear(Head(queue), Head(cats), Merged(Head(queue), Head(cats)))

Next == \/ \E s \in Sessions : Start(s)
        \/ Boot \/ BootFails \/ FireCategory \/ SampleSkew \/ MeasureCase \/ CaseFails \/ NextDegree
        \/ Sweeps \/ Replicate \/ NextReplica \/ Replicas \/ WriteSkewFitCsv \/ PersistMeta
        \/ ReadFails \/ Crash \/ CrashWriting
Spec == Init /\ [][Next]_vars

-----------------------------------------------------------------------------
ShotsOf(s, tp, c) == ComposeShots(c, Limits(s, tp), s.args)

(* A batch the engine can run: it was booted for mnbt + msq tokens and for *)
(* msq requests, a request leaves room for the token that is sampled, and  *)
(* the blocks assemble_scheduler_output hands out exist.                   *)
Runs(engine, reqs) ==
  /\ NewTokens(reqs) <= engine.mnbt
  /\ Len(reqs) <= engine.msq
  /\ \A r \in Items(reqs) : r[1] + r[2] < engine.mml
  /\ BlockCursor(reqs) <= engine.blocks

(* The categories guess in categories.py what the worker will need in      *)
(* batch.py.  Every shot they compose runs on the engine that spin_up      *)
(* booted, and the experts forced on its tokens are k different ones each  *)
(* and activated in all, as force_moe_routing expects.                     *)
ShotsRun ==
  phase = "sweep" /\ cats # <<>> =>
    LET tp == Head(queue)
        engine == FuseEngineKwargs(session.args, Gpu[tp])
    IN \A shot \in ShotsOf(session, tp, Head(cats)) :
         /\ Runs(engine, shot.reqs)
         /\ shot.experts > 0 =>
              LET ids == CycleExpertIds(NewTokens(shot.reqs), engine.k, shot.experts)
              IN /\ \A t \in DOMAIN ids : Cardinality(ids[t]) = engine.k
                 /\ UNION Items(ids) = 0..shot.experts - 1

(* A shot or a case is skipped when a row on disk has its identity, and    *)
(* its identity is read back from its requests.  After a full session,     *)
(* whatever ran before and wherever in a file or a row a kill cut it,      *)
(* there is a row for every shot of the session and every case that did    *)
(* not fail, for a shot with a row per layer one for each layer the degree *)
(* owns, and what the row has was measured at the degree - but for         *)
(* - the row each kill cut in its measurement, at most one a kill: it      *)
(*   passes for measured, and no session fires it again without --force;   *)
(* - the layers of a shot in a file that was left with some of its rows    *)
(*   only, by a kill or by the copy of stable layers (partial).            *)
Completed == phase = "idle" /\ session # None
Recorded(tp, f, k) == k \in DOMAIN Rows(tp, f) /\ (Rows(tp, f)[k] = tp \/ <<tp, f, k>> \in spoilt)
Holds(tp, f, keys) == \A k \in keys : Recorded(tp, f, k)
OwnKeys(tp, f, keys) == {k \in keys : Layered(f) => k[1] \in OwnLayers(tp, f)}
RowsOf(s, tp, c) == OwnKeys(tp, c, UNION {RowKeys(c, shot) : shot \in ShotsOf(s, tp, c)})
Covered ==
  /\ Cardinality(spoilt) <= bounds.kills
  /\ Completed /\ Full(session) => \A tp \in Items(session.tps) :
       /\ ~session.only_skew => \A c \in Items(CategoriesFor(tp)) :
            (Layered(c) => <<tp, c>> \notin partial) => Holds(tp, c, RowsOf(session, tp, c))
       /\ ~session.skip_skew =>
            Holds(tp, "skew", {c \in BuildCases(Limits(session, tp), session.args) : <<tp, c>> \notin failed})

(* Without --force no measurement is lost, except to a kill in the middle  *)
(* of a write, and then only of that file: a session only adds rows, also  *)
(* when it is killed or raises, also at other limits.  (The stable layers  *)
(* of other degrees are tp1's to change.)                                  *)
Lasting(tp, f) == {k \in DOMAIN Rows(tp, f) : ~Layered(f) \/ tp = 1 \/ k[1] \notin Stable}
CutShort(tp, f) ==
  /\ bounds'.kills > bounds.kills /\ queue # <<>> /\ tp = Head(queue)
  /\ IF phase = "skew" THEN f = "skew" ELSE phase \in {"sweep", "replicate"} /\ cats # <<>> /\ f = Head(cats)
KeepsRows ==
  [][(session # None => ~session.force) =>
       \A tp \in Degrees, f \in Files : CutShort(tp, f) \/ Lasting(tp, f) \subseteq DOMAIN Rows(tp, f)']_vars

(* The simulator looks an alpha up by labels of the buckets, which writer  *)
(* and fit derive from the rows of each degree and store in two places.    *)
(* After a session every case it fitted is found in its bucket, with an    *)
(* alpha between those of the cases of its chunk, n and history.           *)
Read == HydrateSkewFitTables(meta, tables)
AlphaFor(tp, c) == SkewAlpha(Read, tp, c.pc, c.n, SkewRate(c), KvBig(c), c.kp)
Alike(tp, c) == {d \in Fittable(tp) : <<d.pc, d.n, d.kp>> = <<c.pc, c.n, c.kp>>}
FitFound ==
  Completed /\ meta.enabled =>
    \A tp \in DOMAIN meta.per_tp : \A c \in Fittable(tp) :
      /\ CaseKey(ResolveSkewAxes(Read, tp), c) \in DOMAIN tables[tp]
      /\ \E a, b \in Alike(tp, c) : /\ AlphaFor(tp, c) >= (100 * Excess(tp, a)) \div Gap(tp, a)
                                   /\ AlphaFor(tp, c) <= (100 * Excess(tp, b)) \div Gap(tp, b) + 1
=============================================================================
