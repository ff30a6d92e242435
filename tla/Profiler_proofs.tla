-------------------------- MODULE Profiler_proofs --------------------------
(***************************************************************************)
(* Proofs about the sessions of the profiler, for any number of sessions,  *)
(* kills and failing cases, any degrees, grids and engines, wherever in a  *)
(* file or a row a kill cuts: nothing that was measured is lost, what is   *)
(* missing is measured, and every shot that is fired has room in the       *)
(* engine that runs it.                                                    *)
(***************************************************************************)
EXTENDS Profiler, Lists_proofs

-----------------------------------------------------------------------------
(* The inductive invariant *)

(* The shape of the state: a process at work has a session, one that is in *)
(* a degree has that degree at the head of its queue, and only files of    *)
(* layers, of degrees other than tp1, receive replicas.                    *)
AllCases == UNION {BuildCases(Limits(s, tp), s.args) : s \in Sessions, tp \in Degrees}
Shape ==
  /\ disk = [tp \in Degrees |-> disk[tp]]
  /\ session \in Sessions \cup {None}
  /\ phase \in {"idle", "boot", "sweep", "skew", "replicate", "fit"}
  /\ phase # "idle" => session \in Sessions
  /\ queue \in Seq(Degrees)
  /\ phase \in {"sweep", "skew"} => queue # <<>>
  /\ phase = "replicate" => 1 \notin Items(queue) /\ \A f \in Items(cats) : Layered(f)
  /\ cats \in Seq(Categories)
  /\ phase = "skew" => cats = <<>>
  /\ cases \in Seq(AllCases)

-----------------------------------------------------------------------------
(* What is on disk *)

(* The rows that a degree measures itself hold what was measured at it, if *)
(* no kill cut them in what they measured.                                 *)
OwnRow(tp, f, k) == ~Layered(f) \/ tp = 1 \/ k[1] \notin Stable
Authentic(tp, f, csv) == \A k \in DOMAIN csv : OwnRow(tp, f, k) => csv[k] = tp \/ <<tp, f, k>> \in spoilt
MeasuredHere(tp, f) == Authentic(tp, f, Rows(tp, f))
Genuine == \A tp \in Degrees, f \in Files : MeasuredHere(tp, f)

(* Unless it was left with some of its rows only, a file has all the layers*)
(* of a shot that are its degree's or none, so that a row stands for its   *)
(* shot.                                                                   *)
RowsAlike(tp, f, k) == {<<l, k[2]>> : l \in OwnLayers(tp, f)}
WholeFile(tp, f) == \A k \in DOMAIN Rows(tp, f) : RowsAlike(tp, f, k) \subseteq DOMAIN Rows(tp, f)
WholeShots == \A tp \in Degrees, f \in Categories : Layered(f) /\ <<tp, f>> \notin partial => WholeFile(tp, f)

(* How far a full session is.  A category or the skew sweep of a degree is *)
(* over when all its rows are there; the degrees that left the queue are   *)
(* over, and so are the categories that left cats.                         *)
CasesOf(tp) == BuildCases(Limits(session, tp), session.args)
Fired(tp, c) == (Layered(c) => <<tp, c>> \notin partial) => RowsOf(session, tp, c) \subseteq DOMAIN Rows(tp, c)
Sampled(tp) == {c \in CasesOf(tp) : <<tp, c>> \notin failed} \subseteq DOMAIN Rows(tp, "skew")
Finished(tp) ==
  /\ ~session.only_skew => \A c \in Items(CategoriesFor(tp)) : Fired(tp, c)
  /\ ~session.skip_skew => Sampled(tp)
LeftBehind ==
  CASE phase \in {"boot", "sweep", "skew"} -> Items(session.tps) \ Items(queue)
    [] OTHER -> Items(session.tps)
CaseKnown(tp, c) ==
  <<tp, c>> \in failed \/ c \in Items(cases) \/ c \in rows \/ c \in DOMAIN Rows(tp, "skew")
Advanced ==
  /\ \A tp \in LeftBehind : Finished(tp)
  /\ phase \in {"sweep", "skew"} /\ ~session.only_skew =>
       \A c \in Items(CategoriesFor(Head(queue))) \ Items(cats) : Fired(Head(queue), c)
  /\ phase = "skew" => \A c \in CasesOf(Head(queue)) : CaseKnown(Head(queue), c)

Inv == Shape /\ Genuine /\ WholeShots /\ (session # None /\ Full(session) => Advanced)

-----------------------------------------------------------------------------
(* Lists and files *)

(* s[0] and s[1:] *)
LEMMA HeadTailItems ==
  ASSUME NEW T, NEW s \in Seq(T), s # <<>>
  PROVE  /\ Head(s) \in T /\ Head(s) \in Items(s)
         /\ Tail(s) \in Seq(T)
         /\ Items(s) = {Head(s)} \cup Items(Tail(s))
<1>1. /\ Head(s) \in T /\ Tail(s) \in Seq(T) /\ Len(Tail(s)) = Len(s) - 1
      /\ \A i \in 1 .. Len(Tail(s)) : Tail(s)[i] = s[i + 1]
  BY HeadTailProperties
<1>2. /\ Len(s) \in Nat \ {0} /\ DOMAIN s = 1 .. Len(s) /\ Head(s) = s[1]
      /\ DOMAIN Tail(s) = 1 .. Len(Tail(s))
  BY <1>1
<1>3. \A x \in Items(s) : x = Head(s) \/ x \in Items(Tail(s))
  <2> SUFFICES ASSUME NEW i \in 1 .. Len(s), i # 1
               PROVE  s[i] \in Items(Tail(s))
    BY <1>2 DEF Items
  <2>1. i - 1 \in 1 .. Len(Tail(s)) /\ s[i] = Tail(s)[i - 1]
    BY <1>1, <1>2
  <2> QED
    BY <1>2, <2>1 DEF Items
<1>4. \A x \in Items(Tail(s)) : x \in Items(s)
  <2> SUFFICES ASSUME NEW i \in 1 .. Len(Tail(s))
               PROVE  Tail(s)[i] \in Items(s)
    BY <1>2 DEF Items
  <2>1. i + 1 \in 1 .. Len(s) /\ Tail(s)[i] = s[i + 1]
    BY <1>1, <1>2
  <2> QED
    BY <1>2, <2>1 DEF Items
<1>5. Head(s) \in Items(s)
  BY <1>2 DEF Items
<1> QED
  BY <1>1, <1>3, <1>4, <1>5

LEMMA EmptyItems == Items(<<>>) = {}
BY DEF Items

LEMMA OverRows ==
  ASSUME NEW new, NEW old
  PROVE  /\ DOMAIN Over(new, old) = DOMAIN new \cup DOMAIN old
         /\ \A k \in DOMAIN new : Over(new, old)[k] = new[k]
         /\ \A k \in DOMAIN old : k \notin DOMAIN new => Over(new, old)[k] = old[k]
BY DEF Over

(* A write replaces one file, *)
LEMMA WrittenRows ==
  ASSUME disk = [t \in Degrees |-> disk[t]],
         NEW tp \in Degrees, NEW f, NEW new, disk' = Written(tp, f, new)
  PROVE  /\ disk' = [t \in Degrees |-> disk'[t]]
         /\ Rows(tp, f)' = new
         /\ \A t \in Degrees : \A g : t # tp \/ g # f => Rows(t, g)' = Rows(t, g)
<1> DEFINE file == [x \in {f} |-> new]
<1>1. DOMAIN file = {f} /\ file[f] = new
  OBVIOUS
<1>2. disk' = [disk EXCEPT ![tp] = Over(file, disk[tp])]
  BY DEF Written
<1> HIDE DEF file
<1>3. /\ disk' = [t \in Degrees |-> disk'[t]]
      /\ disk'[tp] = Over(file, disk[tp])
      /\ \A t \in Degrees : t # tp => disk'[t] = disk[t]
  BY <1>2
<1>4. /\ DOMAIN disk'[tp] = {f} \cup DOMAIN disk[tp]
      /\ disk'[tp][f] = new
      /\ \A g \in DOMAIN disk[tp] : g # f => disk'[tp][g] = disk[tp][g]
  <2> DEFINE o == Over(file, disk[tp])
  <2>1. /\ DOMAIN o = DOMAIN file \cup DOMAIN disk[tp]
        /\ \A k \in DOMAIN file : o[k] = file[k]
        /\ \A k \in DOMAIN disk[tp] : k \notin DOMAIN file => o[k] = disk[tp][k]
    BY OverRows
  <2>2. disk'[tp] = o
    BY <1>3
  <2> HIDE DEF o
  <2> QED
    BY <1>1, <2>1, <2>2
<1>5. Rows(tp, f)' = new
  BY <1>4 DEF Rows
<1>6. ASSUME NEW t \in Degrees, NEW g, t # tp \/ g # f
      PROVE  Rows(t, g)' = Rows(t, g)
  <2>1. CASE t # tp
    BY <1>3, <2>1 DEF Rows
  <2>2. CASE t = tp /\ g # f
    BY <1>4, <2>2 DEF Rows
  <2> QED
    BY <1>6, <2>1, <2>2
<1> QED
  BY <1>3, <1>5, <1>6

(* and so does its removal. *)
Removed(tp, f) == [disk EXCEPT ![tp] = Without(disk[tp], f)]
LEMMA RemovedRows ==
  ASSUME disk = [t \in Degrees |-> disk[t]],
         NEW tp \in Degrees, NEW f, disk' = Removed(tp, f)
  PROVE  /\ disk' = [t \in Degrees |-> disk'[t]]
         /\ Rows(tp, f)' = <<>>
         /\ \A t \in Degrees : \A g : t # tp \/ g # f => Rows(t, g)' = Rows(t, g)
<1>1. /\ disk' = [t \in Degrees |-> disk'[t]]
      /\ disk'[tp] = Without(disk[tp], f)
      /\ \A t \in Degrees : t # tp => disk'[t] = disk[t]
  BY DEF Removed
<1>2. /\ DOMAIN disk'[tp] = DOMAIN disk[tp] \ {f}
      /\ \A g \in DOMAIN disk[tp] : g # f => disk'[tp][g] = disk[tp][g]
  BY <1>1 DEF Without, Restrict
<1>3. Rows(tp, f)' = <<>>
  BY <1>2 DEF Rows
<1>4. ASSUME NEW t \in Degrees, NEW g, t # tp \/ g # f
      PROVE  Rows(t, g)' = Rows(t, g)
  <2>1. CASE t # tp
    BY <1>1, <2>1 DEF Rows
  <2>2. CASE t = tp /\ g # f
    BY <1>2, <2>2 DEF Rows
  <2> QED
    BY <1>4, <2>1, <2>2
<1> QED
  BY <1>1, <1>3, <1>4

LEMMA SameRows ==
  ASSUME disk' = disk
  PROVE  \A t, f : Rows(t, f)' = Rows(t, f)
BY DEF Rows

(* The degrees of a session and the categories of a degree. *)
LEMMA SessionTypes ==
  ASSUME NEW s \in Sessions
  PROVE  /\ s.tps \in Seq(Degrees) /\ Items(s.tps) \subseteq Degrees
         /\ s.tp \in Degrees /\ 1 \in Degrees /\ s.group \in Categories
         /\ {s.force, s.skip_skew, s.only_skew} \subseteq BOOLEAN
         /\ s # None
<1>1. s.tps \in Seq(Degrees) /\ {s.tp, 1} \subseteq Items(s.tps) /\ s.group \in Categories
      /\ {s.force, s.skip_skew, s.only_skew} \subseteq BOOLEAN /\ s # None
  BY ProfilerAssumption
<1>2. Items(s.tps) \subseteq Degrees
  BY <1>1, ElementOfSeq DEF Items
<1> QED
  BY <1>1, <1>2

LEMMA CategoriesForType ==
  ASSUME NEW tp
  PROVE  /\ CategoriesFor(tp) \in Seq(Categories)
         /\ Items(CategoriesFor(tp)) \subseteq Categories
<1> DEFINE all == <<"dense", "per_sequence", "attention", "moe">>
           S == {c \in Categories : /\ Layers[c] # {}
                                    /\ tp = 1 \/ (c # "moe" /\ ~ Layers[c] \subseteq Stable)}
<1>1. all \in Seq(Categories) /\ S \subseteq Categories
  BY DEF Categories
<1>2. CategoriesFor(tp) = Keep(all, S)
  BY DEF CategoriesFor
<1> HIDE DEF all, S
<1>3. Keep(all, S) \in Seq(Categories) /\ Items(Keep(all, S)) = Items(all) \cap S
  BY <1>1, KeepProperties
<1> QED
  BY <1>1, <1>2, <1>3

LEMMA OtherDegrees ==
  ASSUME NEW s \in Sessions
  PROVE  LET q == Keep(s.tps, Degrees \ {1})
         IN  q \in Seq(Degrees) /\ 1 \notin Items(q)
<1>1. s.tps \in Seq(Degrees)
  BY SessionTypes
<1>2. Keep(s.tps, Degrees \ {1}) \in Seq(Degrees)
      /\ Items(Keep(s.tps, Degrees \ {1})) = Items(s.tps) \cap (Degrees \ {1})
  BY <1>1, KeepProperties
<1> QED
  BY <1>2

(* The layers of the stable files. *)
LEMMA StableFilesType ==
  /\ StableFiles \in Seq(Categories)
  /\ \A f \in Items(StableFiles) : Layered(f)
<1> DEFINE both == <<"dense", "per_sequence">>
           S == {f \in Categories : Layers[f] \cap Stable # {}}
<1>1. both \in Seq(Categories) /\ S \subseteq Categories
  BY DEF Categories
<1>2. \A f \in Items(both) : Layered(f)
  BY DEF Items, Layered
<1>3. StableFiles = Keep(both, S)
  BY DEF StableFiles
<1> HIDE DEF both, S
<1>4. Keep(both, S) \in Seq(Categories) /\ Items(Keep(both, S)) = Items(both) \cap S
  BY <1>1, KeepProperties
<1> QED
  BY <1>2, <1>3, <1>4

(* A row that is cut stays cut. *)
LEMMA StillAuthentic ==
  ASSUME NEW tp, NEW f, NEW csv, Authentic(tp, f, csv), spoilt \subseteq spoilt'
  PROVE  Authentic(tp, f, csv)'
BY DEF Authentic, OwnRow

LEMMA SameMeasured ==
  ASSUME NEW tp, NEW f, MeasuredHere(tp, f), Rows(tp, f)' = Rows(tp, f), spoilt \subseteq spoilt'
  PROVE  MeasuredHere(tp, f)'
<1>1. PICK csv : csv = Rows(tp, f)
  OBVIOUS
<1>2. Authentic(tp, f, csv)
  BY <1>1 DEF MeasuredHere
<1>3. Authentic(tp, f, csv)'
  BY <1>2, StillAuthentic
<1>4. Rows(tp, f)' = csv
  BY <1>1
<1> QED
  BY <1>3, <1>4 DEF MeasuredHere, Authentic, OwnRow

(* What a degree keeps of its files when nobody writes them. *)
LEMMA FilesStill ==
  ASSUME Genuine, WholeShots, disk' = disk, partial \subseteq partial', spoilt \subseteq spoilt'
  PROVE  Genuine' /\ WholeShots'
<1>1. \A t, f : Rows(t, f)' = Rows(t, f)
  BY SameRows
<1>2. ASSUME NEW t \in Degrees, NEW f \in Files
      PROVE  MeasuredHere(t, f)'
  <2>1. MeasuredHere(t, f)
    BY DEF Genuine
  <2> QED
    BY <1>1, <2>1, SameMeasured
<1>3. WholeShots'
  BY <1>1 DEF WholeShots, WholeFile, RowsAlike, OwnLayers
<1> QED
  BY <1>2, <1>3 DEF Genuine

(* One file is written: the others stay as they are. *)
LEMMA OneFileWritten ==
  ASSUME Genuine, WholeShots, NEW tp \in Degrees, NEW f \in Files,
         \A t \in Degrees : \A g : t # tp \/ g # f => Rows(t, g)' = Rows(t, g),
         partial \ {<<tp, f>>} \subseteq partial', spoilt \subseteq spoilt',
         MeasuredHere(tp, f)',
         f \in Categories /\ Layered(f) /\ <<tp, f>> \notin partial' => WholeFile(tp, f)'
  PROVE  Genuine' /\ WholeShots'
<1>1. ASSUME NEW t \in Degrees, NEW g \in Files
      PROVE  MeasuredHere(t, g)'
  <2>1. CASE t = tp /\ g = f
    BY <2>1
  <2>2. CASE t # tp \/ g # f
    <3>1. Rows(t, g)' = Rows(t, g)
      BY <2>2
    <3>2. MeasuredHere(t, g)
      BY DEF Genuine
    <3> QED
      BY <3>1, <3>2, SameMeasured
  <2> QED
    BY <2>1, <2>2
<1>2. ASSUME NEW t \in Degrees, NEW g \in Categories, Layered(g), <<t, g>> \notin partial'
      PROVE  WholeFile(t, g)'
  <2>1. CASE t = tp /\ g = f
    BY <1>2, <2>1
  <2>2. CASE t # tp \/ g # f
    <3>1. Rows(t, g)' = Rows(t, g)
      BY <2>2
    <3>2. <<t, g>> # <<tp, f>>
      BY <2>2
    <3>3. WholeFile(t, g)
      BY <1>2, <3>2 DEF WholeShots
    <3> QED
      BY <3>1, <3>3 DEF WholeFile, RowsAlike, OwnLayers
  <2> QED
    BY <2>1, <2>2
<1>3. Genuine'
  BY <1>1 DEF Genuine
<1>4. WholeShots'
  BY <1>2 DEF WholeShots
<1> QED
  BY <1>3, <1>4

(* What is over stays over while the rows that are its own stay. *)
RowsStay(tp, f) == \A k \in DOMAIN Rows(tp, f) : OwnRow(tp, f, k) => k \in DOMAIN Rows(tp, f)'
Undisturbed(tp) ==
  \A f \in Files : RowsStay(tp, f) /\ (<<tp, f>> \in partial => <<tp, f>> \in partial')

LEMMA RowsOfOwn ==
  ASSUME NEW s, NEW tp, NEW c, NEW k \in RowsOf(s, tp, c)
  PROVE  OwnRow(tp, c, k)
BY DEF RowsOf, OwnKeys, OwnLayers, OwnRow

LEMMA FiredStays ==
  ASSUME NEW tp \in Degrees, NEW c \in Categories, session' = session,
         RowsStay(tp, c), <<tp, c>> \in partial => <<tp, c>> \in partial',
         Fired(tp, c)
  PROVE  Fired(tp, c)'
<1> SUFFICES ASSUME Layered(c) => <<tp, c>> \notin partial'
             PROVE  RowsOf(session', tp, c) \subseteq DOMAIN Rows(tp, c)'
  BY DEF Fired
<1>1. RowsOf(session, tp, c) \subseteq DOMAIN Rows(tp, c)
  BY DEF Fired
<1>2. \A k \in RowsOf(session, tp, c) : OwnRow(tp, c, k)
  BY RowsOfOwn
<1>3. \A k \in RowsOf(session, tp, c) : k \in DOMAIN Rows(tp, c)'
  BY <1>1, <1>2 DEF RowsStay
<1> QED
  BY <1>3

LEMMA FinishedStays ==
  ASSUME NEW tp \in Degrees, session' = session, session \in Sessions,
         Undisturbed(tp), failed \subseteq failed', Finished(tp)
  PROVE  Finished(tp)'
<1>1. ASSUME ~session.only_skew, NEW c \in Items(CategoriesFor(tp))
      PROVE  Fired(tp, c)'
  <2>1. c \in Categories /\ c \in Files
    BY CategoriesForType DEF Files
  <2>2. Fired(tp, c)
    BY <1>1 DEF Finished
  <2> QED
    BY <2>1, <2>2, FiredStays DEF Undisturbed
<1>2. ASSUME ~session.skip_skew
      PROVE  Sampled(tp)'
  <2>1. "skew" \in Files /\ \A k : OwnRow(tp, "skew", k)
    BY DEF Files, OwnRow, Layered
  <2>2. DOMAIN Rows(tp, "skew") \subseteq DOMAIN Rows(tp, "skew")'
    BY <2>1 DEF Undisturbed, RowsStay
  <2>3. {c \in CasesOf(tp) : <<tp, c>> \notin failed} \subseteq DOMAIN Rows(tp, "skew")
    BY <1>2 DEF Finished, Sampled
  <2>4. CasesOf(tp)' = CasesOf(tp)
    BY DEF CasesOf, Limits
  <2> QED
    BY <2>2, <2>3, <2>4 DEF Sampled
<1> QED
  BY <1>1, <1>2 DEF Finished

LEMMA InvInit ==
  ASSUME Init
  PROVE  Inv
<1>1. /\ disk = [tp \in Degrees |-> <<>>] /\ session = None /\ phase = "idle"
      /\ queue = <<>> /\ cats = <<>> /\ cases = <<>>
  BY DEF Init
<1>2. Shape
  BY <1>1 DEF Shape
<1>3. \A tp \in Degrees : \A f : Rows(tp, f) = <<>>
  BY <1>1 DEF Rows
<1>4. Genuine
  BY <1>3 DEF Genuine, MeasuredHere, Authentic
<1>5. WholeShots
  BY <1>3 DEF WholeShots, WholeFile
<1> QED
  BY <1>1, <1>2, <1>4, <1>5 DEF Inv

-----------------------------------------------------------------------------
(* A category *)

LEMMA PairConcat ==
  ASSUME NEW a, NEW b
  PROVE  <<a>> \o <<b>> = <<a, b>>
<1> DEFINE T == {a, b}
<1>1. <<a>> \in Seq(T) /\ <<b>> \in Seq(T) /\ <<a, b>> \in Seq(T)
  OBVIOUS
<1>2. Len(<<a>>) = 1 /\ Len(<<b>>) = 1 /\ Len(<<a, b>>) = 2
  OBVIOUS
<1> HIDE DEF T
<1>3. /\ <<a>> \o <<b>> \in Seq(T) /\ Len(<<a>> \o <<b>>) = 2
      /\ \A i \in 1 .. 2 : (<<a>> \o <<b>>)[i] = IF i <= 1 THEN <<a>>[i] ELSE <<b>>[i - 1]
  BY <1>1, <1>2, ConcatProperties
<1>4. \A i \in 1 .. 2 : (<<a>> \o <<b>>)[i] = <<a, b>>[i]
  <2>1. (<<a>> \o <<b>>)[1] = a /\ (<<a>> \o <<b>>)[2] = b
    BY <1>3
  <2> QED
    BY <2>1
<1> QED
  BY <1>1, <1>2, <1>3, <1>4, SeqEqual

(* The rows of a shot: one, or one for each layer. *)
LEMMA ShotRows ==
  ASSUME NEW c \in Categories, NEW shot
  PROVE  /\ ~Layered(c) => RowKeys(c, shot) = {ShotKey(c, shot)}
         /\ Layered(c) => \E n : /\ ShotKey(c, shot) = <<n>>
                                 /\ RowKeys(c, shot) = {<<l, n>> : l \in Layers[c]}
<1>1. CASE Layered(c)
  <2>1. c = "dense" \/ c = "per_sequence"
    BY <1>1 DEF Layered
  <2>2. PICK n : ShotKey(c, shot) = <<n>>
    BY <2>1 DEF ShotKey
  <2>3. \A l : <<l>> \o <<n>> = <<l, n>>
    BY PairConcat
  <2>4. RowKeys(c, shot) = {<<l, n>> : l \in Layers[c]}
    BY <1>1, <2>2, <2>3 DEF RowKeys
  <2> QED
    BY <1>1, <2>2, <2>4
<1>2. CASE ~Layered(c)
  BY <1>2 DEF RowKeys
<1> QED
  BY <1>1, <1>2

(* The shots that are fired, and the rows they bring. *)
Unmeasured(tp, c) ==
  {s \in ShotsOf(session, tp, c) : ShotKey(c, s) \notin PriorShotKeys(c, DOMAIN Preload(tp, c))}
NewRows(tp, c) == UNION {RowKeys(c, s) : s \in Unmeasured(tp, c)}

LEMMA SweptIs ==
  ASSUME NEW tp, NEW c
  PROVE  /\ DOMAIN Swept(tp, c) = NewRows(tp, c) \cup DOMAIN Preload(tp, c)
         /\ \A k \in NewRows(tp, c) : Swept(tp, c)[k] = tp
         /\ \A k \in DOMAIN Preload(tp, c) : k \notin NewRows(tp, c) => Swept(tp, c)[k] = Preload(tp, c)[k]
<1> DEFINE new == MeasuredAt(tp, NewRows(tp, c))
           old == Preload(tp, c)
<1>1. Swept(tp, c) = Over(new, old)
  BY DEF Swept, NewRows, Unmeasured, ShotsOf
<1>2. DOMAIN new = NewRows(tp, c) /\ \A k \in NewRows(tp, c) : new[k] = tp
  BY DEF MeasuredAt
<1> HIDE DEF new, old
<1>3. /\ DOMAIN Over(new, old) = DOMAIN new \cup DOMAIN old
      /\ \A k \in DOMAIN new : Over(new, old)[k] = new[k]
      /\ \A k \in DOMAIN old : k \notin DOMAIN new => Over(new, old)[k] = old[k]
  BY OverRows
<1>4. /\ DOMAIN Swept(tp, c) = NewRows(tp, c) \cup DOMAIN old
      /\ \A k \in NewRows(tp, c) : Swept(tp, c)[k] = tp
      /\ \A k \in DOMAIN old : k \notin NewRows(tp, c) => Swept(tp, c)[k] = old[k]
  BY <1>1, <1>2, <1>3
<1> QED
  BY <1>4 DEF old

LEMMA SweptAuthentic ==
  ASSUME Genuine, NEW tp \in Degrees, NEW c \in Categories
  PROVE  Authentic(tp, c, Swept(tp, c))
<1>1. Authentic(tp, c, Preload(tp, c))
  <2>1. MeasuredHere(tp, c)
    BY DEF Genuine, Files
  <2> QED
    BY <2>1 DEF Preload, MeasuredHere, Authentic
<1>2. /\ DOMAIN Swept(tp, c) = NewRows(tp, c) \cup DOMAIN Preload(tp, c)
      /\ \A k \in NewRows(tp, c) : Swept(tp, c)[k] = tp
      /\ \A k \in DOMAIN Preload(tp, c) : k \notin NewRows(tp, c) => Swept(tp, c)[k] = Preload(tp, c)[k]
  BY SweptIs
<1> QED
  BY <1>1, <1>2 DEF Authentic

LEMMA SweptWhole ==
  ASSUME WholeShots, NEW tp \in Degrees, NEW c \in Categories, Layered(c),
         session.force \/ <<tp, c>> \notin partial
  PROVE  \A k \in DOMAIN Swept(tp, c) : RowsAlike(tp, c, k) \subseteq DOMAIN Swept(tp, c)
<1>1. DOMAIN Swept(tp, c) = NewRows(tp, c) \cup DOMAIN Preload(tp, c)
  BY SweptIs
<1>2. ASSUME NEW k \in NewRows(tp, c)
      PROVE  RowsAlike(tp, c, k) \subseteq NewRows(tp, c)
  <2>1. PICK s \in Unmeasured(tp, c) : k \in RowKeys(c, s)
    BY DEF NewRows
  <2>2. PICK n : ShotKey(c, s) = <<n>> /\ RowKeys(c, s) = {<<l, n>> : l \in Layers[c]}
    BY ShotRows
  <2>3. k[2] = n
    BY <2>1, <2>2
  <2>4. RowsAlike(tp, c, k) \subseteq RowKeys(c, s)
    BY <2>2, <2>3 DEF RowsAlike, OwnLayers
  <2> QED
    BY <2>4 DEF NewRows
<1>3. ASSUME NEW k \in DOMAIN Preload(tp, c)
      PROVE  RowsAlike(tp, c, k) \subseteq DOMAIN Preload(tp, c)
  <2>1. ~session.force /\ Preload(tp, c) = Rows(tp, c)
    BY DEF Preload
  <2>2. WholeFile(tp, c)
    BY <2>1 DEF WholeShots
  <2> QED
    BY <2>1, <2>2 DEF WholeFile
<1> QED
  BY <1>1, <1>2, <1>3

(* Every row of the category is there afterwards. *)
LEMMA SweptComplete ==
  ASSUME WholeShots, NEW tp \in Degrees, NEW c \in Categories,
         Layered(c) => session.force \/ <<tp, c>> \notin partial
  PROVE  RowsOf(session, tp, c) \subseteq DOMAIN Swept(tp, c)
<1> SUFFICES ASSUME NEW s \in ShotsOf(session, tp, c), NEW k \in RowKeys(c, s),
                    Layered(c) => k[1] \in OwnLayers(tp, c)
             PROVE  k \in DOMAIN Swept(tp, c)
  BY DEF RowsOf, OwnKeys
<1>1. DOMAIN Swept(tp, c) = NewRows(tp, c) \cup DOMAIN Preload(tp, c)
  BY SweptIs
<1>2. CASE s \in Unmeasured(tp, c)
  BY <1>1, <1>2 DEF NewRows
<1>3. CASE s \notin Unmeasured(tp, c)
  <2>1. ShotKey(c, s) \in PriorShotKeys(c, DOMAIN Preload(tp, c))
    BY <1>3 DEF Unmeasured
  <2>2. CASE ~Layered(c)
    <3>1. k = ShotKey(c, s)
      BY <2>2, ShotRows
    <3> QED
      BY <1>1, <2>1, <2>2, <3>1 DEF PriorShotKeys
  <2>3. CASE Layered(c)
    <3>1. PICK m \in DOMAIN Preload(tp, c) : ShotKey(c, s) = <<m[2]>>
      BY <2>1, <2>3 DEF PriorShotKeys
    <3>2. PICK n : ShotKey(c, s) = <<n>> /\ RowKeys(c, s) = {<<l, n>> : l \in Layers[c]}
      BY <2>3, ShotRows
    <3>3. n = m[2]
      BY <3>1, <3>2
    <3>4. PICK l \in Layers[c] : k = <<l, n>>
      BY <3>2
    <3>5. l \in OwnLayers(tp, c)
      BY <2>3, <3>4
    <3>6. k \in RowsAlike(tp, c, m)
      BY <3>3, <3>4, <3>5 DEF RowsAlike
    <3>7. m \in DOMAIN Swept(tp, c)
      BY <1>1, <3>1
    <3>8. RowsAlike(tp, c, m) \subseteq DOMAIN Swept(tp, c)
      BY <2>3, <3>7, SweptWhole
    <3> QED
      BY <3>6, <3>8
  <2> QED
    BY <2>2, <2>3
<1> QED
  BY <1>2, <1>3

LEMMA FireCategoryShape ==
  ASSUME Inv, FireCategory
  PROVE  Shape' /\ cats # <<>> /\ Head(cats) \in Categories /\ Head(queue) \in Degrees
         /\ Tail(cats) \in Seq(Categories)
<1>1. Shape /\ phase = "sweep" /\ cats # <<>>
  BY DEF Inv, FireCategory
<1>2. session \in Sessions /\ queue \in Seq(Degrees) /\ queue # <<>> /\ cats \in Seq(Categories)
  BY <1>1 DEF Shape
<1>3. Head(queue) \in Degrees /\ Head(cats) \in Categories /\ Tail(cats) \in Seq(Categories)
  BY <1>1, <1>2, HeadTailItems
<1>4. /\ UNCHANGED <<session, phase, queue, cases>> /\ cats' = Tail(cats)
      /\ \/ disk' = disk
         \/ disk' = Written(Head(queue), Head(cats), Swept(Head(queue), Head(cats)))
  BY DEF FireCategory, sweep
<1>5. disk' = [t \in Degrees |-> disk'[t]]
  BY <1>1, <1>3, <1>4, WrittenRows DEF Shape
<1> QED
  BY <1>1, <1>2, <1>3, <1>4, <1>5 DEF Shape

LEMMA FireCategoryAt ==
  ASSUME Inv, FireCategory, NEW tp, tp = Head(queue), NEW c, c = Head(cats),
         NEW shots, shots = ShotsOf(session, tp, c)
  PROVE  Inv'
<1>1. /\ Shape' /\ cats # <<>> /\ c \in Categories /\ tp \in Degrees /\ Tail(cats) \in Seq(Categories)
  BY FireCategoryShape
<1>2. /\ Shape /\ Genuine /\ WholeShots /\ phase = "sweep"
      /\ session \in Sessions /\ queue \in Seq(Degrees) /\ queue # <<>> /\ cats \in Seq(Categories)
  BY DEF Inv, FireCategory, Shape
<1>3. /\ disk' = IF shots # {} THEN Written(tp, c, Swept(tp, c)) ELSE disk
      /\ partial' = partial \ IF session.force /\ shots # {} THEN {<<tp, c>>} ELSE {}
      /\ spoilt' = spoilt
      /\ cats' = Tail(cats) /\ session' = session /\ phase' = phase /\ queue' = queue
      /\ failed' = failed
  <2>1. Composes(tp, c) <=> shots # {}
    BY DEF Composes, ShotsOf
  <2> QED
    BY <2>1 DEF FireCategory
<1>4. Items(cats) = {c} \cup Items(cats')
  BY <1>1, <1>2, <1>3, HeadTailItems
<1>5. tp \in Items(queue)
  BY <1>2, HeadTailItems
<1>6. disk = [t \in Degrees |-> disk[t]] /\ c \in Files
  BY <1>1, <1>2 DEF Shape, Files
<1>7. /\ shots # {} => Rows(tp, c)' = Swept(tp, c)
      /\ shots = {} => Rows(tp, c)' = Rows(tp, c)
      /\ \A t \in Degrees : \A g : t # tp \/ g # c => Rows(t, g)' = Rows(t, g)
  <2>1. CASE shots = {}
    BY <1>3, <2>1, SameRows
  <2>2. CASE shots # {}
    <3>1. disk' = Written(tp, c, Swept(tp, c))
      BY <1>3, <2>2
    <3>2. /\ Rows(tp, c)' = Swept(tp, c)
          /\ \A t \in Degrees : \A g : t # tp \/ g # c => Rows(t, g)' = Rows(t, g)
      BY <1>1, <1>6, <3>1, WrittenRows
    <3> QED
      BY <2>2, <3>2
  <2> QED
    BY <2>1, <2>2
<1>8. Genuine' /\ WholeShots'
  <2>1. CASE shots = {}
    <3>1. disk' = disk /\ partial' = partial
      BY <1>3, <2>1
    <3> QED
      BY <1>2, <1>3, <3>1, FilesStill
  <2>2. CASE shots # {}
    <3>1. Rows(tp, c)' = Swept(tp, c)
      BY <1>7, <2>2
    <3>2. MeasuredHere(tp, c)'
      <4>1. PICK csv : csv = Swept(tp, c)
        OBVIOUS
      <4>2. Authentic(tp, c, csv)
        BY <1>1, <1>2, <4>1, SweptAuthentic
      <4>3. Rows(tp, c)' = csv
        BY <3>1, <4>1
      <4> QED
        BY <1>3, <4>2, <4>3 DEF MeasuredHere, Authentic, OwnRow
    <3>3. ASSUME Layered(c), <<tp, c>> \notin partial'
          PROVE  WholeFile(tp, c)'
      <4>1. session.force \/ <<tp, c>> \notin partial
        BY <1>3, <3>3
      <4>2. \A k \in DOMAIN Swept(tp, c) : RowsAlike(tp, c, k) \subseteq DOMAIN Swept(tp, c)
        BY <1>1, <1>2, <3>3, <4>1, SweptWhole
      <4>3. \A k : RowsAlike(tp, c, k)' = RowsAlike(tp, c, k)
        BY DEF RowsAlike, OwnLayers
      <4> QED
        BY <3>1, <4>2, <4>3 DEF WholeFile
    <3>4. partial \ {<<tp, c>>} \subseteq partial' /\ spoilt \subseteq spoilt'
      BY <1>3
    <3> QED
      BY <1>1, <1>2, <1>6, <1>7, <3>2, <3>3, <3>4, OneFileWritten
  <2> QED
    BY <2>1, <2>2
<1>9. Fired(tp, c)'
  <2> SUFFICES ASSUME Layered(c) => <<tp, c>> \notin partial'
               PROVE  RowsOf(session', tp, c) \subseteq DOMAIN Rows(tp, c)'
    BY DEF Fired
  <2>1. RowsOf(session', tp, c) = RowsOf(session, tp, c)
    BY <1>3
  <2>2. CASE shots = {}
    <3>1. RowsOf(session, tp, c) = {}
      BY <2>2 DEF RowsOf, OwnKeys
    <3> QED
      BY <2>1, <3>1
  <2>3. CASE shots # {}
    <3>1. Rows(tp, c)' = Swept(tp, c)
      BY <1>7, <2>3
    <3>2. Layered(c) => session.force \/ <<tp, c>> \notin partial
      BY <1>3
    <3>3. RowsOf(session, tp, c) \subseteq DOMAIN Swept(tp, c)
      BY <1>1, <1>2, <3>2, SweptComplete
    <3> QED
      BY <2>1, <3>1, <3>3
  <2> QED
    BY <2>2, <2>3
<1>10. ASSUME Full(session), Advanced
       PROVE  Advanced'
  <2>1. ASSUME NEW t \in LeftBehind'
        PROVE  Finished(t)'
    <3>1. t \in LeftBehind /\ t \in Items(session.tps) \ Items(queue)
      BY <1>2, <1>3 DEF LeftBehind
    <3>2. t # tp /\ t \in Degrees
      BY <1>2, <1>5, <3>1, SessionTypes
    <3>3. Undisturbed(t)
      <4>1. \A f : <<t, f>> # <<tp, c>>
        BY <3>2
      <4> QED
        BY <1>3, <1>7, <3>2, <4>1 DEF Undisturbed, RowsStay
    <3>4. Finished(t)
      BY <1>10, <3>1 DEF Advanced
    <3> QED
      BY <1>2, <1>3, <3>2, <3>3, <3>4, FinishedStays
  <2>2. ASSUME ~session.only_skew, NEW d \in Items(CategoriesFor(tp)) \ Items(cats')
        PROVE  Fired(tp, d)'
    <3>1. CASE d = c
      BY <1>9, <3>1
    <3>2. CASE d # c
      <4>1. Fired(tp, d)
        BY <1>2, <1>4, <1>10, <2>2, <3>2 DEF Advanced
      <4>2. d \in Categories
        BY CategoriesForType
      <4>3. Rows(tp, d)' = Rows(tp, d) /\ (<<tp, d>> \in partial => <<tp, d>> \in partial')
        BY <1>1, <1>3, <1>7, <3>2
      <4>4. RowsStay(tp, d)
        BY <4>3 DEF RowsStay
      <4> QED
        BY <1>1, <1>3, <4>1, <4>2, <4>3, <4>4, FiredStays
    <3> QED
      BY <3>1, <3>2
  <2>3. phase' = "sweep" /\ session' = session /\ Head(queue') = tp
    BY <1>2, <1>3
  <2>4. \A t \in LeftBehind' : Finished(t)'
    BY <2>1
  <2>5. ~session.only_skew => \A d \in Items(CategoriesFor(tp)) \ Items(cats') : Fired(tp, d)'
    BY <2>2
  <2> QED
    BY <2>3, <2>4, <2>5 DEF Advanced
<1>11. session' # None /\ Full(session') => Advanced'
  <2>1. session' = session
    BY <1>3
  <2> QED
    BY <1>10, <2>1 DEF Inv
<1> QED
  BY <1>1, <1>8, <1>11 DEF Inv

LEMMA FireCategoryStep ==
  ASSUME Inv, FireCategory
  PROVE  Inv'
BY FireCategoryAt

-----------------------------------------------------------------------------
(* Steps that write nothing *)

LEMMA StillFinished ==
  ASSUME session' = session, session \in Sessions, disk' = disk, partial' = partial, failed \subseteq failed'
  PROVE  /\ \A t \in Degrees : Finished(t) => Finished(t)'
         /\ \A t \in Degrees, c \in Categories : Fired(t, c) => Fired(t, c)'
<1>1. \A t, f : Rows(t, f)' = Rows(t, f)
  BY SameRows
<1>2. \A t \in Degrees : Undisturbed(t)
  BY <1>1 DEF Undisturbed, RowsStay
<1>3. ASSUME NEW t \in Degrees, Finished(t)
      PROVE  Finished(t)'
  BY <1>2, <1>3, FinishedStays
<1>4. ASSUME NEW t \in Degrees, NEW c \in Categories, Fired(t, c)
      PROVE  Fired(t, c)'
  <2>1. RowsStay(t, c)
    BY <1>1 DEF RowsStay
  <2> QED
    BY <1>4, <2>1, FiredStays
<1> QED
  BY <1>3, <1>4

LEMMA StartStep ==
  ASSUME Inv, NEW s \in Sessions, Start(s)
  PROVE  Inv'
<1>1. /\ Shape /\ session' = s /\ phase' = "boot"
      /\ queue' = IF Full(s) THEN s.tps ELSE <<s.tp>>
      /\ UNCHANGED <<disk, cats, cases, partial, spoilt>>
  BY DEF Inv, Start, sweep, seen
<1>2. s.tps \in Seq(Degrees) /\ s.tp \in Degrees
  BY SessionTypes
<1>3. queue' \in Seq(Degrees)
  BY <1>1, <1>2
<1>4. Shape'
  BY <1>1, <1>3 DEF Shape
<1>5. Genuine' /\ WholeShots'
  BY <1>1, FilesStill DEF Inv
<1>6. Full(s) => LeftBehind' = {}
  BY <1>1 DEF LeftBehind
<1>7. Full(s) => Advanced'
  BY <1>1, <1>6 DEF Advanced
<1> QED
  BY <1>1, <1>4, <1>5, <1>7 DEF Inv

LEMMA BootStep ==
  ASSUME Inv, Boot
  PROVE  Inv'
<1>1. /\ Shape /\ phase = "boot" /\ queue # <<>> /\ phase' = "sweep" /\ session \in Sessions
      /\ queue \in Seq(Degrees)
      /\ UNCHANGED <<disk, session, queue, cases, rows, failed, partial, spoilt>>
  BY DEF Inv, Boot, Shape, sweep, seen
<1>2. cats' = CASE ~Full(session) -> <<session.group>>
                [] session.only_skew -> <<>>
                [] OTHER -> CategoriesFor(Head(queue))
  BY <1>1 DEF Boot
<1>3. session.group \in Categories /\ session.only_skew \in BOOLEAN
  BY <1>1, SessionTypes
<1>4. CategoriesFor(Head(queue)) \in Seq(Categories)
  BY CategoriesForType
<1>5. cats' \in Seq(Categories)
  <2>1. CASE ~Full(session)
    BY <1>2, <1>3, <2>1
  <2>2. CASE Full(session) /\ session.only_skew
    BY <1>2, <2>2
  <2>3. CASE Full(session) /\ ~session.only_skew
    BY <1>2, <1>4, <2>3
  <2> QED
    BY <2>1, <2>2, <2>3
<1>6. Shape'
  BY <1>1, <1>5 DEF Shape
<1>7. Genuine' /\ WholeShots'
  BY <1>1, FilesStill DEF Inv
<1>8. ASSUME Full(session), Advanced
      PROVE  Advanced'
  <2>1. LeftBehind' = LeftBehind
    BY <1>1 DEF LeftBehind
  <2>2. ASSUME NEW t \in LeftBehind'
        PROVE  Finished(t)'
    <3>1. t \in Degrees /\ Finished(t)
      BY <1>1, <1>8, <2>1, SessionTypes DEF LeftBehind, Advanced
    <3> QED
      BY <1>1, <3>1, StillFinished
  <2>3. ~session.only_skew => cats' = CategoriesFor(Head(queue))
    BY <1>2, <1>8
  <2> QED
    BY <1>1, <2>2, <2>3 DEF Advanced
<1> QED
  BY <1>1, <1>6, <1>7, <1>8 DEF Inv

(* Steps that end a session without writing. *)
LEMMA Abandoned ==
  ASSUME Inv, session' = None, phase' = "idle", queue' = <<>>, UNCHANGED <<disk, partial, spoilt>>,
         cats' \in Seq(Categories), cases' \in Seq(AllCases)
  PROVE  Inv'
<1>1. Shape'
  BY DEF Inv, Shape
<1>2. Genuine' /\ WholeShots'
  BY FilesStill DEF Inv
<1> QED
  BY <1>1, <1>2 DEF Inv

LEMMA BootFailsStep ==
  ASSUME Inv, BootFails
  PROVE  Inv'
<1>1. /\ session' = None /\ phase' = "idle" /\ queue' = <<>>
      /\ UNCHANGED <<disk, partial, spoilt, cats, cases>>
  BY DEF BootFails, sweep, seen
<1> QED
  BY <1>1, Abandoned DEF Inv, Shape

LEMMA ReadFailsStep ==
  ASSUME Inv, ReadFails
  PROVE  Inv'
<1>1. /\ session' = None /\ phase' = "idle" /\ queue' = <<>> /\ cats' = <<>>
      /\ UNCHANGED <<disk, partial, spoilt, cases>>
  BY DEF ReadFails, sweep, seen
<1> QED
  BY <1>1, Abandoned DEF Inv, Shape

LEMMA CrashStep ==
  ASSUME Inv, Crash
  PROVE  Inv'
<1>1. /\ session' = None /\ phase' = "idle" /\ queue' = <<>> /\ cats' = <<>> /\ cases' = <<>>
      /\ UNCHANGED <<disk, partial, spoilt>>
  BY DEF Crash, Dies, seen
<1> QED
  BY <1>1, Abandoned

(* Steps after the sweep, which a full session enters with every degree *)
(* over, and which end with every degree over.                          *)
LEMMA AfterSweep ==
  ASSUME Inv, session \in Sessions, session' = session,
         UNCHANGED <<disk, partial, spoilt, failed, cases>>,
         Full(session) => LeftBehind = Items(session.tps),
         phase' \in {"replicate", "fit", "idle"}, queue' \in Seq(Degrees), cats' \in Seq(Categories),
         phase' = "replicate" => 1 \notin Items(queue') /\ \A f \in Items(cats') : Layered(f)
  PROVE  Inv'
<1>1. Shape'
  BY DEF Inv, Shape
<1>2. Genuine' /\ WholeShots'
  BY FilesStill DEF Inv
<1>3. ASSUME Full(session), Advanced
      PROVE  Advanced'
  <2>1. LeftBehind' = LeftBehind
    BY <1>3 DEF LeftBehind
  <2>2. ASSUME NEW t \in LeftBehind'
        PROVE  Finished(t)'
    <3>1. t \in Degrees /\ Finished(t)
      BY <1>3, <2>1, SessionTypes DEF Advanced
    <3> QED
      BY <3>1, StillFinished
  <2> QED
    BY <2>2 DEF Advanced
<1> QED
  BY <1>1, <1>2, <1>3 DEF Inv

LEMMA SweepsStep ==
  ASSUME Inv, Sweeps
  PROVE  Inv'
<1>1. /\ Shape /\ phase = "boot" /\ queue = <<>> /\ session \in Sessions
      /\ phase' = IF Replicates(session) THEN "replicate" ELSE "fit"
      /\ queue' = IF Replicates(session) THEN Keep(session.tps, Degrees \ {1}) ELSE session.tps
      /\ cats' = IF Replicates(session) THEN StableFiles ELSE cats
      /\ UNCHANGED <<disk, session, cases, failed, partial, spoilt>>
  BY DEF Inv, Sweeps, Shape, sweep, seen
<1>2. /\ Keep(session.tps, Degrees \ {1}) \in Seq(Degrees)
      /\ 1 \notin Items(Keep(session.tps, Degrees \ {1}))
      /\ session.tps \in Seq(Degrees)
  BY <1>1, OtherDegrees, SessionTypes
<1>3. LeftBehind = Items(session.tps)
  BY <1>1, EmptyItems DEF LeftBehind
<1>4. /\ phase' \in {"replicate", "fit", "idle"} /\ queue' \in Seq(Degrees)
      /\ phase' = "replicate" => 1 \notin Items(queue')
  BY <1>1, <1>2
<1>5. /\ cats' \in Seq(Categories)
      /\ phase' = "replicate" => \A f \in Items(cats') : Layered(f)
  <2>1. CASE Replicates(session)
    <3>1. cats' = StableFiles
      BY <1>1, <2>1
    <3> QED
      BY <3>1, StableFilesType
  <2>2. CASE ~Replicates(session)
    <3>1. cats' = cats /\ phase' = "fit"
      BY <1>1, <2>2
    <3> QED
      BY <1>1, <3>1 DEF Shape
  <2> QED
    BY <2>1, <2>2
<1> QED
  BY <1>1, <1>3, <1>4, <1>5, AfterSweep

LEMMA NextReplicaStep ==
  ASSUME Inv, NextReplica
  PROVE  Inv'
<1>1. /\ Shape /\ phase = "replicate" /\ session \in Sessions /\ phase' = phase
      /\ queue # <<>> /\ queue \in Seq(Degrees) /\ queue' = Tail(queue) /\ 1 \notin Items(queue)
      /\ cats' = StableFiles
      /\ UNCHANGED <<disk, session, cases, failed, partial, spoilt>>
  BY DEF Inv, NextReplica, Shape, sweep, seen
<1>2. Tail(queue) \in Seq(Degrees) /\ 1 \notin Items(queue')
  BY <1>1, HeadTailItems
<1>3. LeftBehind = Items(session.tps)
  BY <1>1 DEF LeftBehind
<1>4. cats' \in Seq(Categories) /\ \A f \in Items(cats') : Layered(f)
  BY <1>1, StableFilesType
<1> QED
  BY <1>1, <1>2, <1>3, <1>4, AfterSweep

LEMMA ReplicasStep ==
  ASSUME Inv, Replicas
  PROVE  Inv'
<1>1. /\ Shape /\ phase = "replicate" /\ session \in Sessions /\ phase' = "fit" /\ queue' = session.tps
      /\ cats' = <<>>
      /\ UNCHANGED <<disk, session, cases, failed, partial, spoilt>>
  BY DEF Inv, Replicas, Shape, sweep, seen
<1>2. session.tps \in Seq(Degrees) /\ LeftBehind = Items(session.tps) /\ cats' \in Seq(Categories)
  BY <1>1, SessionTypes DEF LeftBehind
<1> QED
  BY <1>1, <1>2, AfterSweep

LEMMA WriteSkewFitCsvStep ==
  ASSUME Inv, WriteSkewFitCsv
  PROVE  Inv'
<1>1. /\ Shape /\ phase = "fit" /\ session \in Sessions /\ phase' = phase
      /\ queue # <<>> /\ queue \in Seq(Degrees) /\ queue' = Tail(queue)
      /\ cats \in Seq(Categories) /\ cats' = cats
      /\ UNCHANGED <<disk, session, cases, failed, partial, spoilt>>
  BY DEF Inv, WriteSkewFitCsv, Fitting, Shape, sweep, seen
<1>2. Tail(queue) \in Seq(Degrees)
  BY <1>1, HeadTailItems
<1>3. LeftBehind = Items(session.tps)
  BY <1>1 DEF LeftBehind
<1> QED
  BY <1>1, <1>2, <1>3, AfterSweep

LEMMA PersistMetaStep ==
  ASSUME Inv, PersistMeta
  PROVE  Inv'
<1>1. /\ Shape /\ phase = "fit" /\ session \in Sessions /\ phase' = "idle"
      /\ queue \in Seq(Degrees) /\ queue' = queue /\ cats \in Seq(Categories) /\ cats' = cats
      /\ UNCHANGED <<disk, session, cases, failed, partial, spoilt>>
  BY DEF Inv, PersistMeta, Fitting, Shape, sweep, seen
<1>2. LeftBehind = Items(session.tps)
  BY <1>1 DEF LeftBehind
<1> QED
  BY <1>1, <1>2, AfterSweep

-----------------------------------------------------------------------------
(* Replication and kills *)

(* A merge has the stable rows of tp1 and the degree's own, as they were. *)
LEMMA MergedRows ==
  ASSUME NEW tp, NEW f
  PROVE  /\ DOMAIN Merged(tp, f) = StableKeys(Rows(1, f)) \cup {k \in DOMAIN Rows(tp, f) : k[1] \notin Stable}
         /\ \A k \in DOMAIN Merged(tp, f) :
              k[1] \notin Stable => k \in DOMAIN Rows(tp, f) /\ Merged(tp, f)[k] = Rows(tp, f)[k]
<1>1. PICK old : old = Rows(tp, f)
  OBVIOUS
<1>2. PICK own : own = Owned(old)
  OBVIOUS
<1>3. PICK first : first = Restrict(Rows(1, f), StableKeys(Rows(1, f)))
  OBVIOUS
<1>4. Merged(tp, f) = Over(first, own)
  BY <1>1, <1>2, <1>3 DEF Merged
<1>5. /\ DOMAIN Over(first, own) = DOMAIN first \cup DOMAIN own
      /\ \A k \in DOMAIN own : k \notin DOMAIN first => Over(first, own)[k] = own[k]
  BY OverRows
<1>6. /\ DOMAIN own = {k \in DOMAIN old : k[1] \notin Stable}
      /\ \A k \in DOMAIN own : own[k] = old[k]
  BY <1>2 DEF Owned, Restrict, StableKeys
<1>7. DOMAIN first = StableKeys(Rows(1, f)) /\ \A k \in DOMAIN first : k[1] \in Stable
  BY <1>3 DEF Restrict, StableKeys
<1> QED
  BY <1>1, <1>4, <1>5, <1>6, <1>7

LEMMA MergedAuthentic ==
  ASSUME Genuine, NEW tp \in Degrees, tp # 1, NEW f \in Files, Layered(f)
  PROVE  Authentic(tp, f, Merged(tp, f))
<1>1. Authentic(tp, f, Rows(tp, f))
  BY DEF Genuine, MeasuredHere
<1>2. \A k \in DOMAIN Merged(tp, f) :
        k[1] \notin Stable => k \in DOMAIN Rows(tp, f) /\ Merged(tp, f)[k] = Rows(tp, f)[k]
  BY MergedRows
<1> QED
  BY <1>1, <1>2 DEF Authentic, OwnRow

(* A stable row that is copied has the other layers of its shot beside it, *)
(* or the file is marked.                                                  *)
LEMMA MergedWhole ==
  ASSUME NEW tp \in Degrees, tp # 1, NEW f, WholeFile(tp, f), ~Seeds(tp, f)
  PROVE  \A k \in DOMAIN Merged(tp, f) : RowsAlike(tp, f, k) \subseteq DOMAIN Merged(tp, f)
<1>1. DOMAIN Merged(tp, f) = StableKeys(Rows(1, f)) \cup {k \in DOMAIN Rows(tp, f) : k[1] \notin Stable}
  BY MergedRows
<1> SUFFICES ASSUME NEW k \in DOMAIN Merged(tp, f)
             PROVE  RowsAlike(tp, f, k) \subseteq DOMAIN Merged(tp, f)
  OBVIOUS
<1>2. RowsAlike(tp, f, k) \subseteq DOMAIN Rows(tp, f)
  <2>1. CASE k \in StableKeys(Rows(1, f))
    BY <2>1 DEF Seeds, RowsAlike
  <2>2. CASE k \in DOMAIN Rows(tp, f)
    BY <2>2 DEF WholeFile
  <2> QED
    BY <1>1, <2>1, <2>2
<1>3. \A m \in RowsAlike(tp, f, k) : m[1] \notin Stable
  BY DEF RowsAlike, OwnLayers
<1> QED
  BY <1>1, <1>2, <1>3

(* The file of one degree is replicated: its own rows stay. *)
LEMMA OneReplica ==
  ASSUME Inv, NEW tp, tp = Head(queue), NEW f, f = Head(cats), Replicate
  PROVE  /\ tp \in Degrees /\ tp # 1 /\ f \in Categories /\ f \in Files /\ Layered(f)
         /\ disk' = [t \in Degrees |-> disk'[t]]
         /\ Rows(tp, f)' = IF Copies(tp, f) THEN Merged(tp, f) ELSE Rows(tp, f)
         /\ \A t \in Degrees : \A g : t # tp \/ g # f => Rows(t, g)' = Rows(t, g)
         /\ \A t \in Degrees : \A g : RowsStay(t, g)
<1>1. /\ phase = "replicate" /\ queue # <<>> /\ cats # <<>> /\ Shape
      /\ disk' = IF Copies(tp, f) THEN Written(tp, f, Merged(tp, f)) ELSE disk
  BY DEF Inv, Replicate
<1>2. queue \in Seq(Degrees) /\ cats \in Seq(Categories) /\ 1 \notin Items(queue)
      /\ \A g \in Items(cats) : Layered(g)
  BY <1>1 DEF Shape
<1>3. tp \in Degrees /\ tp # 1 /\ f \in Categories /\ Layered(f)
  BY <1>1, <1>2, HeadTailItems
<1>4. disk = [t \in Degrees |-> disk[t]]
  BY <1>1 DEF Shape
<1>5. /\ disk' = [t \in Degrees |-> disk'[t]]
      /\ Rows(tp, f)' = IF Copies(tp, f) THEN Merged(tp, f) ELSE Rows(tp, f)
      /\ \A t \in Degrees : \A g : t # tp \/ g # f => Rows(t, g)' = Rows(t, g)
  <2>1. CASE Copies(tp, f)
    <3>1. PICK new : new = Merged(tp, f)
      OBVIOUS
    <3>2. disk' = Written(tp, f, new)
      BY <1>1, <2>1, <3>1
    <3>3. /\ disk' = [t \in Degrees |-> disk'[t]] /\ Rows(tp, f)' = new
          /\ \A t \in Degrees : \A g : t # tp \/ g # f => Rows(t, g)' = Rows(t, g)
      BY <1>3, <1>4, <3>2, WrittenRows
    <3> QED
      BY <2>1, <3>1, <3>3
  <2>2. CASE ~Copies(tp, f)
    <3>1. disk' = disk
      BY <1>1, <2>2
    <3> QED
      BY <1>4, <2>2, <3>1, SameRows
  <2> QED
    BY <2>1, <2>2
<1>6. RowsStay(tp, f)
  <2>1. DOMAIN Merged(tp, f) = StableKeys(Rows(1, f)) \cup {k \in DOMAIN Rows(tp, f) : k[1] \notin Stable}
    BY MergedRows
  <2> QED
    BY <1>3, <1>5, <2>1 DEF RowsStay, OwnRow
<1>7. ASSUME NEW t \in Degrees, NEW g
      PROVE  RowsStay(t, g)
  BY <1>5, <1>6 DEF RowsStay
<1> QED
  BY <1>3, <1>5, <1>7 DEF Files

LEMMA ReplicateStep ==
  ASSUME Inv, Replicate
  PROVE  Inv'
<1>1. PICK tp, f : tp = Head(queue) /\ f = Head(cats)
  OBVIOUS
<1>2. /\ Shape /\ phase = "replicate" /\ session \in Sessions /\ queue \in Seq(Degrees)
      /\ cats \in Seq(Categories) /\ cats # <<>>
      /\ 1 \notin Items(queue) /\ \A g \in Items(cats) : Layered(g)
      /\ partial' = IF Seeds(tp, f) THEN partial \cup {<<tp, f>>} ELSE partial
      /\ cats' = Tail(cats)
      /\ UNCHANGED <<session, phase, queue, cases, failed, spoilt>>
  BY <1>1 DEF Inv, Replicate, Shape, sweep
<1>3. /\ tp \in Degrees /\ tp # 1 /\ f \in Categories /\ f \in Files /\ Layered(f)
      /\ disk' = [t \in Degrees |-> disk'[t]]
      /\ Rows(tp, f)' = IF Copies(tp, f) THEN Merged(tp, f) ELSE Rows(tp, f)
      /\ \A t \in Degrees : \A g : t # tp \/ g # f => Rows(t, g)' = Rows(t, g)
      /\ \A t \in Degrees : \A g : RowsStay(t, g)
  BY <1>1, OneReplica
<1>4. cats' \in Seq(Categories) /\ Items(cats') \subseteq Items(cats)
  BY <1>2, HeadTailItems
<1>5. Shape'
  BY <1>2, <1>3, <1>4 DEF Shape
<1>6. Genuine /\ WholeShots
  BY DEF Inv
<1>7. MeasuredHere(tp, f)'
  <2>1. PICK csv : csv = IF Copies(tp, f) THEN Merged(tp, f) ELSE Rows(tp, f)
    OBVIOUS
  <2>2. Authentic(tp, f, csv)
    BY <1>3, <1>6, <2>1, MergedAuthentic DEF Genuine, MeasuredHere
  <2>3. Rows(tp, f)' = csv
    BY <1>3, <2>1
  <2> QED
    BY <1>2, <2>2, <2>3 DEF MeasuredHere, Authentic, OwnRow
<1>8. ASSUME <<tp, f>> \notin partial'
      PROVE  WholeFile(tp, f)'
  <2>1. ~Seeds(tp, f) /\ <<tp, f>> \notin partial
    BY <1>2, <1>8
  <2>2. WholeFile(tp, f)
    BY <1>3, <1>6, <2>1 DEF WholeShots
  <2>3. \A k \in DOMAIN Merged(tp, f) : RowsAlike(tp, f, k) \subseteq DOMAIN Merged(tp, f)
    BY <1>3, <2>1, <2>2, MergedWhole
  <2>4. \A k : RowsAlike(tp, f, k)' = RowsAlike(tp, f, k)
    BY DEF RowsAlike, OwnLayers
  <2>5. CASE Copies(tp, f)
    BY <1>3, <2>3, <2>4, <2>5 DEF WholeFile
  <2>6. CASE ~Copies(tp, f)
    BY <1>3, <2>2, <2>4, <2>6 DEF WholeFile
  <2> QED
    BY <2>5, <2>6
<1>9. partial \subseteq partial' /\ partial \ {<<tp, f>>} \subseteq partial' /\ spoilt \subseteq spoilt'
  BY <1>2
<1>10. Genuine' /\ WholeShots'
  BY <1>3, <1>6, <1>7, <1>8, <1>9, OneFileWritten
<1>11. ASSUME Full(session), Advanced
       PROVE  Advanced'
  <2>1. LeftBehind' = LeftBehind /\ LeftBehind = Items(session.tps)
    BY <1>2 DEF LeftBehind
  <2>2. ASSUME NEW t \in LeftBehind'
        PROVE  Finished(t)'
    <3>1. t \in Degrees /\ Finished(t)
      BY <1>2, <1>11, <2>1, SessionTypes DEF Advanced
    <3>2. Undisturbed(t)
      BY <1>3, <1>9, <3>1 DEF Undisturbed
    <3> QED
      BY <1>2, <3>1, <3>2, FinishedStays
  <2> QED
    BY <1>2, <2>2 DEF Advanced
<1> QED
  BY <1>2, <1>5, <1>10, <1>11 DEF Inv

(* A kill keeps some rows of the file that was written, or cuts one of them*)
(* in what it measured, and marks what it did.                             *)
LEMMA TornFile ==
  ASSUME Inv, NEW tp \in Degrees, NEW f \in Files, NEW csv,
         Authentic(tp, f, csv), Tear(tp, f, csv), Dies
  PROVE  Inv'
<1>1. PICK new, cut :
        /\ disk' = Written(tp, f, new) /\ partial' = partial \cup {<<tp, f>>}
        /\ spoilt' = spoilt \cup cut
        /\ \A k \in DOMAIN new : \/ k \in DOMAIN csv /\ new[k] = csv[k]
                                 \/ <<tp, f, k>> \in cut
  <2>1. PICK left \in Beginnings(f, DOMAIN csv) :
          LET short == Restrict(csv, left.whole \cap DOMAIN csv)
          IN \/ disk' = Written(tp, f, short) /\ spoilt' = spoilt
             \/ /\ disk' = Written(tp, f, Over([k \in {left.cut} |-> None], short))
                /\ spoilt' = spoilt \cup {<<tp, f, left.cut>>}
    BY DEF Tear
  <2> DEFINE short == Restrict(csv, left.whole \cap DOMAIN csv)
  <2>2. \A k \in DOMAIN short : k \in DOMAIN csv /\ short[k] = csv[k]
    BY DEF Restrict
  <2>3. partial' = partial \cup {<<tp, f>>}
    BY DEF Tear
  <2>4. CASE disk' = Written(tp, f, short) /\ spoilt' = spoilt
    <3>1. spoilt' = spoilt \cup {}
      BY <2>4
    <3> QED
      BY <2>2, <2>3, <2>4, <3>1
  <2>5. CASE /\ disk' = Written(tp, f, Over([k \in {left.cut} |-> None], short))
             /\ spoilt' = spoilt \cup {<<tp, f, left.cut>>}
    <3>1. PICK row : row = [k \in {left.cut} |-> None]
      OBVIOUS
    <3>2. /\ DOMAIN Over(row, short) = DOMAIN row \cup DOMAIN short
          /\ \A k \in DOMAIN short : k \notin DOMAIN row => Over(row, short)[k] = short[k]
      BY OverRows
    <3>3. DOMAIN row = {left.cut}
      BY <3>1
    <3>4. \A k \in DOMAIN Over(row, short) : \/ k \in DOMAIN csv /\ Over(row, short)[k] = csv[k]
                                             \/ <<tp, f, k>> \in {<<tp, f, left.cut>>}
      BY <2>2, <3>2, <3>3
    <3> QED
      BY <2>3, <2>5, <3>1, <3>4
  <2> QED
    BY <2>1, <2>4, <2>5
<1>2. disk = [t \in Degrees |-> disk[t]]
  BY DEF Inv, Shape
<1>3. /\ disk' = [t \in Degrees |-> disk'[t]] /\ Rows(tp, f)' = new
      /\ \A t \in Degrees : \A g : t # tp \/ g # f => Rows(t, g)' = Rows(t, g)
  BY <1>1, <1>2, WrittenRows
<1>4. session' = None /\ phase' = "idle" /\ queue' = <<>> /\ cats' = <<>> /\ cases' = <<>>
  BY DEF Dies
<1>5. Shape'
  BY <1>3, <1>4 DEF Shape
<1>6. MeasuredHere(tp, f)'
  <2>1. \A k \in DOMAIN new : OwnRow(tp, f, k) => new[k] = tp \/ <<tp, f, k>> \in spoilt'
    BY <1>1 DEF Authentic
  <2> QED
    BY <1>3, <2>1 DEF MeasuredHere, Authentic, OwnRow
<1>7. partial \ {<<tp, f>>} \subseteq partial' /\ <<tp, f>> \in partial' /\ spoilt \subseteq spoilt'
  BY <1>1
<1>8. Genuine' /\ WholeShots'
  BY <1>3, <1>6, <1>7, OneFileWritten DEF Inv
<1> QED
  BY <1>4, <1>5, <1>8 DEF Inv

-----------------------------------------------------------------------------
(* The order of the cases *)

(* Sorting a finite set by how many come before returns each element once. *)
RankOrder(S, R) ==
  [i \in 1 .. Cardinality(S) |-> CHOOSE x \in S : Cardinality({y \in S : <<y, x>> \in R}) = i - 1]
LEMMA SortedByRank ==
  ASSUME NEW S, IsFiniteSet(S), NEW R,
         \A x, y, z \in S : <<x, y>> \in R /\ <<y, z>> \in R => <<x, z>> \in R,
         \A x \in S : <<x, x>> \notin R,
         \A x, y \in S : x = y \/ <<x, y>> \in R \/ <<y, x>> \in R
  PROVE  RankOrder(S, R) \in Seq(S) /\ Items(RankOrder(S, R)) = S
<1> DEFINE before(x) == {y \in S : <<y, x>> \in R}
           rank == [x \in S |-> Cardinality(before(x)) + 1]
           n == Cardinality(S)
           pick(i) == CHOOSE x \in S : Cardinality(before(x)) = i - 1
           q == [i \in 1 .. n |-> pick(i)]
<1>1. n \in Nat
  BY FS_CardinalityType
<1>2. ASSUME NEW x \in S
      PROVE  IsFiniteSet(before(x)) /\ Cardinality(before(x)) \in 0 .. n - 1
  <2>1. before(x) \in SUBSET S /\ x \in S /\ x \notin before(x)
    OBVIOUS
  <2>2. IsFiniteSet(before(x)) /\ Cardinality(before(x)) <= n
    BY <2>1, FS_Subset
  <2>3. Cardinality(before(x)) # n
    BY <2>1, FS_Subset
  <2>4. Cardinality(before(x)) \in Nat
    BY <2>2, FS_CardinalityType
  <2> QED
    BY <1>1, <2>2, <2>3, <2>4
<1>3. rank \in [S -> 1 .. n]
  <2> HIDE DEF before, n
  <2> QED
    BY <1>1, <1>2
<1>4. ASSUME NEW a \in S, NEW b \in S, <<a, b>> \in R
      PROVE  rank[a] # rank[b]
  <2>1. before(a) \in SUBSET before(b)
    BY <1>4
  <2>2. a \in before(b) /\ a \notin before(a)
    BY <1>4
  <2>3. IsFiniteSet(before(b)) /\ Cardinality(before(a)) \in Nat /\ Cardinality(before(b)) \in Nat
    <3> HIDE DEF before, n
    <3> QED
      BY <1>1, <1>2
  <2>4. Cardinality(before(a)) # Cardinality(before(b))
    BY <2>1, <2>2, <2>3, FS_Subset
  <2> HIDE DEF before
  <2> QED
    BY <2>3, <2>4
<1>5. \A a, b \in S : rank[a] = rank[b] => a = b
  <2> SUFFICES ASSUME NEW a \in S, NEW b \in S, a # b
               PROVE  rank[a] # rank[b]
    OBVIOUS
  <2>1. <<a, b>> \in R \/ <<b, a>> \in R
    OBVIOUS
  <2> HIDE DEF rank
  <2> QED
    BY <2>1, <1>4
<1>6. rank \in Injection(S, 1 .. n)
  BY <1>3, <1>5, Fun_IsInj
<1>7. rank \in Surjection(S, 1 .. n)
  <2> HIDE DEF rank
  <2>1. IsFiniteSet(1 .. n) /\ Cardinality(1 .. n) = Cardinality(S)
    BY <1>1, FS_Interval
  <2> QED
    BY <1>6, <2>1, FS_Injection
<1>8. \A i \in 1 .. n : \E x \in S : rank[x] = i
  <2> HIDE DEF rank, n
  <2> QED
    BY <1>7, Fun_SurjectionProperties
<1>9. \A i \in 1 .. n : q[i] \in S /\ rank[q[i]] = i
  <2> SUFFICES ASSUME NEW i \in 1 .. n
               PROVE  q[i] \in S /\ rank[q[i]] = i
    OBVIOUS
  <2>1. q[i] = pick(i)
    OBVIOUS
  <2>2. PICK x \in S : rank[x] = i
    BY <1>8
  <2>3. ASSUME NEW y \in S
        PROVE  rank[y] = i <=> Cardinality(before(y)) = i - 1
    <3>1. rank[y] = Cardinality(before(y)) + 1
      OBVIOUS
    <3> HIDE DEF before, rank, n
    <3>2. Cardinality(before(y)) \in Int /\ i \in Int
      BY <1>1, <1>2
    <3> QED
      BY <3>1, <3>2
  <2>4. pick(i) \in S /\ Cardinality(before(pick(i))) = i - 1
    <3>1. \E y \in S : Cardinality(before(y)) = i - 1
      <4> HIDE DEF before, rank
      <4> QED
        BY <2>2, <2>3
    <3> HIDE DEF before
    <3> QED
      BY <3>1
  <2> HIDE DEF before, q, rank, pick
  <2> QED
    BY <2>1, <2>3, <2>4
<1>10. q \in Seq(S)
  <2>1. \A i \in 1 .. n : q[i] = pick(i)
    OBVIOUS
  <2>2. \A i \in 1 .. n : pick(i) \in S
    <3> HIDE DEF q, pick, rank, n
    <3> QED
      BY <1>9, <2>1
  <2> HIDE DEF pick, n
  <2>3. q \in [1 .. n -> S]
    BY <2>2
  <2> HIDE DEF q
  <2> QED
    BY <1>1, <2>3
<1>11. Items(q) = S
  <2>1. DOMAIN q = 1 .. n
    OBVIOUS
  <2> HIDE DEF q, rank, n
  <2>2. \A x \in S : rank[x] \in 1 .. n /\ q[rank[x]] = x
    BY <1>3, <1>5, <1>9
  <2> QED
    BY <1>9, <2>1, <2>2 DEF Items
<1>12. RankOrder(S, R) = q
  BY DEF RankOrder
<1> HIDE DEF q
<1> QED
  BY <1>10, <1>11, <1>12

(* Places are compared as tuples are. *)
Places == Int \X Int \X Int \X Int \X Int \X Int
LEMMA PrecedesIs ==
  ASSUME NEW a \in Places, NEW b \in Places
  PROVE  Precedes(a, b) <=>
           \/ a[1] < b[1]
           \/ a[1] = b[1] /\ a[2] < b[2]
           \/ a[1] = b[1] /\ a[2] = b[2] /\ a[3] < b[3]
           \/ a[1] = b[1] /\ a[2] = b[2] /\ a[3] = b[3] /\ a[4] < b[4]
           \/ a[1] = b[1] /\ a[2] = b[2] /\ a[3] = b[3] /\ a[4] = b[4] /\ a[5] < b[5]
           \/ a[1] = b[1] /\ a[2] = b[2] /\ a[3] = b[3] /\ a[4] = b[4] /\ a[5] = b[5] /\ a[6] < b[6]
<1>1. DOMAIN a = {1, 2, 3, 4, 5, 6}
  BY DEF Places
<1>2. /\ 1 .. 1 - 1 = {} /\ 1 .. 2 - 1 = {1} /\ 1 .. 3 - 1 = {1, 2} /\ 1 .. 4 - 1 = {1, 2, 3}
      /\ 1 .. 5 - 1 = {1, 2, 3, 4} /\ 1 .. 6 - 1 = {1, 2, 3, 4, 5}
  OBVIOUS
<1>3. Precedes(a, b) <=> \E i \in {1, 2, 3, 4, 5, 6} : a[i] < b[i] /\ \A j \in 1 .. i - 1 : a[j] = b[j]
  BY <1>1 DEF Precedes
<1> QED
  BY <1>2, <1>3

LEMMA PlacesOrdered ==
  /\ \A a, b, c \in Places : Precedes(a, b) /\ Precedes(b, c) => Precedes(a, c)
  /\ \A a \in Places : ~Precedes(a, a)
  /\ \A a, b \in Places : a = b \/ Precedes(a, b) \/ Precedes(b, a)
<1>1. \A a \in Places : {a[1], a[2], a[3], a[4], a[5], a[6]} \subseteq Int
  BY DEF Places
<1>2. \A a \in Places : a = <<a[1], a[2], a[3], a[4], a[5], a[6]>>
  BY DEF Places
<1>3. ASSUME NEW a \in Places, NEW b \in Places, NEW c \in Places, Precedes(a, b), Precedes(b, c)
      PROVE  Precedes(a, c)
  BY <1>1, <1>3, PrecedesIs
<1>4. ASSUME NEW a \in Places
      PROVE  ~Precedes(a, a)
  BY <1>1, PrecedesIs
<1>5. ASSUME NEW a \in Places, NEW b \in Places
      PROVE  a = b \/ Precedes(a, b) \/ Precedes(b, a)
  BY <1>1, <1>2, PrecedesIs
<1> QED
  BY <1>3, <1>4, <1>5

-----------------------------------------------------------------------------
(* The cases of the skew sweep *)

LEMMA TwoNumbers ==
  ASSUME NEW a \in Int, NEW b \in Int
  PROVE  /\ Max({a, b}) \in {a, b} /\ Max({a, b}) >= a /\ Max({a, b}) >= b
         /\ Min({a, b}) \in {a, b} /\ Min({a, b}) <= a /\ Min({a, b}) <= b
<1>1. \E x \in {a, b} : \A y \in {a, b} : x >= y
  OBVIOUS
<1>2. \E x \in {a, b} : \A y \in {a, b} : x =< y
  OBVIOUS
<1>3. Max({a, b}) \in {a, b} /\ \A y \in {a, b} : Max({a, b}) >= y
  BY <1>1 DEF Max
<1>4. Min({a, b}) \in {a, b} /\ \A y \in {a, b} : Min({a, b}) =< y
  BY <1>2 DEF Min
<1> QED
  BY <1>3, <1>4

LEMMA DoublingRange ==
  ASSUME NEW from \in Nat, NEW max \in Nat, NEW f
  PROVE  /\ Doubling(from, max, f) \subseteq 0 .. max
         /\ 0 < from => 0 \notin Doubling(from, max, f)
         /\ from <= max => max \in Doubling(from, max, f) /\ Doubling(from, max, f) \subseteq from .. max
<1>1. CASE max < from
  <2>1. Doubling(from, max, f) = {max} \ {0}
    BY <1>1 DEF Doubling
  <2> QED
    BY <1>1, <2>1
<1>2. CASE ~(max < from)
  <2> DEFINE S == {v \in from .. max : \E e \in Exponents : v = Rounded(from * f[1]^e, f[2]^e)}
  <2>1. Doubling(from, max, f) = S \cup {max}
    BY <1>2 DEF Doubling, Geometric
  <2>2. S \subseteq from .. max
    OBVIOUS
  <2> HIDE DEF S
  <2> QED
    BY <1>2, <2>1, <2>2
<1> QED
  BY <1>1, <1>2

LEMMA FiniteNumbers ==
  ASSUME NEW B \in Nat, NEW S \in SUBSET (0 .. B)
  PROVE  IsFiniteSet(S)
<1>1. IsFiniteSet(0 .. B)
  BY FS_Interval
<1> QED
  BY <1>1, FS_Subset

(* The axes lie between bounds, and what the pivots are taken from exists. *)
GridWithin(grid, B) ==
  /\ grid.n \subseteq 1 .. B /\ grid.n # {}
  /\ grid.pc \subseteq 0 .. B /\ grid.pc # {}
  /\ grid.kp \subseteq 0 .. B
  /\ grid.kvs \subseteq 2 .. B /\ grid.kvs # {}

LEMMA GridBounds ==
  ASSUME NEW s \in Sessions, NEW tp \in Degrees
  PROVE  \E B \in Nat : GridWithin(BuildGrid(Limits(s, tp), s.args), B)
<1> DEFINE args == s.args
           limits == Limits(s, tp)
           grid == BuildGrid(limits, args)
           top == Max({Grid.kp, args.max_kv \div 2})
           long == Max({Grid.kvs_top, args.max_kv})
           wide == Min({args.msq, limits.msq})
           seqs == Doubling(2, wide, args.factor.n)
           B == 1 + wide + args.mnbt + top + long
<1>1. args.mnbt \in Nat /\ args.msq \in Nat /\ args.max_kv \in Nat
  BY ProfilerAssumption
<1>2. Grid.pc \in Nat /\ Grid.kp \in Nat /\ Grid.kvs \in Nat /\ Grid.kvs_top \in Nat
      /\ 2 <= Grid.kvs /\ Grid.kvs <= Grid.kvs_top
  BY ProfilerAssumption
<1>3. limits.msq = args.msq
  <2>1. Gpu[tp] \in [mnbt : Nat, msq : Nat, mml : Nat, blocks : Nat, experts : Nat, k : Nat]
    BY ProfilerAssumption
  <2>2. FuseEngineKwargs(args, Gpu[tp]).msq = args.msq
    BY <2>1 DEF FuseEngineKwargs
  <2>3. ProbeLimits(FuseEngineKwargs(args, Gpu[tp])).msq = args.msq
    BY <2>1, <2>2 DEF ProbeLimits, FuseEngineKwargs
  <2> QED
    BY <2>3 DEF Limits
<1>4. /\ grid.n = IF seqs = {} THEN {1} ELSE seqs
      /\ grid.pc = {0} \cup Doubling(Grid.pc, args.mnbt, args.factor.pc)
      /\ grid.kp = {0} \cup Doubling(Grid.kp, top, args.factor.kp)
      /\ grid.kvs = Doubling(Grid.kvs, long, args.factor.kvs)
  BY DEF BuildGrid
<1> HIDE DEF args, limits, grid
<1>5. wide \in Nat
  <2>1. PICK m \in Int : m = args.msq /\ m \in Nat
    BY <1>1
  <2>2. wide = Min({m, m})
    BY <1>3, <2>1
  <2>3. Min({m, m}) \in {m, m}
    BY TwoNumbers
  <2> HIDE DEF wide
  <2> QED
    BY <2>1, <2>2, <2>3
<1>6. top \in Nat
  <2>1. PICK a \in Int, b \in Int : a = Grid.kp /\ b = args.max_kv \div 2 /\ a \in Nat /\ b \in Nat
    BY <1>1, <1>2
  <2>2. top = Max({a, b})
    BY <2>1
  <2>3. Max({a, b}) \in {a, b}
    BY TwoNumbers
  <2> HIDE DEF top
  <2> QED
    BY <2>1, <2>2, <2>3
<1>7. long \in Nat /\ Grid.kvs <= long
  <2>1. PICK a \in Int, b \in Int : a = Grid.kvs_top /\ b = args.max_kv /\ a \in Nat /\ b \in Nat
    BY <1>1, <1>2
  <2>2. long = Max({a, b})
    BY <2>1
  <2>3. Max({a, b}) \in {a, b} /\ Max({a, b}) >= a
    BY TwoNumbers
  <2> HIDE DEF long
  <2> QED
    BY <1>2, <2>1, <2>2, <2>3
<1> HIDE DEF wide, top, long, seqs
<1>8. B \in Nat /\ 1 <= B /\ wide <= B /\ args.mnbt <= B /\ top <= B /\ long <= B
  BY <1>1, <1>5, <1>6, <1>7
<1>9. seqs \subseteq 0 .. wide /\ 0 \notin seqs
  BY <1>5, DoublingRange DEF seqs
<1>10. Doubling(Grid.pc, args.mnbt, args.factor.pc) \subseteq 0 .. args.mnbt
  BY <1>1, <1>2, DoublingRange
<1>11. Doubling(Grid.kp, top, args.factor.kp) \subseteq 0 .. top
  BY <1>2, <1>6, DoublingRange
<1>12. grid.kvs \subseteq Grid.kvs .. long /\ long \in grid.kvs
  BY <1>2, <1>4, <1>7, DoublingRange
<1> HIDE DEF B
<1>13. grid.n \subseteq 1 .. B /\ grid.n # {}
  BY <1>4, <1>5, <1>8, <1>9
<1>14. grid.pc \subseteq 0 .. B /\ grid.pc # {}
  BY <1>1, <1>4, <1>8, <1>10
<1>15. grid.kp \subseteq 0 .. B
  BY <1>4, <1>6, <1>8, <1>11
<1>16. grid.kvs \subseteq 2 .. B /\ grid.kvs # {}
  BY <1>2, <1>7, <1>8, <1>12
<1> QED
  BY <1>8, <1>13, <1>14, <1>15, <1>16 DEF GridWithin, grid, limits, args

LEMMA RoundedIs ==
  /\ \A n \in Int : Rounded(n, 1) = n
  /\ \A n \in Int, d \in Nat \ {0} : Rounded(n, d) \in Int
  /\ \A n \in Nat : Rounded(n, 2) \in Int /\ 2 * Rounded(n, 2) <= n + 1 /\ n - 1 <= 2 * Rounded(n, 2)
<1>1. \A n \in Int : Rounded(n, 1) = n
  BY DEF Rounded
<1>2. ASSUME NEW n \in Int, NEW d \in Nat \ {0}
      PROVE  Rounded(n, d) \in Int
  <2>1. n \div d \in Int
    OBVIOUS
  <2> QED
    BY <2>1 DEF Rounded
<1>3. ASSUME NEW n \in Nat
      PROVE  Rounded(n, 2) \in Int /\ 2 * Rounded(n, 2) <= n + 1 /\ n - 1 <= 2 * Rounded(n, 2)
  BY DEF Rounded
<1> QED
  BY <1>1, <1>2, <1>3

LEMMA NbRange ==
  ASSUME NEW B \in Nat, NEW n \in 1 .. B,
         NEW ratio \in Ratios \cup {<<1, 8>>, <<1, 2>>}
  PROVE  Nb(n, ratio) \in 1 .. B
<1>1. ratio[1] \in Int /\ ratio[2] \in Nat \ {0}
  BY DEF Ratios
<1>2. ratio[1] * n \in Int
  BY <1>1
<1>3. Rounded(ratio[1] * n, ratio[2]) \in Int
  BY <1>1, <1>2, RoundedIs
<1>4. PICK m \in Int : m = Rounded(ratio[1] * n, ratio[2])
  BY <1>3
<1>5. AtMost(n - 1, m) \in Int /\ AtMost(n - 1, m) <= n - 1
  <2>1. PICK v \in Int : v = n - 1
    OBVIOUS
  <2>2. Min({v, m}) \in {v, m} /\ Min({v, m}) <= v
    BY TwoNumbers
  <2> QED
    BY <2>1, <2>2 DEF AtMost
<1>6. Nb(n, ratio) = Max({1, AtMost(n - 1, m)})
  BY <1>4 DEF Nb
<1>7. PICK k \in Int : k = AtMost(n - 1, m)
  BY <1>5
<1>8. Max({1, k}) \in {1, k} /\ Max({1, k}) >= 1
  <2>1. PICK u \in Int : u = 1
    OBVIOUS
  <2>2. Max({u, k}) \in {u, k} /\ Max({u, k}) >= u
    BY TwoNumbers
  <2> QED
    BY <2>1, <2>2
<1> QED
  BY <1>5, <1>6, <1>7, <1>8

LEMMA AtExists ==
  ASSUME NEW S, S \subseteq Nat, IsFiniteSet(S), S # {}, NEW i \in Nat \ {0}
  PROVE  At(S, i) \in S
<1>1. Cardinality(S) \in Nat \ {0}
  BY FS_CardinalityType, FS_EmptySet
<1>2. AtMost(i, Cardinality(S)) \in 1 .. Cardinality(S)
  <2>1. PICK m \in Nat \ {0} : m = Cardinality(S)
    BY <1>1
  <2>2. Min({i, m}) \in {i, m} /\ Min({i, m}) <= i /\ Min({i, m}) <= m
    BY TwoNumbers
  <2> QED
    BY <2>1, <2>2 DEF AtMost
<1>3. At(S, i) = Nth(S, AtMost(i, Cardinality(S)))
  BY DEF At, Nth
<1> QED
  BY <1>2, <1>3, NthExists

(* The cases: numbers within bounds, and away from the representative skew *)
(* all at one KV, one history and one chunk or none.                       *)
CaseType(B) == [n : 1 .. B, nb : 1 .. B + 4, skew : SkewMixed, pc : 0 .. B, kp : 0 .. B, kvs : 2 .. B]
Formed(c, B, kvs, pc) ==
  c \in CaseType(B) /\ (c.skew = SkewRep \/ (c.kp = 0 /\ c.kvs = kvs /\ c.pc \in {0, pc}))

LEMMA Tier1Formed ==
  ASSUME NEW grid, NEW B \in Nat, GridWithin(grid, B), NEW m, NEW v, NEW c \in Tier1(grid)
  PROVE  Formed(c, B, m, v)
<1>1. /\ grid.n \subseteq 1 .. B /\ grid.pc \subseteq 0 .. B /\ grid.kp \subseteq 0 .. B
      /\ grid.kvs \subseteq 2 .. B
  BY DEF GridWithin
<1>2. PICK n \in grid.n, nb \in NbAbsolute \cup UNION {{Nb(i, r) : r \in Ratios} : i \in grid.n},
           p \in {q \in grid.pc \X grid.kp : q[1] = 0 => q[2] = 0}, kvs \in grid.kvs :
             c = SkewCase(n, nb, SkewRep, p[1], p[2], kvs)
  BY DEF Tier1
<1>3. nb \in 1 .. B + 4
  <2>1. CASE nb \in NbAbsolute
    BY <2>1 DEF NbAbsolute
  <2>2. CASE nb \in UNION {{Nb(i, r) : r \in Ratios} : i \in grid.n}
    <3>1. PICK i \in grid.n, r \in Ratios : nb = Nb(i, r)
      BY <2>2
    <3>2. nb \in 1 .. B
      BY <1>1, <3>1, NbRange
    <3> QED
      BY <3>2
  <2> QED
    BY <1>2, <2>1, <2>2
<1>4. SkewRep \in SkewMixed
  BY DEF SkewRep, SkewMixed
<1>5. p[1] \in 0 .. B /\ p[2] \in 0 .. B /\ n \in 1 .. B /\ kvs \in 2 .. B
  BY <1>1, <1>2
<1>6. c \in CaseType(B) /\ c.skew = SkewRep
  <2>1. PICK pc : pc = p[1] /\ pc \in 0 .. B
    BY <1>5
  <2>2. PICK kp : kp = p[2] /\ kp \in 0 .. B
    BY <1>5
  <2>3. c = SkewCase(n, nb, SkewRep, pc, kp, kvs)
    BY <1>2, <2>1, <2>2
  <2> QED
    BY <1>3, <1>4, <1>5, <2>1, <2>2, <2>3 DEF SkewCase, CaseType
<1> QED
  BY <1>6 DEF Formed

LEMMA PivotsFormed ==
  ASSUME NEW grid, NEW B \in Nat, GridWithin(grid, B), NEW c \in Pivots(grid)
  PROVE  Formed(c, B, Min(grid.kvs), At(grid.pc, 2))
<1>1. /\ grid.n \subseteq 1 .. B /\ grid.pc \subseteq 0 .. B /\ grid.kvs \subseteq 2 .. B
      /\ grid.n # {} /\ grid.pc # {} /\ grid.kvs # {}
  BY DEF GridWithin
<1>2. IsFiniteSet(grid.n) /\ IsFiniteSet(grid.pc) /\ IsFiniteSet(grid.kvs)
  <2>1. /\ grid.n \in SUBSET (0 .. B) /\ grid.pc \in SUBSET (0 .. B)
        /\ grid.kvs \in SUBSET (0 .. B)
    BY <1>1
  <2> QED
    BY <2>1, FiniteNumbers
<1>3. /\ grid.n \subseteq Nat /\ grid.pc \subseteq Nat /\ grid.kvs \subseteq Int
  BY <1>1
<1>4. PICK m : m = Min(grid.kvs)
  OBVIOUS
<1>5. m \in grid.kvs
  <2>1. \E y \in grid.kvs : \A x \in grid.kvs : y =< x
    BY <1>1, <1>2, <1>3, Extremes
  <2> QED
    BY <1>4, <2>1 DEF Min
<1>6. PICK v : v = At(grid.pc, 2)
  OBVIOUS
<1>7. v \in grid.pc
  BY <1>1, <1>2, <1>3, <1>6, AtExists
<1>8. ASSUME NEW i \in Nat \ {0}
      PROVE  At(grid.n, i) \in 1 .. B
  <2>1. At(grid.n, i) \in grid.n
    BY <1>1, <1>2, <1>3, AtExists
  <2> QED
    BY <1>1, <2>1
<1>9. \A i \in 2 .. Max({2, AtMost(3, Cardinality(grid.n))}) : i \in Nat \ {0}
  OBVIOUS
<1>10. ASSUME NEW i \in Nat \ {0}, NEW r \in {<<1, 8>>, <<1, 2>>}, NEW skew \in SkewMixed, NEW pc \in {0, v},
              c = SkewCase(At(grid.n, i), Nb(At(grid.n, i), r), skew, pc, 0, m)
       PROVE  Formed(c, B, m, v)
  <2>1. PICK n \in 1 .. B : n = At(grid.n, i)
    BY <1>8
  <2>2. PICK nb : nb = Nb(n, r) /\ nb \in 1 .. B
    BY NbRange
  <2>3. nb \in 1 .. B + 4 /\ pc \in 0 .. B /\ 0 \in 0 .. B /\ m \in 2 .. B
    BY <1>1, <1>5, <1>7, <2>2
  <2>4. c = SkewCase(n, nb, skew, pc, 0, m)
    BY <1>10, <2>1, <2>2
  <2>5. PICK z : z = 0 /\ z \in 0 .. B /\ c = SkewCase(n, nb, skew, pc, z, m)
    BY <2>3, <2>4
  <2>6. c \in CaseType(B) /\ c.kp = z /\ c.kvs = m /\ c.pc = pc
    BY <2>3, <2>5 DEF SkewCase, CaseType
  <2> QED
    BY <2>5, <2>6 DEF Formed
<1>11. \/ \E i \in 2 .. Max({2, AtMost(3, Cardinality(grid.n))}), skew \in SkewMixed :
            c = SkewCase(At(grid.n, i), Nb(At(grid.n, i), <<1, 8>>), skew, v, 0, m)
       \/ \E skew \in {<<3, 2>>, <<2, 1>>, <<4, 1>>} :
            c = SkewCase(At(grid.n, 2), Nb(At(grid.n, 2), <<1, 2>>), skew, v, 0, m)
       \/ \E skew \in SkewPure :
            c = SkewCase(At(grid.n, 2), Nb(At(grid.n, 2), <<1, 8>>), skew, 0, 0, m)
  BY <1>4, <1>6 DEF Pivots
<1>12. {<<3, 2>>, <<2, 1>>, <<4, 1>>} \subseteq SkewMixed /\ SkewPure \subseteq SkewMixed
  BY DEF SkewMixed, SkewPure
<1>13. Formed(c, B, m, v)
  BY <1>9, <1>10, <1>11, <1>12
<1> QED
  BY <1>4, <1>6, <1>13

LEMMA SixAlike ==
  ASSUME NEW a, NEW b, NEW c, NEW d, NEW e, NEW f, NEW u, NEW v, NEW w, NEW x, NEW y, NEW z,
         <<a, b, c, d, e, f>> = <<u, v, w, x, y, z>>
  PROVE  a = u /\ b = v /\ c = w /\ d = x /\ e = y /\ f = z
OBVIOUS

(* Two cases that are formed alike stand at different places. *)
LEMMA PlaceOf ==
  ASSUME NEW B \in Nat, NEW m \in Nat, m >= 2, NEW v
  PROVE  /\ \A c \in CaseType(B) : Place(c) \in Places
         /\ \A c, d : Formed(c, B, m, v) /\ Formed(d, B, m, v) /\ Place(c) = Place(d) => c = d
<1>1. ASSUME NEW c \in CaseType(B)
      PROVE  KvBig(c) \in Int
  <2>1. c.kvs \in Int /\ c.skew \in SkewMixed
    BY DEF CaseType
  <2>2. PICK a \in Int, b \in Nat \ {0} : c.skew[1] = a /\ c.skew[2] = b
    BY <2>1 DEF SkewMixed
  <2>3. PICK k \in Int : k = c.kvs * a
    BY <2>1
  <2>4. Rounded(k, b) \in Int
    BY RoundedIs
  <2> QED
    BY <2>2, <2>3, <2>4 DEF KvBig
<1>2. ASSUME NEW c \in CaseType(B)
      PROVE  Place(c) \in Places
  <2>1. {c.n, c.nb, c.pc, c.kp, c.kvs} \subseteq Int
    BY DEF CaseType
  <2> QED
    BY <1>1, <2>1 DEF Place, Places
<1>3. ASSUME NEW c \in CaseType(B), c.skew # SkewRep, c.kvs = m
      PROVE  /\ c.skew = <<3, 2>> => KvBig(c) < 2 * m
             /\ c.skew = <<2, 1>> => KvBig(c) = 2 * m
             /\ c.skew = <<8, 1>> => KvBig(c) = 8 * m
             /\ c.skew = <<16, 1>> => KvBig(c) = 16 * m
             /\ c.skew \in {<<3, 2>>, <<2, 1>>, <<8, 1>>, <<16, 1>>}
  <2>1. c.skew \in {<<3, 2>>, <<2, 1>>, <<8, 1>>, <<16, 1>>}
    BY <1>3 DEF CaseType, SkewMixed, SkewRep
  <2>2. ASSUME c.skew = <<3, 2>>
        PROVE  KvBig(c) < 2 * m
    <3>1. PICK k \in Nat : k = m * 3
      OBVIOUS
    <3>2. KvBig(c) = Rounded(k, 2)
      BY <1>3, <2>2, <3>1 DEF KvBig
    <3>3. 2 * Rounded(k, 2) <= k + 1 /\ Rounded(k, 2) \in Int
      BY RoundedIs
    <3> QED
      BY <3>1, <3>2, <3>3
  <2>3. ASSUME NEW a \in {2, 8, 16}, c.skew = <<a, 1>>
        PROVE  KvBig(c) = a * m
    <3>1. PICK k \in Int : k = m * a
      OBVIOUS
    <3>2. KvBig(c) = Rounded(k, 1)
      BY <1>3, <2>3, <3>1 DEF KvBig
    <3>3. Rounded(k, 1) = k
      BY RoundedIs
    <3> QED
      BY <3>1, <3>2, <3>3
  <2> QED
    BY <2>1, <2>2, <2>3
<1>4. ASSUME NEW c, NEW d, Formed(c, B, m, v), Formed(d, B, m, v), Place(c) = Place(d)
      PROVE  c = d
  <2>1. c \in CaseType(B) /\ d \in CaseType(B)
    BY <1>4 DEF Formed
  <2>2. c.n = d.n /\ c.nb = d.nb /\ c.pc = d.pc /\ c.kp = d.kp /\ c.kvs = d.kvs /\ c.skew = d.skew => c = d
    BY <2>1 DEF CaseType
  <2>3. CASE c.skew = SkewRep
    <3>1. d.skew = SkewRep
      BY <1>4, <2>3 DEF Place
    <3>2. Place(c) = <<0, c.n, c.nb, c.pc, c.kp, c.kvs>> /\ Place(d) = <<0, d.n, d.nb, d.pc, d.kp, d.kvs>>
      BY <2>3, <3>1 DEF Place
    <3>3. <<0, c.n, c.nb, c.pc, c.kp, c.kvs>> = <<0, d.n, d.nb, d.pc, d.kp, d.kvs>>
      BY <1>4, <3>2
    <3>4. c.n = d.n /\ c.nb = d.nb /\ c.pc = d.pc /\ c.kp = d.kp /\ c.kvs = d.kvs
      BY <3>3, SixAlike
    <3> QED
      BY <2>2, <2>3, <3>1, <3>4
  <2>4. CASE c.skew # SkewRep
    <3>1. d.skew # SkewRep
      BY <1>4, <2>4 DEF Place
    <3>2. /\ Place(c) = <<1, IF c.pc > 0 THEN 0 ELSE 1, c.nb, c.n, KvBig(c), 0>>
          /\ Place(d) = <<1, IF d.pc > 0 THEN 0 ELSE 1, d.nb, d.n, KvBig(d), 0>>
      BY <2>4, <3>1 DEF Place
    <3>3. /\ c.nb = d.nb /\ c.n = d.n /\ KvBig(c) = KvBig(d)
          /\ (IF c.pc > 0 THEN 0 ELSE 1) = (IF d.pc > 0 THEN 0 ELSE 1)
      <4>1. <<1, IF c.pc > 0 THEN 0 ELSE 1, c.nb, c.n, KvBig(c), 0>>
              = <<1, IF d.pc > 0 THEN 0 ELSE 1, d.nb, d.n, KvBig(d), 0>>
        BY <1>4, <3>2
      <4> QED
        BY <4>1, SixAlike
    <3>4. /\ c.kp = 0 /\ c.kvs = m /\ c.pc \in {0, v} /\ d.kp = 0 /\ d.kvs = m /\ d.pc \in {0, v}
      BY <1>4, <2>4, <3>1 DEF Formed
    <3>5. c.pc \in Nat /\ d.pc \in Nat
      BY <2>1 DEF CaseType
    <3>6. c.pc = d.pc
      BY <3>3, <3>4, <3>5
    <3>7. c.skew = d.skew
      <4>1. /\ c.skew = <<3, 2>> => KvBig(c) < 2 * m
            /\ c.skew = <<2, 1>> => KvBig(c) = 2 * m
            /\ c.skew = <<8, 1>> => KvBig(c) = 8 * m
            /\ c.skew = <<16, 1>> => KvBig(c) = 16 * m
            /\ c.skew \in {<<3, 2>>, <<2, 1>>, <<8, 1>>, <<16, 1>>}
        BY <1>3, <2>1, <2>4, <3>4
      <4>2. /\ d.skew = <<3, 2>> => KvBig(d) < 2 * m
            /\ d.skew = <<2, 1>> => KvBig(d) = 2 * m
            /\ d.skew = <<8, 1>> => KvBig(d) = 8 * m
            /\ d.skew = <<16, 1>> => KvBig(d) = 16 * m
            /\ d.skew \in {<<3, 2>>, <<2, 1>>, <<8, 1>>, <<16, 1>>}
        BY <1>3, <2>1, <3>1, <3>4
      <4>3. PICK k \in Int : k = KvBig(c) /\ k = KvBig(d)
        BY <1>1, <2>1, <3>3
      <4> QED
        BY <4>1, <4>2, <4>3
    <3> QED
      BY <2>2, <3>3, <3>4, <3>6, <3>7
  <2> QED
    BY <2>3, <2>4
<1> QED
  BY <1>2, <1>4

LEMMA CaseForms ==
  ASSUME NEW s \in Sessions, NEW tp \in Degrees
  PROVE  \E B \in Nat, m \in Nat : m >= 2 /\ \E v : \A c \in BuildCases(Limits(s, tp), s.args) : Formed(c, B, m, v)
<1>1. PICK grid : grid = BuildGrid(Limits(s, tp), s.args)
  OBVIOUS
<1>2. PICK B \in Nat : GridWithin(grid, B)
  BY <1>1, GridBounds
<1>3. PICK m : m = Min(grid.kvs)
  OBVIOUS
<1>4. m \in Nat /\ m >= 2
  <2>1. grid.kvs \in SUBSET (0 .. B) /\ grid.kvs \subseteq 2 .. B /\ grid.kvs # {} /\ grid.kvs \subseteq Int
    BY <1>2 DEF GridWithin
  <2>2. IsFiniteSet(grid.kvs)
    BY <2>1, FiniteNumbers
  <2>3. \E y \in grid.kvs : \A x \in grid.kvs : y =< x
    BY <2>1, <2>2, Extremes
  <2>4. m \in grid.kvs
    BY <1>3, <2>3 DEF Min
  <2> QED
    BY <2>1, <2>4
<1>5. PICK v : v = At(grid.pc, 2)
  OBVIOUS
<1>6. ASSUME NEW c \in BuildCases(Limits(s, tp), s.args)
      PROVE  Formed(c, B, m, v)
  <2>1. c \in Tier1(grid) \/ c \in Pivots(grid)
    BY <1>1 DEF BuildCases
  <2>2. CASE c \in Tier1(grid)
    BY <1>2, <2>2, Tier1Formed
  <2>3. CASE c \in Pivots(grid)
    BY <1>2, <1>3, <1>5, <2>3, PivotsFormed
  <2> QED
    BY <2>1, <2>2, <2>3
<1> QED
  BY <1>2, <1>4, <1>6

LEMMA CaseTypeFinite ==
  ASSUME NEW B \in Nat
  PROVE  IsFiniteSet(CaseType(B))
<1> DEFINE E == (0 .. B) \X (2 .. B)
           D == (0 .. B) \X E
           C == SkewMixed \X D
           A == (1 .. B + 4) \X C
           T == (1 .. B) \X A
           f == [c \in CaseType(B) |-> <<c.n, <<c.nb, <<c.skew, <<c.pc, <<c.kp, c.kvs>>>>>>>>>>]
<1>1. IsFiniteSet(1 .. B) /\ IsFiniteSet(1 .. B + 4) /\ IsFiniteSet(0 .. B) /\ IsFiniteSet(2 .. B)
  BY FS_Interval
<1>2. IsFiniteSet(SkewMixed)
  <2>1. IsFiniteSet(1 .. 16) /\ IsFiniteSet(1 .. 2)
    <3>1. PICK i \in Nat, j \in Nat : i = 16 /\ j = 2
      OBVIOUS
    <3>2. IsFiniteSet(1 .. i) /\ IsFiniteSet(1 .. j)
      BY IntervalSize
    <3> QED
      BY <3>1, <3>2
  <2>2. IsFiniteSet((1 .. 16) \X (1 .. 2))
    BY <2>1, FS_Product
  <2>3. SkewMixed \in SUBSET ((1 .. 16) \X (1 .. 2))
    BY DEF SkewMixed
  <2> QED
    BY <2>2, <2>3, FS_Subset
<1>3. IsFiniteSet(E)
  BY <1>1, FS_Product
<1>4. IsFiniteSet(D)
  <2> HIDE DEF E
  <2> QED
    BY <1>1, <1>3, FS_Product
<1>5. IsFiniteSet(C)
  <2> HIDE DEF D
  <2> QED
    BY <1>2, <1>4, FS_Product
<1>6. IsFiniteSet(A)
  <2> HIDE DEF C
  <2> QED
    BY <1>1, <1>5, FS_Product
<1>7. IsFiniteSet(T)
  <2> HIDE DEF A
  <2> QED
    BY <1>1, <1>6, FS_Product
<1>8. f \in [CaseType(B) -> T]
  BY DEF CaseType
<1>9. ASSUME NEW c \in CaseType(B), NEW d \in CaseType(B), f[c] = f[d]
      PROVE  c = d
  <2>1. /\ c.n = d.n /\ c.nb = d.nb /\ c.skew = d.skew
        /\ c.pc = d.pc /\ c.kp = d.kp /\ c.kvs = d.kvs
    BY <1>9
  <2> QED
    BY <2>1 DEF CaseType
<1> HIDE DEF f, T
<1>10. f \in Injection(CaseType(B), T)
  BY <1>8, <1>9, Fun_IsInj
<1> QED
  BY <1>7, <1>10, FS_Injection

(* What is to be fired is every case that is not in the file. *)
LEMMA ToFireItems ==
  ASSUME session \in Sessions, NEW tp \in Degrees, NEW csv
  PROVE  /\ ToFire(tp, csv) \in Seq(AllCases)
         /\ Items(ToFire(tp, csv)) = {c \in CasesOf(tp) : c \notin DOMAIN csv}
<1>1. PICK B \in Nat, m \in Nat :
        m >= 2 /\ \E v : \A c \in BuildCases(Limits(session, tp), session.args) : Formed(c, B, m, v)
  BY CaseForms
<1>2. PICK v : \A c \in CasesOf(tp) : Formed(c, B, m, v)
  BY <1>1 DEF CasesOf
<1>3. PICK S : S = {c \in CasesOf(tp) : c \notin DOMAIN csv}
  OBVIOUS
<1>4. \A c \in S : c \in CaseType(B) /\ Formed(c, B, m, v)
  BY <1>2, <1>3 DEF Formed
<1>5. IsFiniteSet(S)
  <2>1. S \in SUBSET CaseType(B) /\ IsFiniteSet(CaseType(B))
    BY <1>4, CaseTypeFinite
  <2> QED
    BY <2>1, FS_Subset
<1>6. \A c \in S : Place(c) \in Places
  BY <1>1, <1>4, PlaceOf
<1>7. \A c, d \in S : Place(c) = Place(d) => c = d
  BY <1>1, <1>4, PlaceOf
<1>8. PICK R : R = {p \in S \X S : Precedes(Place(p[1]), Place(p[2]))}
  OBVIOUS
<1>9. \A c, d \in S : <<c, d>> \in R <=> Precedes(Place(c), Place(d))
  BY <1>8
<1>10. \A x, y, z \in S : <<x, y>> \in R /\ <<y, z>> \in R => <<x, z>> \in R
  <2> SUFFICES ASSUME NEW x \in S, NEW y \in S, NEW z \in S, <<x, y>> \in R, <<y, z>> \in R
               PROVE  <<x, z>> \in R
    OBVIOUS
  <2>1. Precedes(Place(x), Place(y)) /\ Precedes(Place(y), Place(z))
    BY <1>9
  <2>2. Precedes(Place(x), Place(z))
    BY <1>6, <2>1, PlacesOrdered
  <2> QED
    BY <1>9, <2>2
<1>11. \A x \in S : <<x, x>> \notin R
  <2> SUFFICES ASSUME NEW x \in S PROVE <<x, x>> \notin R
    OBVIOUS
  <2>1. ~Precedes(Place(x), Place(x))
    BY <1>6, PlacesOrdered
  <2> QED
    BY <1>9, <2>1
<1>12. \A x, y \in S : x = y \/ <<x, y>> \in R \/ <<y, x>> \in R
  <2> SUFFICES ASSUME NEW x \in S, NEW y \in S, x # y
               PROVE  <<x, y>> \in R \/ <<y, x>> \in R
    OBVIOUS
  <2>1. Place(x) # Place(y)
    BY <1>7
  <2>2. Precedes(Place(x), Place(y)) \/ Precedes(Place(y), Place(x))
    BY <1>6, <2>1, PlacesOrdered
  <2> QED
    BY <1>9, <2>2
<1> DEFINE first(i) == CHOOSE x \in S : Cardinality({y \in S : <<y, x>> \in R}) = i - 1
           nth(i) == CHOOSE x \in S : Cardinality({y \in S : Precedes(Place(y), Place(x))}) = i - 1
           q == RankOrder(S, R)
<1>13. \A i : first(i) = nth(i)
  <2>1. \A x \in S : {y \in S : <<y, x>> \in R} = {y \in S : Precedes(Place(y), Place(x))}
    BY <1>9
  <2> SUFFICES ASSUME NEW i
               PROVE  \A x \in S : Cardinality({y \in S : <<y, x>> \in R}) = i - 1
                        <=> Cardinality({y \in S : Precedes(Place(y), Place(x))}) = i - 1
    OBVIOUS
  <2> QED
    BY <2>1
<1>14. q \in Seq(S) /\ Items(q) = S
  BY <1>5, <1>10, <1>11, <1>12, SortedByRank
<1>15. InOrder(S) = [i \in 1 .. Cardinality(S) |-> nth(i)]
  BY DEF InOrder
<1>16. q = [i \in 1 .. Cardinality(S) |-> first(i)]
  BY DEF RankOrder
<1> HIDE DEF q, first, nth
<1>17. InOrder(S) = q
  BY <1>13, <1>15, <1>16
<1>18. ToFire(tp, csv) = q
  BY <1>3, <1>17 DEF ToFire, CasesOf, ExistingKeys
<1>19. S \subseteq AllCases
  BY <1>3 DEF AllCases, CasesOf
<1> QED
  BY <1>3, <1>14, <1>18, <1>19

-----------------------------------------------------------------------------
(* The skew sweep *)

LEMMA FlushedRows ==
  ASSUME Shape, NEW tp \in Degrees, NEW new, disk' = Flushed(tp, new), spoilt \subseteq spoilt'
  PROVE  /\ disk' = [t \in Degrees |-> disk'[t]]
         /\ DOMAIN Rows(tp, "skew")' = new \cup DOMAIN Rows(tp, "skew")
         /\ MeasuredHere(tp, "skew") => MeasuredHere(tp, "skew")'
         /\ \A t \in Degrees : \A g : t # tp \/ g # "skew" => Rows(t, g)' = Rows(t, g)
<1>1. CASE new = {}
  <2>1. disk' = disk
    BY <1>1 DEF Flushed
  <2>2. \A t, g : Rows(t, g)' = Rows(t, g)
    BY <2>1, SameRows
  <2> QED
    BY <1>1, <2>1, <2>2, SameMeasured DEF Shape
<1>2. CASE new # {}
  <2>1. PICK old : old = Rows(tp, "skew")
    OBVIOUS
  <2>2. PICK m : m = MeasuredAt(tp, new)
    OBVIOUS
  <2>3. PICK o : o = Over(m, old)
    OBVIOUS
  <2>4. disk' = Written(tp, "skew", o)
    BY <1>2, <2>1, <2>2, <2>3 DEF Flushed
  <2>5. disk = [t \in Degrees |-> disk[t]]
    BY DEF Shape
  <2>6. /\ disk' = [t \in Degrees |-> disk'[t]] /\ Rows(tp, "skew")' = o
        /\ \A t \in Degrees : \A g : t # tp \/ g # "skew" => Rows(t, g)' = Rows(t, g)
    BY <2>4, <2>5, WrittenRows
  <2>7. DOMAIN m = new /\ \A k \in new : m[k] = tp
    BY <2>2 DEF MeasuredAt
  <2>8. /\ DOMAIN o = DOMAIN m \cup DOMAIN old
        /\ \A k \in DOMAIN m : o[k] = m[k]
        /\ \A k \in DOMAIN old : k \notin DOMAIN m => o[k] = old[k]
    <3>1. /\ DOMAIN Over(m, old) = DOMAIN m \cup DOMAIN old
          /\ \A k \in DOMAIN m : Over(m, old)[k] = m[k]
          /\ \A k \in DOMAIN old : k \notin DOMAIN m => Over(m, old)[k] = old[k]
      BY OverRows
    <3> QED
      BY <2>3, <3>1
  <2>9. ASSUME MeasuredHere(tp, "skew")
        PROVE  MeasuredHere(tp, "skew")'
    <3>1. Authentic(tp, "skew", old)
      BY <2>1, <2>9 DEF MeasuredHere
    <3>2. Authentic(tp, "skew", o)
      BY <2>7, <2>8, <3>1 DEF Authentic
    <3> QED
      BY <2>6, <3>2 DEF MeasuredHere, Authentic, OwnRow
  <2> QED
    BY <2>1, <2>6, <2>7, <2>8, <2>9
<1> QED
  BY <1>1, <1>2

(* A step that may write the skew file of one degree. *)
LEMMA SkewWritten ==
  ASSUME Genuine, WholeShots, session \in Sessions, session' = session, NEW tp \in Degrees,
         \A t \in Degrees : \A g : t # tp \/ g # "skew" => Rows(t, g)' = Rows(t, g),
         MeasuredHere(tp, "skew")',
         partial \ {<<tp, "skew">>} \subseteq partial', spoilt \subseteq spoilt', failed \subseteq failed'
  PROVE  /\ Genuine' /\ WholeShots'
         /\ \A t \in Degrees : t # tp /\ Finished(t) => Finished(t)'
         /\ \A t \in Degrees, c \in Categories : Fired(t, c) => Fired(t, c)'
<1>1. "skew" \in Files /\ "skew" \notin Categories
  BY DEF Files, Categories
<1>2. Genuine' /\ WholeShots'
  BY <1>1, OneFileWritten
<1>3. ASSUME NEW t \in Degrees, t # tp, Finished(t)
      PROVE  Finished(t)'
  <2>1. \A f : <<t, f>> # <<tp, "skew">>
    BY <1>3
  <2>2. Undisturbed(t)
    BY <1>3, <2>1 DEF Undisturbed, RowsStay
  <2> QED
    BY <1>3, <2>2, FinishedStays
<1>4. ASSUME NEW t \in Degrees, NEW c \in Categories, Fired(t, c)
      PROVE  Fired(t, c)'
  <2>1. c # "skew"
    BY <1>1
  <2>2. Rows(t, c)' = Rows(t, c) /\ (<<t, c>> \in partial => <<t, c>> \in partial')
    BY <2>1
  <2>3. RowsStay(t, c)
    BY <2>2 DEF RowsStay
  <2> QED
    BY <1>4, <2>2, <2>3, FiredStays
<1> QED
  BY <1>2, <1>3, <1>4

LEMMA SkewGenuine ==
  ASSUME Genuine, NEW tp \in Degrees
  PROVE  MeasuredHere(tp, "skew")
BY DEF Genuine, Files

LEMMA SampleSkewStep ==
  ASSUME Inv, SampleSkew
  PROVE  Inv'
<1>1. PICK tp : tp = Head(queue)
  OBVIOUS
<1>2. PICK wipe : wipe = (session.force /\ HasCases(tp))
  OBVIOUS
<1>3. PICK old : old = IF wipe THEN <<>> ELSE Rows(tp, "skew")
  OBVIOUS
<1>4. /\ Shape /\ Genuine /\ WholeShots /\ phase = "sweep" /\ cats = <<>> /\ Samples(session)
      /\ session \in Sessions /\ queue \in Seq(Degrees) /\ queue # <<>>
  BY DEF Inv, SampleSkew, Shape
<1>5. /\ disk' = IF wipe THEN [disk EXCEPT ![tp] = Without(disk[tp], "skew")] ELSE disk
      /\ partial' = partial \ IF wipe THEN {<<tp, "skew">>} ELSE {}
      /\ spoilt' = spoilt
      /\ cases' = ToFire(tp, old)
      /\ phase' = "skew" /\ session' = session /\ queue' = queue /\ cats' = cats /\ failed' = failed
  BY <1>1, <1>2, <1>3 DEF SampleSkew
<1>6. tp \in Degrees /\ tp \in Items(queue)
  BY <1>1, <1>4, HeadTailItems
<1>7. /\ cases' \in Seq(AllCases)
      /\ Items(cases') = {c \in CasesOf(tp) : c \notin DOMAIN old}
  BY <1>4, <1>5, <1>6, ToFireItems
<1>8. disk = [t \in Degrees |-> disk[t]]
  BY <1>4 DEF Shape
<1>9. /\ disk' = [t \in Degrees |-> disk'[t]]
      /\ Rows(tp, "skew")' = old
      /\ \A t \in Degrees : \A g : t # tp \/ g # "skew" => Rows(t, g)' = Rows(t, g)
  <2>1. CASE wipe
    <3>1. disk' = Removed(tp, "skew") /\ old = <<>>
      BY <1>3, <1>5, <2>1 DEF Removed
    <3>2. /\ disk' = [t \in Degrees |-> disk'[t]]
          /\ Rows(tp, "skew")' = <<>>
          /\ \A t \in Degrees : \A g : t # tp \/ g # "skew" => Rows(t, g)' = Rows(t, g)
      BY <1>6, <1>8, <3>1, RemovedRows
    <3> QED
      BY <3>1, <3>2
  <2>2. CASE ~wipe
    <3>1. disk' = disk /\ old = Rows(tp, "skew")
      BY <1>3, <1>5, <2>2
    <3>2. \A t, g : Rows(t, g)' = Rows(t, g)
      BY <3>1, SameRows
    <3> QED
      BY <1>8, <3>1, <3>2
  <2> QED
    BY <2>1, <2>2
<1>10. Shape'
  BY <1>4, <1>5, <1>7, <1>9 DEF Shape
<1>11. MeasuredHere(tp, "skew")'
  <2>1. MeasuredHere(tp, "skew")
    BY <1>4, <1>6, SkewGenuine
  <2>2. Authentic(tp, "skew", old)
    <3>1. CASE wipe
      BY <1>3, <3>1 DEF Authentic
    <3>2. CASE ~wipe
      BY <1>3, <2>1, <3>2 DEF MeasuredHere
    <3> QED
      BY <3>1, <3>2
  <2> QED
    BY <1>5, <1>9, <2>2 DEF MeasuredHere, Authentic, OwnRow
<1>12. partial \ {<<tp, "skew">>} \subseteq partial' /\ spoilt \subseteq spoilt' /\ failed \subseteq failed'
  BY <1>5
<1>13. /\ Genuine' /\ WholeShots'
       /\ \A t \in Degrees : t # tp /\ Finished(t) => Finished(t)'
       /\ \A t \in Degrees, c \in Categories : Fired(t, c) => Fired(t, c)'
  BY <1>4, <1>5, <1>6, <1>9, <1>11, <1>12, SkewWritten
<1>14. ASSUME Full(session), Advanced
       PROVE  Advanced'
  <2>1. ASSUME NEW t \in LeftBehind'
        PROVE  Finished(t)'
    <3>1. t \in LeftBehind /\ t \in Items(session.tps) \ Items(queue)
      BY <1>4, <1>5 DEF LeftBehind
    <3>2. t # tp /\ t \in Degrees /\ Finished(t)
      BY <1>4, <1>6, <1>14, <3>1, SessionTypes DEF Advanced
    <3> QED
      BY <1>13, <3>2
  <2>2. ASSUME ~session.only_skew, NEW c \in Items(CategoriesFor(tp)) \ Items(cats')
        PROVE  Fired(tp, c)'
    <3>1. Fired(tp, c) /\ c \in Categories
      BY <1>1, <1>4, <1>5, <1>14, <2>2, CategoriesForType DEF Advanced
    <3> QED
      BY <1>6, <1>13, <3>1
  <2>3. ASSUME NEW c \in CasesOf(tp)'
        PROVE  CaseKnown(tp, c)'
    <3>1. c \in CasesOf(tp)
      BY <1>5, <2>3 DEF CasesOf
    <3>2. c \in Items(cases') \/ c \in DOMAIN old
      BY <1>7, <3>1
    <3>3. c \in Items(cases') \/ c \in DOMAIN Rows(tp, "skew")'
      BY <1>9, <3>2
    <3> QED
      BY <3>3 DEF CaseKnown
  <2>4. Head(queue') = tp /\ session' = session /\ phase' = "skew"
    BY <1>1, <1>5
  <2> QED
    BY <2>1, <2>2, <2>3, <2>4 DEF Advanced
<1> QED
  BY <1>5, <1>10, <1>13, <1>14 DEF Inv

(* A case leaves the list: it is measured, or it fails. *)
LEMMA CaseDone ==
  ASSUME Inv, NEW tp, tp = Head(queue), phase = "skew", cases # <<>>, cases' = Tail(cases),
         UNCHANGED <<session, phase, queue, cats, partial, spoilt>>,
         disk' = [t \in Degrees |-> disk'[t]],
         \A t \in Degrees : \A g : t # tp \/ g # "skew" => Rows(t, g)' = Rows(t, g),
         DOMAIN Rows(tp, "skew") \subseteq DOMAIN Rows(tp, "skew")',
         MeasuredHere(tp, "skew") => MeasuredHere(tp, "skew")',
         rows \subseteq rows', failed \subseteq failed',
         Head(cases) \in rows' \/ <<tp, Head(cases)>> \in failed'
  PROVE  Inv'
<1>1. /\ Shape /\ Genuine /\ WholeShots /\ session \in Sessions
      /\ queue \in Seq(Degrees) /\ queue # <<>> /\ cases \in Seq(AllCases)
  BY DEF Inv, Shape
<1>2. tp \in Degrees /\ tp \in Items(queue)
  BY <1>1, HeadTailItems
<1>3. cases' \in Seq(AllCases) /\ Items(cases) = {Head(cases)} \cup Items(cases')
  BY <1>1, HeadTailItems
<1>4. Shape'
  BY <1>1, <1>3 DEF Shape
<1>5. MeasuredHere(tp, "skew")'
  BY <1>1, <1>2, SkewGenuine
<1>6. /\ Genuine' /\ WholeShots'
      /\ \A t \in Degrees : t # tp /\ Finished(t) => Finished(t)'
      /\ \A t \in Degrees, c \in Categories : Fired(t, c) => Fired(t, c)'
  BY <1>1, <1>2, <1>5, SkewWritten
<1>7. ASSUME Full(session), Advanced
      PROVE  Advanced'
  <2>1. ASSUME NEW t \in LeftBehind'
        PROVE  Finished(t)'
    <3>1. t \in LeftBehind /\ t \in Items(session.tps) \ Items(queue)
      BY DEF LeftBehind
    <3>2. t # tp /\ t \in Degrees /\ Finished(t)
      BY <1>1, <1>2, <1>7, <3>1, SessionTypes DEF Advanced
    <3> QED
      BY <1>6, <3>2
  <2>2. ASSUME ~session.only_skew, NEW c \in Items(CategoriesFor(tp)) \ Items(cats)
        PROVE  Fired(tp, c)'
    <3>1. Fired(tp, c) /\ c \in Categories
      BY <1>7, <2>2, CategoriesForType DEF Advanced
    <3> QED
      BY <1>2, <1>6, <3>1
  <2>3. ASSUME NEW c \in CasesOf(tp)'
        PROVE  CaseKnown(tp, c)'
    <3>1. c \in CasesOf(tp)
      BY <2>3 DEF CasesOf
    <3>2. CaseKnown(tp, c)
      BY <1>7, <3>1 DEF Advanced
    <3>3. \/ <<tp, c>> \in failed' \/ c \in Items(cases') \/ c \in rows'
          \/ c \in DOMAIN Rows(tp, "skew")'
      BY <1>3, <3>2 DEF CaseKnown
    <3> QED
      BY <3>3 DEF CaseKnown
  <2> QED
    BY <2>1, <2>2, <2>3 DEF Advanced
<1> QED
  BY <1>4, <1>6, <1>7 DEF Inv

LEMMA MeasureCaseStep ==
  ASSUME Inv, MeasureCase
  PROVE  Inv'
<1>1. PICK tp : tp = Head(queue)
  OBVIOUS
<1>2. /\ Shape /\ phase = "skew" /\ cases # <<>> /\ cases' = Tail(cases)
      /\ queue \in Seq(Degrees) /\ queue # <<>>
      /\ UNCHANGED <<session, phase, queue, cats, partial, spoilt, failed>>
      /\ rows' = rows \cup {Head(cases)}
      /\ disk' = IF Due THEN Flushed(tp, rows') ELSE disk
  BY <1>1 DEF Inv, Shape, MeasureCase, seen
<1>3. tp \in Degrees
  BY <1>1, <1>2, HeadTailItems
<1>4. PICK new : new = rows'
  OBVIOUS
<1>5. /\ disk' = [t \in Degrees |-> disk'[t]]
      /\ \A t \in Degrees : \A g : t # tp \/ g # "skew" => Rows(t, g)' = Rows(t, g)
      /\ DOMAIN Rows(tp, "skew") \subseteq DOMAIN Rows(tp, "skew")'
      /\ MeasuredHere(tp, "skew") => MeasuredHere(tp, "skew")'
  <2>1. CASE Due
    <3>1. disk' = Flushed(tp, new)
      BY <1>2, <1>4, <2>1
    <3>2. /\ disk' = [t \in Degrees |-> disk'[t]]
          /\ DOMAIN Rows(tp, "skew")' = new \cup DOMAIN Rows(tp, "skew")
          /\ MeasuredHere(tp, "skew") => MeasuredHere(tp, "skew")'
          /\ \A t \in Degrees : \A g : t # tp \/ g # "skew" => Rows(t, g)' = Rows(t, g)
      BY <1>2, <1>3, <3>1, FlushedRows
    <3> QED
      BY <3>2
  <2>2. CASE ~Due
    <3>1. disk' = disk
      BY <1>2, <2>2
    <3>2. \A t, g : Rows(t, g)' = Rows(t, g)
      BY <3>1, SameRows
    <3> QED
      BY <1>2, <1>3, <3>1, <3>2, SameMeasured DEF Shape
  <2> QED
    BY <2>1, <2>2
<1>6. rows \subseteq rows' /\ failed \subseteq failed' /\ Head(cases) \in rows'
  BY <1>2
<1> QED
  BY <1>1, <1>2, <1>5, <1>6, CaseDone

LEMMA CaseFailsStep ==
  ASSUME Inv, CaseFails
  PROVE  Inv'
<1>1. PICK tp : tp = Head(queue)
  OBVIOUS
<1>2. /\ Shape /\ phase = "skew" /\ cases # <<>> /\ cases' = Tail(cases)
      /\ UNCHANGED <<session, phase, queue, cats, partial, spoilt, rows, disk>>
      /\ failed' = failed \cup {<<tp, Head(cases)>>}
  BY <1>1 DEF Inv, CaseFails, seen
<1>3. \A t, g : Rows(t, g)' = Rows(t, g)
  BY <1>2, SameRows
<1>4. disk' = [t \in Degrees |-> disk'[t]]
  BY <1>2 DEF Shape
<1>5. MeasuredHere(tp, "skew") => MeasuredHere(tp, "skew")'
  BY <1>2, <1>3, SameMeasured
<1>6. rows \subseteq rows' /\ failed \subseteq failed' /\ <<tp, Head(cases)>> \in failed'
  BY <1>2
<1> QED
  BY <1>1, <1>2, <1>3, <1>4, <1>5, <1>6, CaseDone

(* A degree leaves the queue with all its rows. *)
LEMMA NextDegreeStep ==
  ASSUME Inv, NextDegree
  PROVE  Inv'
<1>1. PICK tp : tp = Head(queue)
  OBVIOUS
<1>2. /\ Shape /\ Genuine /\ WholeShots /\ session \in Sessions
      /\ phase \in {"sweep", "skew"} /\ cats = <<>>
      /\ phase = "sweep" => ~Samples(session)
      /\ phase = "skew" => cases = <<>>
      /\ queue \in Seq(Degrees) /\ queue # <<>> /\ cases \in Seq(AllCases)
      /\ phase' = "boot" /\ queue' = Tail(queue)
      /\ UNCHANGED <<session, cats, cases, partial, spoilt, failed>>
      /\ disk' = IF phase = "skew" THEN Flushed(tp, rows) ELSE disk
  BY <1>1 DEF Inv, Shape, NextDegree, seen
<1>3. tp \in Degrees /\ tp \in Items(queue) /\ queue' \in Seq(Degrees)
      /\ Items(queue) = {tp} \cup Items(queue')
  BY <1>1, <1>2, HeadTailItems
<1>4. PICK new : new = rows
  OBVIOUS
<1>5. /\ disk' = [t \in Degrees |-> disk'[t]]
      /\ \A t \in Degrees : \A g : t # tp \/ g # "skew" => Rows(t, g)' = Rows(t, g)
      /\ MeasuredHere(tp, "skew") => MeasuredHere(tp, "skew")'
      /\ phase = "skew" => new \cup DOMAIN Rows(tp, "skew") \subseteq DOMAIN Rows(tp, "skew")'
  <2>1. CASE phase = "skew"
    <3>1. disk' = Flushed(tp, new)
      BY <1>2, <1>4, <2>1
    <3>2. /\ disk' = [t \in Degrees |-> disk'[t]]
          /\ DOMAIN Rows(tp, "skew")' = new \cup DOMAIN Rows(tp, "skew")
          /\ MeasuredHere(tp, "skew") => MeasuredHere(tp, "skew")'
          /\ \A t \in Degrees : \A g : t # tp \/ g # "skew" => Rows(t, g)' = Rows(t, g)
      BY <1>2, <1>3, <3>1, FlushedRows
    <3> QED
      BY <3>2
  <2>2. CASE phase # "skew"
    <3>1. disk' = disk
      BY <1>2, <2>2
    <3>2. \A t, g : Rows(t, g)' = Rows(t, g)
      BY <3>1, SameRows
    <3> QED
      BY <1>2, <1>3, <2>2, <3>1, <3>2, SameMeasured DEF Shape
  <2> QED
    BY <2>1, <2>2
<1>6. Shape'
  BY <1>2, <1>3, <1>5 DEF Shape
<1>7. MeasuredHere(tp, "skew")'
  BY <1>2, <1>3, <1>5, SkewGenuine
<1>8. partial \ {<<tp, "skew">>} \subseteq partial' /\ spoilt \subseteq spoilt' /\ failed \subseteq failed'
  BY <1>2
<1>9. /\ Genuine' /\ WholeShots'
      /\ \A t \in Degrees : t # tp /\ Finished(t) => Finished(t)'
      /\ \A t \in Degrees, c \in Categories : Fired(t, c) => Fired(t, c)'
  BY <1>2, <1>3, <1>5, <1>7, <1>8, SkewWritten
<1>10. ASSUME Full(session), Advanced
       PROVE  Advanced'
  <2>1. Finished(tp)'
    <3>1. ASSUME ~session.only_skew, NEW c \in Items(CategoriesFor(tp))
          PROVE  Fired(tp, c)'
      <4>1. Items(cats) = {}
        BY <1>2, EmptyItems
      <4>2. Fired(tp, c) /\ c \in Categories
        BY <1>1, <1>2, <1>10, <3>1, <4>1, CategoriesForType DEF Advanced
      <4> QED
        BY <1>3, <1>9, <4>2
    <3>2. ASSUME ~session.skip_skew
          PROVE  Sampled(tp)'
      <4>1. phase = "skew" /\ Items(cases) = {}
        BY <1>2, <1>10, <3>2, EmptyItems DEF Samples
      <4>2. ASSUME NEW c \in CasesOf(tp), <<tp, c>> \notin failed
            PROVE  c \in DOMAIN Rows(tp, "skew")'
        <5>1. CaseKnown(tp, c)
          BY <1>1, <1>10, <4>1, <4>2 DEF Advanced
        <5> QED
          BY <1>4, <1>5, <4>1, <4>2, <5>1 DEF CaseKnown
      <4>3. CasesOf(tp)' = CasesOf(tp)
        BY <1>2 DEF CasesOf
      <4> QED
        BY <1>2, <4>2, <4>3 DEF Sampled
    <3> QED
      BY <1>2, <3>1, <3>2 DEF Finished
  <2>2. ASSUME NEW t \in LeftBehind'
        PROVE  Finished(t)'
    <3>1. t \in Items(session.tps) \ Items(queue')
      BY <1>2, <2>2 DEF LeftBehind
    <3>2. CASE t = tp
      BY <2>1, <3>2
    <3>3. CASE t # tp
      <4>1. t \in LeftBehind
        BY <1>2, <1>3, <3>1, <3>3 DEF LeftBehind
      <4>2. Finished(t) /\ t \in Degrees
        BY <1>2, <1>10, <3>1, <4>1, SessionTypes DEF Advanced
      <4> QED
        BY <1>9, <3>3, <4>2
    <3> QED
      BY <3>2, <3>3
  <2> QED
    BY <1>2, <2>2 DEF Advanced
<1> QED
  BY <1>2, <1>6, <1>9, <1>10 DEF Inv

(* A kill in the middle of a write. *)
LEMMA CrashWritingStep ==
  ASSUME Inv, CrashWriting
  PROVE  Inv'
<1>1. PICK tp : tp = Head(queue)
  OBVIOUS
<1>2. Shape /\ Genuine /\ Dies
  BY DEF Inv, CrashWriting
<1>3. CASE phase = "sweep" /\ cats # <<>> /\ Tear(tp, Head(cats), Swept(tp, Head(cats)))
  <2>1. PICK c : c = Head(cats)
    OBVIOUS
  <2>2. queue \in Seq(Degrees) /\ queue # <<>> /\ cats \in Seq(Categories)
    BY <1>2, <1>3 DEF Shape
  <2>3. tp \in Degrees /\ c \in Categories /\ c \in Files
    BY <1>1, <1>3, <2>1, <2>2, HeadTailItems DEF Files
  <2>4. PICK csv : csv = Swept(tp, c)
    OBVIOUS
  <2>5. Authentic(tp, c, csv)
    BY <1>2, <2>3, <2>4, SweptAuthentic
  <2>6. Tear(tp, c, csv)
    BY <1>3, <2>1, <2>4
  <2> QED
    BY <1>2, <2>3, <2>5, <2>6, TornFile
<1>4. CASE /\ phase = "skew" /\ Flushing # {}
           /\ Tear(tp, "skew", Flushed(tp, Flushing)[tp].skew)
  <2>1. queue \in Seq(Degrees) /\ queue # <<>>
    BY <1>2, <1>4 DEF Shape
  <2>2. tp \in Degrees
    BY <1>1, <2>1, HeadTailItems
  <2>3. PICK new : new = Flushing /\ new # {}
    BY <1>4
  <2>4. PICK m : m = MeasuredAt(tp, new)
    OBVIOUS
  <2>5. PICK old : old = Rows(tp, "skew")
    OBVIOUS
  <2>6. PICK csv : csv = Over(m, old)
    OBVIOUS
  <2>7. Flushed(tp, new)[tp].skew = csv
    <3>1. PICK file : file = [x \in {"skew"} |-> csv]
      OBVIOUS
    <3>2. Flushed(tp, new) = [disk EXCEPT ![tp] = Over(file, disk[tp])]
      BY <2>3, <2>4, <2>5, <2>6, <3>1 DEF Flushed, Written
    <3>3. disk = [t \in Degrees |-> disk[t]]
      BY <1>2 DEF Shape
    <3>4. Flushed(tp, new)[tp] = Over(file, disk[tp])
      BY <2>2, <3>2, <3>3
    <3>5. "skew" \in DOMAIN file /\ file["skew"] = csv
      BY <3>1
    <3>6. Over(file, disk[tp])["skew"] = csv
      <4>1. PICK was : was = disk[tp]
        OBVIOUS
      <4>2. \A k \in DOMAIN file : Over(file, was)[k] = file[k]
        BY OverRows
      <4> QED
        BY <3>5, <4>1, <4>2
    <3> QED
      BY <3>4, <3>6
  <2>8. Tear(tp, "skew", csv)
    BY <1>4, <2>3, <2>7
  <2>9. DOMAIN m = new /\ \A k \in new : m[k] = tp
    BY <2>4 DEF MeasuredAt
  <2>10. Authentic(tp, "skew", old)
    BY <1>2, <2>2, <2>5, SkewGenuine DEF MeasuredHere
  <2>11. Authentic(tp, "skew", csv)
    <3>1. /\ DOMAIN Over(m, old) = DOMAIN m \cup DOMAIN old
          /\ \A k \in DOMAIN m : Over(m, old)[k] = m[k]
          /\ \A k \in DOMAIN old : k \notin DOMAIN m => Over(m, old)[k] = old[k]
      BY OverRows
    <3> QED
      BY <2>6, <2>9, <2>10, <3>1 DEF Authentic
  <2>12. "skew" \in Files
    BY DEF Files
  <2> QED
    BY <1>2, <2>2, <2>8, <2>11, <2>12, TornFile
<1>5. CASE /\ phase = "replicate" /\ queue # <<>> /\ cats # <<>>
           /\ Tear(tp, Head(cats), Merged(tp, Head(cats)))
  <2>1. PICK f : f = Head(cats)
    OBVIOUS
  <2>2. /\ queue \in Seq(Degrees) /\ 1 \notin Items(queue)
        /\ cats \in Seq(Categories) /\ \A g \in Items(cats) : Layered(g)
    BY <1>2, <1>5 DEF Shape
  <2>3. tp \in Degrees /\ tp # 1
    BY <1>1, <1>5, <2>2, HeadTailItems
  <2>4. f \in Files /\ Layered(f)
    BY <1>5, <2>1, <2>2, HeadTailItems DEF Files
  <2>5. PICK csv : csv = Merged(tp, f)
    OBVIOUS
  <2>6. Authentic(tp, f, csv)
    BY <1>2, <2>3, <2>4, <2>5, MergedAuthentic
  <2>7. Tear(tp, f, csv)
    BY <1>5, <2>1, <2>5
  <2> QED
    BY <1>2, <2>3, <2>4, <2>6, <2>7, TornFile
<1> QED
  BY <1>1, <1>3, <1>4, <1>5 DEF CrashWriting

(* Nothing happens. *)
LEMMA StutterStep ==
  ASSUME Inv, UNCHANGED vars
  PROVE  Inv'
<1>1. UNCHANGED <<disk, session, phase, queue, cats, cases, rows, failed, partial, spoilt>>
  BY DEF vars, sweep, seen
<1>2. Shape'
  BY <1>1 DEF Inv, Shape
<1>3. Genuine' /\ WholeShots'
  BY <1>1, FilesStill DEF Inv
<1>4. ASSUME session # None, Full(session), Advanced
      PROVE  Advanced'
  <2>1. session \in Sessions
    BY <1>4 DEF Inv, Shape
  <2>2. /\ \A t \in Degrees : Finished(t) => Finished(t)'
        /\ \A t \in Degrees, c \in Categories : Fired(t, c) => Fired(t, c)'
    BY <1>1, <2>1, StillFinished
  <2>3. ASSUME NEW t \in LeftBehind'
        PROVE  Finished(t)'
    <3>1. t \in LeftBehind
      BY <1>1 DEF LeftBehind
    <3>2. Finished(t) /\ t \in Degrees
      BY <1>4, <2>1, <3>1, SessionTypes DEF Advanced, LeftBehind
    <3> QED
      BY <2>2, <3>2
  <2>4. ASSUME phase \in {"sweep", "skew"}, ~session.only_skew,
               NEW c \in Items(CategoriesFor(Head(queue))) \ Items(cats)
        PROVE  Fired(Head(queue), c)'
    <3>1. PICK tp : tp = Head(queue)
      OBVIOUS
    <3>2. tp \in Degrees
      BY <2>4, <3>1, HeadTailItems DEF Inv, Shape
    <3>3. Fired(tp, c) /\ c \in Categories
      BY <1>4, <2>4, <3>1, CategoriesForType DEF Advanced
    <3>4. Fired(tp, c)'
      BY <2>2, <3>2, <3>3
    <3> QED
      BY <1>1, <3>1, <3>4
  <2>5. ASSUME phase = "skew", NEW c \in CasesOf(Head(queue))
        PROVE  CaseKnown(Head(queue), c)'
    <3>1. CaseKnown(Head(queue), c)
      BY <1>4, <2>5 DEF Advanced
    <3> QED
      BY <1>1, <3>1 DEF CaseKnown, Rows
  <2>6. CasesOf(Head(queue))' = CasesOf(Head(queue))
    BY <1>1 DEF CasesOf
  <2> QED
    BY <1>1, <2>3, <2>4, <2>5, <2>6 DEF Advanced
<1> QED
  BY <1>1, <1>2, <1>3, <1>4 DEF Inv

LEMMA InvStep ==
  ASSUME Inv, [Next]_vars
  PROVE  Inv'
<1>1. ASSUME NEW s \in Sessions, Start(s)
      PROVE  Inv'
  BY <1>1, StartStep
<1> QED
  BY <1>1, BootStep, BootFailsStep, FireCategoryStep, SampleSkewStep, MeasureCaseStep, CaseFailsStep,
     NextDegreeStep, SweepsStep, ReplicateStep, NextReplicaStep, ReplicasStep, WriteSkewFitCsvStep,
     PersistMetaStep, ReadFailsStep, CrashStep, CrashWritingStep, StutterStep
     DEF Next

LEMMA AlwaysInv == Spec => []Inv
<1>1. Init => Inv
  BY InvInit
<1>2. Inv /\ [Next]_vars => Inv'
  BY InvStep
<1> QED
  BY <1>1, <1>2, PTL DEF Spec

-----------------------------------------------------------------------------
(* The rows that kills cut *)

(* A kill cuts one row at most, and nothing else does. *)
FewSpoilt ==
  /\ bounds \in [sessions : Nat, kills : Nat]
  /\ IsFiniteSet(spoilt) /\ Cardinality(spoilt) <= bounds.kills

LEMMA AsManySpoilt ==
  ASSUME FewSpoilt, spoilt' = spoilt,
         bounds' = bounds \/ bounds' = [bounds EXCEPT !.sessions = @ + 1]
                          \/ bounds' = [bounds EXCEPT !.kills = @ + 1]
  PROVE  FewSpoilt'
<1>1. Cardinality(spoilt) \in Nat
  BY FS_CardinalityType DEF FewSpoilt
<1>2. bounds' \in [sessions : Nat, kills : Nat] /\ bounds'.kills >= bounds.kills
  BY DEF FewSpoilt
<1>3. bounds.kills \in Nat /\ bounds'.kills \in Nat
  BY <1>2 DEF FewSpoilt
<1> QED
  BY <1>1, <1>2, <1>3 DEF FewSpoilt

LEMMA OneMoreSpoilt ==
  ASSUME FewSpoilt, NEW x, spoilt' = spoilt \cup {x}, bounds' = [bounds EXCEPT !.kills = @ + 1]
  PROVE  FewSpoilt'
<1>1. /\ IsFiniteSet(spoilt \cup {x})
      /\ Cardinality(spoilt \cup {x}) = Cardinality(spoilt) \/ Cardinality(spoilt \cup {x}) = Cardinality(spoilt) + 1
      /\ Cardinality(spoilt) \in Nat
  BY FS_AddElement, FS_CardinalityType DEF FewSpoilt
<1>2. bounds' \in [sessions : Nat, kills : Nat] /\ bounds'.kills = bounds.kills + 1
  BY DEF FewSpoilt
<1>3. bounds.kills \in Nat
  BY DEF FewSpoilt
<1>4. Cardinality(spoilt') <= bounds'.kills
  BY <1>1, <1>2, <1>3 DEF FewSpoilt
<1> QED
  BY <1>1, <1>2, <1>4 DEF FewSpoilt

LEMMA FewSpoiltStep ==
  ASSUME FewSpoilt, [Next]_vars
  PROVE  FewSpoilt'
<1>1. ASSUME CrashWriting
      PROVE  FewSpoilt'
  <2>1. bounds' = [bounds EXCEPT !.kills = @ + 1]
    BY <1>1 DEF CrashWriting, Dies
  <2>2. PICK tp, f, csv : Tear(tp, f, csv)
    BY <1>1 DEF CrashWriting
  <2>3. spoilt' = spoilt \/ \E x : spoilt' = spoilt \cup {x}
    BY <2>2 DEF Tear
  <2> QED
    BY <2>1, <2>3, AsManySpoilt, OneMoreSpoilt
<1>2. ASSUME Crash
      PROVE  FewSpoilt'
  <2>1. spoilt' = spoilt /\ bounds' = [bounds EXCEPT !.kills = @ + 1]
    BY <1>2 DEF Crash, Dies, seen
  <2> QED
    BY <2>1, AsManySpoilt
<1>3. ASSUME NEW s \in Sessions, Start(s)
      PROVE  FewSpoilt'
  <2>1. spoilt' = spoilt /\ bounds' = [bounds EXCEPT !.sessions = @ + 1]
    BY <1>3 DEF Start, seen
  <2> QED
    BY <2>1, AsManySpoilt
<1>4. ASSUME \/ Boot \/ BootFails \/ FireCategory \/ SampleSkew \/ MeasureCase \/ CaseFails \/ NextDegree
             \/ Sweeps \/ Replicate \/ NextReplica \/ Replicas \/ WriteSkewFitCsv \/ PersistMeta
             \/ ReadFails \/ UNCHANGED vars
      PROVE  FewSpoilt'
  <2>1. spoilt' = spoilt /\ bounds' = bounds
    BY <1>4 DEF Boot, BootFails, FireCategory, SampleSkew, MeasureCase, CaseFails, NextDegree, Sweeps, Replicate,
       NextReplica, Replicas, WriteSkewFitCsv, PersistMeta, ReadFails, seen, vars
  <2> QED
    BY <2>1, AsManySpoilt
<1> QED
  BY <1>1, <1>2, <1>3, <1>4 DEF Next

LEMMA AlwaysFewSpoilt == Spec => []FewSpoilt
<1>1. ASSUME Init
      PROVE  FewSpoilt
  <2>1. spoilt = {} /\ bounds = [sessions |-> 0, kills |-> 0]
    BY <1>1 DEF Init
  <2> QED
    BY <2>1, FS_EmptySet DEF FewSpoilt
<1>2. FewSpoilt /\ [Next]_vars => FewSpoilt'
  BY FewSpoiltStep
<1> QED
  BY <1>1, <1>2, PTL DEF Spec

-----------------------------------------------------------------------------
(* What the runs check *)

LEMMA InvCovers ==
  ASSUME Inv, FewSpoilt
  PROVE  Covered
<1> SUFFICES ASSUME phase = "idle", session # None, Full(session), NEW tp \in Items(session.tps)
             PROVE  /\ ~session.only_skew => \A c \in Items(CategoriesFor(tp)) :
                         (Layered(c) => <<tp, c>> \notin partial) => Holds(tp, c, RowsOf(session, tp, c))
                    /\ ~session.skip_skew =>
                         Holds(tp, "skew", {c \in BuildCases(Limits(session, tp), session.args) : <<tp, c>> \notin failed})
  BY DEF Covered, Completed, FewSpoilt
<1>1. /\ Advanced /\ LeftBehind = Items(session.tps) /\ Genuine
      /\ session \in Sessions
  BY DEF Inv, LeftBehind, Shape
<1>2. Finished(tp) /\ tp \in Degrees
  BY <1>1, SessionTypes DEF Advanced
<1>3. ASSUME NEW f \in Files, NEW k \in DOMAIN Rows(tp, f), OwnRow(tp, f, k)
      PROVE  Recorded(tp, f, k)
  <2>1. MeasuredHere(tp, f)
    BY <1>1, <1>2 DEF Genuine
  <2> QED
    BY <1>3, <2>1 DEF MeasuredHere, Authentic, Recorded
<1>4. ASSUME ~session.only_skew, NEW c \in Items(CategoriesFor(tp)), Layered(c) => <<tp, c>> \notin partial
      PROVE  Holds(tp, c, RowsOf(session, tp, c))
  <2>1. c \in Files
    BY CategoriesForType DEF Files
  <2>2. RowsOf(session, tp, c) \subseteq DOMAIN Rows(tp, c)
    BY <1>2, <1>4 DEF Finished, Fired
  <2>3. \A k \in RowsOf(session, tp, c) : OwnRow(tp, c, k)
    BY RowsOfOwn
  <2> QED
    BY <1>3, <2>1, <2>2, <2>3 DEF Holds
<1>5. ASSUME ~session.skip_skew
      PROVE  Holds(tp, "skew", {c \in BuildCases(Limits(session, tp), session.args) : <<tp, c>> \notin failed})
  <2>1. {c \in BuildCases(Limits(session, tp), session.args) : <<tp, c>> \notin failed} \subseteq DOMAIN Rows(tp, "skew")
    BY <1>2, <1>5 DEF Finished, Sampled, CasesOf
  <2>2. "skew" \in Files /\ \A k : OwnRow(tp, "skew", k)
    BY DEF Files, OwnRow, Layered
  <2> QED
    BY <1>3, <2>1, <2>2 DEF Holds
<1> QED
  BY <1>4, <1>5

(* After a full session what it was to measure is on disk, measured at its *)
(* own degree, wherever earlier sessions raised or were killed, also in the*)
(* middle of a row: a shot is skipped for a row on disk, and the row is    *)
(* what the shot measured but for one row a kill at most; it stands for    *)
(* the other layers of its shot unless a kill or the copy of stable layers *)
(* left the file without them.                                             *)
THEOREM CoveredCorrect == Spec => []Covered
BY AlwaysInv, AlwaysFewSpoilt, InvCovers, PTL

(* What a step that may lose measurements leaves. *)
Preserved == \A tp \in Degrees, f \in Files : CutShort(tp, f) \/ Lasting(tp, f) \subseteq DOMAIN Rows(tp, f)'

LEMMA SameDisk ==
  ASSUME disk' = disk
  PROVE  Preserved
<1>1. \A t, f : Rows(t, f)' = Rows(t, f)
  BY SameRows
<1> QED
  BY <1>1 DEF Preserved, Lasting

(* Only one file changes, and its rows stay. *)
LEMMA RowsAdded ==
  ASSUME NEW tp \in Degrees, NEW c,
         \A t \in Degrees : \A g : t # tp \/ g # c => Rows(t, g)' = Rows(t, g),
         DOMAIN Rows(tp, c) \subseteq DOMAIN Rows(tp, c)'
  PROVE  Preserved
<1> SUFFICES ASSUME NEW t \in Degrees, NEW f \in Files
             PROVE  Lasting(t, f) \subseteq DOMAIN Rows(t, f)'
  BY DEF Preserved
<1>1. Lasting(t, f) \subseteq DOMAIN Rows(t, f)
  BY DEF Lasting
<1>2. CASE t = tp /\ f = c
  BY <1>1, <1>2
<1>3. CASE t # tp \/ f # c
  <2>1. Rows(t, f)' = Rows(t, f)
    BY <1>3
  <2> QED
    BY <1>1, <2>1
<1> QED
  BY <1>2, <1>3

LEMMA FireCategoryKeeps ==
  ASSUME Inv, FireCategory, ~session.force
  PROVE  Preserved
<1>1. PICK tp : tp = Head(queue)
  OBVIOUS
<1>2. PICK c : c = Head(cats)
  OBVIOUS
<1>3. /\ Head(queue) \in Degrees
      /\ \/ disk' = disk
         \/ disk' = Written(tp, c, Swept(tp, c))
  BY <1>1, <1>2, FireCategoryShape DEF FireCategory
<1>4. CASE disk' = disk
  BY <1>4, SameDisk
<1>5. CASE disk' = Written(tp, c, Swept(tp, c))
  <2>1. PICK new : new = Swept(tp, c)
    OBVIOUS
  <2>2. disk = [t \in Degrees |-> disk[t]] /\ tp \in Degrees /\ disk' = Written(tp, c, new)
    BY <1>1, <1>3, <1>5, <2>1 DEF Inv, Shape
  <2>3. /\ Rows(tp, c)' = new
        /\ \A t \in Degrees : \A g : t # tp \/ g # c => Rows(t, g)' = Rows(t, g)
    BY <2>2, WrittenRows
  <2>4. DOMAIN new = NewRows(tp, c) \cup DOMAIN Preload(tp, c)
    BY <2>1, SweptIs
  <2>5. Preload(tp, c) = Rows(tp, c)
    BY DEF Preload
  <2>6. DOMAIN Rows(tp, c) \subseteq DOMAIN Rows(tp, c)'
    BY <2>3, <2>4, <2>5
  <2> QED
    BY <2>2, <2>3, <2>6, RowsAdded
<1> QED
  BY <1>3, <1>4, <1>5

LEMMA FlushKeeps ==
  ASSUME Inv, NEW tp, tp = Head(queue), phase = "skew", NEW new, disk' = Flushed(tp, new), spoilt' = spoilt
  PROVE  Preserved
<1>1. Shape /\ tp \in Degrees
  BY HeadTailItems DEF Inv, Shape
<1>2. PICK f : f = "skew"
  OBVIOUS
<1>3. /\ DOMAIN Rows(tp, f)' = new \cup DOMAIN Rows(tp, f)
      /\ \A t \in Degrees : \A g : t # tp \/ g # f => Rows(t, g)' = Rows(t, g)
  BY <1>1, <1>2, FlushedRows
<1>4. DOMAIN Rows(tp, f) \subseteq DOMAIN Rows(tp, f)'
  BY <1>3
<1> QED
  BY <1>1, <1>3, <1>4, RowsAdded

LEMMA MeasureCaseKeeps ==
  ASSUME Inv, MeasureCase
  PROVE  Preserved
<1>1. PICK tp : tp = Head(queue)
  OBVIOUS
<1>2. PICK new : new = rows'
  OBVIOUS
<1>3. phase = "skew" /\ spoilt' = spoilt /\ disk' = IF Due THEN Flushed(tp, new) ELSE disk
  BY <1>1, <1>2 DEF MeasureCase, seen
<1>4. CASE Due
  BY <1>1, <1>3, <1>4, FlushKeeps
<1>5. CASE ~Due
  BY <1>3, <1>5, SameDisk
<1> QED
  BY <1>4, <1>5

LEMMA NextDegreeKeeps ==
  ASSUME Inv, NextDegree
  PROVE  Preserved
<1>1. PICK tp : tp = Head(queue)
  OBVIOUS
<1>2. PICK new : new = rows
  OBVIOUS
<1>3. spoilt' = spoilt /\ disk' = IF phase = "skew" THEN Flushed(tp, new) ELSE disk
  BY <1>1, <1>2 DEF NextDegree, seen
<1>4. CASE phase = "skew"
  BY <1>1, <1>3, <1>4, FlushKeeps
<1>5. CASE phase # "skew"
  BY <1>3, <1>5, SameDisk
<1> QED
  BY <1>4, <1>5

LEMMA SampleSkewKeeps ==
  ASSUME SampleSkew, ~session.force
  PROVE  Preserved
<1>1. disk' = disk
  BY DEF SampleSkew
<1> QED
  BY <1>1, SameDisk

(* The rows of a degree that are not of stable layers survive replication. *)
LEMMA ReplicateKeeps ==
  ASSUME Inv, Replicate
  PROVE  Preserved
<1>1. PICK tp, f : tp = Head(queue) /\ f = Head(cats)
  OBVIOUS
<1>2. \A t \in Degrees : \A g : RowsStay(t, g)
  BY <1>1, OneReplica
<1>3. \A t, g : Lasting(t, g) \subseteq {k \in DOMAIN Rows(t, g) : OwnRow(t, g, k)}
  BY DEF Lasting, OwnRow
<1> QED
  BY <1>2, <1>3 DEF Preserved, RowsStay

(* A kill in the middle of a write cuts that file short, and no other. *)
LEMMA TornKeeps ==
  ASSUME Inv, NEW tp \in Degrees, NEW f, NEW csv, Tear(tp, f, csv), CutShort(tp, f)
  PROVE  Preserved
<1>1. PICK new : disk' = Written(tp, f, new)
  BY DEF Tear
<1>2. disk = [t \in Degrees |-> disk[t]]
  BY DEF Inv, Shape
<1>3. \A t \in Degrees : \A g : t # tp \/ g # f => Rows(t, g)' = Rows(t, g)
  BY <1>1, <1>2, WrittenRows
<1> SUFFICES ASSUME NEW t \in Degrees, NEW g \in Files, t # tp \/ g # f
             PROVE  Lasting(t, g) \subseteq DOMAIN Rows(t, g)'
  BY DEF Preserved
<1>4. Rows(t, g)' = Rows(t, g)
  BY <1>3
<1> QED
  BY <1>4 DEF Lasting

LEMMA CrashWritingKeeps ==
  ASSUME Inv, FewSpoilt, CrashWriting
  PROVE  Preserved
<1>1. PICK tp : tp = Head(queue)
  OBVIOUS
<1>2. bounds'.kills > bounds.kills
  BY DEF CrashWriting, Dies, FewSpoilt
<1>3. PICK f, csv :
        /\ Tear(tp, f, csv)
        /\ IF phase = "skew" THEN f = "skew" ELSE phase \in {"sweep", "replicate"} /\ cats # <<>> /\ f = Head(cats)
        /\ phase \in {"sweep", "skew", "replicate"} /\ (phase = "replicate" => queue # <<>>)
  BY <1>1 DEF CrashWriting
<1>4. queue \in Seq(Degrees) /\ queue # <<>>
  BY <1>3 DEF Inv, Shape
<1>5. tp \in Degrees
  BY <1>1, <1>4, HeadTailItems
<1>6. CutShort(tp, f)
  BY <1>1, <1>2, <1>3, <1>4 DEF CutShort
<1> QED
  BY <1>3, <1>5, <1>6, TornKeeps

LEMMA StepKeeps ==
  ASSUME Inv, FewSpoilt, Next, session # None => ~session.force
  PROVE  Preserved
<1>1. ASSUME disk' = disk
      PROVE  Preserved
  BY <1>1, SameDisk
<1>2. ASSUME phase # "idle"
      PROVE  ~session.force
  <2>1. session \in Sessions
    BY <1>2 DEF Inv, Shape
  <2> QED
    BY <2>1, SessionTypes
<1>3. ASSUME FireCategory \/ SampleSkew
      PROVE  Preserved
  <2>1. ~session.force
    BY <1>2, <1>3 DEF FireCategory, SampleSkew
  <2> QED
    BY <1>3, <2>1, FireCategoryKeeps, SampleSkewKeeps
<1>4. (\E s \in Sessions : Start(s)) => disk' = disk
  BY DEF Start
<1>5. ASSUME \/ Boot \/ BootFails \/ CaseFails \/ Sweeps \/ NextReplica \/ Replicas \/ WriteSkewFitCsv
             \/ PersistMeta \/ ReadFails \/ Crash
      PROVE  disk' = disk
  BY <1>5 DEF Boot, BootFails, CaseFails, Sweeps, NextReplica, Replicas, WriteSkewFitCsv, PersistMeta, ReadFails, Crash
<1> QED
  BY <1>1, <1>3, <1>4, <1>5, MeasureCaseKeeps, NextDegreeKeeps, ReplicateKeeps, CrashWritingKeeps DEF Next

(* Without --force no row of a file is lost, whatever a session writes, but *)
(* for the stable layers of other degrees and the file that a kill in the   *)
(* middle of its write cuts short.                                          *)
THEOREM KeepsRowsCorrect == Spec => KeepsRows
<1>1. Inv /\ FewSpoilt /\ [Next]_vars =>
        [(session # None => ~session.force) =>
           \A tp \in Degrees, f \in Files : CutShort(tp, f) \/ Lasting(tp, f) \subseteq DOMAIN Rows(tp, f)']_vars
  BY StepKeeps DEF Preserved
<1> QED
  BY <1>1, AlwaysInv, AlwaysFewSpoilt, PTL DEF Spec, KeepsRows

-----------------------------------------------------------------------------
(* Every shot runs *)

(* What a fold adds up over a batch whose requests are alike but for the   *)
(* first one: it takes the elements of a set one by one, in some order.    *)
AnyOf(S) == CHOOSE x \in S : TRUE
AddsUp(g, D, v) ==
  g = [S \in SUBSET D |-> IF S = {} THEN 0 ELSE g[S \ {AnyOf(S)}] + v[AnyOf(S)]]
Weight(S, a, c) == (IF 1 \in S THEN a ELSE 0) + c * Cardinality(S \ {1})

LEMMA WeightSplit ==
  ASSUME NEW S, IsFiniteSet(S), NEW x \in S, NEW a \in Nat, NEW c \in Nat
  PROVE  /\ Weight(S, a, c) \in Nat
         /\ Weight(S, a, c) = Weight(S \ {x}, a, c) + (IF x = 1 THEN a ELSE c)
<1>1. IsFiniteSet(S \ {1}) /\ Cardinality(S \ {1}) \in Nat
  BY FS_RemoveElement, FS_CardinalityType
<1>2. Weight(S, a, c) \in Nat
  <2>1. c * Cardinality(S \ {1}) \in Nat
    BY <1>1
  <2> QED
    BY <2>1 DEF Weight
<1>3. CASE x = 1
  <2>1. (S \ {1}) \ {1} = S \ {1}
    OBVIOUS
  <2>2. PICK k \in Nat : k = c * Cardinality(S \ {1})
    BY <1>1
  <2>3. Weight(S \ {1}, a, c) = k
    <3>1. Weight(S \ {1}, a, c) = 0 + c * Cardinality(S \ {1})
      BY <2>1 DEF Weight
    <3> QED
      BY <2>2, <3>1
  <2>4. Weight(S, a, c) = a + k
    BY <1>3, <2>2 DEF Weight
  <2> QED
    BY <1>2, <1>3, <2>3, <2>4
<1>4. CASE x # 1
  <2>1. (S \ {x}) \ {1} = (S \ {1}) \ {x} /\ x \in S \ {1} /\ (1 \in S \ {x} <=> 1 \in S)
    BY <1>4
  <2>2. Cardinality((S \ {x}) \ {1}) = Cardinality(S \ {1}) - 1
    BY <1>1, <2>1, FS_RemoveElement
  <2>3. \A k \in Nat : c * k = c * (k - 1) + c
    OBVIOUS
  <2>4. c * Cardinality(S \ {1}) = c * Cardinality((S \ {x}) \ {1}) + c
    BY <1>1, <2>2, <2>3
  <2>5. PICK k \in Int, l \in Int : k = c * Cardinality(S \ {1}) /\ l = c * Cardinality((S \ {x}) \ {1})
    BY <1>1, <2>2
  <2> QED
    BY <1>2, <1>4, <2>1, <2>4, <2>5 DEF Weight
<1> QED
  BY <1>2, <1>3, <1>4

LEMMA AddedUp ==
  ASSUME NEW D, IsFiniteSet(D), NEW a \in Nat, NEW c \in Nat,
         NEW v, \A i \in D : v[i] = IF i = 1 THEN a ELSE c
  PROVE  /\ \E g : AddsUp(g, D, v)
         /\ \A g : AddsUp(g, D, v) => g[D] = Weight(D, a, c)
<1>1. \A S \in SUBSET D : IsFiniteSet(S)
  BY FS_Subset
<1>2. \A S \in SUBSET D : S # {} => AnyOf(S) \in S
  BY DEF AnyOf
<1>3. Weight({}, a, c) = 0
  <2>1. Cardinality({} \ {1}) = 0
    BY FS_EmptySet
  <2> QED
    BY <2>1 DEF Weight
<1>4. ASSUME NEW S \in SUBSET D, S # {}
      PROVE  /\ Weight(S, a, c) = Weight(S \ {AnyOf(S)}, a, c) + v[AnyOf(S)]
             /\ S \ {AnyOf(S)} \in SUBSET D
  <2>1. AnyOf(S) \in S /\ IsFiniteSet(S)
    BY <1>1, <1>2, <1>4
  <2>2. v[AnyOf(S)] = IF AnyOf(S) = 1 THEN a ELSE c
    BY <2>1
  <2> QED
    BY <2>1, <2>2, WeightSplit
<1>5. \E g : AddsUp(g, D, v)
  <2> DEFINE g == [S \in SUBSET D |-> Weight(S, a, c)]
             h == [S \in SUBSET D |-> IF S = {} THEN 0 ELSE g[S \ {AnyOf(S)}] + v[AnyOf(S)]]
  <2>1. \A S \in SUBSET D : g[S] = h[S]
    BY <1>3, <1>4
  <2>2. g = h
    BY <2>1
  <2> QED
    BY <2>2 DEF AddsUp
<1>6. ASSUME NEW g, AddsUp(g, D, v), g[D] # Weight(D, a, c)
      PROVE  FALSE
  <2>1. g[{}] = 0
    BY <1>6 DEF AddsUp
  <2>2. \A S \in SUBSET D : S # {} => g[S] = g[S \ {AnyOf(S)}] + v[AnyOf(S)]
    BY <1>6 DEF AddsUp
  <2> DEFINE bad == {S \in SUBSET D : g[S] # Weight(S, a, c)}
             sizes == {Cardinality(S) : S \in bad}
  <2>3. D \in bad /\ bad \subseteq SUBSET D
    BY <1>6
  <2>4. sizes # {} /\ sizes \subseteq Int
    BY <1>1, <2>3, FS_CardinalityType
  <2>5. IsFiniteSet(sizes)
    <3>1. \A S \in SUBSET D : Cardinality(S) \in 0 .. Cardinality(D)
      BY <1>1, FS_Subset, FS_CardinalityType
    <3>2. sizes \in SUBSET (0 .. Cardinality(D))
      BY <3>1
    <3>3. IsFiniteSet(0 .. Cardinality(D))
      BY FS_CardinalityType, FS_Interval
    <3> HIDE DEF sizes
    <3> QED
      BY <3>2, <3>3, FS_Subset
  <2>6. PICK k \in sizes : \A l \in sizes : k =< l
    BY <2>4, <2>5, Extremes
  <2>7. PICK S \in bad : k = Cardinality(S)
    BY <2>6
  <2>8. S # {} /\ S \in SUBSET D /\ IsFiniteSet(S)
    BY <1>1, <1>3, <2>1, <2>3, <2>7
  <2>9. S \ {AnyOf(S)} \in SUBSET D /\ Cardinality(S \ {AnyOf(S)}) = k - 1
    BY <1>2, <2>7, <2>8, FS_RemoveElement
  <2>10. S \ {AnyOf(S)} \notin bad
    <3>1. k \in Int
      BY <2>4, <2>6
    <3>2. ~ (k =< k - 1)
      BY <3>1
    <3> QED
      BY <2>6, <2>9, <3>2
  <2>11. g[S \ {AnyOf(S)}] = Weight(S \ {AnyOf(S)}, a, c)
    BY <2>9, <2>10
  <2> QED
    BY <1>4, <2>2, <2>7, <2>8, <2>11
<1> QED
  BY <1>5, <1>6

LEMMA WeightOfList ==
  ASSUME NEW n \in Nat \ {0}, NEW a \in Nat, NEW c \in Nat
  PROVE  Weight(1 .. n, a, c) = a + c * (n - 1)
<1>1. IsFiniteSet(1 .. n) /\ Cardinality(1 .. n) = n /\ 1 \in 1 .. n
  BY IntervalSize
<1>2. Cardinality((1 .. n) \ {1}) = n - 1
  BY <1>1, FS_RemoveElement
<1> QED
  BY <1>1, <1>2 DEF Weight

(* sum(new_tokens), and the block cursor after the last request.           *)
TokensAlike(reqs, n, a, c) ==
  DOMAIN reqs = 1 .. n /\ \A i \in 1 .. n : reqs[i][1] = IF i = 1 THEN a ELSE c
BlocksAlike(reqs, n, a, c) ==
  DOMAIN reqs = 1 .. n /\ \A i \in 1 .. n : BlocksOf(reqs[i]) = IF i = 1 THEN a ELSE c

LEMMA NewTokensAre ==
  ASSUME NEW reqs, NEW n \in Nat \ {0}, NEW a \in Nat, NEW c \in Nat, TokensAlike(reqs, n, a, c)
  PROVE  NewTokens(reqs) = a + c * (n - 1)
<1> DEFINE D == 1 .. n
           v == [i \in D |-> reqs[i][1]]
           P(g) == g = [S \in SUBSET D |-> IF S = {} THEN 0
                                           ELSE g[S \ {CHOOSE x \in S : TRUE}] + reqs[CHOOSE x \in S : TRUE][1]]
<1>1. NewTokens(reqs) = (CHOOSE g : P(g))[D]
  BY DEF TokensAlike, NewTokens, FoldFunction, FoldFunctionOnSet, MapThenFoldSet
<1>2. \A i \in D : v[i] = IF i = 1 THEN a ELSE c
  BY DEF TokensAlike
<1>3. \A g : P(g) <=> AddsUp(g, D, v)
  <2> SUFFICES ASSUME NEW g
               PROVE  P(g) <=> AddsUp(g, D, v)
    OBVIOUS
  <2>1. \A S \in SUBSET D : S # {} => AnyOf(S) \in D
    BY DEF AnyOf
  <2>2. \A S \in SUBSET D : S # {} => v[AnyOf(S)] = reqs[AnyOf(S)][1]
    BY <2>1
  <2>3. [S \in SUBSET D |-> IF S = {} THEN 0
           ELSE g[S \ {CHOOSE x \in S : TRUE}] + reqs[CHOOSE x \in S : TRUE][1]]
        = [S \in SUBSET D |-> IF S = {} THEN 0 ELSE g[S \ {AnyOf(S)}] + v[AnyOf(S)]]
    <3> HIDE DEF D, v
    <3> QED
      BY <2>2 DEF AnyOf
  <2> QED
    BY <2>3 DEF AddsUp
<1> HIDE DEF P, D, v
<1>4. IsFiniteSet(D)
  BY IntervalSize DEF D
<1>5. P(CHOOSE g : P(g))
  <2>1. \E g : AddsUp(g, D, v)
    BY <1>2, <1>4, AddedUp
  <2>2. \E g : P(g)
    BY <1>3, <2>1
  <2> QED
    BY <2>2
<1>6. (CHOOSE g : P(g))[D] = Weight(D, a, c)
  BY <1>2, <1>3, <1>4, <1>5, AddedUp
<1> QED
  BY <1>1, <1>6, WeightOfList DEF D

LEMMA BlockCursorIs ==
  ASSUME NEW reqs, NEW n \in Nat \ {0}, NEW a \in Nat, NEW c \in Nat, BlocksAlike(reqs, n, a, c)
  PROVE  BlockCursor(reqs) = a + c * (n - 1)
<1> DEFINE D == 1 .. n
           v == [i \in D |-> BlocksOf(reqs[i])]
           P(g) == g = [S \in SUBSET D |-> IF S = {} THEN 0
                                           ELSE g[S \ {CHOOSE x \in S : TRUE}] + BlocksOf(reqs[CHOOSE x \in S : TRUE])]
<1>1. BlockCursor(reqs) = (CHOOSE g : P(g))[D]
  BY DEF BlocksAlike, BlockCursor, FoldFunction, FoldFunctionOnSet, MapThenFoldSet
<1>2. \A i \in D : v[i] = IF i = 1 THEN a ELSE c
  BY DEF BlocksAlike
<1>3. \A g : P(g) <=> AddsUp(g, D, v)
  <2> SUFFICES ASSUME NEW g
               PROVE  P(g) <=> AddsUp(g, D, v)
    OBVIOUS
  <2>1. \A S \in SUBSET D : S # {} => AnyOf(S) \in D
    BY DEF AnyOf
  <2>2. \A S \in SUBSET D : S # {} => v[AnyOf(S)] = BlocksOf(reqs[AnyOf(S)])
    BY <2>1
  <2>3. [S \in SUBSET D |-> IF S = {} THEN 0
           ELSE g[S \ {CHOOSE x \in S : TRUE}] + BlocksOf(reqs[CHOOSE x \in S : TRUE])]
        = [S \in SUBSET D |-> IF S = {} THEN 0 ELSE g[S \ {AnyOf(S)}] + v[AnyOf(S)]]
    <3> HIDE DEF D, v
    <3> QED
      BY <2>2 DEF AnyOf
  <2> QED
    BY <2>3 DEF AddsUp
<1> HIDE DEF P, D, v
<1>4. IsFiniteSet(D)
  BY IntervalSize DEF D
<1>5. P(CHOOSE g : P(g))
  <2>1. \E g : AddsUp(g, D, v)
    BY <1>2, <1>4, AddedUp
  <2>2. \E g : P(g)
    BY <1>3, <2>1
  <2> QED
    BY <2>2
<1>6. (CHOOSE g : P(g))[D] = Weight(D, a, c)
  BY <1>2, <1>3, <1>4, <1>5, AddedUp
<1> QED
  BY <1>1, <1>6, WeightOfList DEF D

(* Blocks of a request: as many as its tokens fill, rounded up.            *)
LEMMA BlocksRounded ==
  ASSUME NEW n \in Nat \ {0}
  PROVE  /\ (n + Grid.block - 1) \div Grid.block \in Nat
         /\ Aligned(n) = ((n + Grid.block - 1) \div Grid.block) * Grid.block
<1>1. Grid.block \in Nat \ {0}
  BY ProfilerAssumption
<1>2. PICK b \in Nat \ {0} : b = Grid.block
  BY <1>1
<1>3. \A a \in Nat : a \div b \in Nat
  OBVIOUS
<1>4. (n + b - 1) \div b \in Nat
  BY <1>3
<1> QED
  BY <1>2, <1>4 DEF Aligned

LEMMA BlocksOfRequest ==
  ASSUME NEW t \in Nat, NEW h \in Nat, t + h > 0
  PROVE  /\ BlocksOf(<<t, h>>) \in Nat
         /\ Aligned(t + h) = BlocksOf(<<t, h>>) * Grid.block
<1>1. PICK n \in Nat \ {0} : n = t + h
  OBVIOUS
<1>2. BlocksOf(<<t, h>>) = (n + Grid.block - 1) \div Grid.block
  BY <1>1 DEF BlocksOf
<1> QED
  BY <1>1, <1>2, BlocksRounded

LEMMA FewerBlocks ==
  ASSUME NEW u \in Nat, NEW w \in Nat, NEW b \in Nat \ {0}, u * b <= w * b
  PROVE  u <= w
<1> SUFFICES ASSUME u >= w + 1
             PROVE  FALSE
  OBVIOUS
<1>1. u * b >= (w + 1) * b
  OBVIOUS
<1>2. (w + 1) * b = w * b + b
  OBVIOUS
<1>3. PICK x \in Int, y \in Int : x = u * b /\ y = w * b
  OBVIOUS
<1> QED
  BY <1>1, <1>2, <1>3

(* A batch of one request and others that are alike.                       *)
Batch(reqs, n, t, h, t2, h2) ==
  /\ DOMAIN reqs = 1 .. n /\ Len(reqs) = n
  /\ \A i \in 1 .. n : reqs[i] = IF i = 1 THEN <<t, h>> ELSE <<t2, h2>>

LEMMA BatchRuns ==
  ASSUME NEW engine \in [mnbt : Nat, msq : Nat, mml : Nat, blocks : Nat, experts : Nat, k : Nat],
         NEW reqs, NEW n \in Nat \ {0},
         NEW t \in Nat \ {0}, NEW h \in Nat, NEW t2 \in Nat \ {0}, NEW h2 \in Nat,
         Batch(reqs, n, t, h, t2, h2),
         t + t2 * (n - 1) <= engine.mnbt, n <= engine.msq,
         t + h < engine.mml, n > 1 => t2 + h2 < engine.mml,
         BlocksOf(<<t, h>>) + BlocksOf(<<t2, h2>>) * (n - 1) <= engine.blocks
  PROVE  Runs(engine, reqs)
<1>1. DOMAIN reqs = 1 .. n /\ Len(reqs) = n
      /\ \A i \in 1 .. n : reqs[i] = IF i = 1 THEN <<t, h>> ELSE <<t2, h2>>
  BY DEF Batch
<1>2. NewTokens(reqs) = t + t2 * (n - 1)
  <2>1. PICK a \in Nat, c \in Nat : a = t /\ c = t2
    OBVIOUS
  <2>2. TokensAlike(reqs, n, a, c)
    BY <1>1, <2>1 DEF TokensAlike
  <2>3. NewTokens(reqs) = a + c * (n - 1)
    BY <2>2, NewTokensAre
  <2> QED
    BY <2>1, <2>3
<1>3. BlockCursor(reqs) = BlocksOf(<<t, h>>) + BlocksOf(<<t2, h2>>) * (n - 1)
  <2>1. PICK a \in Nat, c \in Nat : a = BlocksOf(<<t, h>>) /\ c = BlocksOf(<<t2, h2>>)
    BY BlocksOfRequest
  <2>2. BlocksAlike(reqs, n, a, c)
    BY <1>1, <2>1 DEF BlocksAlike
  <2>3. BlockCursor(reqs) = a + c * (n - 1)
    BY <2>2, BlockCursorIs
  <2> QED
    BY <2>1, <2>3
<1>4. \A r \in Items(reqs) : r[1] + r[2] < engine.mml
  <2> SUFFICES ASSUME NEW i \in 1 .. n
               PROVE  reqs[i][1] + reqs[i][2] < engine.mml
    BY <1>1 DEF Items
  <2>1. CASE i = 1
    BY <1>1, <2>1
  <2>2. CASE i # 1
    BY <1>1, <2>2
  <2> QED
    BY <2>1, <2>2
<1> QED
  BY <1>1, <1>2, <1>3, <1>4 DEF Runs

(* The limits the shots are composed for, and the engine that was booted.  *)
LEMMA EngineOf ==
  ASSUME NEW s \in Sessions, NEW tp \in Degrees
  PROVE  LET limits == Limits(s, tp)
             engine == FuseEngineKwargs(s.args, Gpu[tp])
         IN  /\ engine \in [mnbt : Nat, msq : Nat, mml : Nat, blocks : Nat, experts : Nat, k : Nat]
             /\ limits.mnbt \in Nat /\ limits.msq \in Nat \ {0}
             /\ engine.mnbt = limits.mnbt + limits.msq
             /\ engine.msq = limits.msq /\ engine.mml = limits.mml /\ limits.mml \in Nat \ {0, 1}
             /\ engine.blocks = limits.blocks /\ engine.k = limits.k
             /\ limits.k \in Nat /\ limits.blocks \in Nat /\ limits.experts \in Nat
<1>1. /\ Gpu[tp] \in [mnbt : Nat, msq : Nat, mml : Nat \ {0, 1}, blocks : Nat, experts : Nat, k : Nat]
      /\ s.args.mnbt \in Nat /\ s.args.msq \in Nat \ {0}
  BY ProfilerAssumption
<1>2. PICK m \in Nat, q \in Nat \ {0} : m = s.args.mnbt /\ q = s.args.msq
  BY <1>1
<1>3. PICK gpu \in [mnbt : Nat, msq : Nat, mml : Nat \ {0, 1}, blocks : Nat, experts : Nat, k : Nat] : gpu = Gpu[tp]
  BY <1>1
<1>4. PICK engine : engine = [gpu EXCEPT !.mnbt = m + q, !.msq = q]
  OBVIOUS
<1>5. FuseEngineKwargs(s.args, Gpu[tp]) = engine
  BY <1>2, <1>3, <1>4 DEF FuseEngineKwargs
<1>6. /\ engine \in [mnbt : Nat, msq : Nat, mml : Nat \ {0, 1}, blocks : Nat, experts : Nat, k : Nat]
      /\ engine.mnbt = m + q /\ engine.msq = q
  <2>1. PICK u \in Nat : u = m + q
    OBVIOUS
  <2>2. engine = [gpu EXCEPT !.mnbt = u, !.msq = q]
    BY <1>4, <2>1
  <2> QED
    BY <2>1, <2>2
<1>7. PICK limits : limits = [engine EXCEPT !.mnbt = engine.mnbt - engine.msq]
  OBVIOUS
<1>8. Limits(s, tp) = limits
  BY <1>5, <1>7 DEF Limits, ProbeLimits
<1>9. /\ limits.mnbt = m /\ limits.msq = q /\ limits.mml = engine.mml /\ limits.blocks = engine.blocks
      /\ limits.k = engine.k /\ limits.experts = engine.experts
  BY <1>6, <1>7
<1> QED
  BY <1>5, <1>6, <1>8, <1>9

-----------------------------------------------------------------------------
LEMMA TokenGridRange ==
  ASSUME NEW max
  PROVE  TokenGrid(max) \subseteq 1 .. max
BY DEF TokenGrid

LEMMA RepeatIs ==
  ASSUME NEW n \in Nat, NEW r
  PROVE  DOMAIN Repeat(n, r) = 1 .. n /\ Len(Repeat(n, r)) = n /\ \A i \in 1 .. n : Repeat(n, r)[i] = r
<1>1. DOMAIN Repeat(n, r) = 1 .. n /\ \A i \in 1 .. n : Repeat(n, r)[i] = r
  BY DEF Repeat
<1>2. Repeat(n, r) \in Seq({r})
  BY DEF Repeat
<1>3. Len(Repeat(n, r)) \in Nat /\ DOMAIN Repeat(n, r) = 1 .. Len(Repeat(n, r))
  BY <1>2
<1>4. Len(Repeat(n, r)) = n
  BY <1>1, <1>3, LenProperties DEF Repeat
<1> QED
  BY <1>1, <1>4

LEMMA DenseRuns ==
  ASSUME NEW s \in Sessions, NEW tp \in Degrees, NEW shot \in DenseShots(Limits(s, tp))
  PROVE  Runs(FuseEngineKwargs(s.args, Gpu[tp]), shot.reqs) /\ shot.experts = 0
<1> DEFINE limits == Limits(s, tp)
           engine == FuseEngineKwargs(s.args, Gpu[tp])
<1>1. PICK n \in TokenGrid(limits.mnbt) :
        /\ shot = Shot(<<<<n, 0>>>>, 0)
        /\ Aligned(n) <= CacheTokens(limits) /\ n < limits.mml
  BY DEF DenseShots
<1>2. shot.reqs = <<<<n, 0>>>> /\ shot.experts = 0
  BY <1>1 DEF Shot
<1>3. n \in 1 .. limits.mnbt
  BY <1>1, TokenGridRange
<1> HIDE DEF limits, engine
<1>4. /\ engine \in [mnbt : Nat, msq : Nat, mml : Nat, blocks : Nat, experts : Nat, k : Nat]
      /\ limits.mnbt \in Nat /\ limits.msq \in Nat \ {0} /\ limits.blocks \in Nat
      /\ engine.mnbt = limits.mnbt + limits.msq
      /\ engine.msq = limits.msq /\ engine.mml = limits.mml
      /\ engine.blocks = limits.blocks
  BY EngineOf DEF limits, engine
<1>5. n \in Nat \ {0} /\ n <= limits.mnbt
  BY <1>3, <1>4
<1>6. PICK c \in Nat : c = BlocksOf(<<n, 0>>) /\ Aligned(n) = c * Grid.block
  <2>1. n + 0 = n /\ n + 0 > 0
    BY <1>5
  <2> QED
    BY <1>5, <2>1, BlocksOfRequest
<1>7. c <= limits.blocks
  <2>1. Grid.block \in Nat \ {0}
    BY ProfilerAssumption
  <2>2. c * Grid.block <= limits.blocks * Grid.block
    BY <1>1, <1>6 DEF CacheTokens
  <2> QED
    BY <1>4, <1>6, <2>1, <2>2, FewerBlocks
<1>8. PICK k \in Nat \ {0} : k = 1
  OBVIOUS
<1>9. Batch(shot.reqs, k, n, 0, n, 0)
  BY <1>2, <1>8 DEF Batch
<1>10. n + n * (k - 1) <= engine.mnbt /\ k <= engine.msq /\ n + 0 < engine.mml
  BY <1>1, <1>4, <1>5, <1>8
<1>11. BlocksOf(<<n, 0>>) + BlocksOf(<<n, 0>>) * (k - 1) <= engine.blocks
  BY <1>4, <1>6, <1>7, <1>8
<1>12. Runs(engine, shot.reqs)
  BY <1>4, <1>5, <1>9, <1>10, <1>11, BatchRuns
<1> QED
  BY <1>2, <1>12 DEF engine

LEMMA SequenceRuns ==
  ASSUME NEW s \in Sessions, NEW tp \in Degrees, NEW shot \in SequenceShots(Limits(s, tp))
  PROVE  Runs(FuseEngineKwargs(s.args, Gpu[tp]), shot.reqs) /\ shot.experts = 0
<1> DEFINE limits == Limits(s, tp)
           engine == FuseEngineKwargs(s.args, Gpu[tp])
<1>1. PICK n \in TokenGrid(limits.msq) :
        /\ shot = Shot(Repeat(n, <<1, 0>>), 0)
        /\ n <= limits.mnbt /\ n * Grid.block <= CacheTokens(limits)
  BY DEF SequenceShots
<1>2. shot.reqs = Repeat(n, <<1, 0>>) /\ shot.experts = 0
  BY <1>1 DEF Shot
<1>3. n \in 1 .. limits.msq
  BY <1>1, TokenGridRange
<1> HIDE DEF limits, engine
<1>4. /\ engine \in [mnbt : Nat, msq : Nat, mml : Nat, blocks : Nat, experts : Nat, k : Nat]
      /\ limits.mnbt \in Nat /\ limits.msq \in Nat \ {0} /\ limits.blocks \in Nat
      /\ engine.mnbt = limits.mnbt + limits.msq
      /\ engine.msq = limits.msq /\ engine.mml = limits.mml /\ limits.mml \in Nat \ {0, 1}
      /\ engine.blocks = limits.blocks
  BY EngineOf DEF limits, engine
<1>5. n \in Nat \ {0} /\ n <= limits.msq
  BY <1>3, <1>4
<1>6. PICK u \in Nat \ {0}, h \in Nat : u = 1 /\ h = 0
  OBVIOUS
<1>7. BlocksOf(<<u, h>>) = 1
  <2>1. PICK b \in Nat \ {0} : b = Grid.block
    BY ProfilerAssumption
  <2>2. \A x \in Nat : b * (x \div b) <= x /\ x < b * (x \div b) + b /\ x \div b \in Nat
    OBVIOUS
  <2>3. PICK q \in Nat : q = b \div b
    BY <2>2
  <2>4. b * q <= b /\ b < b * q + b
    BY <2>2, <2>3
  <2>5. q # 0
    BY <2>4
  <2>6. ~ (q >= 2)
    <3> SUFFICES ASSUME q >= 2
                 PROVE  FALSE
      OBVIOUS
    <3>1. b * q >= b * 2
      OBVIOUS
    <3> QED
      BY <2>4, <3>1
  <2>7. q = 1
    BY <2>5, <2>6
  <2>8. u + h + b - 1 = b
    BY <1>6
  <2> QED
    BY <1>6, <2>1, <2>3, <2>7, <2>8 DEF BlocksOf
<1>8. Batch(shot.reqs, n, u, h, u, h)
  <2>1. DOMAIN shot.reqs = 1 .. n /\ Len(shot.reqs) = n /\ \A i \in 1 .. n : shot.reqs[i] = <<1, 0>>
    BY <1>2, <1>5, RepeatIs
  <2> QED
    BY <1>6, <2>1 DEF Batch
<1>9. n <= limits.blocks
  <2>1. Grid.block \in Nat \ {0}
    BY ProfilerAssumption
  <2>2. n * Grid.block <= limits.blocks * Grid.block
    BY <1>1 DEF CacheTokens
  <2> QED
    BY <1>4, <1>5, <2>1, <2>2, FewerBlocks
<1>10. u + u * (n - 1) <= engine.mnbt /\ n <= engine.msq /\ u + h < engine.mml
  BY <1>1, <1>4, <1>5, <1>6
<1>11. BlocksOf(<<u, h>>) + BlocksOf(<<u, h>>) * (n - 1) <= engine.blocks
  BY <1>4, <1>5, <1>7, <1>9
<1>12. Runs(engine, shot.reqs)
  BY <1>4, <1>5, <1>8, <1>10, <1>11, BatchRuns
<1> QED
  BY <1>2, <1>12 DEF engine

-----------------------------------------------------------------------------
LEMMA GeometricGridRange ==
  ASSUME NEW max \in Nat, NEW from \in Nat, NEW f
  PROVE  GeometricGrid(max, from, f) \subseteq Nat
BY DEF GeometricGrid, Geometric

LEMMA AttentionPointsAre ==
  ASSUME NEW s \in Sessions, NEW tp \in Degrees, NEW p \in AttentionPoints(Limits(s, tp), s.args)
  PROVE  \E a, b, c, d \in Nat : p = <<a, b, c, d>>
<1> DEFINE limits == Limits(s, tp)
           kv == GeometricGrid(Min({s.args.max_kv, limits.mml}), Grid.kv, s.args.factor.kv)
           chunks == GeometricGrid(limits.mnbt, Grid.chunk, s.args.factor.chunk)
           lens == GeometricGrid(limits.msq, 1, <<2, 1>>)
<1>1. p \in chunks \X kv \X lens \X kv
  BY DEF AttentionPoints
<1>2. PICK m \in Nat, q \in Nat, l \in Nat, v \in Nat, kvFrom \in Nat, chunkFrom \in Nat, one \in Nat :
        /\ m = limits.mnbt /\ q = limits.msq /\ l = limits.mml /\ v = s.args.max_kv
        /\ kvFrom = Grid.kv /\ chunkFrom = Grid.chunk /\ one = 1
  <2>1. limits.mnbt \in Nat /\ limits.msq \in Nat /\ limits.mml \in Nat
    BY EngineOf
  <2>2. s.args.max_kv \in Nat /\ Grid.kv \in Nat /\ Grid.chunk \in Nat
    BY ProfilerAssumption
  <2> QED
    BY <2>1, <2>2
<1>3. PICK top \in Nat : top = Min({v, l})
  BY TwoNumbers
<1>4. PICK twice : twice = <<2, 1>>
  OBVIOUS
<1>5. kv \subseteq Nat /\ chunks \subseteq Nat /\ lens \subseteq Nat
  <2>1. kv = GeometricGrid(top, kvFrom, s.args.factor.kv)
    BY <1>2, <1>3
  <2>2. chunks = GeometricGrid(m, chunkFrom, s.args.factor.chunk)
    BY <1>2
  <2>3. lens = GeometricGrid(q, one, twice)
    BY <1>2, <1>4
  <2> HIDE DEF kv, chunks, lens, limits
  <2> QED
    BY <2>1, <2>2, <2>3, GeometricGridRange
<1> HIDE DEF kv, chunks, lens, limits
<1>6. p = <<p[1], p[2], p[3], p[4]>> /\ p[1] \in chunks /\ p[2] \in kv /\ p[3] \in lens /\ p[4] \in kv
  BY <1>1
<1> QED
  BY <1>5, <1>6

LEMMA AttentionBatch ==
  ASSUME NEW a \in Nat, NEW b \in Nat, NEW c \in Nat, NEW d \in Nat, a + c > 0
  PROVE  LET reqs == Prefill(a, b) \o Repeat(c, <<1, d>>)
         IN  IF a > 0 THEN Batch(reqs, 1 + c, a, b, 1, d) ELSE Batch(reqs, c, 1, d, 1, d)
<1> DEFINE tail == Repeat(c, <<1, d>>)
           reqs == Prefill(a, b) \o tail
<1>1. DOMAIN tail = 1 .. c /\ Len(tail) = c /\ \A i \in 1 .. c : tail[i] = <<1, d>>
  BY RepeatIs
<1>2. tail \in Seq({<<1, d>>})
  BY DEF Repeat
<1> HIDE DEF tail
<1>3. CASE a > 0
  <2>1. PICK r : r = <<a, b>>
    OBVIOUS
  <2>2. PICK dec : dec = <<1, d>>
    OBVIOUS
  <2>3. Prefill(a, b) = <<r>>
    BY <1>3, <2>1 DEF Prefill
  <2>4. <<r>> \in Seq({r, dec}) /\ tail \in Seq({r, dec})
    BY <1>2, <2>2
  <2>5. /\ <<r>> \o tail \in Seq({r, dec})
        /\ Len(<<r>> \o tail) = 1 + c
        /\ \A i \in 1 .. 1 + c : (<<r>> \o tail)[i] = IF i <= 1 THEN <<r>>[i] ELSE tail[i - 1]
    BY <1>1, <2>4, ConcatProperties
  <2>6. DOMAIN reqs = 1 .. 1 + c /\ Len(reqs) = 1 + c
    BY <2>3, <2>5
  <2>7. \A i \in 1 .. 1 + c : reqs[i] = IF i = 1 THEN r ELSE dec
    <3> SUFFICES ASSUME NEW i \in 1 .. 1 + c
                 PROVE  reqs[i] = IF i = 1 THEN r ELSE dec
      OBVIOUS
    <3>1. reqs[i] = IF i <= 1 THEN <<r>>[i] ELSE tail[i - 1]
      BY <2>3, <2>5
    <3>2. CASE i = 1
      BY <3>1, <3>2
    <3>3. CASE i # 1
      <4>1. i - 1 \in 1 .. c
        BY <3>3
      <4> QED
        BY <1>1, <2>2, <3>1, <3>3, <4>1
    <3> QED
      BY <3>2, <3>3
  <2>8. Batch(reqs, 1 + c, a, b, 1, d)
    BY <2>1, <2>2, <2>6, <2>7 DEF Batch
  <2> QED
    BY <1>3, <2>8 DEF tail
<1>4. CASE ~ (a > 0)
  <2>1. Prefill(a, b) = <<>>
    BY <1>4 DEF Prefill
  <2>2. reqs = tail
    BY <1>2, <2>1, ConcatEmptySeq
  <2>3. Batch(reqs, c, 1, d, 1, d)
    BY <1>1, <2>2 DEF Batch
  <2> QED
    BY <1>4, <2>3 DEF tail
<1> QED
  BY <1>3, <1>4

LEMMA AttentionRuns ==
  ASSUME NEW s \in Sessions, NEW tp \in Degrees, NEW shot \in AttentionShots(Limits(s, tp), s.args)
  PROVE  Runs(FuseEngineKwargs(s.args, Gpu[tp]), shot.reqs) /\ shot.experts = 0
<1> DEFINE limits == Limits(s, tp)
           engine == FuseEngineKwargs(s.args, Gpu[tp])
<1>1. PICK p \in AttentionPoints(limits, s.args) :
        shot = AttentionShot(p) /\ OneShape(p) /\ Feasible(p, limits)
  BY DEF AttentionShots
<1>2. PICK a \in Nat, b \in Nat, c \in Nat, d \in Nat : p = <<a, b, c, d>>
  BY <1>1, AttentionPointsAre
<1>3. shot.reqs = Prefill(a, b) \o Repeat(c, <<1, d>>) /\ shot.experts = 0
  BY <1>1, <1>2 DEF AttentionShot, Shot
<1> HIDE DEF limits, engine
<1>4. a + c > 0
  BY <1>1, <1>2 DEF OneShape
<1>5. /\ a + c <= limits.mnbt + limits.msq
      /\ (IF a > 0 THEN 1 ELSE 0) + c <= limits.msq
      /\ a > 0 => a + b + 1 <= limits.mml
      /\ c > 0 => 1 + d + 1 <= limits.mml
      /\ (IF a > 0 THEN Aligned(a + b) ELSE 0) + c * Aligned(1 + d) <= limits.blocks * Grid.block
  BY <1>1, <1>2 DEF Feasible, CacheTokens
<1>6. /\ engine \in [mnbt : Nat, msq : Nat, mml : Nat, blocks : Nat, experts : Nat, k : Nat]
      /\ limits.mnbt \in Nat /\ limits.msq \in Nat \ {0} /\ limits.blocks \in Nat
      /\ engine.mnbt = limits.mnbt + limits.msq
      /\ engine.msq = limits.msq /\ engine.mml = limits.mml /\ limits.mml \in Nat \ {0, 1}
      /\ engine.blocks = limits.blocks
  BY EngineOf DEF limits, engine
<1>7. PICK block \in Nat \ {0} : block = Grid.block
  BY ProfilerAssumption
<1>8. PICK one \in Nat \ {0} : one = 1
  OBVIOUS
<1>9. PICK v \in Nat : v = BlocksOf(<<one, d>>) /\ Aligned(one + d) = v * block
  <2>1. one + d > 0
    BY <1>8
  <2> QED
    BY <1>7, <2>1, BlocksOfRequest
<1>10. CASE a > 0
  <2>1. PICK u \in Nat : u = BlocksOf(<<a, b>>) /\ Aligned(a + b) = u * block
    <3>1. a + b > 0
      BY <1>10
    <3> QED
      BY <1>7, <3>1, BlocksOfRequest
  <2>2. PICK n \in Nat \ {0} : n = 1 + c
    OBVIOUS
  <2>3. Batch(shot.reqs, n, a, b, one, d)
    <3>1. Batch(Prefill(a, b) \o Repeat(c, <<1, d>>), 1 + c, a, b, 1, d)
      BY <1>4, <1>10, AttentionBatch
    <3> QED
      BY <1>3, <1>8, <2>2, <3>1
  <2>4. u + v * c <= limits.blocks
    <3>1. u * block + c * (v * block) <= limits.blocks * block
      BY <1>5, <1>7, <1>8, <1>9, <1>10, <2>1
    <3>2. (u + v * c) * block = u * block + c * (v * block)
      OBVIOUS
    <3>3. PICK w \in Nat : w = u + v * c
      OBVIOUS
    <3>4. w * block <= limits.blocks * block
      BY <3>1, <3>2, <3>3
    <3> QED
      BY <1>6, <3>3, <3>4, FewerBlocks
  <2>5. n - 1 = c /\ one * c = c
    BY <1>8, <2>2
  <2>6. /\ a + one * (n - 1) <= engine.mnbt /\ n <= engine.msq
        /\ a + b < engine.mml /\ (n > 1 => one + d < engine.mml)
    BY <1>5, <1>6, <1>8, <1>10, <2>2, <2>5
  <2>7. BlocksOf(<<a, b>>) + BlocksOf(<<one, d>>) * (n - 1) <= engine.blocks
    BY <1>6, <1>9, <2>1, <2>4, <2>5
  <2>8. Runs(engine, shot.reqs)
    <3>1. a \in Nat \ {0}
      BY <1>10
    <3> QED
      BY <1>6, <2>3, <2>6, <2>7, <3>1, BatchRuns
  <2> QED
    BY <1>3, <2>8 DEF engine
<1>11. CASE ~ (a > 0)
  <2>1. c \in Nat \ {0}
    BY <1>4, <1>11
  <2>2. Batch(shot.reqs, c, one, d, one, d)
    <3>1. Batch(Prefill(a, b) \o Repeat(c, <<1, d>>), c, 1, d, 1, d)
      BY <1>4, <1>11, AttentionBatch
    <3> QED
      BY <1>3, <1>8, <3>1
  <2>3. v * c <= limits.blocks
    <3>1. c * (v * block) <= limits.blocks * block
      <4>1. PICK x \in Nat : x = c * (v * block)
        OBVIOUS
      <4> QED
        BY <1>5, <1>7, <1>8, <1>9, <1>11, <4>1
    <3>2. (v * c) * block = c * (v * block)
      OBVIOUS
    <3>3. PICK w \in Nat : w = v * c
      OBVIOUS
    <3>4. w * block <= limits.blocks * block
      BY <3>1, <3>2, <3>3
    <3> QED
      BY <1>6, <3>3, <3>4, FewerBlocks
  <2>4. v + v * (c - 1) = v * c /\ one + one * (c - 1) = c
    BY <1>8
  <2>5. /\ one + one * (c - 1) <= engine.mnbt /\ c <= engine.msq
        /\ one + d < engine.mml
    BY <1>5, <1>6, <1>8, <1>11, <2>1, <2>4
  <2>6. BlocksOf(<<one, d>>) + BlocksOf(<<one, d>>) * (c - 1) <= engine.blocks
    BY <1>6, <1>9, <2>3, <2>4
  <2>7. Runs(engine, shot.reqs)
    BY <1>6, <2>1, <2>2, <2>5, <2>6, BatchRuns
  <2> QED
    BY <1>3, <2>7 DEF engine
<1> QED
  BY <1>10, <1>11

-----------------------------------------------------------------------------
(* The experts forced on the tokens                                        *)

LEMMA Remainder ==
  ASSUME NEW d \in Nat \ {0}
  PROVE  \A x \in Nat : /\ x \div d \in Nat /\ x % d \in 0 .. d - 1
                        /\ x = d * (x \div d) + (x % d)
<1>1. \A x \in Nat : x \div d \in Nat /\ d * (x \div d) <= x /\ x < d * (x \div d) + d
  OBVIOUS
<1>2. \A x \in Nat : x % d \in 0 .. d - 1
  OBVIOUS
<1>3. \A x \in Nat : x = d * (x \div d) + (x % d)
  OBVIOUS
<1> QED
  BY <1>1, <1>2, <1>3

LEMMA SameRemainder ==
  ASSUME NEW d \in Nat \ {0}, NEW x \in Nat, NEW y \in Nat, x % d = y % d, x <= y, y < x + d
  PROVE  x = y
<1>1. PICK q \in Nat, p \in Nat, r \in Int :
        x = d * q + r /\ y = d * p + r
  <2>1. x \div d \in Nat /\ x % d \in 0 .. d - 1 /\ x = d * (x \div d) + (x % d)
    BY Remainder
  <2>2. y \div d \in Nat /\ y = d * (y \div d) + (y % d)
    BY Remainder
  <2>3. PICK q \in Nat : q = x \div d
    BY <2>1
  <2>4. PICK p \in Nat : p = y \div d
    BY <2>2
  <2>5. PICK r \in Int : r = x % d
    BY <2>1
  <2> QED
    BY <2>1, <2>2, <2>3, <2>4, <2>5
<1>2. CASE p <= q
  <2>1. d * p <= d * q
    BY <1>2
  <2>2. PICK u \in Int, w \in Int : u = d * p /\ w = d * q
    OBVIOUS
  <2> QED
    BY <1>1, <2>1, <2>2
<1>3. CASE p > q
  <2>1. d * p >= d * (q + 1)
    BY <1>3
  <2>2. d * (q + 1) = d * q + d
    OBVIOUS
  <2>3. PICK u \in Int, w \in Int : u = d * p /\ w = d * q
    OBVIOUS
  <2> QED
    BY <1>1, <2>1, <2>2, <2>3
<1> QED
  BY <1>2, <1>3

(* _cycle_expert_ids gives each token k different experts, and all tokens  *)
(* together all that are to be activated.                                  *)
LEMMA ExpertsForced ==
  ASSUME NEW tokens \in Nat \ {0}, NEW k \in Nat \ {0}, NEW activated \in Nat \ {0},
         k <= activated, activated <= tokens * k
  PROVE  LET ids == CycleExpertIds(tokens, k, activated)
         IN  /\ \A t \in DOMAIN ids : Cardinality(ids[t]) = k
             /\ UNION Items(ids) = 0 .. activated - 1
<1> DEFINE ids == CycleExpertIds(tokens, k, activated)
<1>1. /\ DOMAIN ids = 0 .. tokens - 1
      /\ \A t \in 0 .. tokens - 1 : ids[t] = {(t * k + o) % activated : o \in 0 .. k - 1}
  BY DEF CycleExpertIds
<1> HIDE DEF ids
<1>2. ASSUME NEW t \in 0 .. tokens - 1
      PROVE  Cardinality(ids[t]) = k
  <2>1. PICK base \in Nat : base = t * k
    OBVIOUS
  <2> DEFINE f == [o \in 0 .. k - 1 |-> (base + o) % activated]
  <2>2. ids[t] = {f[o] : o \in 0 .. k - 1}
    BY <1>1, <2>1
  <2>3. \A o, q \in 0 .. k - 1 : o <= q /\ f[o] = f[q] => o = q
    <3> SUFFICES ASSUME NEW o \in 0 .. k - 1, NEW q \in 0 .. k - 1, o <= q,
                        (base + o) % activated = (base + q) % activated
                 PROVE  o = q
      OBVIOUS
    <3>1. PICK x \in Nat, y \in Nat : x = base + o /\ y = base + q
      OBVIOUS
    <3>2. x <= y /\ y < x + activated /\ x % activated = y % activated
      BY <3>1
    <3>3. x = y
      BY <3>2, SameRemainder
    <3> QED
      BY <3>1, <3>3
  <2>4. f \in Bijection(0 .. k - 1, ids[t])
    <3>1. f \in [0 .. k - 1 -> ids[t]]
      BY <2>2
    <3>2. \A o, q \in 0 .. k - 1 : f[o] = f[q] => o = q
      <4> SUFFICES ASSUME NEW o \in 0 .. k - 1, NEW q \in 0 .. k - 1, f[o] = f[q]
                   PROVE  o = q
        OBVIOUS
      <4> HIDE DEF f
      <4>1. o <= q \/ q <= o
        OBVIOUS
      <4> QED
        BY <2>3, <4>1
    <3>3. \A y \in ids[t] : \E o \in 0 .. k - 1 : f[o] = y
      BY <2>2
    <3> HIDE DEF f
    <3> QED
      BY <3>1, <3>2, <3>3 DEF Bijection, Injection, Surjection, IsInjective
  <2>5. IsFiniteSet(0 .. k - 1) /\ Cardinality(0 .. k - 1) = k
    <3>1. Cardinality(0 .. k - 1) = IF 0 > k - 1 THEN 0 ELSE k - 1 - 0 + 1
      BY FS_Interval
    <3> QED
      BY <3>1, FS_Interval
  <2> HIDE DEF f
  <2> QED
    BY <2>4, <2>5, FS_Bijection DEF ExistsBijection
<1>3. ASSUME NEW t \in 0 .. tokens - 1, NEW e \in ids[t]
      PROVE  e \in 0 .. activated - 1
  <2>1. PICK o \in 0 .. k - 1 : e = (t * k + o) % activated
    BY <1>1
  <2>2. PICK x \in Nat : x = t * k + o
    OBVIOUS
  <2> QED
    BY <2>1, <2>2, Remainder
<1>4. ASSUME NEW e \in 0 .. activated - 1
      PROVE  \E t \in 0 .. tokens - 1 : e \in ids[t]
  <2>1. PICK t \in Nat, o \in 0 .. k - 1 : e = k * t + o
    <3>1. e \in Nat
      OBVIOUS
    <3>2. e \div k \in Nat /\ e % k \in 0 .. k - 1 /\ e = k * (e \div k) + (e % k)
      BY <3>1, Remainder
    <3> QED
      BY <3>2
  <2>2. t \in 0 .. tokens - 1
    <3> SUFFICES ASSUME t >= tokens
                 PROVE  FALSE
      OBVIOUS
    <3>1. t * k >= tokens * k
      OBVIOUS
    <3>2. PICK u \in Int, w \in Int : u = t * k /\ w = tokens * k
      OBVIOUS
    <3> QED
      BY <2>1, <3>1, <3>2
  <2>3. (t * k + o) % activated = e
    BY <2>1
  <2> QED
    BY <1>1, <2>2, <2>3
<1>5. UNION Items(ids) = 0 .. activated - 1
  BY <1>1, <1>3, <1>4 DEF Items
<1> QED
  BY <1>1, <1>2, <1>5 DEF ids

LEMMA ExpertsRun ==
  ASSUME NEW s \in Sessions, NEW tp \in Degrees, NEW shot \in ExpertShots(Limits(s, tp))
  PROVE  LET engine == FuseEngineKwargs(s.args, Gpu[tp])
         IN  /\ Runs(engine, shot.reqs)
             /\ LET ids == CycleExpertIds(NewTokens(shot.reqs), engine.k, shot.experts)
                IN  /\ \A t \in DOMAIN ids : Cardinality(ids[t]) = engine.k
                    /\ UNION Items(ids) = 0 .. shot.experts - 1
<1> DEFINE limits == Limits(s, tp)
           engine == FuseEngineKwargs(s.args, Gpu[tp])
<1>1. PICK p \in PowerOfTwoGrid(limits.mnbt) \X PowerOfTwoGrid(limits.experts) :
        /\ shot = Shot(<<<<p[1], 0>>>>, p[2])
        /\ p[1] < limits.mml /\ Aligned(p[1]) <= CacheTokens(limits)
        /\ limits.k <= p[2] /\ p[2] <= p[1] * limits.k
  BY DEF ExpertShots
<1> HIDE DEF limits, engine
<1>2. /\ engine \in [mnbt : Nat, msq : Nat, mml : Nat, blocks : Nat, experts : Nat, k : Nat]
      /\ limits.mnbt \in Nat /\ limits.msq \in Nat \ {0} /\ limits.blocks \in Nat
      /\ limits.experts \in Nat /\ limits.k \in Nat
      /\ engine.mnbt = limits.mnbt + limits.msq
      /\ engine.msq = limits.msq /\ engine.mml = limits.mml
      /\ engine.blocks = limits.blocks /\ engine.k = limits.k
  BY EngineOf DEF limits, engine
<1>3. PICK n \in Nat \ {0}, activated \in Nat \ {0} :
        n = p[1] /\ activated = p[2] /\ n <= limits.mnbt
  <2>1. p[1] \in 1 .. limits.mnbt /\ p[2] \in 1 .. limits.experts
    BY <1>1 DEF PowerOfTwoGrid
  <2> QED
    BY <1>2, <2>1
<1>4. shot.reqs = <<<<n, 0>>>> /\ shot.experts = activated
  BY <1>1, <1>3 DEF Shot
<1>5. PICK k \in Nat \ {0} : k = engine.k
  <2>1. limits.k # 0
    <3> SUFFICES ASSUME limits.k = 0
                 PROVE  FALSE
      OBVIOUS
    <3>1. activated <= n * 0
      BY <1>1, <1>3
    <3> QED
      BY <3>1
  <2> QED
    BY <1>2, <2>1
<1>6. k <= activated /\ activated <= n * k
  BY <1>1, <1>2, <1>3, <1>5
<1>7. PICK c \in Nat : c = BlocksOf(<<n, 0>>) /\ Aligned(n) = c * Grid.block
  <2>1. n + 0 = n /\ n + 0 > 0
    OBVIOUS
  <2> QED
    BY <2>1, BlocksOfRequest
<1>8. c <= limits.blocks
  <2>1. Grid.block \in Nat \ {0}
    BY ProfilerAssumption
  <2>2. c * Grid.block <= limits.blocks * Grid.block
    BY <1>1, <1>3, <1>7 DEF CacheTokens
  <2> QED
    BY <1>2, <1>7, <2>1, <2>2, FewerBlocks
<1>9. PICK m \in Nat \ {0}, h \in Nat : m = 1 /\ h = 0
  OBVIOUS
<1>10. Batch(shot.reqs, m, n, h, n, h)
  BY <1>4, <1>9 DEF Batch
<1>11. n + n * (m - 1) = n /\ c + c * (m - 1) = c /\ ~ (m > 1)
  BY <1>9
<1>12. n + n * (m - 1) <= engine.mnbt /\ m <= engine.msq /\ n + h < engine.mml /\ (m > 1 => n + h < engine.mml)
  BY <1>1, <1>2, <1>3, <1>9, <1>11
<1>13. BlocksOf(<<n, h>>) + BlocksOf(<<n, h>>) * (m - 1) <= engine.blocks
  BY <1>2, <1>7, <1>8, <1>9, <1>11
<1>14. Runs(engine, shot.reqs)
  BY <1>2, <1>10, <1>12, <1>13, BatchRuns
<1>15. NewTokens(shot.reqs) = n
  <2>1. TokensAlike(shot.reqs, m, n, n)
    BY <1>4, <1>9 DEF TokensAlike
  <2>2. NewTokens(shot.reqs) = n + n * (m - 1)
    BY <2>1, NewTokensAre
  <2> QED
    BY <1>11, <2>2
<1>16. LET ids == CycleExpertIds(n, k, activated)
       IN  /\ \A t \in DOMAIN ids : Cardinality(ids[t]) = k
           /\ UNION Items(ids) = 0 .. activated - 1
  BY <1>6, ExpertsForced
<1>17. LET ids == CycleExpertIds(NewTokens(shot.reqs), engine.k, shot.experts)
       IN  /\ \A t \in DOMAIN ids : Cardinality(ids[t]) = engine.k
           /\ UNION Items(ids) = 0 .. shot.experts - 1
  <2>1. /\ CycleExpertIds(NewTokens(shot.reqs), engine.k, shot.experts) = CycleExpertIds(n, k, activated)
        /\ engine.k = k /\ shot.experts = activated
    BY <1>4, <1>5, <1>15
  <2> QED
    BY <1>16, <2>1
<1>18. Runs(engine, shot.reqs)
  BY <1>14
<1> QED
  BY <1>17, <1>18 DEF engine

(* The worker can run the shot, and its experts are the ones it measures.  *)
ShotRuns(s, tp, shot) ==
  LET engine == FuseEngineKwargs(s.args, Gpu[tp])
  IN  /\ Runs(engine, shot.reqs)
      /\ shot.experts > 0 =>
           LET ids == CycleExpertIds(NewTokens(shot.reqs), engine.k, shot.experts)
           IN  /\ \A t \in DOMAIN ids : Cardinality(ids[t]) = engine.k
               /\ UNION Items(ids) = 0 .. shot.experts - 1

LEMMA ComposedRun ==
  ASSUME NEW s \in Sessions, NEW tp \in Degrees, NEW c \in Categories, NEW shot \in ShotsOf(s, tp, c)
  PROVE  ShotRuns(s, tp, shot)
<1> USE DEF ShotRuns
<1>1. CASE c = "dense"
  <2>1. shot \in DenseShots(Limits(s, tp))
    BY <1>1 DEF ShotsOf, ComposeShots
  <2>2. Runs(FuseEngineKwargs(s.args, Gpu[tp]), shot.reqs) /\ shot.experts = 0
    BY <2>1, DenseRuns
  <2>3. ~ (shot.experts > 0)
    BY <2>2
  <2> QED
    BY <2>2, <2>3
<1>2. CASE c = "per_sequence"
  <2>1. shot \in SequenceShots(Limits(s, tp))
    BY <1>2 DEF ShotsOf, ComposeShots
  <2>2. Runs(FuseEngineKwargs(s.args, Gpu[tp]), shot.reqs) /\ shot.experts = 0
    BY <2>1, SequenceRuns
  <2>3. ~ (shot.experts > 0)
    BY <2>2
  <2> QED
    BY <2>2, <2>3
<1>3. CASE c = "attention"
  <2>1. shot \in AttentionShots(Limits(s, tp), s.args)
    BY <1>3 DEF ShotsOf, ComposeShots
  <2>2. Runs(FuseEngineKwargs(s.args, Gpu[tp]), shot.reqs) /\ shot.experts = 0
    BY <2>1, AttentionRuns
  <2>3. ~ (shot.experts > 0)
    BY <2>2
  <2> QED
    BY <2>2, <2>3
<1>4. CASE c = "moe"
  <2>1. shot \in ExpertShots(Limits(s, tp))
    BY <1>4 DEF ShotsOf, ComposeShots
  <2> QED
    BY <2>1, ExpertsRun
<1> QED
  BY <1>1, <1>2, <1>3, <1>4 DEF Categories

(* The categories guess in categories.py what the worker needs in batch.py *)
(* and what the engine that spin_up booted has room for.  They guess right *)
(* for any limits, any grid and any engine: every shot runs, and the       *)
(* experts forced on its tokens are as many different ones as the model    *)
(* activates for a token, and all of those the shot is measured for.       *)
LEMMA InvRuns ==
  ASSUME Inv
  PROVE  ShotsRun
<1> SUFFICES ASSUME phase = "sweep", cats # <<>>, NEW shot \in ShotsOf(session, Head(queue), Head(cats))
             PROVE  ShotRuns(session, Head(queue), shot)
  BY DEF ShotsRun, ShotRuns
<1>1. /\ session \in Sessions /\ queue \in Seq(Degrees) /\ queue # <<>>
      /\ cats \in Seq(Categories)
  BY DEF Inv, Shape
<1>2. Head(queue) \in Degrees /\ Head(cats) \in Categories
  BY <1>1, HeadTailItems
<1>3. PICK tp \in Degrees, c \in Categories : tp = Head(queue) /\ c = Head(cats)
  BY <1>2
<1>4. session \in Sessions /\ shot \in ShotsOf(session, tp, c)
  BY <1>1, <1>3
<1>5. ShotRuns(session, tp, shot)
  BY <1>4, ComposedRun
<1> QED
  BY <1>3, <1>5

THEOREM ShotsRunCorrect == Spec => []ShotsRun
<1>1. Inv => ShotsRun
  BY InvRuns
<1> QED
  BY <1>1, AlwaysInv, PTL
=============================================================================
