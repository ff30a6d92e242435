--------------------------- MODULE Router_proofs ---------------------------
(***************************************************************************)
(* Proofs about Router for every dataset, cluster and policy: the types,   *)
(* where the requests are, in which order a session runs, that the pending *)
(* list stays sorted, and that the router implements Sessions.             *)
(***************************************************************************)
EXTENDS Router, Lists_proofs

-----------------------------------------------------------------------------
(* The simulation *)

LEMMA SimulationTypes ==
  ASSUME sim \in Simulations
  PROVE  /\ Rows = 1 .. Len(sim.rows) /\ Len(sim.rows) \in Nat
         /\ Instances = 1 .. Len(sim.pdType) /\ Len(sim.pdType) \in Nat
         /\ \A s \in Rows : /\ Tools(s) \in Seq(Nat)
                            /\ Length(s) \in Nat
                            /\ sim.rows[s].arrival \in Nat
                            /\ sim.rows[s].agentic \in BOOLEAN
                            /\ ~sim.rows[s].agentic => Length(s) = 1
<1>1. sim \in SimulationType /\ \A s \in DOMAIN sim.rows : ~sim.rows[s].agentic => Len(sim.rows[s].tools) = 1
  BY SimulationAssumption
<1>2. sim.rows \in Seq(RowType) /\ sim.pdType \in Seq({"none", "prefill", "decode"})
  BY <1>1 DEF SimulationType
<1>3. ASSUME NEW s \in Rows PROVE sim.rows[s] \in RowType
  BY <1>2, ElementOfSeq DEF Rows
<1>4. /\ Rows = 1 .. Len(sim.rows) /\ Len(sim.rows) \in Nat
      /\ Instances = 1 .. Len(sim.pdType) /\ Len(sim.pdType) \in Nat
  BY <1>2 DEF Rows, Instances
<1>5. ASSUME NEW s \in Rows
      PROVE  /\ Tools(s) \in Seq(Nat) /\ Length(s) \in Nat
             /\ sim.rows[s].arrival \in Nat /\ sim.rows[s].agentic \in BOOLEAN
  BY <1>3 DEF Tools, Length, RowType
<1>6. ASSUME NEW s \in Rows, ~sim.rows[s].agentic
      PROVE  Length(s) = 1
  BY <1>1, <1>6 DEF Rows, Tools, Length
<1> QED
  BY <1>4, <1>5, <1>6

(* The identifiers of requests are pairs of a row and a position in it. *)
LEMMA RequestPairs ==
  ASSUME sim \in Simulations
  PROVE  /\ \A r \in Requests : /\ r = <<r[1], r[2]>>
                                /\ r[1] \in Rows /\ r[2] \in 0 .. Length(r[1]) - 1
         /\ \A s \in Rows : \A k \in 0 .. Length(s) - 1 : <<s, k>> \in Requests
BY DEF Requests

LEMMA SchedulersAreInstances ==
  ASSUME sim \in Simulations, NEW role \in Roles
  PROVE  /\ Schedulers(role) \in Seq(Instances)
         /\ Len(Schedulers(role)) \in Nat
         /\ \A c \in 0 .. Len(Schedulers(role)) - 1 : Schedulers(role)[c + 1] \in Instances
<1> DEFINE all == [i \in Instances |-> i]
           S == {i \in Instances : sim.pdType[i] = "decode" <=> role = "decode"}
<1>1. all \in Seq(Instances)
  BY SimulationTypes
<1>2. Keep(all, S) \in Seq(Instances)
  <2> HIDE DEF all, S
  <2> QED
    BY <1>1, KeepProperties
<1>3. Schedulers(role) \in Seq(Instances)
  BY <1>2 DEF Schedulers
<1>4. Len(Schedulers(role)) \in Nat
  BY <1>3
<1>5. ASSUME NEW c \in 0 .. Len(Schedulers(role)) - 1
      PROVE  Schedulers(role)[c + 1] \in Instances
  <2>1. c + 1 \in 1 .. Len(Schedulers(role))
    BY <1>4
  <2> QED
    BY <1>3, <2>1, ElementOfSeq
<1> QED
  BY <1>3, <1>4, <1>5

LEMMA SelectsCounts ==
  ASSUME sim \in Simulations, rr \in [Roles -> Nat], NEW role \in Roles,
         NEW c \in 0 .. Len(Schedulers(role)) - 1, Selects(role, c)
  PROVE  rr' \in [Roles -> Nat]
<1> DEFINE n == Len(Schedulers(role))
<1>1. n \in Nat /\ c \in 0 .. n - 1
  BY SchedulersAreInstances
<1>2. \/ rr' = [rr EXCEPT ![role] = c + 1]
      \/ rr' = rr
      \/ rr' = [rr EXCEPT ![role] = (c + 1) % n]
  BY DEF Selects
<1> HIDE DEF n
<1>3. n \in Nat \ {0} /\ c + 1 \in Nat
  BY <1>1
<1>4. (c + 1) % n \in Nat
  BY <1>3
<1> QED
  BY <1>2, <1>3, <1>4

-----------------------------------------------------------------------------
(* _insert_pending_sorted: the entry comes into the part of the list that  *)
(* is not routed yet, and the rest keeps its order.                        *)

Later(entry) == {i \in idx + 1 .. Len(pending) : pending[i].arrival <= entry.arrival}

LEMMA LaterSize ==
  ASSUME pending \in Seq(Entry), idx \in 0 .. Len(pending), NEW entry \in Entry
  PROVE  /\ IsFiniteSet(Later(entry))
         /\ Cardinality(Later(entry)) \in 0 .. Len(pending) - idx
<1> DEFINE rest == idx + 1 .. Len(pending)
<1>1. IsFiniteSet(rest) /\ Cardinality(rest) = Len(pending) - idx
  <2>1. Len(pending) \in Nat /\ idx \in Nat /\ idx <= Len(pending)
    OBVIOUS
  <2> DEFINE m == idx + 1
             n == Len(pending)
  <2>2. m \in Int /\ n \in Int
    BY <2>1
  <2>3. /\ IsFiniteSet(m .. n)
        /\ Cardinality(m .. n) = IF m > n THEN 0 ELSE n - m + 1
    <3> HIDE DEF m, n
    <3> QED
      BY <2>2, FS_Interval
  <2> QED
    BY <2>1, <2>3
<1>2. Later(entry) \in SUBSET rest
  BY DEF Later
<1> HIDE DEF rest
<1>3. IsFiniteSet(Later(entry)) /\ Cardinality(Later(entry)) <= Cardinality(rest)
  BY <1>1, <1>2, FS_Subset
<1> QED
  BY <1>1, <1>3, FS_CardinalityType

LEMMA InsertedProperties ==
  ASSUME pending \in Seq(Entry), idx \in 0 .. Len(pending), NEW entry \in Entry
  PROVE  LET lo == idx + Cardinality(Later(entry))
             q  == Inserted(entry)
         IN  /\ lo \in idx .. Len(pending)
             /\ q \in Seq(Entry)
             /\ Len(q) = Len(pending) + 1
             /\ \A i \in 1 .. Len(q) : q[i] = IF i <= lo THEN pending[i]
                                              ELSE IF i = lo + 1 THEN entry ELSE pending[i - 1]
<1> DEFINE lo == idx + Cardinality(Later(entry))
           a == SubSeq(pending, 1, lo)
           b == SubSeq(pending, lo + 1, Len(pending))
           q == a \o <<entry>> \o b
<1>1. lo \in idx .. Len(pending) /\ lo \in 0 .. Len(pending) /\ Len(pending) \in Nat
  BY LaterSize
<1>2. Inserted(entry) = q
  BY DEF Inserted, Later
<1> HIDE DEF lo
<1>3. \A i \in 1 .. Len(pending) : pending[i] \in Entry
  BY ElementOfSeq
<1>4. a \in Seq(Entry) /\ Len(a) = lo /\ \A i \in 1 .. lo : a[i] = pending[i]
  BY <1>1, <1>3
<1>5. /\ b \in Seq(Entry) /\ Len(b) = Len(pending) - lo
      /\ \A i \in 1 .. Len(pending) - lo : b[i] = pending[lo + i]
  BY <1>1, <1>3
<1>6. <<entry>> \in Seq(Entry) /\ Len(<<entry>>) = 1 /\ <<entry>>[1] = entry
  OBVIOUS
<1> HIDE DEF a, b
<1> DEFINE e == <<entry>>
           ae == a \o e
<1> HIDE DEF e
<1>7. /\ ae \in Seq(Entry) /\ Len(ae) = lo + 1
      /\ \A i \in 1 .. lo + 1 : ae[i] = IF i <= lo THEN pending[i] ELSE entry
  <2>1. /\ ae \in Seq(Entry) /\ Len(ae) = lo + 1
        /\ \A i \in 1 .. lo + 1 : ae[i] = IF i <= lo THEN a[i] ELSE e[i - lo]
    BY <1>1, <1>4, <1>6, ConcatProperties DEF e
  <2> QED
    BY <1>1, <1>4, <1>6, <2>1 DEF e
<1> HIDE DEF ae
<1> DEFINE w == ae \o b
<1>8. /\ w \in Seq(Entry) /\ Len(w) = Len(pending) + 1
      /\ \A i \in 1 .. Len(pending) + 1 : w[i] = IF i <= lo + 1 THEN ae[i] ELSE b[i - (lo + 1)]
  <2>1. /\ w \in Seq(Entry) /\ Len(w) = Len(ae) + Len(b)
        /\ \A i \in 1 .. Len(ae) + Len(b) : w[i] = IF i <= Len(ae) THEN ae[i] ELSE b[i - Len(ae)]
    BY <1>5, <1>7, ConcatProperties
  <2>2. Len(ae) + Len(b) = Len(pending) + 1
    BY <1>1, <1>5, <1>7
  <2> HIDE DEF w
  <2> QED
    BY <1>7, <2>1, <2>2
<1>9. w = q
  BY DEF ae, e
<1> HIDE DEF w, q
<1>10. ASSUME NEW i \in 1 .. Len(pending) + 1
       PROVE  w[i] = IF i <= lo THEN pending[i] ELSE IF i = lo + 1 THEN entry ELSE pending[i - 1]
  <2>1. CASE i <= lo + 1
    BY <1>1, <1>7, <1>8, <2>1
  <2>2. CASE i > lo + 1
    <3>1. i - (lo + 1) \in 1 .. Len(pending) - lo /\ lo + (i - (lo + 1)) = i - 1
      BY <1>1, <2>2
    <3>2. b[i - (lo + 1)] = pending[i - 1]
      BY <1>5, <3>1
    <3> QED
      BY <1>1, <1>8, <2>2, <3>2
  <2> QED
    BY <1>1, <2>1, <2>2
<1>11. Inserted(entry) = w
  BY <1>2, <1>9
<1> QED
  BY <1>1, <1>8, <1>10, <1>11 DEF lo

(* What the insertion does to the part of the list that is not routed. *)
LEMMA InsertedUnrouted ==
  ASSUME pending \in Seq(Entry), idx \in 0 .. Len(pending), NEW entry \in Entry
  PROVE  LET q == Inserted(entry)
         IN  /\ {q[i].req : i \in idx + 1 .. Len(q)} = Unrouted \cup {entry.req}
             /\ \A i \in 1 .. idx : q[i] = pending[i]
             /\ entry.req \notin Unrouted
                  /\ (\A i, j \in idx + 1 .. Len(pending) : pending[i].req = pending[j].req => i = j)
                  => \A i, j \in idx + 1 .. Len(q) : q[i].req = q[j].req => i = j
<1> DEFINE lo == idx + Cardinality(Later(entry))
           q  == Inserted(entry)
<1>a. /\ lo \in idx .. Len(pending)
      /\ Len(q) = Len(pending) + 1
      /\ \A i \in 1 .. Len(q) : q[i] = IF i <= lo THEN pending[i]
                                       ELSE IF i = lo + 1 THEN entry ELSE pending[i - 1]
  BY InsertedProperties
<1>b. Len(pending) \in Nat /\ idx \in Nat /\ idx <= Len(pending)
  OBVIOUS
<1> HIDE DEF lo, q
<1>1. /\ lo \in idx .. Len(pending) /\ Len(pending) \in Nat /\ idx \in Nat
      /\ Len(q) = Len(pending) + 1
      /\ \A i \in 1 .. Len(q) : q[i] = IF i <= lo THEN pending[i]
                                       ELSE IF i = lo + 1 THEN entry ELSE pending[i - 1]
  BY <1>a, <1>b
<1> DEFINE old(i) == IF i <= lo THEN i ELSE i - 1
<1>2. lo + 1 \in idx + 1 .. Len(q) /\ q[lo + 1] = entry
  BY <1>1
<1>3. ASSUME NEW i \in idx + 1 .. Len(q), i # lo + 1
      PROVE  old(i) \in idx + 1 .. Len(pending) /\ q[i] = pending[old(i)]
  <2>1. i \in 1 .. Len(q) /\ i \in Int /\ lo \in Int
    BY <1>1
  <2>2. CASE i <= lo
    BY <1>1, <2>1, <2>2
  <2>3. CASE i > lo
    BY <1>1, <1>3, <2>1, <2>3
  <2> QED
    BY <2>1, <2>2, <2>3
<1>4. ASSUME NEW i \in idx + 1 .. Len(pending)
      PROVE  \E k \in idx + 1 .. Len(q) : q[k] = pending[i]
  <2>1. CASE i <= lo
    BY <1>1, <2>1
  <2>2. CASE i > lo
    <3>1. i + 1 \in idx + 1 .. Len(q) /\ i + 1 \in 1 .. Len(q) /\ i + 1 > lo + 1 /\ (i + 1) - 1 = i
      BY <1>1, <2>2
    <3>2. q[i + 1] = pending[i]
      BY <1>1, <3>1
    <3> QED
      BY <3>1, <3>2
  <2> QED
    BY <1>1, <2>1, <2>2
<1>5. {q[i].req : i \in idx + 1 .. Len(q)} = Unrouted \cup {entry.req}
  <2>1. ASSUME NEW i \in idx + 1 .. Len(q) PROVE q[i].req \in Unrouted \cup {entry.req}
    BY <1>2, <1>3 DEF Unrouted
  <2>2. ASSUME NEW r \in Unrouted PROVE \E k \in idx + 1 .. Len(q) : q[k].req = r
    BY <1>4 DEF Unrouted
  <2> QED
    BY <1>2, <2>1, <2>2
<1>6. \A i \in 1 .. idx : q[i] = pending[i]
  BY <1>1
<1>7. ASSUME entry.req \notin Unrouted,
             \A i, j \in idx + 1 .. Len(pending) : pending[i].req = pending[j].req => i = j,
             NEW i \in idx + 1 .. Len(q), NEW j \in idx + 1 .. Len(q), q[i].req = q[j].req
      PROVE  i = j
  <2>1. ASSUME NEW k \in idx + 1 .. Len(q), k # lo + 1 PROVE q[k].req # entry.req
    BY <1>3, <1>7, <2>1 DEF Unrouted
  <2>2. CASE i = lo + 1 \/ j = lo + 1
    BY <1>2, <1>7, <2>1, <2>2
  <2>3. CASE i # lo + 1 /\ j # lo + 1
    <3>1. old(i) = old(j)
      BY <1>3, <1>7, <2>3
    <3> QED
      BY <1>1, <2>3, <3>1
  <2> QED
    BY <2>2, <2>3
<1> QED
  BY <1>5, <1>6, <1>7 DEF q

-----------------------------------------------------------------------------
(* notify_request_completed does one of two things. *)

FollowUp(r) == [req |-> <<r[1], nextIndex[r[1]]>>, arrival |-> now + Tools(r[1])[r[2] + 1]]

Releases(r) ==
  /\ r \in owner /\ r[1] \in deferred /\ nextIndex[r[1]] < Length(r[1])
  /\ pending' = Inserted(FollowUp(r))
  /\ owner' = (owner \ {r}) \cup {FollowUp(r).req}
  /\ nextIndex' = [nextIndex EXCEPT ![r[1]] = @ + 1]
  /\ deferred' = deferred

Retires(r) ==
  /\ r \in owner /\ r[1] \in deferred => nextIndex[r[1]] >= Length(r[1])
  /\ deferred' = IF r \in owner THEN deferred \ {r[1]} ELSE deferred
  /\ owner' = owner \ {r}
  /\ UNCHANGED <<pending, nextIndex>>

LEMMA NotifyEffect ==
  ASSUME TypeOK, NEW r \in Requests, Notify(r)
  PROVE  /\ Releases(r) \/ Retires(r)
         /\ FollowUp(r).arrival \in Nat /\ FollowUp(r).arrival >= now
         /\ nextIndex[r[1]] < Length(r[1]) => FollowUp(r) \in Entry
<1>1. /\ r[1] \in Rows /\ r[2] + 1 \in 1 .. Length(r[1])
      /\ nextIndex[r[1]] \in Nat /\ now \in Nat /\ sim \in Simulations
      /\ Tools(r[1]) \in Seq(Nat) /\ Length(r[1]) \in Nat
  BY RequestPairs, SimulationTypes DEF TypeOK
<1>2. Tools(r[1])[r[2] + 1] \in Nat
  BY <1>1, ElementOfSeq DEF Length
<1>3. nextIndex[r[1]] < Length(r[1]) => FollowUp(r).req \in Requests
  BY <1>1, RequestPairs DEF FollowUp
<1>4. Releases(r) \/ Retires(r)
  BY <1>1 DEF Notify, Releases, Retires, FollowUp, sessionState, TypeOK
<1> QED
  BY <1>1, <1>2, <1>3, <1>4 DEF FollowUp, Entry

-----------------------------------------------------------------------------
(* Types *)

LEMMA TypeInit == Init => TypeOK
<1> SUFFICES ASSUME Init PROVE TypeOK
  OBVIOUS
<1>1. sim \in Simulations
  BY DEF Init
<1>2. PICK p \in Arrangements(LoadedRows) :
        pending = [i \in DOMAIN p |-> [req |-> <<p[i], 0>>, arrival |-> sim.rows[p[i]].arrival]]
  BY DEF Init
<1>3. IsFiniteSet(LoadedRows) /\ LoadedRows \in SUBSET Rows
  <2>1. IsFiniteSet(1 .. Len(sim.rows))
    BY <1>1, SimulationTypes, IntervalSize
  <2> QED
    BY <1>1, <2>1, SimulationTypes, FS_Subset DEF LoadedRows
<1>4. p \in Seq(Rows) /\ Items(p) = LoadedRows
  BY <1>2, <1>3, ArrangementProperties
<1>5. ASSUME NEW i \in DOMAIN p PROVE pending[i] \in Entry
  <2>1. p[i] \in LoadedRows
    BY <1>4 DEF Items
  <2>2. p[i] \in Rows /\ 0 \in 0 .. Length(p[i]) - 1
    BY <1>1, <2>1, SimulationTypes DEF LoadedRows
  <2> QED
    BY <1>1, <1>2, <2>2, RequestPairs, SimulationTypes DEF Entry
<1>6. pending \in Seq(Entry)
  BY <1>2, <1>4, <1>5
<1>7. deferred \subseteq Rows /\ owner \subseteq Requests
  <2>1. \A s \in deferred : s \in Rows /\ 0 \in 0 .. Length(s) - 1
    BY <1>1, SimulationTypes DEF Init, LoadedRows
  <2> QED
    BY <1>1, <2>1, RequestPairs DEF Init
<1> QED
  BY <1>1, <1>6, <1>7 DEF Init, TypeOK

(* Whatever enters a queue goes to an instance of the cluster. *)
LEMMA PlacedType ==
  ASSUME TypeOK, NEW role \in Roles, NEW c \in 0 .. Len(Schedulers(role)) - 1,
         NEW r \in Requests, Placed(role, c, r)
  PROVE  /\ waiting' \in [Instances -> SUBSET Requests]
         /\ instance' \in [Requests -> Instances \cup {0}]
<1>1. Schedulers(role)[c + 1] \in Instances
  BY SchedulersAreInstances DEF TypeOK
<1> QED
  BY <1>1 DEF Placed, TypeOK

(* The dataset and the cluster stay the same. *)
LEMMA SameSimulation ==
  ASSUME sim' = sim
  PROVE  /\ Requests' = Requests /\ Rows' = Rows /\ Instances' = Instances
         /\ Entry' = Entry /\ Roles' = Roles
         /\ \A s : Tools(s)' = Tools(s) /\ Length(s)' = Length(s)
<1>1. Rows' = Rows /\ Instances' = Instances /\ Roles' = Roles
  BY DEF Rows, Instances, Roles
<1>2. \A s : Tools(s)' = Tools(s) /\ Length(s)' = Length(s)
  BY DEF Tools, Length
<1>3. Requests' = Requests
  BY <1>1, <1>2 DEF Requests
<1> QED
  BY <1>1, <1>2, <1>3 DEF Entry

LEMMA TypeStep == TypeOK /\ [Next]_vars => TypeOK'
<1> SUFFICES ASSUME TypeOK, [Next]_vars PROVE TypeOK'
  OBVIOUS
<1> DEFINE Typed ==
      /\ sim' = sim
      /\ now' \in Nat
      /\ routing' \in BOOLEAN
      /\ pending' \in Seq(Entry)
      /\ idx' \in 0 .. Len(pending')
      /\ deferred' \subseteq Rows
      /\ nextIndex' \in [Rows -> Nat]
      /\ owner' \subseteq Requests
      /\ rr' \in [Roles -> Nat]
      /\ instance' \in [Requests -> Instances \cup {0}]
      /\ waiting' \in [Instances -> SUBSET Requests]
      /\ running' \in [Instances -> SUBSET Requests]
      /\ finished' \subseteq Requests
<1>0. Typed => TypeOK'
  <2> SUFFICES ASSUME Typed PROVE TypeOK'
    OBVIOUS
  <2>1. Requests' = Requests /\ Rows' = Rows /\ Instances' = Instances /\ Entry' = Entry /\ Roles' = Roles
    BY SameSimulation
  <2>2. sim' \in Simulations
    BY DEF TypeOK
  <2> QED
    BY <2>1, <2>2 DEF TypeOK
<1>1. ASSUME Report PROVE Typed
  BY <1>1 DEF Report, sessionState, queues, TypeOK
<1>2. ASSUME RouteNext PROVE Typed
  <2>1. idx + 1 \in 1 .. Len(pending) /\ sim \in Simulations /\ pending \in Seq(Entry)
    BY <1>2 DEF RouteNext, Arrived, TypeOK
  <2>2. pending[idx + 1].req \in Requests
    <3>1. pending[idx + 1] \in Entry
      BY <2>1, ElementOfSeq
    <3> QED
      BY <3>1 DEF Entry
  <2>3. PICK c \in 0 .. Len(Schedulers("prefill")) - 1 :
          /\ Selects("prefill", c) \/ UNCHANGED rr
          /\ Placed("prefill", c, pending[idx + 1].req)
    BY <1>2 DEF RouteNext
  <2>4. /\ waiting' \in [Instances -> SUBSET Requests]
        /\ instance' \in [Requests -> Instances \cup {0}]
    BY <2>2, <2>3, PlacedType DEF Roles
  <2>5. rr' \in [Roles -> Nat]
    BY <2>1, <2>3, SelectsCounts DEF Roles, TypeOK
  <2> QED
    BY <1>2, <2>1, <2>4, <2>5
    DEF RouteNext, sessionState, TypeOK
<1>3. ASSUME RouteEnd PROVE Typed
  BY <1>3 DEF RouteEnd, sessionState, queues, TypeOK
<1>4. ASSUME NEW i \in Instances, NEW r \in waiting[i], Start(i, r) PROVE Typed
  BY <1>4 DEF Start, sessionState, TypeOK
<1>5. ASSUME NEW i \in Instances, NEW r \in running[i], PutBack(i, r) PROVE Typed
  BY <1>5 DEF PutBack, sessionState, TypeOK
<1>6. ASSUME NEW i \in Instances, NEW r \in running[i], HandOver(i, r) PROVE Typed
  <2>1. r \in Requests /\ sim \in Simulations
    BY <1>6 DEF TypeOK
  <2>2. PICK c \in 0 .. Len(Schedulers("decode")) - 1 : Selects("decode", c) /\ Placed("decode", c, r)
    BY <1>6 DEF HandOver
  <2>3. /\ waiting' \in [Instances -> SUBSET Requests]
        /\ instance' \in [Requests -> Instances \cup {0}]
    BY <2>1, <2>2, PlacedType DEF Roles
  <2>4. rr' \in [Roles -> Nat]
    BY <2>1, <2>2, SelectsCounts DEF Roles, TypeOK
  <2> QED
    BY <1>6, <2>3, <2>4
    DEF HandOver, sessionState, TypeOK
<1>7. ASSUME NEW i \in Instances, NEW r \in running[i], Finish(i, r) PROVE Typed
  <2>1. r \in Requests /\ r[1] \in Rows
    BY <1>7, RequestPairs DEF TypeOK
  <2>2. Releases(r) \/ Retires(r)
    BY <1>7, <2>1, NotifyEffect DEF Finish
  <2>3. /\ pending' \in Seq(Entry) /\ idx \in 0 .. Len(pending')
        /\ deferred' \subseteq Rows /\ owner' \subseteq Requests /\ nextIndex' \in [Rows -> Nat]
    <3>1. CASE Releases(r)
      <4>1. FollowUp(r) \in Entry
        BY <1>7, <2>1, <3>1, NotifyEffect DEF Releases, Finish
      <4>2. pending' \in Seq(Entry) /\ Len(pending') = Len(pending) + 1
        BY <3>1, <4>1, InsertedProperties DEF Releases, TypeOK
      <4>3. FollowUp(r).req \in Requests
        BY <4>1 DEF Entry
      <4> QED
        BY <2>1, <3>1, <4>2, <4>3 DEF Releases, TypeOK
    <3>2. CASE Retires(r)
      BY <3>2 DEF Retires, TypeOK
    <3> QED
      BY <2>2, <3>1, <3>2
  <2> QED
    BY <1>7, <2>3 DEF Finish, TypeOK
<1>8. ASSUME UNCHANGED vars PROVE Typed
  BY <1>8 DEF vars, TypeOK
<1> QED
  BY <1>0, <1>1, <1>2, <1>3, <1>4, <1>5, <1>6, <1>7, <1>8 DEF Next, SomeStart, SomeEnd, Stopped

(* The router's state keeps its types, for every dataset and cluster.      *)
THEOREM TypeCorrect == Spec => []TypeOK
<1>1. Init => TypeOK
  BY TypeInit
<1>2. TypeOK /\ [Next]_vars => TypeOK'
  BY TypeStep
<1> QED
  BY <1>1, <1>2, PTL DEF Spec

-----------------------------------------------------------------------------
(* Whereabouts *)

At(i) == waiting[i] \cup running[i]
AllReleased == UNION {Released(s) : s \in Rows}

LEMMA AtProperties ==
  ASSUME TypeOK
  PROVE  /\ AtInstances = UNION {At(i) : i \in Instances}
         /\ \A r : r \in AtInstances <=> \E i \in Instances : r \in At(i)
         /\ AtInstances \subseteq Requests
BY DEF AtInstances, At, TypeOK

LEMMA FirstReleased ==
  ASSUME Init
  PROVE  AllReleased = {<<s, 0>> : s \in LoadedRows}
<1>1. ASSUME NEW s \in Rows
      PROVE  Released(s) = IF s \in LoadedRows THEN {<<s, 0>>} ELSE {}
  <2>1. nextIndex[s] = IF s \in LoadedRows THEN 1 ELSE 0
    BY DEF Init, LoadedRows
  <2> QED
    BY <2>1 DEF Released
<1>2. LoadedRows \subseteq Rows
  BY DEF LoadedRows
<1> QED
  BY <1>1, <1>2 DEF AllReleased

LEMMA WhereInit == Init => RoutedOnce
<1> SUFFICES ASSUME Init PROVE RoutedOnce
  OBVIOUS
<1>1. sim \in Simulations /\ TypeOK
  BY TypeInit DEF Init
<1>2. PICK p \in Arrangements(LoadedRows) :
        pending = [i \in DOMAIN p |-> [req |-> <<p[i], 0>>, arrival |-> sim.rows[p[i]].arrival]]
  BY DEF Init
<1>3. IsFiniteSet(LoadedRows) /\ LoadedRows \in SUBSET Rows
  <2>1. IsFiniteSet(1 .. Len(sim.rows))
    BY <1>1, SimulationTypes, IntervalSize
  <2> QED
    BY <1>1, <2>1, SimulationTypes, FS_Subset DEF LoadedRows
<1>4. p \in Seq(Rows) /\ Items(p) = LoadedRows /\ Distinct(p)
  BY <1>2, <1>3, ArrangementProperties
<1>5. /\ Len(pending) = Len(p) /\ DOMAIN p = idx + 1 .. Len(pending)
      /\ \A i \in DOMAIN p : pending[i].req = <<p[i], 0>>
  BY <1>2, <1>4 DEF Init
<1>6. \A i, j \in idx + 1 .. Len(pending) : pending[i].req = pending[j].req => i = j
  BY <1>4, <1>5 DEF Distinct
<1>7. Unrouted = {<<s, 0>> : s \in LoadedRows}
  BY <1>4, <1>5 DEF Unrouted, Items
<1>8. AtInstances = {} /\ finished = {}
  BY DEF Init, AtInstances
<1>9. AllReleased = {<<s, 0>> : s \in LoadedRows}
  BY FirstReleased
<1> QED
  BY <1>6, <1>7, <1>8, <1>9 DEF RoutedOnce, Init, AllReleased

(* A released request is new: it is nowhere yet. *)
LEMMA ReleaseIsNew ==
  ASSUME TypeOK, RoutedOnce, NEW s \in Rows
  PROVE  <<s, nextIndex[s]>> \notin Unrouted \cup AtInstances \cup finished
<1>1. nextIndex[s] \in Nat
  BY DEF TypeOK
<1>2. <<s, nextIndex[s]>> \notin UNION {Released(u) : u \in Rows}
  BY <1>1 DEF Released
<1> QED
  BY <1>2 DEF RoutedOnce

LEMMA ReleasedGrows ==
  ASSUME TypeOK, NEW s \in Rows, sim' = sim, nextIndex' = [nextIndex EXCEPT ![s] = @ + 1]
  PROVE  AllReleased' = AllReleased \cup {<<s, nextIndex[s]>>}
<1>1. Rows' = Rows /\ nextIndex[s] \in Nat
  BY SameSimulation DEF TypeOK
<1>2. ASSUME NEW u \in Rows
      PROVE  Released(u)' = IF u = s THEN Released(s) \cup {<<s, nextIndex[s]>>} ELSE Released(u)
  <2>1. CASE u = s
    <3>1. nextIndex'[s] = nextIndex[s] + 1
      BY DEF TypeOK
    <3>2. 0 .. nextIndex[s] + 1 - 1 = (0 .. nextIndex[s] - 1) \cup {nextIndex[s]}
      BY <1>1
    <3> QED
      BY <2>1, <3>1, <3>2 DEF Released
  <2>2. CASE u # s
    BY <2>2 DEF Released, TypeOK
  <2> QED
    BY <2>1, <2>2
<1> HIDE DEF Released
<1> QED
  BY <1>1, <1>2 DEF AllReleased

LEMMA WhereStep == TypeOK /\ RoutedOnce /\ [Next]_vars => RoutedOnce'
<1> SUFFICES ASSUME TypeOK, RoutedOnce, [Next]_vars PROVE RoutedOnce'
  OBVIOUS
<1> DEFINE Injective ==
             \A i, j \in idx + 1 .. Len(pending) : pending[i].req = pending[j].req => i = j
           Apart == /\ \A i, j \in Instances : i # j => At(i) \cap At(j) = {}
                    /\ \A i \in Instances : waiting[i] \cap running[i] = {}
           Complete == /\ AllReleased = Unrouted \cup AtInstances \cup finished
                       /\ Unrouted \cap (AtInstances \cup finished) = {}
                       /\ AtInstances \cap finished = {}
<1>a. Injective /\ Apart /\ Complete
  BY DEF RoutedOnce, At, AllReleased
<1>b. Injective' /\ Apart' /\ Complete' => RoutedOnce'
  BY DEF RoutedOnce, At, AllReleased
<1>c. ASSUME sim' = sim PROVE Instances' = Instances /\ Rows' = Rows
  BY <1>c, SameSimulation
<1>d. ASSUME sim' = sim, nextIndex' = nextIndex PROVE AllReleased' = AllReleased
  BY <1>c, <1>d DEF AllReleased, Released
<1>e. ASSUME pending' = pending, idx' = idx PROVE Unrouted' = Unrouted /\ Injective'
  BY <1>a, <1>e DEF Unrouted
<1> HIDE DEF AllReleased
<1>1. ASSUME Report \/ RouteEnd \/ UNCHANGED vars PROVE Injective' /\ Apart' /\ Complete'
  <2>1. UNCHANGED <<sim, pending, idx, nextIndex, waiting, running, finished>>
    BY <1>1 DEF Report, RouteEnd, vars, sessionState, queues
  <2>2. AtInstances' = AtInstances /\ Apart'
    BY <1>a, <1>c, <2>1 DEF AtInstances, At
  <2> QED
    BY <1>a, <1>d, <1>e, <2>1, <2>2
<1>2. ASSUME RouteNext PROVE Injective' /\ Apart' /\ Complete'
  <2> DEFINE r == pending[idx + 1].req
  <2>1. /\ idx + 1 \in idx + 1 .. Len(pending) /\ idx' = idx + 1 /\ idx \in Nat /\ Len(pending) \in Nat
        /\ UNCHANGED <<sim, pending, nextIndex, running, finished>>
    BY <1>2 DEF RouteNext, Arrived, sessionState, TypeOK
  <2>2. PICK d \in Instances : waiting' = [waiting EXCEPT ![d] = @ \cup {r}]
    <3>1. PICK c \in 0 .. Len(Schedulers("prefill")) - 1 : Placed("prefill", c, r)
      BY <1>2 DEF RouteNext
    <3>2. Schedulers("prefill")[c + 1] \in Instances
      BY SchedulersAreInstances DEF TypeOK, Roles
    <3> QED
      BY <3>1, <3>2 DEF Placed
  <2>3. r \in Unrouted /\ r \notin AtInstances /\ r \notin finished
    BY <1>a, <2>1 DEF Unrouted
  <2>4. Unrouted' = Unrouted \ {r}
    <3>1. idx' + 1 .. Len(pending') = (idx + 1 .. Len(pending)) \ {idx + 1}
      BY <2>1
    <3> QED
      BY <1>a, <2>1, <3>1 DEF Unrouted
  <2>5. Injective'
    BY <1>a, <2>1
  <2>6. \A i \in Instances : At(i)' = IF i = d THEN At(i) \cup {r} ELSE At(i)
    BY <2>1, <2>2 DEF At, TypeOK
  <2>7. Apart'
    <3>1. \A i \in Instances : r \notin At(i)
      BY <2>3, AtProperties
    <3> QED
      BY <1>a, <1>c, <2>1, <2>2, <2>6, <3>1 DEF At, TypeOK
  <2>8. AtInstances' = AtInstances \cup {r}
    BY <1>c, <2>1, <2>6 DEF AtInstances, At
  <2> QED
    BY <1>a, <1>d, <2>1, <2>3, <2>4, <2>5, <2>7, <2>8
<1>3. ASSUME NEW i \in Instances, NEW r \in At(i), Start(i, r) \/ PutBack(i, r)
      PROVE  Injective' /\ Apart' /\ Complete'
  <2>1. /\ UNCHANGED <<sim, pending, idx, nextIndex, finished>>
        /\ waiting' \in [Instances -> SUBSET Requests] /\ running' \in [Instances -> SUBSET Requests]
        /\ \A j \in Instances : j # i => waiting'[j] = waiting[j] /\ running'[j] = running[j]
        /\ At(i)' = At(i) /\ waiting'[i] \cap running'[i] = {}
    <3>1. waiting[i] \cap running[i] = {} /\ r \in Requests
      BY <1>a, <1>3 DEF At, TypeOK
    <3>2. CASE Start(i, r)
      BY <3>1, <3>2 DEF Start, At, sessionState, TypeOK
    <3>3. CASE PutBack(i, r)
      BY <3>1, <3>3 DEF PutBack, At, sessionState, TypeOK
    <3> QED
      BY <1>3, <3>2, <3>3
  <2>2. \A j \in Instances : At(j)' = At(j)
    BY <2>1 DEF At
  <2>3. AtInstances' = AtInstances
    BY <1>c, <2>1, <2>2 DEF AtInstances, At
  <2>4. Apart'
    BY <1>a, <1>c, <2>1, <2>2
  <2> QED
    BY <1>a, <1>d, <1>e, <2>1, <2>3, <2>4
<1>4. ASSUME NEW i \in Instances, NEW r \in running[i], HandOver(i, r)
      PROVE  Injective' /\ Apart' /\ Complete'
  <2>1. /\ UNCHANGED <<sim, pending, idx, nextIndex, finished>>
        /\ running' = [running EXCEPT ![i] = @ \ {r}]
    BY <1>4 DEF HandOver, sessionState
  <2>2. PICK d \in Instances : waiting' = [waiting EXCEPT ![d] = @ \cup {r}]
    <3>1. PICK c \in 0 .. Len(Schedulers("decode")) - 1 : Placed("decode", c, r)
      BY <1>4 DEF HandOver
    <3>2. Schedulers("decode")[c + 1] \in Instances
      BY SchedulersAreInstances DEF TypeOK, Roles
    <3> QED
      BY <3>1, <3>2 DEF Placed
  <2>3. r \in At(i) /\ r \notin waiting[i] /\ \A j \in Instances : j # i => r \notin At(j)
    BY <1>a, <1>4 DEF At
  <2>4. \A j \in Instances :
           /\ waiting'[j] = IF j = d THEN waiting[j] \cup {r} ELSE waiting[j]
           /\ running'[j] = IF j = i THEN running[j] \ {r} ELSE running[j]
    BY <2>1, <2>2 DEF TypeOK
  <2>5. \A j \in Instances : At(j)' = IF j = d THEN At(j) \cup {r}
                                      ELSE IF j = i THEN At(j) \ {r} ELSE At(j)
    BY <2>3, <2>4 DEF At
  <2>6. Apart'
    <3>1. \A j, k \in Instances : j # k => At(j)' \cap At(k)' = {}
      BY <1>a, <2>3, <2>5
    <3>2. ASSUME NEW j \in Instances PROVE waiting'[j] \cap running'[j] = {}
      <4>1. waiting[j] \cap running[j] = {} /\ (j # i => r \notin running[j])
        BY <1>a, <2>3 DEF At
      <4> QED
        BY <2>4, <4>1
    <3> QED
      BY <1>c, <2>1, <3>1, <3>2
  <2>7. AtInstances' = AtInstances
    <3>1. AtInstances' = UNION {At(j)' : j \in Instances}
      BY <1>c, <2>1 DEF AtInstances, At
    <3> QED
      BY <2>3, <2>5, <3>1, AtProperties
  <2> QED
    BY <1>a, <1>d, <1>e, <2>1, <2>6, <2>7
<1>5. ASSUME NEW i \in Instances, NEW r \in running[i], Finish(i, r)
      PROVE  Injective' /\ Apart' /\ Complete'
  <2>1. /\ UNCHANGED <<sim, idx, waiting>>
        /\ running' = [running EXCEPT ![i] = @ \ {r}]
        /\ finished' = finished \cup {r} /\ Notify(r)
    BY <1>5 DEF Finish
  <2>2. r \in At(i) /\ r \notin waiting[i] /\ \A j \in Instances : j # i => r \notin At(j)
    BY <1>a, <1>5 DEF At
  <2>3. r \in Requests /\ r[1] \in Rows /\ r \in AtInstances /\ r \notin Unrouted /\ r \notin finished
    BY <1>a, <2>2, AtProperties, RequestPairs DEF TypeOK
  <2>4. \A j \in Instances :
           /\ waiting'[j] = waiting[j]
           /\ running'[j] = IF j = i THEN running[j] \ {r} ELSE running[j]
    BY <2>1 DEF TypeOK
  <2>5. \A j \in Instances : At(j)' = IF j = i THEN At(j) \ {r} ELSE At(j)
    BY <2>2, <2>4 DEF At
  <2>6. Apart'
    <3>1. \A j, k \in Instances : j # k => At(j)' \cap At(k)' = {}
      BY <1>a, <2>5
    <3>2. \A j \in Instances : waiting'[j] \cap running'[j] = {}
      BY <1>a, <2>4
    <3> QED
      BY <1>c, <2>1, <3>1, <3>2
  <2>7. AtInstances' = AtInstances \ {r}
    <3>1. AtInstances' = UNION {At(j)' : j \in Instances}
      BY <1>c, <2>1 DEF AtInstances, At
    <3> QED
      BY <2>2, <2>5, <3>1, AtProperties
  <2>8. CASE Retires(r)
    <3>1. pending' = pending /\ nextIndex' = nextIndex
      BY <2>8 DEF Retires
    <3> QED
      BY <1>a, <1>d, <1>e, <2>1, <2>3, <2>6, <2>7, <3>1
  <2>9. CASE Releases(r)
    <3> DEFINE new == <<r[1], nextIndex[r[1]]>>
               entry == FollowUp(r)
    <3>1. entry \in Entry /\ entry.req = new
      BY <2>1, <2>3, <2>9, NotifyEffect DEF Releases, FollowUp
    <3>2. new \notin Unrouted \cup AtInstances \cup finished
      BY <2>3, ReleaseIsNew
    <3>3. pending' = Inserted(entry) /\ nextIndex' = [nextIndex EXCEPT ![r[1]] = @ + 1]
      BY <2>9 DEF Releases
    <3> HIDE DEF new, entry
    <3>4. Unrouted' = Unrouted \cup {new} /\ Injective'
      <4>1. pending \in Seq(Entry) /\ idx \in 0 .. Len(pending)
        BY DEF TypeOK
      <4> DEFINE q == Inserted(entry)
      <4>2. /\ {q[j].req : j \in idx + 1 .. Len(q)} = Unrouted \cup {new}
            /\ \A j, k \in idx + 1 .. Len(q) : q[j].req = q[k].req => j = k
        <5> HIDE DEF q
        <5> QED
          BY <1>a, <3>1, <3>2, <4>1, InsertedUnrouted DEF q
      <4> HIDE DEF q
      <4>3. pending' = q /\ idx' = idx
        BY <2>1, <3>3 DEF q
      <4> QED
        BY <4>2, <4>3 DEF Unrouted
    <3>5. AllReleased' = AllReleased \cup {new}
      BY <2>1, <2>3, <3>3, ReleasedGrows DEF new
    <3> QED
      BY <1>a, <2>1, <2>3, <2>6, <2>7, <3>2, <3>4, <3>5
  <2> QED
    BY <2>1, <2>3, <2>8, <2>9, NotifyEffect
<1> QED
  BY <1>b, <1>1, <1>2, <1>3, <1>4, <1>5 DEF Next, SomeStart, SomeEnd, Stopped, At

(* No request is lost or doubled between the pending list, the instances   *)
(* and the finished ones, for every dataset and every order of events.     *)
THEOREM RoutedOnceCorrect == Spec => []RoutedOnce
<1>1. Init => TypeOK /\ RoutedOnce
  BY TypeInit, WhereInit
<1>2. TypeOK /\ RoutedOnce /\ [Next]_vars => (TypeOK /\ RoutedOnce)'
  BY TypeStep, WhereStep
<1> QED
  BY <1>1, <1>2, PTL DEF Spec

-----------------------------------------------------------------------------
(* Sessions *)

SessionInv == OneAtATime /\ SessionsCounted

LEMMA SessionInit == Init => SessionInv
<1> SUFFICES ASSUME Init PROVE SessionInv
  OBVIOUS
<1>1. sim \in Simulations
  BY DEF Init
<1>a. \A s \in Rows : Length(s) \in Nat /\ nextIndex[s] = IF Length(s) > 0 THEN 1 ELSE 0
  BY <1>1, SimulationTypes DEF Init
<1>2. ASSUME NEW s \in Rows
      PROVE  /\ s \in deferred <=> Length(s) > 0 /\ sim.rows[s].agentic
             /\ <<s, 0>> \in owner <=> s \in deferred
             /\ finished = {}
  BY DEF Init, LoadedRows
<1>3. OneAtATime
  <2> SUFFICES ASSUME NEW s \in Rows, NEW k \in 0 .. nextIndex[s] - 1
               PROVE  /\ k < nextIndex[s] - 1 => <<s, k>> \in finished
                      /\ <<s, k>> \in owner <=> s \in deferred /\ <<s, k>> \notin finished
    BY DEF OneAtATime
  <2>1. k = 0 /\ nextIndex[s] = 1
    BY <1>a
  <2> QED
    BY <1>2, <2>1
<1>4. SessionsCounted
  <2> SUFFICES ASSUME NEW s \in Rows
               PROVE  s \in deferred
                        <=> sim.rows[s].agentic /\ ~({s} \X (0 .. Length(s) - 1) \subseteq finished)
    BY DEF SessionsCounted
  <2>1. CASE Length(s) > 0
    <3>1. 0 \in 0 .. Length(s) - 1
      BY <1>a, <2>1
    <3>2. <<s, 0>> \in {s} \X (0 .. Length(s) - 1) /\ <<s, 0>> \notin finished
      BY <1>2, <3>1
    <3> QED
      BY <1>2, <2>1, <3>2
  <2>2. CASE ~(Length(s) > 0)
    <3>1. 0 .. Length(s) - 1 = {}
      BY <1>a, <2>2
    <3> QED
      BY <1>2, <2>2, <3>1
  <2> QED
    BY <2>1, <2>2
<1> QED
  BY <1>3, <1>4 DEF SessionInv

(* What an instance holds is the request its session has released last. *)
LEMMA LastReleased ==
  ASSUME TypeOK, RoutedOnce, OneAtATime, NEW r \in AtInstances
  PROVE  /\ r \in Requests /\ r = <<r[1], r[2]>> /\ r[1] \in Rows /\ r \notin finished
         /\ Length(r[1]) \in Nat /\ nextIndex[r[1]] \in Nat
         /\ r[2] = nextIndex[r[1]] - 1 /\ r[2] \in 0 .. Length(r[1]) - 1
         /\ \A k \in 0 .. r[2] - 1 : <<r[1], k>> \in finished
         /\ r \in owner <=> r[1] \in deferred
<1>1. /\ r \in Requests /\ r = <<r[1], r[2]>> /\ r[1] \in Rows /\ sim \in Simulations
      /\ r[2] \in 0 .. Length(r[1]) - 1
  BY AtProperties, RequestPairs DEF TypeOK
<1>2. Length(r[1]) \in Nat /\ nextIndex[r[1]] \in Nat
  BY <1>1, SimulationTypes DEF TypeOK
<1>3. r \notin finished /\ r \in UNION {Released(s) : s \in Rows}
  BY DEF RoutedOnce
<1>4. r[2] \in 0 .. nextIndex[r[1]] - 1
  BY <1>1, <1>3 DEF Released
<1>5. /\ \A k \in 0 .. nextIndex[r[1]] - 1 : k < nextIndex[r[1]] - 1 => <<r[1], k>> \in finished
      /\ r \in owner <=> r[1] \in deferred
  BY <1>1, <1>3, <1>4 DEF OneAtATime
<1>6. r[2] = nextIndex[r[1]] - 1
  BY <1>1, <1>2, <1>3, <1>4, <1>5
<1>7. \A k \in 0 .. r[2] - 1 : <<r[1], k>> \in finished
  BY <1>1, <1>2, <1>5, <1>6
<1> QED
  BY <1>1, <1>2, <1>3, <1>5, <1>6, <1>7

LEMMA SessionStep == TypeOK /\ RoutedOnce /\ SessionInv /\ [Next]_vars => SessionInv'
<1> SUFFICES ASSUME TypeOK, RoutedOnce, SessionInv, [Next]_vars PROVE SessionInv'
  OBVIOUS
<1>0. OneAtATime /\ SessionsCounted
  BY DEF SessionInv
<1>1. ASSUME UNCHANGED <<sim, nextIndex, deferred, owner, finished>> PROVE SessionInv'
  BY <1>0, <1>1, SameSimulation DEF SessionInv, OneAtATime, SessionsCounted
<1>2. ASSUME NEW i \in Instances, NEW r \in running[i], Finish(i, r) PROVE SessionInv'
  <2> DEFINE s == r[1]
             k == r[2]
  <2>1. sim' = sim /\ finished' = finished \cup {r} /\ Notify(r) /\ r \in AtInstances
    BY <1>2 DEF Finish, AtInstances
  <2>2. /\ r \in Requests /\ r = <<s, k>> /\ s \in Rows /\ r \notin finished
        /\ Length(s) \in Nat /\ nextIndex[s] \in Nat
        /\ k = nextIndex[s] - 1 /\ k \in 0 .. Length(s) - 1
        /\ \A j \in 0 .. k - 1 : <<s, j>> \in finished
        /\ r \in owner <=> s \in deferred
    BY <1>0, <2>1, LastReleased
  <2>3. Releases(r) \/ Retires(r)
    BY <2>1, <2>2, NotifyEffect
  <2>4. Rows' = Rows /\ \A u : Length(u)' = Length(u)
    BY <2>1, SameSimulation
  <2> HIDE DEF s, k
  <2>5. \A u \in Rows : u # s => /\ nextIndex'[u] = nextIndex[u]
                                 /\ u \in deferred' <=> u \in deferred
                                 /\ \A j : /\ <<u, j>> \in owner' <=> <<u, j>> \in owner
                                           /\ <<u, j>> \in finished' <=> <<u, j>> \in finished
    <3>1. CASE Releases(r)
      BY <2>1, <2>2, <3>1 DEF Releases, FollowUp, TypeOK, s
    <3>2. CASE Retires(r)
      BY <2>1, <2>2, <3>2 DEF Retires, TypeOK, s
    <3> QED
      BY <2>3, <3>1, <3>2
  <2>6. ASSUME NEW j \in 0 .. nextIndex'[s] - 1
        PROVE  /\ j < nextIndex'[s] - 1 => <<s, j>> \in finished'
               /\ <<s, j>> \in owner' <=> s \in deferred' /\ <<s, j>> \notin finished'
    <3>1. \A l \in 0 .. k : <<s, l>> \in finished'
      BY <2>1, <2>2
    <3>2. \A l \in 0 .. k : <<s, l>> \in owner => <<s, l>> = r
      <4>1. \A l \in 0 .. nextIndex[s] - 1 : <<s, l>> \in owner => <<s, l>> \notin finished
        BY <1>0, <2>2 DEF OneAtATime
      <4> QED
        BY <2>2, <4>1
    <3>3. CASE Retires(r)
      <4>1. nextIndex'[s] = nextIndex[s] /\ owner' = owner \ {r}
        BY <3>3 DEF Retires
      <4>2. j \in 0 .. k
        BY <2>2, <4>1
      <4> QED
        BY <3>1, <3>2, <4>1, <4>2
    <3>4. CASE Releases(r)
      <4> DEFINE new == <<s, nextIndex[s]>>
      <4>1. /\ nextIndex'[s] = nextIndex[s] + 1 /\ owner' = (owner \ {r}) \cup {new}
            /\ s \in deferred'
        BY <2>2, <3>4 DEF Releases, FollowUp, TypeOK, s
      <4>2. new \notin finished' /\ new # r
        BY <2>1, <2>2, ReleaseIsNew
      <4>3. CASE j \in 0 .. k
        <5>1. <<s, j>> # new
          BY <2>2, <4>3
        <5> QED
          BY <3>1, <3>2, <4>1, <4>3, <5>1
      <4>4. CASE j = nextIndex[s]
        BY <2>2, <4>1, <4>2, <4>4
      <4> QED
        BY <2>2, <4>1, <4>3, <4>4
    <3> QED
      BY <2>3, <3>3, <3>4
  <2>7. OneAtATime'
    <3>1. ASSUME NEW u \in Rows, NEW j \in 0 .. nextIndex'[u] - 1
          PROVE  /\ j < nextIndex'[u] - 1 => <<u, j>> \in finished'
                 /\ <<u, j>> \in owner' <=> u \in deferred' /\ <<u, j>> \notin finished'
      <4>1. CASE u = s
        BY <2>6, <4>1
      <4>2. CASE u # s
        <5>1. nextIndex'[u] = nextIndex[u]
          BY <2>5, <4>2
        <5>2. /\ j < nextIndex[u] - 1 => <<u, j>> \in finished
              /\ <<u, j>> \in owner <=> u \in deferred /\ <<u, j>> \notin finished
          BY <1>0, <5>1 DEF OneAtATime
        <5> QED
          BY <2>5, <4>2, <5>1, <5>2
      <4> QED
        BY <4>1, <4>2
    <3> QED
      BY <2>4, <3>1 DEF OneAtATime
  <2>8. s \in deferred'
          <=> sim.rows[s].agentic /\ ~({s} \X (0 .. Length(s) - 1) \subseteq finished')
    <3>1. s \in deferred => sim.rows[s].agentic
      BY <1>0, <2>2 DEF SessionsCounted
    <3>2. CASE Releases(r)
      <4>1. s \in deferred' /\ s \in deferred /\ nextIndex[s] \in 0 .. Length(s) - 1
        BY <2>2, <3>2 DEF Releases, s
      <4>2. <<s, nextIndex[s]>> \notin finished'
        BY <2>1, <2>2, ReleaseIsNew
      <4> QED
        BY <3>1, <4>1, <4>2
    <3>3. CASE Retires(r) /\ s \in deferred
      <4>1. s \notin deferred' /\ nextIndex[s] >= Length(s)
        BY <2>2, <3>3 DEF Retires, s
      <4>2. k = Length(s) - 1
        BY <2>2, <4>1
      <4>3. ASSUME NEW j \in 0 .. Length(s) - 1 PROVE <<s, j>> \in finished'
        BY <2>1, <2>2, <4>2
      <4> QED
        BY <4>1, <4>3
    <3>4. CASE Retires(r) /\ s \notin deferred
      <4>1. s \notin deferred'
        BY <3>4 DEF Retires
      <4>2. ~sim.rows[s].agentic \/ {s} \X (0 .. Length(s) - 1) \subseteq finished
        BY <1>0, <2>2, <3>4 DEF SessionsCounted
      <4> QED
        BY <2>1, <4>1, <4>2
    <3> QED
      BY <2>3, <3>2, <3>3, <3>4
  <2>9. SessionsCounted'
    <3>1. ASSUME NEW u \in Rows
          PROVE  u \in deferred'
                   <=> sim.rows[u].agentic /\ ~({u} \X (0 .. Length(u) - 1) \subseteq finished')
      <4>1. CASE u = s
        BY <2>8, <4>1
      <4>2. CASE u # s
        <5>1. {u} \X (0 .. Length(u) - 1) \subseteq finished'
                <=> {u} \X (0 .. Length(u) - 1) \subseteq finished
          BY <2>5, <4>2
        <5> QED
          BY <1>0, <2>5, <4>2, <5>1 DEF SessionsCounted
      <4> QED
        BY <4>1, <4>2
    <3> QED
      BY <2>1, <2>4, <3>1 DEF SessionsCounted
  <2> QED
    BY <2>7, <2>9 DEF SessionInv
<1> QED
  <2>1. ASSUME NEW i \in Instances, NEW r, Start(i, r) \/ PutBack(i, r) \/ HandOver(i, r)
        PROVE  UNCHANGED <<sim, nextIndex, deferred, owner, finished>>
    BY <2>1 DEF Start, PutBack, HandOver, sessionState
  <2>2. ASSUME Report \/ RouteNext \/ RouteEnd \/ UNCHANGED vars
        PROVE  UNCHANGED <<sim, nextIndex, deferred, owner, finished>>
    BY <2>2 DEF Report, RouteNext, RouteEnd, vars, sessionState
  <2> QED
    BY <1>1, <1>2, <2>1, <2>2 DEF Next, SomeStart, SomeEnd, Stopped

RouterInv == TypeOK /\ RoutedOnce /\ SessionInv

LEMMA RouterInvariant == Spec => []RouterInv
<1>1. Init => RouterInv
  BY TypeInit, WhereInit, SessionInit DEF RouterInv
<1>2. RouterInv /\ [Next]_vars => RouterInv'
  BY TypeStep, WhereStep, SessionStep DEF RouterInv
<1> QED
  BY <1>1, <1>2, PTL DEF Spec

(* A session has one request under way, the one released last.             *)
THEOREM OneAtATimeCorrect == Spec => []OneAtATime
<1>1. RouterInv => OneAtATime
  BY DEF RouterInv, SessionInv
<1> QED
  BY <1>1, RouterInvariant, PTL

(* has_deferred_sessions is true exactly as long as a session has requests *)
(* to finish, so the main loop neither ends early nor waits for nothing.   *)
THEOREM SessionsCountedCorrect == Spec => []SessionsCounted
<1>1. RouterInv => SessionsCounted
  BY DEF RouterInv, SessionInv
<1> QED
  BY <1>1, RouterInvariant, PTL

-----------------------------------------------------------------------------
(* The router implements Sessions. *)

Open == Unrouted \cup AtInstances

LEMMA OpenRequests ==
  ASSUME RoutedOnce
  PROVE  Open = AllReleased \ finished
BY DEF RoutedOnce, Open, AllReleased

LEMMA PromiseInit == Init => Promise!Init
<1> SUFFICES ASSUME Init PROVE Promise!Init
  OBVIOUS
<1> DEFINE lengths == [s \in Rows |-> Length(s)]
<1>1. lengths \in {[s \in DOMAIN x.rows |-> Len(x.rows[s].tools)] : x \in Simulations}
  BY DEF Init, Rows, Length, Tools
<1>2. Open = {<<s, 0>> : s \in LoadedRows} /\ finished = {}
  BY FirstReleased, WhereInit, OpenRequests DEF Init
<1>3. LoadedRows = {s \in DOMAIN lengths : lengths[s] > 0}
  BY DEF LoadedRows
<1> QED
  BY <1>1, <1>2, <1>3 DEF Promise!Init, Open

(* A step is a completion of the promise when a request finishes, and      *)
(* invisible otherwise.                                                    *)
LEMMA PromiseStep ==
  RouterInv /\ RouterInv' /\ [Next]_vars => [Promise!Next]_(Promise!sessionVars)
<1> SUFFICES ASSUME RouterInv, RouterInv', [Next]_vars
             PROVE  [Promise!Next]_(Promise!sessionVars)
  OBVIOUS
<1> DEFINE lengths == [s \in Rows |-> Length(s)]
<1>1. Open = AllReleased \ finished /\ Open' = AllReleased' \ finished'
  BY OpenRequests DEF RouterInv, RoutedOnce, Open, AllReleased
<1>2. TypeOK /\ RoutedOnce /\ OneAtATime /\ SessionsCounted
  BY DEF RouterInv, SessionInv
<1>3. ASSUME sim' = sim PROVE lengths' = lengths
  BY <1>3, SameSimulation
<1>4. ASSUME UNCHANGED <<sim, nextIndex, finished>> PROVE UNCHANGED Promise!sessionVars
  <2>1. AllReleased' = AllReleased
    BY <1>4, SameSimulation DEF AllReleased, Released
  <2>2. Open' = Open
    BY <1>1, <1>4, <2>1
  <2> QED
    BY <1>3, <1>4, <2>2 DEF Promise!sessionVars, Open
<1>5. ASSUME NEW i \in Instances, NEW r \in running[i], Finish(i, r)
      PROVE  Promise!Next
  <2> DEFINE s == r[1]
             k == r[2]
  <2>1. sim' = sim /\ finished' = finished \cup {r} /\ Notify(r) /\ r \in AtInstances
    BY <1>5 DEF Finish, AtInstances
  <2>2. /\ r \in Requests /\ r = <<s, k>> /\ s \in Rows /\ r \notin finished
        /\ Length(s) \in Nat /\ nextIndex[s] \in Nat
        /\ k = nextIndex[s] - 1 /\ k \in 0 .. Length(s) - 1
        /\ r \in owner <=> s \in deferred
    BY <1>2, <2>1, LastReleased
  <2>3. Releases(r) \/ Retires(r)
    BY <1>2, <2>1, <2>2, NotifyEffect
  <2> HIDE DEF s, k
  <2> DEFINE chain == {s} \X (0 .. Length(s) - 1)
  <2>4. Open' = (Open \ {r}) \cup ({<<s, k + 1>>} \cap chain)
    <3>1. CASE Releases(r)
      <4>1. nextIndex' = [nextIndex EXCEPT ![s] = @ + 1] /\ nextIndex[s] < Length(s)
        BY <3>1 DEF Releases, s
      <4>2. AllReleased' = AllReleased \cup {<<s, nextIndex[s]>>}
        BY <1>2, <2>1, <2>2, <4>1, ReleasedGrows
      <4>3. <<s, nextIndex[s]>> \notin finished /\ <<s, nextIndex[s]>> # r
        BY <1>2, <2>1, <2>2, ReleaseIsNew
      <4>4. k + 1 = nextIndex[s] /\ <<s, nextIndex[s]>> \in chain
        BY <2>2, <4>1
      <4> QED
        BY <1>1, <2>1, <4>2, <4>3, <4>4
    <3>2. CASE Retires(r)
      <4>1. AllReleased' = AllReleased
        BY <2>1, <3>2, SameSimulation DEF Retires, AllReleased, Released
      <4>2. Length(s) <= k + 1
        <5>1. CASE s \in deferred
          BY <2>2, <3>2, <5>1 DEF Retires, s
        <5>2. CASE s \notin deferred /\ ~sim.rows[s].agentic
          <6>1. Length(s) = 1
            BY <1>2, <2>2, <5>2, SimulationTypes DEF TypeOK
          <6> QED
            BY <2>2, <6>1
        <5>3. CASE s \notin deferred /\ sim.rows[s].agentic
          <6>1. {s} \X (0 .. Length(s) - 1) \subseteq finished
            BY <1>2, <2>2, <5>3 DEF SessionsCounted
          <6> QED
            BY <2>2, <6>1
        <5> QED
          BY <5>1, <5>2, <5>3
      <4>3. <<s, k + 1>> \notin chain
        BY <2>2, <4>2
      <4> QED
        BY <1>1, <2>1, <4>1, <4>3
    <3> QED
      BY <2>3, <3>1, <3>2
  <2>5. Promise!Chain(s) = chain
    BY <2>2 DEF Promise!Chain
  <2>6. r \in Open
    BY <2>1 DEF Open
  <2>7. lengths' = lengths
    BY <1>3, <2>1
  <2>8. Promise!Complete(s, k)
    BY <2>1, <2>2, <2>4, <2>5, <2>6, <2>7 DEF Promise!Complete, Open
  <2>9. s \in DOMAIN lengths /\ k \in 0 .. lengths[s] - 1
    BY <2>2
  <2> QED
    BY <2>8, <2>9 DEF Promise!Next
<1> QED
  <2>1. ASSUME NEW i \in Instances, NEW r, Start(i, r) \/ PutBack(i, r) \/ HandOver(i, r)
        PROVE  UNCHANGED <<sim, nextIndex, finished>>
    BY <2>1 DEF Start, PutBack, HandOver, sessionState
  <2>2. ASSUME Report \/ RouteNext \/ RouteEnd \/ UNCHANGED vars
        PROVE  UNCHANGED <<sim, nextIndex, finished>>
    BY <2>2 DEF Report, RouteNext, RouteEnd, vars, sessionState
  <2> QED
    BY <1>4, <1>5, <2>1, <2>2 DEF Next, SomeStart, SomeEnd, Stopped

(* The router implements Sessions: a request is open from its release to   *)
(* its end, completes once, and the next of its session opens with that.   *)
THEOREM ImplementsSessions == Spec => KeepsPromise
<1>1. Init => Promise!Init
  BY PromiseInit
<1>2. RouterInv /\ RouterInv' /\ [Next]_vars => [Promise!Next]_(Promise!sessionVars)
  BY PromiseStep
<1> QED
  BY <1>1, <1>2, RouterInvariant, PTL DEF Spec, KeepsPromise, Promise!Spec

-----------------------------------------------------------------------------
(* The pending list *)

ByArrival(q) == \A i, j \in DOMAIN q : i < j => q[i].arrival <= q[j].arrival
PastArrived == \A i \in 1 .. idx : pending[i].arrival <= now
SortedInv == ~sim.preRouted => ByArrival(pending) /\ PastArrived

LEMMA ArrivalTypes ==
  ASSUME pending \in Seq(Entry)
  PROVE  Len(pending) \in Nat /\ \A i \in 1 .. Len(pending) : pending[i].arrival \in Nat
<1>1. \A i \in 1 .. Len(pending) : pending[i] \in Entry
  BY ElementOfSeq
<1> QED
  BY <1>1 DEF Entry

(* The binary search finds the place: in a sorted list what arrives no     *)
(* later than the entry is a prefix of what is not routed yet.             *)
LEMMA InsertionPoint ==
  ASSUME pending \in Seq(Entry), idx \in 0 .. Len(pending), NEW entry \in Entry, ByArrival(pending)
  PROVE  LET lo == idx + Cardinality(Later(entry))
         IN  \A i \in idx + 1 .. Len(pending) : i <= lo <=> pending[i].arrival <= entry.arrival
<1> DEFINE K == Later(entry)
           n == Cardinality(K)
<1>a. IsFiniteSet(K) /\ n \in 0 .. Len(pending) - idx
  BY LaterSize
<1>b. idx \in Nat /\ Len(pending) \in Nat
  BY ArrivalTypes
<1>1. /\ IsFiniteSet(K) /\ n \in Nat /\ idx \in Nat /\ Len(pending) \in Nat
      /\ K \subseteq idx + 1 .. Len(pending)
  <2>1. K \subseteq idx + 1 .. Len(pending)
    BY DEF Later
  <2> HIDE DEF K
  <2> QED
    BY <1>a, <1>b, <2>1
<1>2. \A i \in idx + 1 .. Len(pending) : i \in K <=> pending[i].arrival <= entry.arrival
  BY DEF Later
<1>3. ASSUME NEW i \in K, NEW j \in idx + 1 .. i PROVE j \in K
  <2>1. i \in 1 .. Len(pending) /\ j \in 1 .. Len(pending) /\ j \in idx + 1 .. Len(pending) /\ j <= i
    BY <1>1
  <2>2. pending[i] \in Entry /\ pending[j] \in Entry
    BY <2>1, ElementOfSeq
  <2>3. pending[j].arrival <= pending[i].arrival
    BY <2>1, <2>2 DEF ByArrival, Entry
  <2>4. pending[i].arrival <= entry.arrival
    BY <1>1, <1>2
  <2> QED
    BY <1>2, <2>1, <2>2, <2>3, <2>4 DEF Entry
<1> HIDE DEF K
<1>4. ASSUME NEW m \in Int, m >= idx
      PROVE  IsFiniteSet(idx + 1 .. m) /\ Cardinality(idx + 1 .. m) = m - idx
  <2> DEFINE a == idx + 1
  <2>1. a \in Int
    BY <1>1
  <2>2. IsFiniteSet(a .. m) /\ Cardinality(a .. m) = IF a > m THEN 0 ELSE m - a + 1
    <3> HIDE DEF a
    <3> QED
      BY <2>1, FS_Interval
  <2> QED
    BY <1>1, <1>4, <2>2
<1>5. ASSUME NEW i \in idx + 1 .. Len(pending), i <= idx + n, i \notin K PROVE FALSE
  <2>1. K \subseteq idx + 1 .. i - 1
    <3>1. ASSUME NEW j \in K, j >= i PROVE FALSE
      BY <1>1, <1>3, <1>5, <3>1
    <3> QED
      BY <1>1, <3>1
  <2>2. i - 1 \in Int /\ i - 1 >= idx
    BY <1>1
  <2>3. n <= i - 1 - idx
    <3> DEFINE m == i - 1
    <3>1. IsFiniteSet(idx + 1 .. m) /\ Cardinality(idx + 1 .. m) = m - idx /\ K \in SUBSET (idx + 1 .. m)
      BY <1>4, <2>1, <2>2
    <3> HIDE DEF m
    <3>2. n <= m - idx
      BY <3>1, FS_Subset
    <3> QED
      BY <3>2 DEF m
  <2> QED
    BY <1>1, <1>5, <2>3
<1>6. ASSUME NEW i \in idx + 1 .. Len(pending), i > idx + n, i \in K PROVE FALSE
  <2>1. idx + 1 .. i \in SUBSET K
    BY <1>3, <1>6
  <2>2. i \in Int /\ i >= idx
    BY <1>1
  <2>3. Cardinality(idx + 1 .. i) = i - idx
    BY <1>4, <2>2
  <2>4. Cardinality(idx + 1 .. i) <= n
    BY <1>1, <2>1, FS_Subset
  <2> QED
    BY <1>1, <1>6, <2>3, <2>4
<1>7. \A i \in idx + 1 .. Len(pending) : i <= idx + n <=> i \in K
  BY <1>1, <1>5, <1>6
<1> QED
  BY <1>2, <1>7 DEF K

LEMMA InsertedSorted ==
  ASSUME pending \in Seq(Entry), idx \in 0 .. Len(pending), NEW entry \in Entry, ByArrival(pending),
         \A i \in 1 .. idx : pending[i].arrival <= entry.arrival
  PROVE  ByArrival(Inserted(entry))
<1> DEFINE lo == idx + Cardinality(Later(entry))
           q  == Inserted(entry)
<1>1. /\ lo \in idx .. Len(pending)
      /\ q \in Seq(Entry) /\ Len(q) = Len(pending) + 1
      /\ \A i \in 1 .. Len(q) : q[i] = IF i <= lo THEN pending[i]
                                       ELSE IF i = lo + 1 THEN entry ELSE pending[i - 1]
  BY InsertedProperties
<1>2. \A i \in idx + 1 .. Len(pending) : i <= lo <=> pending[i].arrival <= entry.arrival
  BY InsertionPoint
<1>3. Len(pending) \in Nat /\ idx \in Nat /\ idx <= Len(pending) /\ entry.arrival \in Nat
  BY DEF Entry
<1>4. \A i \in 1 .. Len(pending) : pending[i].arrival \in Nat
  BY ArrivalTypes
<1>5. \A i, j \in 1 .. Len(pending) : i <= j => pending[i].arrival <= pending[j].arrival
  BY <1>3, <1>4 DEF ByArrival
<1> HIDE DEF lo, q
<1>6. \A i \in 1 .. Len(pending) : IF i <= lo THEN pending[i].arrival <= entry.arrival
                                              ELSE entry.arrival <= pending[i].arrival
  BY <1>1, <1>2, <1>3, <1>4
<1>7. ASSUME NEW i \in 1 .. Len(q), NEW j \in 1 .. Len(q), i < j
      PROVE  q[i].arrival <= q[j].arrival
  <2>1. CASE j <= lo
    <3>1. i \in 1 .. Len(pending) /\ j \in 1 .. Len(pending) /\ q[i] = pending[i] /\ q[j] = pending[j]
      BY <1>1, <1>3, <1>7, <2>1
    <3> QED
      BY <1>5, <1>7, <3>1
  <2>2. CASE j = lo + 1
    <3>1. i \in 1 .. Len(pending) /\ i <= lo /\ q[i] = pending[i] /\ q[j] = entry
      BY <1>1, <1>3, <1>7, <2>2
    <3> QED
      BY <1>6, <3>1
  <2>3. CASE j > lo + 1
    <3>1. j - 1 \in 1 .. Len(pending) /\ ~(j - 1 <= lo) /\ q[j] = pending[j - 1]
      BY <1>1, <1>3, <2>3
    <3>2. CASE i <= lo
      <4>1. i \in 1 .. Len(pending) /\ i <= j - 1 /\ q[i] = pending[i]
        BY <1>1, <1>3, <1>7, <3>2
      <4> QED
        BY <1>5, <3>1, <4>1
    <3>3. CASE i = lo + 1
      <4>1. q[i] = entry
        BY <1>1, <1>3, <3>3
      <4> QED
        BY <1>6, <3>1, <4>1
    <3>4. CASE i > lo + 1
      <4>1. i - 1 \in 1 .. Len(pending) /\ i - 1 <= j - 1 /\ q[i] = pending[i - 1]
        BY <1>1, <1>3, <1>7, <3>4
      <4> QED
        BY <1>5, <3>1, <4>1
    <3> QED
      BY <1>1, <1>3, <3>2, <3>3, <3>4
  <2> QED
    BY <1>1, <1>3, <2>1, <2>2, <2>3
<1> QED
  BY <1>1, <1>7 DEF ByArrival, q

LEMMA SortedInit == Init => SortedInv
<1> SUFFICES ASSUME Init PROVE ByArrival(pending) /\ PastArrived
  BY DEF SortedInv
<1>1. TypeOK
  BY TypeInit
<1>2. PICK p \in Arrangements(LoadedRows) :
        /\ Loads(p)
        /\ pending = [i \in DOMAIN p |-> [req |-> <<p[i], 0>>, arrival |-> sim.rows[p[i]].arrival]]
  BY DEF Init
<1>3. DOMAIN pending = DOMAIN p /\ \A i \in DOMAIN p : pending[i].arrival = sim.rows[p[i]].arrival
  BY <1>2
<1>4. \A i \in DOMAIN p : pending[i].arrival \in Nat
  <2>1. pending \in Seq(Entry) /\ DOMAIN pending = 1 .. Len(pending)
    BY <1>1 DEF TypeOK
  <2> QED
    BY <1>3, <2>1, ArrivalTypes
<1>5. ByArrival(pending)
  BY <1>2, <1>3, <1>4 DEF Loads, ByArrival
<1>6. PastArrived
  BY DEF PastArrived, Init
<1> QED
  BY <1>5, <1>6

(* With everything routed beforehand there is nothing to show. *)
LEMMA SortedStep == TypeOK /\ SortedInv /\ [Next]_vars => SortedInv'
<1> SUFFICES ASSUME TypeOK, SortedInv, [Next]_vars, sim' = sim => ~sim.preRouted
             PROVE  sim' = sim /\ ByArrival(pending)' /\ PastArrived'
  BY DEF SortedInv
<1>1. /\ pending \in Seq(Entry) /\ idx \in Nat /\ Len(pending) \in Nat /\ now \in Nat
      /\ \A i \in 1 .. Len(pending) : pending[i].arrival \in Nat
      /\ idx \in 0 .. Len(pending)
  <2>1. pending \in Seq(Entry) /\ now \in Nat /\ idx \in 0 .. Len(pending)
    BY DEF TypeOK
  <2> QED
    BY <2>1, ArrivalTypes
<1>2. CASE UNCHANGED <<sim, pending, idx, now>>
  BY <1>2 DEF SortedInv, ByArrival, PastArrived
<1>3. CASE Report
  <2>1. UNCHANGED <<sim, pending, idx>> /\ now' \in Nat /\ now' >= now
    BY <1>1, <1>3 DEF Report
  <2> QED
    BY <1>1, <2>1 DEF SortedInv, ByArrival, PastArrived
<1>4. CASE RouteNext
  <2>1. UNCHANGED <<sim, pending, now>> /\ idx' = idx + 1 /\ Arrived
    BY <1>4 DEF RouteNext
  <2>2. pending[idx + 1].arrival <= now
    BY <2>1 DEF Arrived
  <2>3. ByArrival(pending) /\ PastArrived
    BY <2>1 DEF SortedInv
  <2>4. \A i \in 1 .. idx + 1 : i \in 1 .. idx \/ i = idx + 1
    BY <1>1
  <2> QED
    BY <2>1, <2>2, <2>3, <2>4 DEF ByArrival, PastArrived
<1>5. ASSUME NEW i \in Instances, NEW r \in running[i], Finish(i, r)
      PROVE  sim' = sim /\ ByArrival(pending)' /\ PastArrived'
  <2>1. UNCHANGED <<sim, now, idx>> /\ Notify(r) /\ r \in Requests
    BY <1>5 DEF Finish, TypeOK
  <2>2. ByArrival(pending) /\ PastArrived
    BY <2>1 DEF SortedInv
  <2>3. CASE Retires(r)
    BY <2>1, <2>2, <2>3 DEF Retires, ByArrival, PastArrived
  <2>4. CASE Releases(r)
    <3> DEFINE entry == FollowUp(r)
    <3>1. entry \in Entry /\ entry.arrival \in Nat /\ entry.arrival >= now /\ pending' = Inserted(entry)
      BY <2>1, <2>4, NotifyEffect DEF Releases
    <3> HIDE DEF entry
    <3>2. \A j \in 1 .. idx : pending[j].arrival <= entry.arrival
      <4>1. \A j \in 1 .. idx : j \in 1 .. Len(pending)
        BY <1>1
      <4> QED
        BY <1>1, <2>2, <3>1, <4>1 DEF PastArrived
    <3>3. ByArrival(pending)'
      BY <1>1, <2>2, <3>1, <3>2, InsertedSorted DEF ByArrival
    <3>4. \A j \in 1 .. idx : pending'[j] = pending[j]
      BY <1>1, <3>1, InsertedUnrouted
    <3> QED
      BY <2>1, <2>2, <3>3, <3>4 DEF PastArrived
  <2> QED
    BY <2>1, <2>3, <2>4, NotifyEffect
<1> QED
  <2>1. ASSUME NEW i \in Instances, NEW r, Start(i, r) \/ PutBack(i, r) \/ HandOver(i, r)
        PROVE  UNCHANGED <<sim, pending, idx, now>>
    BY <2>1 DEF Start, PutBack, HandOver
  <2>2. ASSUME RouteEnd \/ UNCHANGED vars PROVE UNCHANGED <<sim, pending, idx, now>>
    BY <2>2 DEF RouteEnd, vars
  <2> QED
    BY <1>2, <1>3, <1>4, <1>5, <2>1, <2>2 DEF Next, SomeStart, SomeEnd, Stopped

(* The pending list stays sorted while follow-ups are inserted into it,    *)
(* as the binary search and the end of the routing loop require.           *)
THEOREM PendingSortedCorrect == Spec => []PendingSorted
<1>1. Init => TypeOK /\ SortedInv
  BY TypeInit, SortedInit
<1>2. (TypeOK /\ SortedInv) /\ [Next]_vars => (TypeOK /\ SortedInv)'
  BY TypeStep, SortedStep
<1>3. TypeOK /\ SortedInv => PendingSorted
  BY DEF SortedInv, ByArrival, PendingSorted
<1> QED
  BY <1>1, <1>2, <1>3, PTL DEF Spec

-----------------------------------------------------------------------------
(* Round robin *)

(* What has been given to an instance is with one or finished. *)
Dealt == AtInstances \cup finished
PlacedInv == \A r \in Requests : instance[r] # 0 => r \in Dealt

LEMMA PlacedInit == Init => PlacedInv
BY DEF Init, PlacedInv

(* A step of Next gives away at most the request it routes or hands over.  *)
LEMMA PlacedStep == TypeOK /\ PlacedInv /\ [Next]_vars => PlacedInv'
<1> SUFFICES ASSUME TypeOK, PlacedInv, [Next]_vars PROVE PlacedInv'
  OBVIOUS
<1>1. ASSUME UNCHANGED <<sim, instance>>, Dealt \subseteq Dealt' PROVE PlacedInv'
  BY <1>1, SameSimulation DEF PlacedInv
<1>2. \A r : r \in Dealt <=> r \in finished \/ \E i \in Instances : r \in At(i)
  BY AtProperties DEF Dealt
<1>3. ASSUME sim' = sim
      PROVE  \A r : r \in Dealt' <=> r \in finished' \/ \E i \in Instances : r \in At(i)'
  BY <1>3, SameSimulation DEF Dealt, AtInstances, At
<1> HIDE DEF Dealt
<1>4. ASSUME NEW role \in Roles, NEW c \in 0 .. Len(Schedulers(role)) - 1, NEW r \in Requests,
             Placed(role, c, r), UNCHANGED <<sim, finished>>,
             \A i \in Instances : running[i] \subseteq running'[i] \cup {r}
      PROVE  PlacedInv'
  <2>1. PICK d \in Instances : /\ waiting' = [waiting EXCEPT ![d] = @ \cup {r}]
                               /\ instance' = [instance EXCEPT ![r] = d]
    BY <1>4, SchedulersAreInstances DEF Placed, TypeOK
  <2>2. r \in At(d)' /\ \A i \in Instances : At(i) \subseteq At(i)' \cup {r}
    BY <1>4, <2>1 DEF At, TypeOK
  <2>3. Dealt \subseteq Dealt' /\ r \in Dealt'
    BY <1>2, <1>3, <1>4, <2>2
  <2>4. \A q \in Requests : q # r => instance'[q] = instance[q]
    BY <2>1 DEF TypeOK
  <2> QED
    BY <1>4, <2>3, <2>4, SameSimulation DEF PlacedInv
<1>5. ASSUME Report \/ RouteEnd \/ UNCHANGED vars PROVE PlacedInv'
  <2>1. UNCHANGED <<sim, instance, waiting, running, finished>>
    BY <1>5 DEF Report, RouteEnd, vars, queues
  <2>2. Dealt' = Dealt
    BY <2>1, SameSimulation DEF Dealt, AtInstances
  <2> QED
    BY <1>1, <2>1, <2>2
<1>6. ASSUME RouteNext PROVE PlacedInv'
  <2>1. /\ pending[idx + 1].req \in Requests
        /\ UNCHANGED <<sim, finished, running>>
    <3>1. idx + 1 \in 1 .. Len(pending) /\ pending \in Seq(Entry)
      BY <1>6 DEF RouteNext, Arrived, TypeOK
    <3>2. pending[idx + 1] \in Entry
      BY <3>1, ElementOfSeq
    <3> QED
      BY <1>6, <3>2 DEF RouteNext, Entry
  <2>2. PICK c \in 0 .. Len(Schedulers("prefill")) - 1 : Placed("prefill", c, pending[idx + 1].req)
    BY <1>6 DEF RouteNext
  <2> QED
    BY <1>4, <2>1, <2>2 DEF Roles
<1>7. ASSUME NEW i \in Instances, NEW r \in running[i], HandOver(i, r) PROVE PlacedInv'
  <2>1. /\ r \in Requests /\ UNCHANGED <<sim, finished>>
        /\ running' = [running EXCEPT ![i] = @ \ {r}]
    BY <1>7 DEF HandOver, TypeOK
  <2>2. PICK c \in 0 .. Len(Schedulers("decode")) - 1 : Placed("decode", c, r)
    BY <1>7 DEF HandOver
  <2>3. \A j \in Instances : running[j] \subseteq running'[j] \cup {r}
    BY <2>1 DEF TypeOK
  <2> QED
    BY <1>4, <2>1, <2>2, <2>3 DEF Roles
<1>8. ASSUME NEW i \in Instances, NEW r \in At(i), Start(i, r) \/ PutBack(i, r) \/ Finish(i, r)
      PROVE  PlacedInv'
  <2>1. /\ UNCHANGED <<sim, instance>> /\ finished \subseteq finished'
        /\ \A j \in Instances : At(j) \subseteq At(j)' \cup finished'
    <3>1. CASE Start(i, r)
      BY <3>1 DEF Start, At, TypeOK
    <3>2. CASE PutBack(i, r)
      BY <3>2 DEF PutBack, At, TypeOK
    <3>3. CASE Finish(i, r)
      BY <3>3 DEF Finish, At, TypeOK
    <3> QED
      BY <1>8, <3>1, <3>2, <3>3
  <2>2. Dealt \subseteq Dealt'
    BY <1>2, <1>3, <2>1
  <2> QED
    BY <1>1, <2>1, <2>2
<1> QED
  BY <1>5, <1>6, <1>7, <1>8 DEF Next, SomeStart, SomeEnd, Stopped, At

(* Without prefill and decode instances, round robin deals to all of them  *)
(* in turn: after k rounds the first ones, up to the counter, have k + 1.  *)
OneKind == sim.policy = "RR" /\ \A i \in Instances : sim.pdType[i] = "none"
Share(i) == IsFiniteSet(Assigned(i)) /\ Cardinality(Assigned(i)) \in Nat
DealtUpTo(k) ==
  \A i \in Instances : Cardinality(Assigned(i)) = IF i <= rr["prefill"] THEN k + 1 ELSE k
EvenInv ==
  OneKind => /\ rr["prefill"] \in 0 .. Len(sim.pdType)
             /\ \A i \in Instances : Share(i)
             /\ \E k \in Nat : DealtUpTo(k)

LEMMA AllSchedulers ==
  ASSUME sim \in Simulations, OneKind
  PROVE  /\ Len(Schedulers("prefill")) = Len(sim.pdType)
         /\ \A i \in Instances : Schedulers("prefill")[i] = i
<1> DEFINE all == [i \in Instances |-> i]
           S == {i \in Instances : sim.pdType[i] = "decode" <=> "prefill" = "decode"}
           n == Len(sim.pdType)
<1>1. Instances = 1 .. n /\ n \in Nat
  BY SimulationTypes
<1>2. all \in Seq(Instances) /\ Len(all) = n /\ \A i \in 1 .. n : all[i] = i
  BY <1>1
<1>3. Items(all) \subseteq S
  BY DEF Items, OneKind
<1>4. Schedulers("prefill") = Keep(all, S)
  BY DEF Schedulers
<1> HIDE DEF all, S
<1>5. Len(Keep(all, S)) = Len(all) /\ \A i \in 1 .. Len(all) : Keep(all, S)[i] = all[i]
  BY <1>2, <1>3, KeepAll
<1> QED
  BY <1>1, <1>2, <1>4, <1>5

LEMMA EvenInit == Init => EvenInv
<1> SUFFICES ASSUME Init PROVE EvenInv
  OBVIOUS
<1>1. sim \in Simulations /\ Len(sim.pdType) \in Nat /\ Instances = 1 .. Len(sim.pdType)
  BY SimulationTypes DEF Init
<1>2. rr["prefill"] = 0
  BY DEF Init, Roles
<1>3. \A i \in Instances : Assigned(i) = {}
  BY <1>1 DEF Init, Assigned
<1>4. \A i \in Instances : Share(i) /\ Cardinality(Assigned(i)) = 0
  BY <1>3, FS_EmptySet DEF Share
<1>5. DealtUpTo(0)
  BY <1>1, <1>2, <1>4 DEF DealtUpTo
<1> QED
  BY <1>1, <1>2, <1>4, <1>5 DEF EvenInv

(* The next request goes to the instance behind the last one that got one. *)
LEMMA EvenRoute ==
  ASSUME TypeOK, RoutedOnce, PlacedInv, EvenInv, OneKind, RouteNext
  PROVE  EvenInv'
<1> DEFINE n == Len(sim.pdType)
           r == pending[idx + 1].req
           c == rr["prefill"] % n
           d == c + 1
<1>1. sim \in Simulations /\ n \in Nat /\ Instances = 1 .. n /\ sim' = sim /\ rr \in [Roles -> Nat]
  BY SimulationTypes DEF TypeOK, RouteNext
<1>2. /\ Len(Schedulers("prefill")) = n
      /\ \A i \in Instances : Schedulers("prefill")[i] = i
  BY <1>1, AllSchedulers
<1>3. sim.policy = "RR"
  BY DEF OneKind
<1>4. /\ n # 0 /\ c \in 0 .. n - 1
      /\ Selects("prefill", c) /\ Placed("prefill", c, r)
  <2>1. PICK b \in 0 .. Len(Schedulers("prefill")) - 1 : Selects("prefill", b) /\ Placed("prefill", b, r)
    BY <1>3 DEF RouteNext
  <2>2. b = rr["prefill"] % Len(Schedulers("prefill"))
    BY <1>3, <2>1 DEF Selects
  <2> HIDE DEF n
  <2>3. b = c /\ b \in 0 .. n - 1 /\ n # 0
    BY <1>1, <1>2, <2>1, <2>2
  <2> QED
    BY <2>1, <2>3
<1>5. rr' = [rr EXCEPT !["prefill"] = c + 1]
  BY <1>2, <1>3, <1>4 DEF Selects
<1>6. rr["prefill"] \in 0 .. n /\ \A i \in Instances : Share(i)
  BY DEF EvenInv
<1>7. PICK k \in Nat : DealtUpTo(k)
  BY DEF EvenInv
<1>8. rr'["prefill"] = d /\ d \in Instances /\ d \in 1 .. n
  BY <1>1, <1>4, <1>5 DEF Roles
<1>9. c = IF rr["prefill"] = n THEN 0 ELSE rr["prefill"]
  <2> HIDE DEF n
  <2> QED
    BY <1>1, <1>4, <1>6
<1>10. r \in Requests /\ instance[r] = 0
  <2>1. idx + 1 \in idx + 1 .. Len(pending) /\ idx + 1 \in 1 .. Len(pending) /\ pending \in Seq(Entry)
    BY DEF RouteNext, Arrived, TypeOK
  <2>2. pending[idx + 1] \in Entry
    BY <2>1, ElementOfSeq
  <2>3. r \in Requests /\ r \in Unrouted
    BY <2>1, <2>2 DEF Entry, Unrouted
  <2>4. r \notin Dealt
    BY <2>3 DEF RoutedOnce, Dealt
  <2> QED
    BY <2>3, <2>4 DEF PlacedInv
<1>11. instance' = [instance EXCEPT ![r] = d]
  <2>1. Schedulers("prefill")[c + 1] = d
    BY <1>2, <1>8
  <2> QED
    BY <1>4, <2>1 DEF Placed
<1>12. Instances' = Instances /\ Requests' = Requests /\ Len(sim.pdType)' = n
  BY <1>1, SameSimulation
<1> HIDE DEF n, r, c, d
<1>13. ASSUME NEW i \in Instances
       PROVE  Assigned(i)' = IF i = d THEN Assigned(i) \cup {r} ELSE Assigned(i)
  <2>1. i # 0 /\ instance \in [Requests -> Instances \cup {0}]
    BY <1>1 DEF TypeOK
  <2> QED
    BY <1>10, <1>11, <1>12, <2>1 DEF Assigned
<1>14. ASSUME NEW i \in Instances
       PROVE  /\ Share(i)'
              /\ Cardinality(Assigned(i))' = Cardinality(Assigned(i)) + IF i = d THEN 1 ELSE 0
  <2>1. IsFiniteSet(Assigned(i)) /\ Cardinality(Assigned(i)) \in Nat
    BY <1>6 DEF Share
  <2>2. r \notin Assigned(i)
    BY <1>1, <1>10 DEF Assigned
  <2>3. CASE i = d
    <3> DEFINE A == Assigned(i)
    <3>1. IsFiniteSet(A \cup {r}) /\ Cardinality(A \cup {r}) = Cardinality(A) + 1
      <4> HIDE DEF A
      <4>1. IsFiniteSet(A) /\ r \notin A
        BY <2>1, <2>2 DEF A
      <4> QED
        BY <4>1, FS_AddElement
    <3>2. Assigned(i)' = A \cup {r}
      BY <1>13, <2>3
    <3> HIDE DEF A
    <3>3. Cardinality(A) \in Nat
      BY <2>1 DEF A
    <3>4. Cardinality(Assigned(i))' = Cardinality(A) + 1 /\ IsFiniteSet(Assigned(i))'
      BY <3>1, <3>2
    <3> QED
      BY <2>3, <3>3, <3>4 DEF Share, A
  <2>4. CASE i # d
    <3>1. Assigned(i)' = Assigned(i)
      BY <1>13, <2>4
    <3> QED
      BY <2>1, <2>4, <3>1 DEF Share
  <2> QED
    BY <2>3, <2>4
<1>15. ASSUME NEW i \in Instances
       PROVE  Cardinality(Assigned(i)) = IF i <= rr["prefill"] THEN k + 1 ELSE k
  BY <1>7 DEF DealtUpTo
<1>16. \E m \in Nat : DealtUpTo(m)'
  <2>1. CASE rr["prefill"] = n
    <3>1. \A i \in Instances : /\ Cardinality(Assigned(i))' = k + 1 + IF i = d THEN 1 ELSE 0
                               /\ i <= d <=> i = d
      BY <1>1, <1>4, <1>9, <1>14, <1>15, <2>1 DEF d
    <3>2. DealtUpTo(k + 1)'
      BY <1>8, <1>12, <3>1 DEF DealtUpTo
    <3> QED
      BY <3>2
  <2>2. CASE rr["prefill"] # n
    <3>1. d = rr["prefill"] + 1
      BY <1>9, <2>2 DEF d
    <3>2. \A i \in Instances : Cardinality(Assigned(i))' = IF i <= d THEN k + 1 ELSE k
      BY <1>1, <1>6, <1>14, <1>15, <3>1
    <3>3. DealtUpTo(k)'
      BY <1>8, <1>12, <3>2 DEF DealtUpTo
    <3> QED
      BY <3>3
  <2> QED
    BY <2>1, <2>2
<1>17. rr'["prefill"] \in 0 .. n /\ \A i \in Instances : Share(i)'
  BY <1>1, <1>8, <1>14
<1> QED
  BY <1>12, <1>16, <1>17 DEF EvenInv

LEMMA EvenStep == TypeOK /\ RoutedOnce /\ PlacedInv /\ EvenInv /\ [Next]_vars => EvenInv'
<1> SUFFICES ASSUME TypeOK, RoutedOnce, PlacedInv, EvenInv, [Next]_vars, OneKind'
             PROVE  EvenInv'
  BY DEF EvenInv
<1>1. ASSUME UNCHANGED <<sim, rr, instance>> PROVE EvenInv'
  <2>1. Instances' = Instances /\ Requests' = Requests
    BY <1>1, SameSimulation
  <2>2. \A i : Assigned(i)' = Assigned(i)
    BY <1>1, <2>1 DEF Assigned
  <2> QED
    BY <1>1, <2>1, <2>2 DEF EvenInv, OneKind, Share, DealtUpTo
<1>2. ASSUME RouteNext PROVE EvenInv'
  <2>1. OneKind
    BY <1>2 DEF RouteNext, OneKind, Instances
  <2> QED
    BY <1>2, <2>1, EvenRoute
<1>3. ASSUME NEW i \in Instances, NEW r, HandOver(i, r) PROVE FALSE
  <2>1. sim' = sim /\ sim.pdType[i] = "prefill"
    BY <1>3 DEF HandOver
  <2>2. sim.pdType[i] = "none"
    BY <2>1 DEF OneKind, Instances
  <2> QED
    BY <2>1, <2>2
<1>4. ASSUME NEW i \in Instances, NEW r, Start(i, r) \/ PutBack(i, r) \/ Finish(i, r)
      PROVE  UNCHANGED <<sim, rr, instance>>
  BY <1>4 DEF Start, PutBack, Finish
<1>5. ASSUME Report \/ RouteEnd \/ UNCHANGED vars PROVE UNCHANGED <<sim, rr, instance>>
  BY <1>5 DEF Report, RouteEnd, vars
<1> QED
  BY <1>1, <1>2, <1>3, <1>4, <1>5 DEF Next, SomeStart, SomeEnd, Stopped

(* Round robin gives the instances the same number of requests, give or    *)
(* take one, for any number of instances and requests.                     *)
THEOREM RoundRobinEvenCorrect == Spec => []RoundRobinEven
<1> DEFINE Inv == TypeOK /\ RoutedOnce /\ PlacedInv /\ EvenInv
<1>1. Init => Inv
  BY TypeInit, WhereInit, PlacedInit, EvenInit
<1>2. Inv /\ [Next]_vars => Inv'
  BY TypeStep, WhereStep, PlacedStep, EvenStep
<1>3. Inv => RoundRobinEven
  <2> SUFFICES ASSUME EvenInv, OneKind, NEW i \in Instances, NEW j \in Instances
               PROVE  Cardinality(Assigned(i)) <= Cardinality(Assigned(j)) + 1
    BY DEF RoundRobinEven, OneKind
  <2>1. PICK k \in Nat : DealtUpTo(k)
    BY DEF EvenInv
  <2> QED
    BY <2>1 DEF DealtUpTo
<1> QED
  BY <1>1, <1>2, <1>3, PTL DEF Spec

=============================================================================
