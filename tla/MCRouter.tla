------------------------------ MODULE MCRouter ------------------------------
(* Small clusters for Router: independent requests and sessions of up to   *)
(* three requests with every combination of arrivals and tool times, under *)
(* each routing policy.                                                    *)
EXTENDS Router

Single(a)         == [agentic |-> FALSE, arrival |-> a, tools |-> <<0>>, target |-> 0]
Pinned(a, i)      == [Single(a) EXCEPT !.target = i + 1]
Session(a, tools) == [agentic |-> TRUE, arrival |-> a, tools |-> tools, target |-> 0]

Cluster(rows, policy, pdType, caps) ==
  [rows |-> rows, policy |-> policy, pdType |-> pdType, numSeqs |-> caps, preRouted |-> FALSE]

(* Two sessions beside an independent request. *)
Mixed == {<<Session(a, <<t, 0>>), Single(b), Session(0, <<u, t, 0>>)>> :
            a \in 0 .. 1, b \in 0 .. 2, t \in 0 .. 2, u \in 0 .. 1}
Few   == {<<Session(a, <<t, 0>>), Single(b), Session(0, <<>>)>> : a \in 0 .. 1, b \in 0 .. 1, t \in 0 .. 2}
Flat  == {<<Single(a), Single(b), Single(0), Pinned(0, 3)>> : a \in 0 .. 1, b \in 0 .. 1}

MCSimulations ==
  {Cluster(rows, "RR", <<"none", "none">>, <<2, 2>>) : rows \in Mixed}
    \cup {Cluster(rows, "LOAD", <<"none", "none">>, <<1, 0>>) : rows \in Few \cup Flat}
    \cup {Cluster(rows, "CUSTOM", <<"none", "none">>, <<2, 2>>) : rows \in Flat}
    \cup {Cluster(rows, "RAND", <<"none", "none">>, <<2, 2>>) : rows \in Few}
    \cup {Cluster(rows, "RR", <<"prefill", "decode", "decode">>, <<2, 2, 2>>) : rows \in Few}
    \cup {Cluster(rows, "LOAD", <<"prefill", "prefill", "decode">>, <<2, 2, 2>>) : rows \in Few}

(* Mode A with a session. *)
MCPreRouted == {[Cluster(rows, "RR", <<"none", "none">>, <<2, 2>>) EXCEPT !.preRouted = TRUE] : rows \in Few}
=============================================================================
