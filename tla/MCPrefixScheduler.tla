------------------------- MODULE MCPrefixScheduler -------------------------
(* Small simulations for PrefixScheduler. *)
EXTENDS PrefixScheduler

(* Requests that share prefixes: the prompts branch inside a page and at   *)
(* its end.                                                                *)
Shapes(prompts, gens, arrivals) ==
  {[ids |-> p \o [i \in 1 .. g |-> 9], input |-> Len(p), output |-> Len(p) + g, arrival |-> a]
   : p \in prompts, g \in gens, a \in arrivals}

MCReq == 1 .. 2
Mixed == [MCReq -> Shapes({<<1, 1>>, <<1, 1, 2>>, <<1, 1, 2, 2, 2>>, <<3, 3, 1>>}, {1, 3}, {0, 1})]

(* No tier below the NPU, and room for one request at a time. *)
Alone(work) ==
  [work |-> work, preRouted |-> FALSE, pdType |-> "none", chunked |-> TRUE, threshold |-> 0,
   prioritize |-> FALSE, numSeqs |-> 1, tokens |-> 3, ppSize |-> 1, numNpus |-> 2,
   blockSize |-> 2, npuBlocks |-> 5, cpuBlocks |-> 0, storage |-> "none", sharing |-> FALSE,
   policy |-> "inclusive", tierCaps |-> <<>>, pooled |-> {}]

(* A private host cache, written through or filled by eviction.            *)
Host(work)      == [Alone(work) EXCEPT !.numSeqs = 2, !.npuBlocks = 4, !.storage = "CPU",
                                       !.tierCaps = <<8>>]
Cascade(work)   == [Host(work) EXCEPT !.tierCaps = <<4>>, !.policy = "exclusive"]
Pipelined(work) == [Cascade(work) EXCEPT !.ppSize = 2, !.npuBlocks = 6]
Tight(work)     == [Cascade(work) EXCEPT !.numSeqs = 1, !.npuBlocks = 3, !.tierCaps = <<3>>]

(* A shared pool with a deep tier, where another instance has left a       *)
(* prefix, and CXL memory.                                                 *)
Deep(work)   == [Cascade(work) EXCEPT !.sharing = TRUE, !.tierCaps = <<3, 6>>,
                                      !.pooled = {<<1, 1, 3>>}]
Mirror(work) == [Deep(work) EXCEPT !.policy = "inclusive"]
Cxl(work)    == [Mirror(work) EXCEPT !.storage = "CXL", !.tierCaps = <<4>>]

(* Prefill and decode instances. *)
Decoder(work)   == [Host(work) EXCEPT !.pdType = "decode", !.storage = "none", !.tierCaps = <<>>]
Prefiller(work) == [Host(work) EXCEPT !.pdType = "prefill"]

(* Preemption with nothing below the NPU. *)
Crowded(work) == [Alone(work) EXCEPT !.numSeqs = 2, !.npuBlocks = 4]

MCSimulations ==
  UNION {{Alone(w), Host(w), Cascade(w), Pipelined(w), Tight(w), Deep(w), Mirror(w), Cxl(w),
          Decoder(w), Prefiller(w)} : w \in Mixed}
MCCrowded  == {Crowded(w) : w \in Mixed}
=============================================================================
