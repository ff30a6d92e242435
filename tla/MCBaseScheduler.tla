-------------------------- MODULE MCBaseScheduler --------------------------
(* Small simulations for BaseScheduler: deployments in which the queue,    *)
(* the token budget, the sequence cap and both memories run short, with    *)
(* combinations of prompt length, generated tokens and arrival.            *)
EXTENDS BaseScheduler

Shapes(inputs, gens, arrivals) ==
  {[input |-> i, output |-> i + g, arrival |-> a] : i \in inputs, g \in gens, a \in arrivals}

(* Two stages, chunks of up to three tokens, room for three KV blocks. *)
Chunking(work) ==
  [work |-> work, preRouted |-> FALSE, pdType |-> "none", chunked |-> TRUE, threshold |-> 0,
   prioritize |-> FALSE, numSeqs |-> 2, tokens |-> 3, ppSize |-> 2, numNpus |-> 2,
   blockSize |-> 2, npuBlocks |-> 3, cpuBlocks |-> 8]

(* Whole prompts, prefills before decodes, one batch at a time. *)
Whole(work) ==
  [Chunking(work) EXCEPT !.chunked = FALSE, !.prioritize = TRUE, !.numSeqs = 3, !.tokens = 4,
                         !.ppSize = 1, !.cpuBlocks = 6]

(* All requests queued before the run, chunks of one token. *)
Multi(work) ==
  [Chunking(work) EXCEPT !.preRouted = TRUE, !.threshold = 1, !.tokens = 2, !.npuBlocks = 4]

(* The two halves of a disaggregated pair. *)
PrefillOnly(work) ==
  [Chunking(work) EXCEPT !.pdType = "prefill", !.threshold = 2, !.npuBlocks = 4]
DecodeOnly(work) ==
  [Chunking(work) EXCEPT !.pdType = "decode", !.ppSize = 1, !.npuBlocks = 5]

MCReq == 1 .. 3

(* Work for three requests that are numbered as they arrive. *)
Work(shapes) ==
  {w \in [MCReq -> shapes] : \A r, s \in MCReq : r < s => w[r].arrival <= w[s].arrival}

Mixed    == Work(Shapes({1, 3}, {3}, {0, 1})) \cup Work(Shapes({3}, {1, 3}, {0}))
Together == Work(Shapes({1, 4}, {4}, {0}))
Short    == Work(Shapes({1, 3}, {1, 3}, {0}))
Alike    == Work(Shapes({1, 3}, {3}, {0}))
Spread   == Work(Shapes({1, 3}, {2}, {0, 2}))

MCSimulations ==
  UNION {{Chunking(w) : w \in Mixed}, {Whole(w) : w \in Together}, {Multi(w) : w \in Spread},
         {PrefillOnly(w) : w \in Short}, {DecodeOnly(w) : w \in Alike}}
=============================================================================
