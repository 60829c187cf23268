----------------------------- MODULE MCHnswCache -----------------------------
(* Who calls what on a small HnswCache.                                       *)
EXTENDS HnswCache
CONSTANTS w1, w2, w3, c1, c2, c3

\* Three single searches of an index without its graph, or a batch and a single
\* search of one that has it.
Sound ==
  /\ Init
  /\ \/ ~warm /\ batchers = {}
     \/ warm /\ batchers = {c1}
SoundSpec == Sound /\ [][Next]_vars /\ Fairness

\* A batch is the first to search.
ColdBatchSpec == Init /\ ~warm /\ batchers = {c1} /\ [][Next]_vars /\ Fairness
=============================================================================
