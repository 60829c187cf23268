----------------------------- MODULE MCFastScan -----------------------------
(* Instances of FastScan: every kernel and layout over full, partial and     *)
(* single batches, each width of extended code; the last has more dimensions *)
(* than the tables of the code reach.                                        *)
EXTENDS FastScan

\* Codes that tell slots, dimensions and bits apart, and the two extremes.
Pattern(k, v, i, range) ==
  CASE k = "mixed" -> ((7 * v + 5 * i + 3 * v * i + (i \div 3) + (v * v) \div 5) % 97) % range
    [] k = "ones"  -> range - 1
    [] k = "one"   -> IF i = v THEN range - 1 ELSE 0
Queries(k, dim) ==
  CASE k = "mixed" -> [i \in 0..dim - 1 |-> ((5 * i + i \div 4) % 7) - 3]
    [] k = "ones"  -> [i \in 0..dim - 1 |-> 1]
    [] k = "zero"  -> [i \in 0..dim - 1 |-> 0]
    [] k = "axis"  -> [i \in 0..dim - 1 |-> IF i = 5 THEN -2 ELSE 0]

Factors(v) ==
  [one |-> [add |-> v, rescale |-> (v % 3) - 2, error |-> v % 2],
   ex  |-> [add |-> 2 * v, rescale |-> (v % 4) - 2]]
Input(index, kernel, dim, n, exBits, pattern, query) ==
  [index |-> index, kernel |-> kernel, dim |-> dim, n |-> n, exBits |-> exBits,
   query |-> Queries(query, dim), gAdd |-> 3, gError |-> 2,
   sign |-> [v \in 0..n - 1 |-> [i \in 0..dim - 1 |-> Pattern(pattern, v, i, 2)]],
   ex |-> [v \in 0..n - 1 |-> [i \in 0..dim - 1 |-> Pattern(pattern, v, i, 2^exBits)]],
   factors |-> [v \in 0..n - 1 |-> Factors(v)]]

\* An empty and a one-vector cluster, one short of a batch, a full one and more.
Sizes == {0, 1, 31, 32, 33}
SmallInputs ==
  {Input(index, kernel, 16, n, exBits, "mixed", "mixed") :
     index \in {"ivf", "mstg"}, kernel \in Kernels, n \in Sizes, exBits \in {0, 2}}
  \cup {Input("ivf", kernel, 32, 2, exBits, "mixed", "axis") :
          kernel \in Kernels, exBits \in 0..8}
  \cup {Input("mstg", kernel, 32, 33, 6, pattern, query) :
          kernel \in Kernels, pattern \in {"mixed", "ones", "one"},
          query \in {"mixed", "ones", "zero"}}
  \cup {Input(index, kernel, 24, 1, 3, "mixed", "mixed") :
          index \in {"ivf", "mstg"}, kernel \in Kernels}
  \cup {Input("ivf", "avx2", 2112, 1, 0, "mixed", "ones")}
=============================================================================
