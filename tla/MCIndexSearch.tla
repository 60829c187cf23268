---------------------------- MODULE MCIndexSearch ----------------------------
(* An IVF index of three clusters, two of them tied, probed by any number; *)
(* a brute-force index of up to four vectors.  Ties, wrong and missing     *)
(* bounds, missing distances, filters.                                     *)
EXTENDS IndexSearch

\* A good bound, a wrong one, a missing one and a missing distance.
Kinds == {[lb |-> 0, dist |-> 1], [lb |-> 2, dist |-> 1],
          [lb |-> Inf, dist |-> 2], [lb |-> 0, dist |-> Inf]}

At(id, slot) == [id |-> id, lb |-> slot.lb, dist |-> slot.dist]

Of(score, slots) == [score |-> score, floor |-> -1, slots |-> slots]

Query(m, k, n, ok, f, cs) ==
  [metric |-> m, k |-> k, nprobe |-> n, dim_ok |-> ok,
   filtered |-> f # {}, filter |-> f, clusters |-> cs]

Index(a, b, c, d) ==
  <<Of(2, <<At(0, a), At(1, b)>>), Of(1, <<At(2, c)>>), Of(2, <<At(3, d)>>)>>

MCIvfInputs ==
  {Query(m, k, n, TRUE, f, Index(a, b, c, d)) :
     m \in {"L2", "InnerProduct"}, k \in 1 .. 2, n \in 0 .. 4, f \in {{}, {0, 2, 3}},
     a \in Kinds, b \in Kinds, c \in Kinds, d \in Kinds}
  \cup {Query(m, k, 1, ok, {}, cs) :
          m \in {"L2", "InnerProduct"}, k \in {0, 3}, ok \in BOOLEAN,
          cs \in {<<>>, <<Of(1, <<>>)>>} \cup {Index(a, a, a, a) : a \in Kinds}}

Dists == {-1, 1, 2, Inf}

MCFlatInputs ==
  [k : 0 .. 3, dim_ok : {TRUE}, filtered : BOOLEAN, filter : SUBSET (0 .. IdSpan - 1),
   dists : UNION {[1 .. n -> Dists] : n \in 0 .. 4}]
  \cup [k : 0 .. 1, dim_ok : {FALSE}, filtered : {FALSE}, filter : {{}},
        dists : {<<>>, <<1>>}]
=============================================================================
