---------------------------- MODULE MCMstgSearch ----------------------------
(* MstgSearch over four centroids, of which dynamic pruning drops the last, *)
(* one bootstrap list and two parallel ones.                               *)
EXTENDS MstgSearch

\* A good bound, a wrong one, a missing one and a missing distance.
Kinds == {[lb |-> 0, dist |-> 1], [lb |-> 2, dist |-> 1],
          [lb |-> Inf, dist |-> -1], [lb |-> 1, dist |-> 2],
          [lb |-> 0, dist |-> Inf]}

At(id, kind) == [id |-> id, lb |-> kind.lb, dist |-> kind.dist]

Near == <<[cid |-> 1, dist |-> 1], [cid |-> 2, dist |-> 2],
          [cid |-> 3, dist |-> 2], [cid |-> 4, dist |-> 3]>>

\* Vector 1 has been assigned to lists 1 and 2.
Query(m, k, cs, a, b, c, d, e) ==
  [metric |-> m, k |-> k, centroids |-> cs, floor |-> [c0 \in Cids |-> -1],
   slots |-> [c0 \in Cids |->
                CASE c0 = 1 -> <<At(1, a), At(2, b)>>
                  [] c0 = 2 -> <<At(1, c), At(3, d)>>
                  [] c0 = 3 -> <<At(4, e)>>
                  [] OTHER  -> <<At(5, a)>>]]

MCInputs ==
  {Query(m, k, Near, a, b, c, d, e) :
     m \in Metrics, k \in 1 .. 2, a \in Kinds, b \in Kinds, c \in Kinds,
     d \in Kinds, e \in Kinds}
  \cup {Query(m, k, cs, a, a, a, a, a) :
          m \in Metrics, k \in 0 .. 3, cs \in {Near, SubSeq(Near, 1, 1), <<>>},
          a \in Kinds}
=============================================================================
