---------------------------- MODULE MCMstgIndex ----------------------------
(* MstgIndex over data sets of five and six rows, in order: the model tells *)
(* rows apart by their value alone.  k-means trains on four rows, of the    *)
(* data of Skewed four equal ones if it so happens.                         *)
EXTENDS MstgIndex

Five == <<0, 1, 1, 3, 4>>
Six == <<0, 0, 1, 3, 3, 4>>
Skewed == <<0, 1, 1, 1, 1, 3>>

\* Every k and ef that matter, at a vector and between two.
FiveQueries ==
  {[at |-> x, k |-> 1, ef |-> 1, bounds |-> TRUE] : x \in {1, 3}}
  \cup {[at |-> 4, k |-> 4, ef |-> 5, bounds |-> FALSE]}

MCQueries == (Five :> FiveQueries) @@ (Six :> {}) @@ (Skewed :> {})

\* Split two ways, these are evened out already, and split for ever.
EqualQueries == <<1, 1, 1, 1>> :> {}
=============================================================================
