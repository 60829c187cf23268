------------------------------ MODULE MstgBuild ------------------------------
(***************************************************************************)
(* MstgBuilder::build after the clustering: every vector is assigned to    *)
(* the clusters nearest it (ClosureAssigner::assign), and every cluster    *)
(* collects its posting list from the assignments.  Both stages are        *)
(* par_iters: vectors, then clusters, are taken in any order.              *)
(*                                                                         *)
(* Vectors and clusters are numbered as the code numbers them, for the     *)
(* sort by distance is stable.                                             *)
(***************************************************************************)
EXTENDS Integers, Sequences, FiniteSets

CONSTANTS
  FactorNum, FactorDen,   \* (1 + closure_epsilon)^2, a fraction
  MaxReplicas             \* max_replicas

BuildAssumption ==
  /\ FactorNum \in Nat /\ FactorDen \in Nat \ {0}
  /\ FactorNum >= FactorDen                            \* closure_epsilon >= 0
  /\ MaxReplicas \in Nat

VARIABLES
  dist,         \* dist[v][c]: from vector v to the centroid of cluster c (1..m)
  assigned,     \* cluster_assignments[v]: read for what it contains, {} until v's turn
  vectorsDone, clustersDone,
  list          \* the ids of each posting list, in order

vars == <<dist, assigned, vectorsDone, clustersDone, list>>

\* Before the clusters are known.
Init ==
  /\ dist = <<>> /\ assigned = <<>> /\ list = <<>>
  /\ vectorsDone = {} /\ clustersDone = {}

\* Step 2 begins: the n clusters, and how far each vector is from each.
Begin(n, distances) ==
  /\ list = <<>>
  /\ dist' = distances
  /\ assigned' = [v \in DOMAIN distances |-> {}]
  /\ list' = [c \in 1..n |-> <<>>]
  /\ UNCHANGED <<vectorsDone, clustersDone>>

Vectors == DOMAIN dist
Clusters == DOMAIN list

\* distances, sorted: the clusters by distance, clusters at the same one as
\* numbered.  Rank is how many come before c.
Nearer(v, c, d) == dist[v][c] < dist[v][d] \/ (dist[v][c] = dist[v][d] /\ c < d)
Rank(v, c) == Cardinality({d \in Clusters : Nearer(v, d, c)})
Closest(v) == CHOOSE c \in Clusters : Rank(v, c) = 0
\* c is within (1 + epsilon) of the distance of d.
Within(v, c, d) == dist[v][c] * FactorDen <= dist[v][d] * FactorNum

\* (Fault: a cluster at the threshold is left out.)
StrictlyWithin(v) ==
  {c \in Clusters : /\ Rank(v, c) < MaxReplicas
                    /\ dist[v][c] * FactorDen < dist[v][Closest(v)] * FactorNum}
\* take, then filter.  (apply_rng_rule is not called.)
Closure(v) == {c \in Clusters : Rank(v, c) < MaxReplicas /\ Within(v, c, Closest(v))}

Assign(v) ==
  /\ list # <<>> /\ v \notin vectorsDone
  /\ assigned' = [assigned EXCEPT ![v] = Closure(v)]
  /\ vectorsDone' = vectorsDone \cup {v}
  /\ UNCHANGED <<dist, clustersDone, list>>

\* The elements of S, in order.
Sorted(S) == [n \in 1..Cardinality(S) |->
                CHOOSE x \in S : Cardinality({y \in S : y < x}) = n - 1]
Members(c) == {v \in Vectors : c \in assigned[v]}

Collect(c) ==
  /\ vectorsDone = Vectors /\ c \notin clustersDone
  /\ list' = [list EXCEPT ![c] = Sorted(Members(c))]
  /\ clustersDone' = clustersDone \cup {c}
  /\ UNCHANGED <<dist, assigned, vectorsDone>>

Next == (\E v \in Vectors : Assign(v)) \/ (\E c \in Clusters : Collect(c))
Built == list # <<>> /\ clustersDone = Clusters

(***************************************************************************)
(* Properties.                                                             *)
(***************************************************************************)
ListsOf(v) == {c \in clustersDone : \E n \in DOMAIN list[c] : list[c][n] = v}

\* What the closure rule promises: of the clusters within (1 + epsilon) of the
\* distance of the nearest, the max_replicas nearest hold the vector, and no
\* other does.  (The code takes the replicas first and the threshold after.  What it
\* says of itself is another rule: RngRule of MstgIndex.)
Near(v) == {c \in Clusters : \A d \in Clusters : Within(v, c, d)}
ReplicasExact ==
  Built =>
    \A v \in Vectors :
      ListsOf(v) = {c \in Near(v) :
                      Cardinality({d \in Near(v) : Nearer(v, d, c)}) < MaxReplicas}
=============================================================================
