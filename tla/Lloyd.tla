------------------------------- MODULE Lloyd -------------------------------
(***************************************************************************)
(* What k-means training promises, however the work is divided: from k     *)
(* points of the data on, every iteration moves each centroid to the mean  *)
(* of the points nearest it, and those that are nearest to none to the     *)
(* points farthest from all, each to another, as long as no more than      *)
(* Reseeds of them are without points; further ones to any points.         *)
(***************************************************************************)
EXTENDS KMeansSpace

CONSTANT Reseeds

VARIABLES
  points,     \* the training data: an integer for every row
  centroids,  \* numbered from 0
  spherical,  \* whether they are kept on the unit sphere
  left        \* the iterations to go

vars == <<points, centroids, spherical, left>>

Init == left = 0

\* Another data set, or another start on the same.
Start ==
  /\ left = 0
  /\ \A c \in DOMAIN centroids' :
       \E i \in DOMAIN points' : centroids'[c] = Unit * points'[i]

Cluster(c) == {i \in DOMAIN points : Nearest(points[i], centroids) = c}
Empty == {c \in DOMAIN centroids : Cluster(c) = {}}
Distant(i) == Far(points[i], centroids)

\* f takes rows for the empty clusters, the farthest first.
Farthest(f) ==
  /\ \A c, d \in Empty : c < d => f[c] # f[d] /\ Distant(f[c]) >= Distant(f[d])
  /\ \A c \in Empty, i \in DOMAIN points :
       i \in {f[d] : d \in Empty} \/ Distant(i) <= Distant(f[c])

Iterate ==
  /\ left > 0 /\ left' = left - 1
  /\ \E f \in [Empty -> DOMAIN points] :
       /\ Cardinality(Empty) <= Reseeds => Farthest(f)
       /\ LET moved == [c \in DOMAIN centroids |->
                IF c \in Empty THEN Unit * points[f[c]]
                ELSE Total(points, Cluster(c)) * (Unit \div Cardinality(Cluster(c)))]
          IN centroids' = IF spherical THEN Normalized(moved) ELSE moved
  /\ UNCHANGED <<points, spherical>>

Next == Start \/ Iterate

Spec == Init /\ [][Next]_vars
=============================================================================
