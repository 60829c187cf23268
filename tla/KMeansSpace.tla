----------------------------- MODULE KMeansSpace -----------------------------
(***************************************************************************)
(* Points and centroids on a line.  A point is an integer, a centroid a    *)
(* multiple of 1/Unit, and Unit a multiple of every count a mean can have, *)
(* so that means and squared distances are exact integers here.            *)
(***************************************************************************)
EXTENDS Integers, FiniteSetsExt

CONSTANT Unit

\* The squared distance of point x and centroid c, Unit^2 times as large.
Distance(x, c) == (x * Unit - c) * (x * Unit - c)

\* best_cluster: a nearest centroid, the first one of several.
Nearest(x, centroids) ==
  CHOOSE c \in DOMAIN centroids : \A d \in DOMAIN centroids :
    \/ Distance(x, centroids[c]) < Distance(x, centroids[d])
    \/ Distance(x, centroids[c]) = Distance(x, centroids[d]) /\ c <= d

\* best_distance
Far(x, centroids) == Min({Distance(x, centroids[c]) : c \in DOMAIN centroids})

\* compute_objective, of points assigned to centroids.
Objective(points, centroids, assigned) ==
  MapThenSumSet(LAMBDA i : Distance(points[i], centroids[assigned[i]]), DOMAIN points)

\* normalize_centroids: a centroid off the origin is put on the unit sphere.
Normalized(centroids) ==
  [c \in DOMAIN centroids |->
     IF centroids[c] > 0 THEN Unit ELSE IF centroids[c] < 0 THEN -Unit ELSE 0]

Total(points, rows) == MapThenSumSet(LAMBDA i : points[i], rows)
=============================================================================
