----------------------------- MODULE MstgIndex -----------------------------
(***************************************************************************)
(* An MSTG index from its data to an answer: MstgBuilder::build clusters   *)
(* the data (MstgClustering), assigns every vector to the lists near it    *)
(* and collects them (MstgBuild); a query is then given the centroids the  *)
(* graph finds, and searches their lists (MstgSearch).                     *)
(*                                                                         *)
(* Vectors are integers on a line, named by their rows.  A centroid is the *)
(* mean of its cluster, kept Unit times as large to be an integer, as is   *)
(* what is measured from one.  The graph is approximate and may find any     *)
(* centroids; the estimate of a distance is taken to be exact.             *)
(***************************************************************************)
EXTENDS Integers, Sequences, FiniteSets, FiniteSetsExt, TLC

CONSTANTS
  MaxSize, Branching, PerCentroid, Weight, MoveLimit,     \* MstgClustering
  FactorNum, FactorDen, MaxReplicas,                      \* MstgBuild
  Inf, EpsNum, EpsDen, BootstrapLimit,                    \* MstgSearch
  Unit,       \* a multiple of every size a cluster of the index can have
  Queries     \* the data sets considered, and for each the queries

VARIABLES
  Value, active, groups, moves, final, clustering,
  dist, assigned, vectorsDone, clustersDone, list,
  input, searching, todo, pos, local, seed, merged, global,
  query       \* what was asked, as the caller gave it

clusterVars == <<Value, active, groups, moves, final, clustering>>
buildVars == <<dist, assigned, vectorsDone, clustersDone, list>>
searchVars == <<input, searching, todo, pos, local, seed, merged, global>>
vars == <<clusterVars, buildVars, searchVars, query>>

Data == DOMAIN Queries
Clustering == INSTANCE MstgClustering WITH phase <- clustering
Builder == INSTANCE MstgBuild
Cids == UNION {DOMAIN data : data \in Data}   \* no more clusters than rows
Search == INSTANCE MstgSearch WITH Ids <- Nat, Inputs <- {}, phase <- searching

ASSUME IndexAssumption ==
  /\ Clustering!ClusteringAssumption
  /\ Builder!BuildAssumption
  /\ Unit \in Nat /\ \A n \in 1..MaxSize : Unit % n = 0
  /\ Inf \notin Int /\ EpsNum \in Nat /\ EpsDen \in Nat \ {0}
  /\ BootstrapLimit \in Nat \ {0}
  /\ \A data \in Data : data \in Seq(Int)
  /\ \A data \in Data : \A q \in Queries[data] :
       q.at \in Int /\ q.k \in Nat /\ q.ef \in Nat /\ q.bounds \in BOOLEAN

Rows == DOMAIN Value

Idle == [metric |-> "L2", k |-> 0, centroids |-> <<>>, floor |-> <<>>, slots |-> <<>>]

Init ==
  /\ Clustering!Init
  /\ Builder!Init
  /\ input = Idle /\ searching = "idle" /\ query = <<>>
  /\ todo = {} /\ pos = <<>> /\ local = <<>> /\ seed = <<>> /\ merged = {} /\ global = {}

-----------------------------------------------------------------------------
Size(x) == IF x < 0 THEN -x ELSE x
\* compute_centroid: the mean of cluster c.
Centroid(c) ==
  MapThenSumSet(LAMBDA r : Value[r], final[c]) * (Unit \div Cardinality(final[c]))
\* What DistBF16 measures, and the closure: the square.  (The centroids are in BF16
\* unless the configuration says otherwise; rounding is left out.)
Away(x, c) == (Unit * x - Centroid(c)) * (Unit * x - Centroid(c))

Cluster == Clustering!Next /\ UNCHANGED <<buildVars, searchVars, query>>

\* The clusters are there: a posting list is begun for each.
Begin ==
  /\ clustering = "done"
  /\ Builder!Begin(Len(final),
       [v \in Rows |-> [c \in DOMAIN final |-> Away(Value[v], c)]])
  /\ UNCHANGED <<clusterVars, searchVars, query>>

Build == Builder!Next /\ UNCHANGED <<clusterVars, searchVars, query>>

\* CentroidIndex::search: ef centroids, the ones it finds closest first.
Found(x, ef) ==
  LET clusters == DOMAIN final
      limit == IF ef < Len(final) THEN ef ELSE Len(final)
  IN {f \in [1..limit -> clusters] :
        \A m, n \in 1..limit : m < n => f[m] # f[n] /\ Away(x, f[m]) <= Away(x, f[n])}

\* What the search is to see of vector v: its bound is right, if it has one.
Slot(q, v) ==
  LET d == (Value[v] - q.at) * (Value[v] - q.at)
  IN [id |-> v, lb |-> IF q.bounds THEN d ELSE Inf, dist |-> d]

Listed(q, c) ==
  IF c \in Builder!Clusters THEN [n \in DOMAIN list[c] |-> Slot(q, list[c][n])] ELSE <<>>

Asked(q, found) ==
  [metric |-> "L2", k |-> q.k,
   centroids |-> [n \in DOMAIN found |-> [cid |-> found[n], dist |-> Away(q.at, found[n])]],
   floor |-> [c \in Cids |-> 0],
   slots |-> [c \in Cids |-> Listed(q, c)]]

Ask(q) ==
  /\ Builder!Built /\ searching = "idle"
  /\ query' = <<q>>
  /\ \E found \in Found(q.at, q.ef) :
       /\ input' = Asked(q, found)
       /\ pos' = [j \in DOMAIN found |-> 1]
       /\ local' = [j \in DOMAIN found |-> {}]
       /\ seed' = [j \in DOMAIN found |-> Inf]
  /\ searching' = "start"
  /\ UNCHANGED <<clusterVars, buildVars, todo, merged, global>>

SearchStep ==
  \/ Search!Start \/ Search!Join \/ Search!Finish
  \/ \E j \in Search!Lists : Search!Scan(j) \/ Search!Merge(j) \/ Search!Retire(j)
Answer == SearchStep /\ UNCHANGED <<clusterVars, buildVars, query>>

Next == Cluster \/ Begin \/ Build \/ (\E q \in Queries[Value] : Ask(q)) \/ Answer

Over ==
  \/ clustering = "panicked"
  \/ Builder!Built /\ Queries[Value] = {}
  \/ searching = "done"
Ended == Over /\ UNCHANGED vars

\* The threads of the pool are never blocked, and the caller does ask.
Spec == Init /\ [][Next \/ Ended]_vars /\ WF_vars(Next)

-----------------------------------------------------------------------------
\* Types, and the passes of the evening out.
TypeOK ==
  /\ Clustering!TypeOK
  /\ searching = "idle" \/ \A e \in global : e.id \in Rows
  /\ Cardinality(global) <= input.k

\* Splitting, evening out and stacking neither lose a row nor put one in two
\* clusters: at every moment the clusters partition the data set.  The builder is
\* given clusters that hold something, and no more than max_cluster_size of it
\* (test_hierarchical_clustering_basic, _balance).
Partition == TypeOK /\ Clustering!Partition /\ Clustering!Bounded

\* A split makes progress, whatever the evening out undoes of it, unless one value
\* fills a sample k-means may train on; and with one move of the evening out, even
\* then (split_cluster, select_training_indices).
NeverWhole == Clustering!NeverWhole

\* Whichever threads assign and collect first, each vector is in the lists the
\* closure rule names, and in no other.
ReplicasExact == searching = "idle" => Builder!ReplicasExact

\* What closure.rs and the documents say of the assignment: of two clusters that hold
\* a vector, the second was not to be skipped by the RNG rule, whose comment skips it
\* when the vector is nearer the first than the two are to each other, and whose
\* code, which nothing calls, when it is farther from the second than they are.
Gap(c, d) == (Centroid(c) - Centroid(d)) * (Centroid(c) - Centroid(d))
Pairs(v) ==
  {p \in Builder!ListsOf(v) \X Builder!ListsOf(v) : Builder!Nearer(v, p[1], p[2])}
RngRule ==
  Builder!Built =>
    \/ \A v \in Rows : \A p \in Pairs(v) : ~(dist[v][p[1]] < Gap(p[1], p[2]))
    \/ \A v \in Rows : \A p \in Pairs(v) : ~(dist[v][p[2]] > Gap(p[1], p[2]))

\* A search for a vector that is in the index finds one at distance 0, if the
\* graph finds the centroids nearest it: the list of one of them has it,
\* wherever the evening out and the closure have put it, and nothing on the
\* way to the answer prunes it.
Nearest(x) == {c \in DOMAIN final : \A d \in DOMAIN final : Away(x, c) <= Away(x, d)}
FindsItself ==
  searching = "done" =>
    \A v \in Rows :
      /\ Value[v] = query[1].at /\ query[1].k > 0
      /\ Nearest(Value[v]) \subseteq {input.centroids[n].cid : n \in DOMAIN input.centroids}
      => \E e \in global : e.dist = 0

\* A vector can take max_replicas of the k places, never more: of the vectors
\* in the lists searched, the k / max_replicas nearest are all in the answer.
NotCrowdedOut ==
  searching = "done" =>
    \A v \in Rows :
      LET away(w) == Size(Value[w] - query[1].at)
          asNear == {w \in Rows : away(w) <= away(v)}
          seen == {Search!Slots(j) : j \in Search!Selected}
      IN /\ MaxReplicas * Cardinality(asNear) <= query[1].k
         /\ \E s \in seen : \E n \in DOMAIN s : s[n].id = v
         => \E e \in global : e.id = v

\* Data are clustered, the index built and the query answered, or the build
\* aborted: where a split fails, sampled rows being equal, the evening out takes
\* enough of the cluster away to keep the loop going.
Completes == <>Over
=============================================================================
