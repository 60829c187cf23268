--------------------------- MODULE MstgClustering ---------------------------
(***************************************************************************)
(* HierarchicalClustering::cluster: a stack of clusters, each accepted if  *)
(* it is small enough, or split by k-means, its groups evened out by       *)
(* balance_clusters, and the non-empty groups stacked again.               *)
(*                                                                         *)
(* A vector is named by its row.  Of its coordinates the model keeps       *)
(* Value: rows of equal value are equal vectors, which k-means cannot      *)
(* separate.  Which groups k-means forms, and which row of a group lies    *)
(* nearest another group's centroid, is left open.                         *)
(***************************************************************************)
EXTENDS Integers, Sequences, FiniteSets, Functions

CONSTANTS
  Data,       \* the data sets considered: what each row holds
  MaxSize,    \* max_cluster_size (max_posting_size of the configuration)
  Branching,  \* branching_factor, the k of every k-means call
  PerCentroid, \* max_points_per_centroid of k-means: 256
  Weight,     \* balance_weight; 1 is the default
  MoveLimit   \* the passes of balance_clusters: 10 in the code

ClusteringAssumption ==
  /\ \A data \in Data : IsFiniteSet(DOMAIN data)
  /\ MaxSize \in Nat /\ Branching \in Nat /\ Weight \in Nat /\ MoveLimit \in Nat
  /\ PerCentroid \in Nat \ {0}

VARIABLES
  Value,   \* the data set: a value for every row
  active,  \* active_clusters, a stack with its top last
  groups,  \* subcluster_data: the groups of the split in progress
  moves,   \* the passes balance_clusters has made over them
  final,   \* final_clusters, in the order they were accepted
  phase    \* "loop", "balance", "done", or "panicked" after a failed assertion

vars == <<Value, active, groups, moves, final, phase>>

Rows == DOMAIN Value
Phases == {"loop", "balance", "done", "panicked"}
Top == active[Len(active)]
Below == SubSeq(active, 1, Len(active) - 1)
Sizes(seq) == [i \in DOMAIN seq |-> Cardinality(seq[i])]

Init ==
  /\ Value \in Data
  /\ active = IF Rows = {} THEN <<>> ELSE <<Rows>>
  /\ groups = <<>> /\ moves = 0 /\ final = <<>>
  /\ phase = "loop"

(***************************************************************************)
(* cluster, the while loop.                                                *)
(***************************************************************************)
SmallEnough(c) == Cardinality(c) <= MaxSize

Accept ==
  /\ phase = "loop" /\ active # <<>> /\ SmallEnough(Top)
  /\ final' = Append(final, Top)
  /\ active' = Below
  /\ UNCHANGED <<Value, groups, moves, phase>>

Finish ==
  /\ phase = "loop" /\ active = <<>>
  /\ phase' = "done"
  /\ UNCHANGED <<Value, active, groups, moves, final>>

(***************************************************************************)
(* split_cluster.  run_kmeans asserts 0 < k <= rows, and trains on a       *)
(* sample.  Its groups are the rows nearest each of its k centroids: equal *)
(* rows share a group.  Trained on rows that are all equal, the centroids  *)
(* are, and all rows of the cluster share the first group; trained on      *)
(* others, they tell some rows of the sample apart.                        *)
(***************************************************************************)
KMeansAccepts(c) == Branching > 0 /\ Branching <= Cardinality(c)

GroupsBy(f, c) == [i \in 1..Branching |-> {r \in c : f[Value[r]] = i}]
\* (Fault: a centroid that loses all its rows is left where it is.)
UnseededGroups(c) ==
  {GroupsBy(f, c) : f \in [{Value[r] : r \in c} -> 1..Branching]}
\* select_training_indices.
SampleSize(c) ==
  IF Cardinality(c) <= Branching * PerCentroid THEN Cardinality(c)
  ELSE Branching * PerCentroid
Samples(c) == {s \in SUBSET c : Cardinality(s) = SampleSize(c)}
TrainedOn(s, f) ==
  IF \A q, r \in s : Value[q] = Value[r] THEN \A v \in DOMAIN f : f[v] = 1
  ELSE Branching = 1 \/ \E q, r \in s : f[Value[q]] # f[Value[r]]
KMeansGroups(c) ==
  {GroupsBy(f, c) : f \in {f \in [{Value[r] : r \in c} -> 1..Branching] :
                             \E s \in Samples(c) : TrainedOn(s, f)}}

SplitPanics ==
  /\ phase = "loop" /\ active # <<>> /\ ~SmallEnough(Top) /\ ~KMeansAccepts(Top)
  /\ phase' = "panicked"
  /\ UNCHANGED <<Value, active, groups, moves, final>>

Split ==
  /\ phase = "loop" /\ active # <<>> /\ ~SmallEnough(Top) /\ KMeansAccepts(Top)
  /\ groups' \in KMeansGroups(Top)
  /\ active' = Below
  /\ moves' = 0
  /\ phase' = "balance"
  /\ UNCHANGED <<Value, final>>

(***************************************************************************)
(* balance_clusters: while some group is over the allowed size and some    *)
(* group under the target, the first of each, and a row moves across.      *)
(***************************************************************************)
Target == FoldFunction(+, 0, Sizes(groups)) \div Len(groups)
Allowed == Target * (1 + Weight)
Over == {i \in DOMAIN groups : Cardinality(groups[i]) > Allowed}
Under == {i \in DOMAIN groups : Cardinality(groups[i]) < Target}
First(is) == CHOOSE i \in is : \A j \in is : i <= j

Unbalanced == Weight > 0 /\ moves < MoveLimit /\ Over # {} /\ Under # {}

Moved(r, from, to) ==
  [groups EXCEPT ![from] = @ \ {r}, ![to] = @ \cup {r}]

Move ==
  /\ phase = "balance" /\ Unbalanced
  /\ \E r \in groups[First(Over)] :
       groups' = Moved(r, First(Over), First(Under))
  /\ moves' = moves + 1
  /\ UNCHANGED <<Value, active, final, phase>>

\* The groups at positions ps, in their order.
At(gs, ps) ==
  LET nth(n) == CHOOSE p \in ps : Cardinality({q \in ps : q < p}) = n - 1
  IN [n \in 1..Cardinality(ps) |-> gs[nth(n)]]

\* (Fault: a group of one row is dropped with the empty ones.)
KeptPairs(gs) == At(gs, {i \in DOMAIN gs : Cardinality(gs[i]) > 1})
\* (Fault: a split that leaves a group empty is tried again.)
KeptOrRetried(gs) ==
  IF \E i \in DOMAIN gs : gs[i] = {}
  THEN <<UNION {gs[i] : i \in DOMAIN gs}>> ELSE gs
Kept(gs) == At(gs, {i \in DOMAIN gs : gs[i] # {}})

Push ==
  /\ phase = "balance" /\ ~Unbalanced
  /\ active' = active \o Kept(groups)
  /\ groups' = <<>> /\ moves' = 0
  /\ phase' = "loop"
  /\ UNCHANGED <<Value, final>>

Next == Accept \/ Finish \/ SplitPanics \/ Split \/ Move \/ Push

(***************************************************************************)
(* Properties.                                                             *)
(***************************************************************************)
TypeOK ==
  /\ \A c \in {active[i] : i \in DOMAIN active}
               \cup {groups[i] : i \in DOMAIN groups}
               \cup {final[i] : i \in DOMAIN final} : c \subseteq Rows
  /\ moves \in 0..MoveLimit
  /\ phase \in Phases

\* The clusters under way, being evened out and accepted.
Everything == active \o groups \o final

\* Splitting, evening out and stacking neither lose a row nor put one in two
\* clusters: at every moment the clusters partition the data set.
Partition ==
  /\ \A i, j \in DOMAIN Everything : i # j => Everything[i] \cap Everything[j] = {}
  /\ UNION {Everything[i] : i \in DOMAIN Everything} = Rows

\* What is handed to the builder: clusters that hold something, no more than
\* max_cluster_size of it (test_hierarchical_clustering_basic, _balance).
Bounded ==
  phase = "done" =>
    \A i \in DOMAIN final : final[i] # {} /\ Cardinality(final[i]) <= MaxSize

\* Unless one value fills a sample, no split leaves the cluster whole in one of
\* its groups, and the evening out does not undo it; nor is the cluster whole
\* once the evening out has moved a row, whatever k-means came to: the split
\* makes progress.
SampleOfOne(c) == \E q \in c : Cardinality({r \in c : Value[r] = Value[q]}) >= SampleSize(c)
Dealt == UNION {groups[i] : i \in DOMAIN groups}
NeverWhole ==
  phase = "balance" /\ (moves > 0 \/ ~SampleOfOne(Dealt))
    => \A i \in DOMAIN groups : groups[i] # Dealt
=============================================================================
