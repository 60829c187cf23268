------------------------------ MODULE IvfSearch ------------------------------
(***************************************************************************)
(* One IVF query (IvfRabitqIndex::search and search_filtered): rank the    *)
(* clusters by the query's distance to (or product with) their centroid,   *)
(* probe the nprobe best one after the other with ONE heap, skip the       *)
(* vectors a filter rejects and those whose lower bound is no better than  *)
(* the heap's k-th distance.  Unlike MstgSearch there is no seed, no       *)
(* worker, and a squared distance is not clamped at zero.                  *)
(***************************************************************************)
EXTENDS BoundedHeap, Sequences

CONSTANTS
  Ids,        \* vector ids
  IdSpan,     \* ids are cut to u32 before the filter sees them: 2^32
  Inputs      \* the indexes and queries considered

Metrics == {"L2", "InnerProduct"}

Slot == [id : Ids, lb : Int \cup {Inf}, dist : Int \cup {Inf}]

\* score: l2_distance_sqr for L2, dot for InnerProduct.
Cluster == [score : Int, floor : Int, slots : Seq(Slot)]

\* A filter is a set of u32 ids; search() passes none.
Input == [metric : Metrics, k : Nat, nprobe : Nat, dim_ok : BOOLEAN,
          filtered : BOOLEAN, filter : SUBSET (0 .. IdSpan - 1),
          clusters : Seq(Cluster)]

\* Assumed by IndexSearch, which instantiates this module.
IvfAssumption ==
  /\ IdSpan \in Nat \ {0}
  /\ Ids \subseteq 0 .. IdSpan - 1
  /\ Inputs \subseteq Input

VARIABLES
  input,     \* the index and the query: never change
  phase,     \* where search_fastscan is
  probed,    \* clusters searched to the end
  pos,       \* next slot of the cluster being searched
  heap       \* the candidates kept

vars == <<input, phase, probed, pos, heap>>

-----------------------------------------------------------------------------
Clusters == DOMAIN input.clusters
Slots(c) == input.clusters[c].slots

\* self.is_empty(): no vector in any cluster.
IsEmpty == \A c \in Clusters : Slots(c) = <<>>

\* The sort key: better score first, equal scores by cluster id.
Before(a, b) ==
  LET sa == input.clusters[a].score
      sb == input.clusters[b].score
  IN  \/ IF input.metric = "L2" THEN sa < sb ELSE sa > sb
      \/ sa = sb /\ a < b

\* (Fault: the tie-break and the count are one apart.)
RankLate(c) == Cardinality({b \in Clusters : Before(b, c)})

Rank(c) == 1 + Cardinality({b \in Clusters : Before(b, c)})

\* params.nprobe.max(1).min(clusters.len())
NProbe ==
  LET n == IF input.nprobe < 1 THEN 1 ELSE input.nprobe
  IN  IF n < Len(input.clusters) THEN n ELSE Len(input.clusters)

Probes == {c \in Clusters : Rank(c) <= NProbe}

LowerBound(c, i) == Sanitize(Slots(c)[i].lb, input.metric, input.clusters[c].floor)

\* filter_bitmap.contains(vector_id as u32)
Accepts(id) == input.filtered => id % IdSpan \in input.filter

Candidate(c, i) ==
  [at |-> <<c, i>>, id |-> Slots(c)[i].id, dist |-> Slots(c)[i].dist,
   sound |-> LowerBound(c, i) <= Slots(c)[i].dist]

Offered ==
  UNION {{Candidate(c, i) :
            i \in {n \in DOMAIN Slots(c) : Accepts(Slots(c)[n].id) /\ Slots(c)[n].dist # Inf}}
           : c \in Probes}

-----------------------------------------------------------------------------
Init ==
  /\ input \in Inputs
  /\ phase = "start"
  /\ probed = {}
  /\ pos = 1
  /\ heap = {}

\* Err(EmptyIndex), Err(DimensionMismatch).
Reject ==
  /\ phase = "start"
  /\ IsEmpty \/ ~input.dim_ok
  /\ phase' = "error"
  /\ UNCHANGED <<input, probed, pos, heap>>

Start ==
  /\ phase = "start"
  /\ ~IsEmpty /\ input.dim_ok
  /\ phase' = IF input.k = 0 THEN "done" ELSE "probe"
  /\ UNCHANGED <<input, probed, pos, heap>>

\* The best cluster not searched yet.
Current(c) ==
  /\ phase = "probe"
  /\ c \in Probes \ probed
  /\ \A b \in Probes \ probed : b = c \/ Before(c, b)

\* The body of the loop over a batch in search_cluster_v2_batched.
Scan(c) ==
  /\ Current(c)
  /\ pos <= Len(Slots(c))
  /\ pos' = pos + 1
  /\ \E distk \in Distk(heap, input.k, Inf) :
       IF \/ ~Accepts(Slots(c)[pos].id)
          \/ AtLeast(LowerBound(c, pos), distk)
          \/ Slots(c)[pos].dist = Inf
       THEN UNCHANGED heap
       ELSE heap' \in Push(heap, Candidate(c, pos), input.k)
  /\ UNCHANGED <<input, phase, probed>>

NextCluster(c) ==
  /\ Current(c)
  /\ pos > Len(Slots(c))
  /\ probed' = probed \cup {c}
  /\ pos' = 1
  /\ UNCHANGED <<input, phase, heap>>

Finish ==
  /\ phase = "probe" /\ probed = Probes
  /\ phase' = "done"
  /\ UNCHANGED <<input, probed, pos, heap>>

Terminated == phase \in {"done", "error"} /\ UNCHANGED vars

Next ==
  \/ Reject
  \/ Start
  \/ \E c \in Clusters : Scan(c) \/ NextCluster(c)
  \/ Finish
  \/ Terminated

Spec == Init /\ [][Next]_vars

-----------------------------------------------------------------------------
TypeOK ==
  /\ phase \in {"start", "probe", "done", "error"}
  /\ probed \subseteq Probes
  /\ pos \in Nat \ {0}
  /\ heap \subseteq Offered
  /\ Cardinality(heap) <= input.k

\* Every accepted vector seen so far is in the heap, or k others are that
\* are no further -- unless its lower bound was wrong.
NothingLost ==
  phase = "probe" =>
    \A c \in Offered :
      c.at[1] \in probed \/ (Current(c.at[1]) /\ c.at[2] < pos) =>
        \/ c \in heap
        \/ /\ Cardinality(heap) = input.k
           /\ c.sound => \A x \in heap : x.dist <= c.dist

\* The clusters a search has been through beat those it has not reached, and
\* at the end exactly min(nprobe, nlist) of them have been searched: ties
\* neither add a cluster nor drop one.
ProbesBest ==
  /\ \A c \in probed : \A b \in Clusters \ probed : Before(c, b)
  /\ phase = "done" /\ input.k > 0 => Cardinality(probed) = NProbe

\* search keeps what TopK promises of the accepted vectors in the clusters
\* probed; an error is no answer.
Abstract == INSTANCE TopK WITH
  offered  <- Offered,
  k        <- input.k,
  answer   <- IF phase = "done" THEN heap ELSE {},
  returned <- phase = "done"

Implements == Abstract!Spec
=============================================================================
