----------------------------- MODULE MstgSearch -----------------------------
(***************************************************************************)
(* One MSTG query (MstgIndex::search_internal): pick the centroids near    *)
(* the query, scan the posting lists of the first few one after the other  *)
(* to tighten the k-th distance ("bootstrap"), scan the rest in parallel   *)
(* on rayon workers, each with a heap of its own and all with the ONE      *)
(* k-th distance read before they were forked, and merge their heaps.      *)
(*                                                                         *)
(* A vector is skipped when its lower bound is at least the k-th distance  *)
(* its worker knows.  That distance is stale and local, the bound may be   *)
(* missing (not finite), and the refined distance may be too.              *)
(***************************************************************************)
EXTENDS BoundedHeap, Sequences

CONSTANTS
  Cids,            \* centroid (= posting list) ids
  Ids,             \* vector ids
  EpsNum, EpsDen,  \* pruning_epsilon = EpsNum / EpsDen
  BootstrapLimit,  \* lists scanned serially first: 8 in the code
  Inputs           \* the queries considered

Metrics == {"L2", "InnerProduct"}

(***************************************************************************)
(* A slot of a posting list, as the query sees it: the vector's id, its    *)
(* lower bound and its refined distance (the 1-bit estimate when           *)
(* ex_bits = 0), each possibly not finite.                                 *)
(***************************************************************************)
Slot == [id : Ids, lb : Int \cup {Inf}, dist : Int \cup {Inf}]

(***************************************************************************)
(* The centroids come from CentroidIndex::search, closest first.  A list   *)
(* that is empty, or that with_posting_list does not find, is <<>>: both   *)
(* give the default (empty) output.                                        *)
(***************************************************************************)
Input == [metric : Metrics, k : Nat,
          centroids : Seq([cid : Cids, dist : Nat]),
          floor : [Cids -> Int], slots : [Cids -> Seq(Slot)]]

ASSUME SearchAssumption ==
  /\ EpsNum \in Nat /\ EpsDen \in Nat \ {0}
  /\ BootstrapLimit \in Nat \ {0}
  /\ Inputs \subseteq Input

VARIABLES
  input,    \* the query: never changes
  phase,    \* where search_internal is
  todo,     \* selected lists whose output is not merged yet
  pos,      \* pos[j]: the next slot of list j to look at
  local,    \* local[j]: local_heap of the scan of list j
  seed,     \* seed[j]: the distk_seed that scan was given
  merged,   \* candidates of the list being merged that are already pushed
  global    \* global_heap

vars == <<input, phase, todo, pos, local, seed, merged, global>>

-----------------------------------------------------------------------------
(* The query and its data.  Lists are named by their rank among the        *)
(* centroids found.                                                        *)

Lists == DOMAIN input.centroids
Slots(j) == input.slots[input.centroids[j].cid]

\* dynamic_prune: dist <= closest * (1 + epsilon).
Selected ==
  {j \in Lists : input.centroids[j].dist * EpsDen
                   <= input.centroids[1].dist * (EpsDen + EpsNum)}

\* selected_centroids.split_at(min(len, 8)).0
Bootstrap == {j \in Selected : Cardinality({i \in Selected : i < j}) < BootstrapLimit}

LowerBound(j, i) ==
  Sanitize(Slots(j)[i].lb, input.metric, input.floor[input.centroids[j].cid])

\* A squared L2 distance is clamped at zero once it is known to be finite.
Distance(j, i) ==
  LET d == Slots(j)[i].dist
  IN  IF d # Inf /\ input.metric = "L2" /\ d < 0 THEN 0 ELSE d

Candidate(j, i) ==
  [at |-> <<j, i>>, id |-> Slots(j)[i].id, dist |-> Distance(j, i),
   sound |-> LowerBound(j, i) <= Distance(j, i)]

\* Every candidate of the selected lists that has a distance at all.
Offered ==
  UNION {{Candidate(j, i) : i \in {n \in DOMAIN Slots(j) : Slots(j)[n].dist # Inf}}
           : j \in Selected}

-----------------------------------------------------------------------------
Init ==
  /\ input \in Inputs
  /\ phase = "start"
  /\ todo = {}
  /\ pos = [j \in Lists |-> 1]
  /\ local = [j \in Lists |-> {}]
  /\ seed = [j \in Lists |-> Inf]
  /\ merged = {}
  /\ global = {}

\* top_k == 0 and an empty selection return at once.
Start ==
  /\ phase = "start"
  /\ IF input.k = 0 \/ Selected = {}
     THEN phase' = "done" /\ UNCHANGED todo
     ELSE phase' = "bootstrap" /\ todo' = Selected
  /\ UNCHANGED <<input, pos, local, seed, merged, global>>

Current(j) == j \in todo /\ \A i \in todo : j <= i
Exhausted(j) == pos[j] > Len(Slots(j))

\* A list is scanned by the caller during the bootstrap, by any worker later.
Scanning(j) ==
  /\ j \in todo
  /\ (phase = "bootstrap" /\ Current(j)) \/ phase = "parallel"
  /\ ~Exhausted(j)

\* The body of the loop over a batch in search_posting_list_fastscan.
Scan(j) ==
  /\ Scanning(j)
  /\ pos' = [pos EXCEPT ![j] = @ + 1]
  /\ \E distk \in Distk(local[j], input.k, seed[j]) :
       IF AtLeast(LowerBound(j, pos[j]), distk) \/ Distance(j, pos[j]) = Inf
       THEN UNCHANGED local
       ELSE \E H \in Push(local[j], Candidate(j, pos[j]), input.k) :
              local' = [local EXCEPT ![j] = H]
  /\ UNCHANGED <<input, phase, todo, seed, merged, global>>

\* One turn of merge_topk's loop for list j, which has been scanned.
Merge(j) ==
  /\ phase \in {"bootstrap", "merge"} /\ Current(j) /\ Exhausted(j)
  /\ \E e \in local[j] \ merged :
       /\ merged' = merged \cup {e}
       /\ \E G \in Push(global, e, input.k) : global' = G
  /\ UNCHANGED <<input, phase, todo, pos, local, seed>>

\* (Fault: merging a list stops after its first candidate.)
RetireEarly(j) ==
  /\ phase \in {"bootstrap", "merge"} /\ Current(j) /\ Exhausted(j)
  /\ merged # {} \/ local[j] = {}
  /\ todo' = todo \ {j}
  /\ merged' = {}
  /\ IF phase = "bootstrap"
     THEN \E distk \in Distk(global, input.k, Inf) :
            seed' = [i \in Lists |-> IF i \in todo' THEN distk ELSE seed[i]]
     ELSE UNCHANGED seed
  /\ phase' = IF phase = "bootstrap" /\ todo' \cap Bootstrap = {}
              THEN "parallel" ELSE phase
  /\ UNCHANGED <<input, pos, local, global>>

\* List j is merged.  During the bootstrap the k-th distance is read again:
\* for the next list, and after the last one, once, for all that remain.
Retire(j) ==
  /\ phase \in {"bootstrap", "merge"} /\ Current(j) /\ Exhausted(j)
  /\ merged = local[j]
  /\ todo' = todo \ {j}
  /\ merged' = {}
  /\ IF phase = "bootstrap"
     THEN \E distk \in Distk(global, input.k, Inf) :
            seed' = [i \in Lists |-> IF i \in todo' THEN distk ELSE seed[i]]
     ELSE UNCHANGED seed
  /\ phase' = IF phase = "bootstrap" /\ todo' \cap Bootstrap = {}
              THEN "parallel" ELSE phase
  /\ UNCHANGED <<input, pos, local, global>>

\* par_iter().map().collect() returns when every worker is through.
Join ==
  /\ phase = "parallel"
  /\ \A j \in todo : Exhausted(j)
  /\ phase' = "merge"
  /\ UNCHANGED <<input, todo, pos, local, seed, merged, global>>

Finish ==
  /\ phase = "merge" /\ todo = {}
  /\ phase' = "done"
  /\ UNCHANGED <<input, todo, pos, local, seed, merged, global>>

Terminated == phase = "done" /\ UNCHANGED vars

Next ==
  \/ Start
  \/ \E j \in Lists : Scan(j) \/ Merge(j) \/ Retire(j)
  \/ Join
  \/ Finish
  \/ Terminated

Spec == Init /\ [][Next]_vars

-----------------------------------------------------------------------------
\* Types, and the bound on every heap: no heap ever keeps more than top_k.
TypeOK ==
  /\ input \in Input
  /\ phase \in {"start", "bootstrap", "parallel", "merge", "done"}
  /\ todo \subseteq Lists
  /\ pos \in [Lists -> Nat]
  /\ \A j \in Lists : pos[j] \in 1 .. Len(Slots(j)) + 1
  /\ local \in [Lists -> SUBSET Offered]
  /\ seed \in [Lists -> Int \cup {Inf}]
  /\ merged \subseteq Offered
  /\ global \subseteq Offered
  /\ \A j \in Lists : Cardinality(local[j]) <= input.k
  /\ Cardinality(global) <= input.k

\* A scan's seed is out of date as soon as anything else is merged, and must
\* stay safe to prune with: whenever a list still to be merged was given a
\* finite seed, the global heap is full and holds nothing beyond that seed.
StaleSeedSafe ==
  \A j \in todo : seed[j] # Inf =>
    /\ Cardinality(global) = input.k
    /\ \A e \in global : e.dist <= seed[j]

\* c needs no more attention: H holds it, or H is full and -- unless c's
\* lower bound was wrong -- with nothing further than c.
Covered(c, H) ==
  \/ c \in H
  \/ /\ Cardinality(H) = input.k
     /\ c.sound => \A x \in H : x.dist <= c.dist

\* No candidate that has been looked at is lost on the way to the answer:
\* the global heap covers it, or the local heap of its unmerged list does.
NothingLost ==
  phase # "start" /\ input.k > 0 =>
    \A j \in Selected : \A i \in DOMAIN Slots(j) :
      i < pos[j] /\ Slots(j)[i].dist # Inf =>
        \/ Covered(Candidate(j, i), global)
        \/ j \in todo /\ Covered(Candidate(j, i), local[j])

\* The k-th distance search_internal reads never grows: an entry that was
\* good enough to prune with is only ever replaced by a better one.
KthShrinks ==
  \A d \in Distk(global, input.k, Inf) : \A e \in Distk(global', input.k, Inf) :
    MinF(d, e) = e

DistkMonotone == [][KthShrinks]_vars

\* The search keeps what TopK promises, for every interleaving of workers.
Abstract == INSTANCE TopK WITH
  offered  <- Offered,
  k        <- input.k,
  answer   <- IF phase = "done" THEN global ELSE {},
  returned <- phase = "done"

Implements == Abstract!Spec
=============================================================================
