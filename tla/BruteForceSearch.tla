-------------------------- MODULE BruteForceSearch --------------------------
(***************************************************************************)
(* One brute-force query (BruteForceRabitqIndex::search_internal): every   *)
(* vector the filter lets through is estimated, none is skipped for its    *)
(* lower bound.  The best k of all accepted vectors are the only answer    *)
(* TopK allows, up to ties, since no bound can be wrong.                   *)
(***************************************************************************)
EXTENDS BoundedHeap, Sequences

CONSTANTS
  IdSpan,     \* ids are cut to u32 before the filter sees them: 2^32
  Inputs      \* the indexes and queries considered

\* dists[n] is the estimate for vector n - 1, whose id is its place.
Input == [k : Nat, dim_ok : BOOLEAN, filtered : BOOLEAN,
          filter : SUBSET (0 .. IdSpan - 1), dists : Seq(Int \cup {Inf})]

\* Assumed by IndexSearch, which instantiates this module.  With more vectors
\* than IdSpan the cut would take one for another.
FlatAssumption ==
  /\ IdSpan \in Nat \ {0}
  /\ Inputs \subseteq Input
  /\ \A i \in Inputs : Len(i.dists) <= IdSpan

VARIABLES
  input,     \* the index and the query: never change
  phase,     \* where search_internal is
  pos,       \* the next vector to look at
  heap       \* the candidates kept

vars == <<input, phase, pos, heap>>

-----------------------------------------------------------------------------
Vectors == DOMAIN input.dists

\* (Fault: the position is taken for the id.)
AcceptsPlace(n) == input.filtered => n % IdSpan \in input.filter

\* filter_bitmap.contains(vector_id as u32)
Accepts(n) == input.filtered => (n - 1) % IdSpan \in input.filter

Candidate(n) == [at |-> n, id |-> n - 1, dist |-> input.dists[n], sound |-> TRUE]

\* The accepted vectors that have a distance, said without Accepts: what the
\* caller of search_filtered asks for.
Offered ==
  {Candidate(n) : n \in {m \in Vectors : /\ input.filtered => m - 1 \in input.filter
                                         /\ input.dists[m] # Inf}}

-----------------------------------------------------------------------------
Init ==
  /\ input \in Inputs
  /\ phase = "start"
  /\ pos = 1
  /\ heap = {}

\* Err(EmptyIndex), Err(DimensionMismatch).
Reject ==
  /\ phase = "start"
  /\ input.dists = <<>> \/ ~input.dim_ok
  /\ phase' = "error"
  /\ UNCHANGED <<input, pos, heap>>

Start ==
  /\ phase = "start"
  /\ input.dists # <<>> /\ input.dim_ok
  /\ phase' = IF input.k = 0 THEN "done" ELSE "scan"
  /\ UNCHANGED <<input, pos, heap>>

Scan ==
  /\ phase = "scan" /\ pos \in Vectors
  /\ pos' = pos + 1
  /\ IF ~Accepts(pos) \/ input.dists[pos] = Inf
     THEN UNCHANGED heap
     ELSE heap' \in Push(heap, Candidate(pos), input.k)
  /\ UNCHANGED <<input, phase>>

Finish ==
  /\ phase = "scan" /\ pos \notin Vectors
  /\ phase' = "done"
  /\ UNCHANGED <<input, pos, heap>>

Terminated == phase \in {"done", "error"} /\ UNCHANGED vars

Next == Reject \/ Start \/ Scan \/ Finish \/ Terminated

Spec == Init /\ [][Next]_vars

-----------------------------------------------------------------------------
TypeOK ==
  /\ phase \in {"start", "scan", "done", "error"}
  /\ pos \in Nat \ {0}
  /\ \A e \in heap : e.at \in Vectors /\ e = Candidate(e.at)
  /\ Cardinality(heap) <= input.k

\* search_internal returns the exact top k of the vectors the filter holds.
Abstract == INSTANCE TopK WITH
  offered  <- Offered,
  k        <- input.k,
  answer   <- IF phase = "done" THEN heap ELSE {},
  returned <- phase = "done"

Implements == Abstract!Spec
=============================================================================
