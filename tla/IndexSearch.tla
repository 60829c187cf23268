---------------------------- MODULE IndexSearch ----------------------------
(***************************************************************************)
(* One query to an index of either kind (enum RabitqIndex).  The two       *)
(* searches are the modules IvfSearch and BruteForceSearch, which share    *)
(* the variables of a query; the kind of the index decides whose step is   *)
(* taken.  A caller that matches on the kind is promised the same of both  *)
(* answers.                                                                *)
(***************************************************************************)
EXTENDS BoundedHeap, Sequences

CONSTANTS
  Ids, IdSpan,    \* vector ids, and 2^32
  IvfInputs,      \* the IVF indexes and queries considered
  FlatInputs      \* the brute-force indexes and queries considered

VARIABLES
  kind,      \* the variant of the enum
  input, phase, probed, pos, heap     \* the query, as in the two modules

vars == <<kind, input, phase, probed, pos, heap>>

Ivf == INSTANCE IvfSearch WITH Inputs <- IvfInputs
Flat == INSTANCE BruteForceSearch WITH Inputs <- FlatInputs

ASSUME SearchAssumption ==
  /\ Ivf!IvfAssumption
  /\ Flat!FlatAssumption

-----------------------------------------------------------------------------
Init ==
  \/ kind = "Ivf" /\ Ivf!Init
  \/ kind = "BruteForce" /\ Flat!Init /\ probed = {}

Next ==
  \/ kind = "Ivf" /\ Ivf!Next /\ UNCHANGED kind
  \/ kind = "BruteForce" /\ Flat!Next /\ UNCHANGED <<kind, probed>>

Spec == Init /\ [][Next]_vars

-----------------------------------------------------------------------------
\* Types, and never more than top_k candidates kept, whatever the kind.
TypeOK == IF kind = "Ivf" THEN Ivf!TypeOK ELSE Flat!TypeOK

\* Of the clusters searched so far by an IVF index, no accepted vector with a
\* right bound is lost between its batch and the heap; and the heap of neither
\* kind grows past top_k (TypeOK).
NothingLost == TypeOK /\ (kind = "Ivf" => Ivf!NothingLost)

\* An IVF index searches exactly its best clusters, ties or not.
ProbesBest == kind = "Ivf" => Ivf!ProbesBest

\* What search and search_filtered return is a top k of the vectors the
\* filter accepts, for both kinds of index (TopK).
Abstract == INSTANCE TopK WITH
  offered  <- IF kind = "Ivf" THEN Ivf!Offered ELSE Flat!Offered,
  k        <- input.k,
  answer   <- IF phase = "done" THEN heap ELSE {},
  returned <- phase = "done"

Implements == Abstract!Spec
=============================================================================
