---------------------------- MODULE BoundedHeap ----------------------------
(***************************************************************************)
(* The bounded max-heap every search of the crate keeps its best           *)
(* candidates in: std's BinaryHeap<HeapEntry> ordered by distance alone,   *)
(* pushed to and then popped when it holds more than top_k entries.        *)
(*                                                                         *)
(* A heap is the set of its entries.  An entry is a record                 *)
(*   at     the slot it was read from, which keeps equal entries apart     *)
(*   id     the vector id that is returned to the caller                   *)
(*   dist   its distance, an integer (only finite distances are pushed)    *)
(*   sound  whether its lower bound really is below its distance           *)
(* (`sound' is never read by an action: the estimator's bound holds only   *)
(* with high probability, and the properties speak of the vectors for      *)
(* which it does).  Among entries of equal distance the heap's layout      *)
(* decides which is on top, hence the sets of possible outcomes below.     *)
(* Definitions marked (Fault: ...) are used by no specification: they are  *)
(* the slips the properties must be able to detect, put in place of the    *)
(* definition that follows them.                                           *)
(***************************************************************************)
EXTENDS Integers, FiniteSets

CONSTANT Inf       \* f32::INFINITY, and every other non-finite f32

ASSUME InfAssumption == Inf \notin Int

MinF(a, b) == IF b = Inf \/ (a # Inf /\ a <= b) THEN a ELSE b

\* x >= d, for a finite x
AtLeast(x, d) == d # Inf /\ x >= d

\* (Fault: a heap ordered the other way round.)
Bottoms(H) == {m \in H : \A e \in H : m.dist <= e.dist}

\* The entries peek() or pop() may return.
Tops(H) == {m \in H : \A e \in H : e.dist <= m.dist}

\* (Fault: a heap with room for one more is taken to be full.)
DistkEarly(H, k, fallback) ==
  IF Cardinality(H) + 1 < k \/ H = {}
  THEN {fallback}
  ELSE {MinF(m.dist, fallback) : m \in Tops(H)}

\* current_distk: the distance a candidate has to beat.
Distk(H, k, fallback) ==
  IF Cardinality(H) < k \/ H = {}
  THEN {fallback}
  ELSE {MinF(m.dist, fallback) : m \in Tops(H)}

\* (Fault: the pop is forgotten.)
PushOnly(H, e, k) == {H \cup {e}}

\* (Fault: room is made before the new entry is compared.)
PopThenPush(H, e, k) ==
  IF Cardinality(H) >= k /\ H # {}
  THEN {(H \ {m}) \cup {e} : m \in Tops(H)}
  ELSE {H \cup {e}}

\* push, then pop if the heap has grown past k.
Push(H, e, k) ==
  LET G == H \cup {e}
  IN  IF Cardinality(G) > k THEN {G \ {m} : m \in Tops(G)} ELSE {G}

\* sanitize_lower_bound; `floor' is -(dot_query_centroid + query_norm).
Sanitize(lb, metric, floor) ==
  CASE lb # Inf                       -> lb
    [] lb = Inf /\ metric = "L2"      -> 0
    [] lb = Inf /\ metric # "L2"      -> floor
=============================================================================
