-------------------------------- MODULE TopK --------------------------------
(***************************************************************************)
(* What a search promises its caller, whatever the index: of the           *)
(* candidates it was offered it returns k, or all of them if there are     *)
(* fewer, and it leaves out no candidate that is strictly better than one  *)
(* it returns -- except one whose lower bound was wrong.                   *)
(***************************************************************************)
EXTENDS Integers, FiniteSets

VARIABLES
  offered,     \* the candidates of the probed lists, records with dist, sound
  k,           \* params.top_k
  answer,      \* the candidates returned
  returned     \* whether the search has returned

vars == <<offered, k, answer, returned>>

Promise(S, C, n) ==
  /\ S \subseteq C
  /\ Cardinality(S) <= n
  /\ S = C \/ Cardinality(S) = n
  /\ \A c \in C \ S : c.sound => \A s \in S : s.dist <= c.dist

Init ==
  /\ answer = {}
  /\ returned = FALSE

Return ==
  /\ ~returned
  /\ returned' = TRUE
  /\ answer' \subseteq offered
  /\ Promise(answer', offered, k)
  /\ UNCHANGED <<offered, k>>

Next == Return

Spec == Init /\ [][Next]_vars
=============================================================================
