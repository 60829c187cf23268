--------------------------- MODULE KMeansTraining ---------------------------
(***************************************************************************)
(* K-means beside the Quantizer, which it trains for: its variables under  *)
(* names that leave input, phase and best to the other, and what is        *)
(* promised of it.                                                         *)
(***************************************************************************)

CONSTANTS
  Inputs, Reseeds, Mantissa, Unit

VARIABLES
  config,       \* input of KMeans
  stage,        \* its phase
  result,       \* its best
  points, centroids, left, redo, states, assignments

KM == INSTANCE KMeans WITH input <- config, phase <- stage, best <- result

ASSUME TrainingAssumption == KM!KMeansAssumption

Trains == KM!Spec

-----------------------------------------------------------------------------
\* At any moment, on any thread: a state counts every row of the chunks it has
\* folded or merged once, where it was assigned, and has its sum (ThreadLocalState);
\* together the states are of all chunks, each once, and all types hold.
Accounted == KM!Accounted

\* What is returned belongs together: every row has the first of the nearest
\* of the very centroids returned, and the objective is theirs (assign_full_dataset).
Consistent == KM!Consistent

\* When the rows trained on are not all equal, the data are not left in one group:
\* what HierarchicalClustering::split_cluster needs to get on.
Separates == KM!Separates

\* An iteration never takes the centroids farther from the sample, whichever
\* clusters went empty and were moved (run_lloyd_iterations).
Descends == KM!Descends

\* However the chunks are divided among threads, an iteration is one of Lloyd's
\* (run_lloyd_iterations, assign_points_for_update, update_centroids).
IsLloyd == KM!Implements
=============================================================================
