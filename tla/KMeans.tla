------------------------------- MODULE KMeans -------------------------------
(***************************************************************************)
(* run_kmeans_with_config: a sample of the data, nredo restarts from k of  *)
(* its points, niter iterations of each, and an assignment of all data.    *)
(* An iteration folds the chunks of the sample into summaries, the threads *)
(* of rayon splitting the range of chunks as they come, and reduces them.  *)
(*                                                                         *)
(* Data are integers on a line.  A float sum is rounded to Mantissa bits;  *)
(* distances and means are exact.  The random generator may return         *)
(* anything.                                                               *)
(***************************************************************************)
EXTENDS KMeansSpace, Sequences, SequencesExt

CONSTANTS
  Inputs,     \* data and configurations: see KMeansAssumption
  Reseeds,    \* RESEED_CANDIDATES
  Mantissa    \* the bits of a float sum: 24

\* What the constants are: assumed in KMeansTraining.
KMeansAssumption ==
  /\ Reseeds \in Nat \ {0} /\ Mantissa \in Nat \ {0} /\ Unit \in Nat \ {0}
  /\ \A i \in Inputs :
       /\ IsFiniteSet(DOMAIN i.data) /\ DOMAIN i.data = 0..Cardinality(DOMAIN i.data) - 1
       /\ \A r \in DOMAIN i.data : i.data[r] \in Int /\ Unit % (r + 1) = 0
       /\ {i.k, i.niter, i.nredo, i.chunk, i.per} \subseteq Nat
       /\ i.spherical \in BOOLEAN

VARIABLES
  input,        \* the data set and the configuration
  phase,        \* "call", "redo", "fold", "full", "done" or "panic"
  points,       \* training_data
  centroids,
  left,         \* iterations to go
  redo,         \* restarts made
  states,       \* the ThreadLocalStates of the iteration: see State
  assignments,  \* training_assignments: those of the last iteration
  best          \* best_result: a sequence of none or one

vars == <<input, phase, points, centroids, left, redo, states, assignments, best>>

Rows == DOMAIN input.data
K == 0..input.k - 1
Trained == DOMAIN points
Chunks == (Cardinality(Trained) + input.chunk - 1) \div input.chunk

\* The nearest float: ties go to the even one.
Rounded(x) ==
  LET size == IF x < 0 THEN -x ELSE x
      ulp == Min({2^e : e \in {e \in 0..30 - Mantissa : size < 2^(Mantissa + e)}})
      q == x \div ulp
      twice == 2 * (x % ulp)
  IN IF twice < ulp \/ (twice = ulp /\ q % 2 = 0) THEN q * ulp ELSE (q + 1) * ulp

\* Chunks from..to of the range, the first ones folded up to next; up are the
\* ranges it was split from, outermost first.
State(from, to, up) ==
  [from |-> from, next |-> from, to |-> to, up |-> up,
   counts |-> [c \in K |-> 0], sums |-> [c \in K |-> 0],
   candidates |-> {}, assigned |-> <<>>]

Init ==
  /\ input \in Inputs /\ phase = "call"
  /\ points = <<>> /\ centroids = <<>> /\ assignments = <<>> /\ best = <<>>
  /\ left = 0 /\ redo = 0 /\ states = {}

-----------------------------------------------------------------------------
Valid == Rows # {} /\ 0 < input.k /\ input.k <= Cardinality(Rows) /\ 0 < input.niter

\* select_training_indices: the size of the sample, and its rows in order.
Target == Max({Min({Cardinality(Rows), input.k * input.per}), input.k})
Nth(chosen, i) == CHOOSE r \in chosen : Cardinality({q \in chosen : q < r}) = i
Sample(chosen) == [i \in 0..Cardinality(chosen) - 1 |-> input.data[Nth(chosen, i)]]

Call ==
  /\ phase = "call"
  /\ IF Valid
     THEN /\ phase' = "redo"
          /\ \E chosen \in kSubset(Target, Rows) : points' = Sample(chosen)
     ELSE phase' = "panic" /\ UNCHANGED points
  /\ UNCHANGED <<input, centroids, left, redo, states, assignments, best>>

\* The whole range of chunks; a block size of 0 divides by zero.
Fresh(rows) ==
  {State(0, (Cardinality(rows) + input.chunk - 1) \div input.chunk, <<>>)}

\* initialize_centroids_random: k rows, in any order.
Forgy ==
  /\ phase = "redo" /\ redo < input.nredo
  /\ \E f \in [K -> Trained] :
       /\ \A c, d \in K : c # d => f[c] # f[d]
       /\ centroids' = [c \in K |-> Unit * points[f[c]]]
  /\ assignments' = [i \in Trained |-> 0]
  /\ IF input.chunk = 0 THEN phase' = "panic" /\ states' = {} /\ left' = 0
     ELSE phase' = "fold" /\ states' = Fresh(Trained) /\ left' = input.niter
  /\ UNCHANGED <<input, points, redo, best>>

-----------------------------------------------------------------------------
(* assign_points_for_update *)

\* rayon: an untouched range is split in two.
Split(s) ==
  /\ phase = "fold" /\ s.next = s.from /\ s.to - s.from >= 2
  /\ LET mid == s.from + (s.to - s.from) \div 2
         up == Append(s.up, [from |-> s.from, to |-> s.to])
     IN states' = (states \ {s}) \cup {State(s.from, mid, up), State(mid, s.to, up)}
  /\ UNCHANGED <<input, phase, points, centroids, left, redo, assignments, best>>

RowsOf(chunk) ==
  {i \in Trained : chunk * input.chunk <= i /\ i < (chunk + 1) * input.chunk}
\* The nearest cluster of a row, and how far it is.
Near(i) == Nearest(points[i], centroids)
Distant(i) == Far(points[i], centroids)

\* (Fault: the rows of a chunk stay numbered from its first one.)
CandidatesLocal(chunk) ==
  LET rows == RowsOf(chunk)
      ahead(i) == {j \in rows : Distant(j) > Distant(i) \/ (Distant(j) = Distant(i) /\ j < i)}
  IN {[distance |-> Distant(i), row |-> i - chunk * input.chunk] :
        i \in {i \in rows : Cardinality(ahead(i)) < Reseeds}}
\* insert_candidate, of every row: the farthest of the chunk, the first of equals.
Candidates(chunk) ==
  LET rows == RowsOf(chunk)
      ahead(i) == {j \in rows : Distant(j) > Distant(i) \/ (Distant(j) = Distant(i) /\ j < i)}
  IN {[distance |-> Distant(i), row |-> i] :
        i \in {i \in rows : Cardinality(ahead(i)) < Reseeds}}

\* The assignments of f and those of g.
Joined(f, g) == [i \in DOMAIN f \cup DOMAIN g |-> IF i \in DOMAIN f THEN f[i] ELSE g[i]]

\* s after one more chunk: its rows are added one by one.
Folded(s) ==
  LET rows == RowsOf(s.next)
      first == Min(rows)
      sums[i \in first - 1..Max(rows)] ==
        IF i < first THEN s.sums
        ELSE [sums[i - 1] EXCEPT ![Near(i)] = Rounded(@ + points[i])]
  IN [s EXCEPT
        !.next = @ + 1,
        !.counts = [c \in K |-> @[c] + Cardinality({i \in rows : Near(i) = c})],
        !.sums = sums[Max(rows)],
        !.candidates = @ \cup Candidates(s.next),
        !.assigned = Joined([i \in rows |-> Near(i)], @)]

Fold(s) ==
  /\ phase = "fold" /\ s.next < s.to
  /\ states' = (states \ {s}) \cup {Folded(s)}
  /\ UNCHANGED <<input, phase, points, centroids, left, redo, assignments, best>>

\* (Fault: the counts of the second are forgotten.)
MergedSumsOnly(a, b) ==
  LET whole == Last(a.up)
  IN [from |-> whole.from, next |-> whole.to, to |-> whole.to, up |-> Front(a.up),
      counts |-> a.counts,
      sums |-> [c \in K |-> Rounded(a.sums[c] + b.sums[c])],
      candidates |-> a.candidates \cup b.candidates,
      assigned |-> Joined(a.assigned, b.assigned)]
\* merge_from, of the two halves of a range.
Merged(a, b) ==
  LET whole == Last(a.up)
  IN [from |-> whole.from, next |-> whole.to, to |-> whole.to, up |-> Front(a.up),
      counts |-> [c \in K |-> a.counts[c] + b.counts[c]],
      sums |-> [c \in K |-> Rounded(a.sums[c] + b.sums[c])],
      candidates |-> a.candidates \cup b.candidates,
      assigned |-> Joined(a.assigned, b.assigned)]

Merge(a, b) ==
  /\ phase = "fold" /\ a.next = a.to /\ b.next = b.to
  /\ a.up = b.up /\ a.to = b.from
  /\ states' = (states \ {a, b}) \cup {Merged(a, b)}
  /\ UNCHANGED <<input, phase, points, centroids, left, redo, assignments, best>>

-----------------------------------------------------------------------------
(* update_centroids *)

\* (Fault: a sum is divided by the rows of all clusters.)
MeanOfAll(s, c) == (s.sums[c] * Unit) \div Cardinality(Trained)
Mean(s, c) == s.sums[c] * (Unit \div s.counts[c])

\* The candidates, farthest first and each row once, go to the empty clusters
\* in order; when there are no more, any row does.  Which of equally distant
\* candidates comes first is up to the unstable sort.
NewCentroids(s) ==
  LET empty == {c \in K : s.counts[c] = 0}
      pool == {x.row : x \in s.candidates}
      distance(i) == Max({x.distance : x \in {x \in s.candidates : x.row = i}})
      served == {c \in empty : Cardinality({d \in empty : d < c}) < Cardinality(pool)}
      farthest(f) ==
        /\ {f[c] : c \in served} \subseteq pool
        /\ \A c, d \in served :
             c < d => f[c] # f[d] /\ distance(f[c]) >= distance(f[d])
        /\ \A c \in served, i \in pool \ {f[d] : d \in served} :
             distance(i) <= distance(f[c])
  IN {[c \in K |-> IF c \in empty THEN Unit * points[f[c]] ELSE Mean(s, c)] :
        f \in {f \in [empty -> Trained] : farthest(f)}}

Update ==
  /\ phase = "fold"
  /\ \E s \in states :
       /\ s.up = <<>> /\ s.next = s.to
       /\ assignments' = s.assigned
       /\ \E new \in NewCentroids(s) :
            centroids' = IF input.spherical THEN Normalized(new) ELSE new
  /\ left' = left - 1
  /\ phase' = IF left' = 0 THEN "full" ELSE "fold"
  /\ states' = IF left' = 0 THEN {} ELSE Fresh(Trained)
  /\ UNCHANGED <<input, points, redo, best>>

-----------------------------------------------------------------------------
\* (Fault: the assignments are those the last iteration started from.)
ResultStale ==
  LET assigned == IF Cardinality(Trained) = Cardinality(Rows) THEN assignments
                  ELSE [r \in Rows |-> Nearest(input.data[r], centroids)]
  IN [centroids |-> centroids, assignments |-> assigned,
      objective |-> Objective(input.data, centroids, assigned)]
\* assign_full_dataset and compute_objective.
Result ==
  LET assigned == [r \in Rows |-> Nearest(input.data[r], centroids)]
  IN [centroids |-> centroids, assignments |-> assigned,
      objective |-> Objective(input.data, centroids, assigned)]

AssignFull ==
  /\ phase = "full"
  /\ best' = IF best = <<>> \/ Result.objective < best[1].objective
             THEN <<Result>> ELSE best
  /\ redo' = redo + 1 /\ phase' = "redo"
  /\ UNCHANGED <<input, points, centroids, left, states, assignments>>

\* Without a restart there is no best_result to unwrap.
Return ==
  /\ phase = "redo" /\ redo = input.nredo
  /\ phase' = IF best = <<>> THEN "panic" ELSE "done"
  /\ UNCHANGED <<input, points, centroids, left, redo, states, assignments, best>>

Next ==
  \/ Call \/ Forgy
  \/ \E s \in states : Split(s) \/ Fold(s)
  \/ \E a, b \in states : Merge(a, b)
  \/ Update \/ AssignFull \/ Return

Spec == Init /\ [][Next]_vars

-----------------------------------------------------------------------------
\* Types; the states of an iteration are of disjoint ranges that make up all.
TypeOK ==
  /\ phase \in {"call", "redo", "fold", "full", "done", "panic"}
  /\ left \in 0..input.niter /\ redo \in 0..input.nredo
  /\ \A s \in states :
       /\ 0 <= s.from /\ s.from <= s.next /\ s.next <= s.to /\ s.to <= Chunks
       /\ s.assigned \in [UNION {RowsOf(x) : x \in s.from..s.next - 1} -> K]
       /\ {x.row : x \in s.candidates} \subseteq Trained
  /\ phase = "fold" =>
       \A x \in 0..Chunks - 1 :
         Cardinality({s \in states : s.from <= x /\ x < s.to}) = 1
  /\ Len(best) <= 1

\* At any moment, on any thread: a state counts every row of the chunks it has
\* folded or merged once, where it was assigned, and has its sum (ThreadLocalState);
\* together the states are of all chunks, each once, and all types hold.
Accounted ==
  /\ TypeOK
  /\ \A s \in states : \A c \in K :
       LET mine == {i \in DOMAIN s.assigned : s.assigned[i] = c}
       IN /\ s.counts[c] = Cardinality(mine)
          /\ s.sums[c] = Total(points, mine)

\* An iteration never takes the centroids farther from the sample, whichever
\* clusters went empty and were moved (run_lloyd_iterations).
Cost == MapThenSumSet(Distant, Trained)
Descends ==
  [][phase = "fold" /\ ~input.spherical => Cost' <= Cost]_<<centroids, points>>

\* What is returned belongs together: every row has the first of the nearest
\* of the very centroids returned, and the objective is theirs.
Consistent ==
  phase = "done" =>
    /\ \A r \in Rows :
         best[1].assignments[r] = Nearest(input.data[r], best[1].centroids)
    /\ best[1].objective
         = Objective(input.data, best[1].centroids, best[1].assignments)

\* When the rows trained on are not all equal, the data are not left in one group:
\* what HierarchicalClustering::split_cluster needs to get on.
Separates ==
  phase = "done" /\ ~input.spherical /\ input.k >= 2
    /\ Cardinality({points[i] : i \in Trained}) >= 2
    => Cardinality({best[1].assignments[r] : r \in Rows}) >= 2

\* However the chunks are divided among threads, an iteration is one of Lloyd's.
Lloyd == INSTANCE Lloyd WITH spherical <- input.spherical
Implements == Lloyd!Spec

\* The sums of one thread, which folds chunk after chunk.
SerialSums ==
  LET sums[i \in -1..Cardinality(Trained) - 1] ==
        IF i = -1 THEN [c \in K |-> 0]
        ELSE [sums[i - 1] EXCEPT ![Near(i)] = Rounded(@ + points[i])]
  IN sums[Cardinality(Trained) - 1]
\* The seed decides the centroids, whatever the schedule: an iteration ends with
\* the sums a single thread gets ("runs_are_deterministic_given_seed", kmeans.rs:757).
Deterministic ==
  \A s \in states : s.up = <<>> /\ s.next = s.to => s.sums = SerialSums
=============================================================================
