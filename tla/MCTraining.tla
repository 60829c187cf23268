----------------------------- MODULE MCTraining -----------------------------
(***************************************************************************)
(* Instances of the Quantizer and of k-means, which share nothing: one     *)
(* works while the other rests, at an input it has nothing to do for.      *)
(***************************************************************************)
EXTENDS Quantizer, KMeansTraining, Sequences

\* Magnitudes up to 7 in three coordinates: all orders, equal ones and zeros
\* among them, two coordinates negative.
Vectors == {<<x, -y, -z>> : x \in 0..7, y \in 0..7, z \in 0..7}
Origin == {<<0, 0, 0>>, <<2, -1, 1>>}
Factors == {None, <<3, 1>>, <<11, 2>>}

Data(s) == [r \in 0..Len(s) - 1 |-> s[r + 1]]
Config(data, k, niter, nredo, chunk, per, spherical) ==
  [data |-> Data(data), k |-> k, niter |-> niter, nredo |-> nredo, chunk |-> chunk,
   per |-> per, spherical |-> spherical]
NoRows == Config(<<>>, 1, 1, 1, 1, 256, FALSE)

\* Data with equal rows, so that clusters go empty, more empty ones than
\* candidates, samples, restarts, and calls k-means refuses.
SmallInputs ==
  {Config(d, 3, 2, 1, 2, 256, FALSE) :
     d \in {<<0, 0, 0, 0, 0, 7>>, <<0, 0, 0, 1, 1, 5>>, <<-3, 4, 0, 0, 4, 9>>, <<2, 2, 2, 2>>}}
  \cup {Config(<<0, 0, 0, 3, 3, 8>>, 5, 1, 1, chunk, 256, FALSE) : chunk \in {3, 6}}
  \cup {Config(d, 2, 2, 2, 1, per, FALSE) :
          d \in {<<0, 1, 1, 6>>, <<-1, -1, 5>>}, per \in {1, 256}}
  \cup {Config(<<0, 0, 5>>, 2, 1, 1, 2, 256, FALSE)}
  \cup {Config(<<-2, 3, 0>>, 2, 1, 1, 2, 256, TRUE)}
  \cup {Config(<<1, 2>>, k, niter, nredo, chunk, 256, FALSE) :
          k \in {0, 1, 3}, niter \in 0..1, nredo \in 0..1, chunk \in 0..1}
  \cup {NoRows}

\* Sums that pass the mantissa of a short float.
SeededInputs == {Config(<<16, 1, 1, 1>>, 1, 1, 1, 1, 256, FALSE)}

-----------------------------------------------------------------------------
kmeansVars ==
  <<config, stage, points, centroids, left, redo, states, assignments, result>>
AtRest == [residual |-> <<0, 0, 0>>, centroid |-> <<0, 0, 0>>, bits |-> 0, t |-> None]
Quantizes == config = NoRows
TrainsNow == input = AtRest

\* run_kmeans_with_config returned, or panicked.
KMeansReturned == stage \in {"done", "panic"} /\ UNCHANGED kmeansVars

StartEither == Init /\ KM!Init
Either ==
  \/ Quantizes /\ (Next \/ Returned) /\ UNCHANGED kmeansVars
  \/ TrainsNow /\ (KM!Next \/ KMeansReturned) /\ UNCHANGED vars
SpecEither ==
  /\ \/ Quantizes /\ StartEither
     \/ TrainsNow /\ StartEither
  /\ [][Either]_<<vars, kmeansVars>>
=============================================================================
