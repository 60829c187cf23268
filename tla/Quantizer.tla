----------------------------- MODULE Quantizer -----------------------------
(***************************************************************************)
(* quantize_with_centroid: the residual of a vector to its centroid is     *)
(* turned into one sign bit and an extended code for each coordinate, and  *)
(* the factors from which searches estimate distances.                     *)
(*                                                                         *)
(* The heart of it is best_rescale_factor, which sweeps the scaling factor *)
(* up from t_start, from one change of a code to the next, keeps inner     *)
(* product and norm up to date as it goes, and remembers the factor that   *)
(* did best.  One step of Advance is one turn of its loop.                 *)
(*                                                                         *)
(* Vectors are integers and all else is fractions of them, so that nothing *)
(* is rounded; where the code compares two roundings of equal numbers, the *)
(* model takes either outcome.                                             *)
(***************************************************************************)
EXTENDS CodeSpace

CONSTANTS
  None,
  Residuals,     \* data - centroid
  Centroids,
  Widths,        \* ex_bits, total_bits - 1
  Constants      \* t_const of the faster configuration, or None

ASSUME QuantizerAssumption ==
  /\ Widths \subseteq 0..15
  /\ None \in Constants
  /\ \A t \in Constants \ {None} : t[1] \in Nat /\ t[2] \in Nat \ {0}
  /\ \A r \in Residuals, c \in Centroids : DOMAIN r = DOMAIN c
  /\ \A v \in Residuals \cup Centroids :
       v \in [DOMAIN v -> Int] /\ DOMAIN v \subseteq Nat /\ IsFiniteSet(DOMAIN v)

VARIABLES
  input,        \* the arguments
  phase,        \* "begin", "sweep", "code", "encoded"
  cur,          \* cur_o_bar: the codes at the factor the sweep is at
  product,      \* 2 * numerator: Product of cur
  normSqr,      \* 4 * sqr_denominator: NormSqr of cur
  heap,         \* for a coordinate in it, the factor that changes its code
  best,         \* max_ip: the best score so far
  factor,       \* best_t, then t
  code,         \* ex_code, negative coordinates complemented
  ipnorm        \* of the codes before that, times 2: 1 / ipnorm_inv

vars == <<input, phase, cur, product, normSqr, heap, best, factor, code, ipnorm>>

residual == input.residual
bits == input.bits
Coordinates == DOMAIN residual
Magnitude(x) == IF x < 0 THEN -x ELSE x
o == [i \in Coordinates |-> Magnitude(residual[i])]
Square(v) == MapThenSumSet(LAMBDA i : v[i] * v[i], DOMAIN v)
Along(v, w) == MapThenSumSet(LAMBDA i : v[i] * w[i], DOMAIN v)
NoCode == [i \in Coordinates |-> 0]

Init ==
  /\ input \in [residual : Residuals, centroid : Centroids,
                bits : Widths, t : Constants]
  /\ phase = "begin"
  /\ cur = <<>> /\ product = 0 /\ normSqr = 0 /\ heap = <<>>
  /\ best = None /\ factor = None
  /\ code = <<>> /\ ipnorm = 0

\* One bit in all, or a vector at its centroid.
NoExtension ==
  /\ phase = "begin"
  /\ bits = 0 \/ Square(residual) = 0
  /\ code' = NoCode
  /\ phase' = "encoded"
  /\ UNCHANGED <<input, cur, product, normSqr, heap, best, factor, ipnorm>>

TakeConstant ==
  /\ phase = "begin" /\ bits > 0 /\ Square(residual) > 0
  /\ input.t # None
  /\ phase' = "code"
  /\ UNCHANGED <<input, cur, product, normSqr, heap, best, factor, code, ipnorm>>

(***************************************************************************)
(* best_rescale_factor                                                     *)
(***************************************************************************)
StartSweep ==
  /\ phase = "begin" /\ bits > 0 /\ Square(residual) > 0
  /\ input.t = None
  /\ cur' = [i \in Coordinates |-> Scaled(Start(o, bits), o[i])]
  /\ product' = Product(cur', o)
  /\ normSqr' = NormSqr(cur')
  /\ heap' = [i \in {j \in Coordinates : o[j] > 0} |-> <<cur'[i] + 1, o[i]>>]
  /\ best' = [product |-> 0, normSqr |-> 1]
  /\ factor' = Start(o, bits)
  /\ phase' = "sweep"
  /\ UNCHANGED <<input, code, ipnorm>>

\* The factor due next.  Coordinates of the same magnitude go by their number;
\* other factors that are equal may have been rounded either way.
First(i) ==
  \A j \in DOMAIN heap :
    /\ ~Less(heap[j], heap[i])
    /\ o[j] = o[i] /\ heap[j] = heap[i] => i <= j

\* (Fault: the square grows by what the code does.)
GrownOnce(c) == normSqr + 4 * c
\* (c + 1/2)^2 of the code c that was c - 1.
Grown(c) == normSqr + 8 * c

\* (Fault: the norm is left out of the comparison.)
HigherProduct(s, r) == s.product > r.product
Improves(s, r) == Better(s, r)
Ties(s, r) == ~Better(s, r) /\ ~Better(r, s)

\* (Fault: the last level of a code is left out.)
OpenShort(c) == c < Levels(bits) - 1
\* Whether coordinate i, now at code c, changes again.
Open(c) == c < Levels(bits)

Remaining(i) == [j \in DOMAIN heap \ {i} |-> heap[j]]
Pushed(i, t) == [j \in DOMAIN heap |-> IF j = i THEN t ELSE heap[j]]

Advance(i) ==
  /\ phase = "sweep" /\ First(i)
  /\ Less(heap[i], End(o, bits))
  /\ LET c == cur[i] + 1
         next == <<c + 1, o[i]>>
         score == [product |-> product', normSqr |-> normSqr']
     IN /\ cur' = [cur EXCEPT ![i] = c]
        /\ normSqr' = Grown(c)
        /\ product' = product + 2 * o[i]
        /\ \/ /\ Improves(score, best) \/ Ties(score, best)
              /\ best' = score /\ factor' = heap[i]
           \/ /\ ~Improves(score, best)
              /\ UNCHANGED <<best, factor>>
        /\ heap' = IF Open(c) /\ Less(next, End(o, bits))
                   THEN Pushed(i, next) ELSE Remaining(i)
  /\ UNCHANGED <<input, phase, code, ipnorm>>

\* What was pushed at the start may be due past t_end.
Skip(i) ==
  /\ phase = "sweep" /\ First(i)
  /\ ~Less(heap[i], End(o, bits))
  /\ heap' = Remaining(i)
  /\ UNCHANGED <<input, phase, cur, product, normSqr, best, factor, code, ipnorm>>

EndSweep ==
  /\ phase = "sweep" /\ heap = <<>>
  /\ phase' = "code"
  /\ UNCHANGED <<input, cur, product, normSqr, heap, best, factor, code, ipnorm>>

(***************************************************************************)
(* quantize_ex_with_inv                                                    *)
(***************************************************************************)
\* floor(t_const * m / norm), where the norm is the root of the square.
ScaledByNorm(t, m) ==
  Max({c \in 0..t[1] * m : c * c * Square(residual) * t[2] * t[2] <= t[1] * t[1] * m * m})
Multiple(i) ==
  IF input.t = None THEN Scaled(factor, o[i]) ELSE ScaledByNorm(input.t, o[i])

Clamped(c) == Smaller(c, Levels(bits))
Codes == [i \in Coordinates |-> Clamped(Multiple(i))]

\* (Fault: the inner product is that of the codes before they are cut.)
UncutProduct == Product([i \in Coordinates |-> Multiple(i)], o)
CodeProduct == Product(Codes, o)

\* (Fault: zero counts as negative here, and as positive in the binary code.)
NotPositive(x) == x <= 0
\* (Fault: nothing is complemented.)
NeverNegative(x) == FALSE
Negative(x) == x < 0

Encode ==
  /\ phase = "code"
  /\ ipnorm' = CodeProduct
  /\ code' = [i \in Coordinates |->
                IF Negative(residual[i]) THEN Levels(bits) - Codes[i] ELSE Codes[i]]
  /\ phase' = "encoded"
  /\ UNCHANGED <<input, cur, product, normSqr, heap, best, factor>>

Next ==
  \/ NoExtension \/ TakeConstant \/ StartSweep
  \/ \E i \in DOMAIN heap : Advance(i) \/ Skip(i)
  \/ EndSweep \/ Encode

\* quantize_with_centroid returned.
Returned == phase = "encoded" /\ UNCHANGED vars

Spec == Init /\ [][Next \/ Returned]_vars

(***************************************************************************)
(* The rest of quantize_with_centroid follows from residual and code.      *)
(***************************************************************************)
Binary(i) == IF residual[i] >= 0 THEN 1 ELSE 0
TotalCode(i) == code[i] + Binary(i) * 2^bits

\* Twice the coordinates the codes stand for: quantized_shifted, and xu_cb of
\* compute_extended_factors and of compute_one_bit_factors.
Shifted == [i \in Coordinates |-> 2 * TotalCode(i) - (2^(bits + 1) - 1)]
Signs == [i \in Coordinates |-> 2 * Binary(i) - 1]

\* <<n, d>>, and 0 where the code divides by infinity.
Over(n, d) == IF d = 0 THEN <<0, 1>> ELSE <<n, d>>

\* f_add and f_rescale for the codes xu; f_rescale is of twice the inner
\* product of xu and the query.  (delta and vl follow from Shifted alone.)
AddFactor(metric, xu) ==
  LET c == input.centroid
      share == Over(Square(residual) * Along(c, xu), Along(residual, xu))
  IN IF metric = "L2"
     THEN <<Square(residual) * share[2] + 2 * share[1], share[2]>>
     ELSE <<(1 - Along(residual, c)) * share[2] + share[1], share[2]>>
RescaleFactor(metric, product2) ==
  LET share == Over(Square(residual), product2)
  IN IF metric = "L2" THEN <<-2 * share[1], share[2]>> ELSE <<-share[1], share[2]>>
OneBitFactors(metric) ==
  [add |-> AddFactor(metric, Signs),
   rescale |-> RescaleFactor(metric, Along(residual, Signs))]
ExtendedFactors(metric) ==
  [add |-> AddFactor(metric, Shifted), rescale |-> RescaleFactor(metric, ipnorm)]

\* delta: how far along the codes the vector is rebuilt.
Delta == Over(Along(residual, Shifted), Square(Shifted))

(***************************************************************************)
(* Properties.                                                             *)
(***************************************************************************)
TypeOK ==
  /\ phase \in {"begin", "sweep", "code", "encoded"}
  /\ product \in Nat /\ normSqr \in Nat /\ ipnorm \in Nat
  /\ DOMAIN heap \subseteq Coordinates
  /\ phase = "sweep" => cur \in [Coordinates -> 0..Levels(bits) + 10]
  /\ phase = "encoded" =>
       \A i \in Coordinates : TotalCode(i) \in 0..2^(bits + 1) - 1

\* At every turn of the loop of best_rescale_factor the sums, which it only ever
\* adds to, are those of the codes it is at; and what comes out fits its types.
SumsExact ==
  /\ TypeOK
  /\ phase = "sweep" => product = Product(cur, o) /\ normSqr = NormSqr(cur)

\* No change of a code is forgotten or early: the heap holds the coordinates
\* whose next change comes before t_end and whose code is not full, each with
\* the factor of that change.  (At the start it may hold more.)
HeapExact ==
  phase = "sweep" =>
    /\ \A i \in DOMAIN heap : heap[i] = <<cur[i] + 1, o[i]>>
    /\ \A i \in Coordinates :
         (/\ o[i] > 0
          /\ cur[i] < Levels(bits)
          /\ Less(<<cur[i] + 1, o[i]>>, End(o, bits))) => i \in DOMAIN heap

\* Codes keep sign and order: what a code stands for is on the side of zero the
\* residual is on, and larger where that is larger (quantize_ex_with_inv, which
\* complements, and quantize_with_centroid, which adds the sign).
OrderKept ==
  phase = "encoded" =>
    \A i, j \in Coordinates :
      /\ Shifted[i] * residual[i] >= 0
      /\ residual[i] <= residual[j] => Shifted[i] <= Shifted[j]

\* A vector along its own residual: a query k times as far from the centroid.
Estimate(metric, factors, xu, k) ==
  LET query == [i \in Coordinates |-> input.centroid[i] + k * residual[i]]
      add == IF metric = "L2" THEN k * k * Square(residual)
             ELSE -Along(query, input.centroid)
      a == factors.add
      r == factors.rescale
      n == a[1] * r[2] + add * a[2] * r[2] + r[1] * Along(xu, query) * a[2]
  IN <<n, a[2] * r[2]>>
TrueDistance(metric, k) ==
  LET r2 == Square(residual)
      vector == [i \in Coordinates |-> input.centroid[i] + residual[i]]
      query == [i \in Coordinates |-> input.centroid[i] + k * residual[i]]
  IN IF metric = "L2" THEN (k - 1) * (k - 1) * r2 ELSE 1 - Along(vector, query)

\* Whatever the codes, both estimates are exact for a query on the line from
\* the centroid to the vector, the vector itself among them: the three places
\* that work out an inner product with the codes agree (compute_one_bit_factors,
\* compute_extended_factors, ipnorm_inv of quantize_ex_with_inv).
ExactAlongResidual ==
  phase = "encoded" =>
    \A metric \in {"L2", "InnerProduct"}, k \in {-1, 1, 2} :
      LET exact(e) == e[1] = e[2] * TrueDistance(metric, k)
      IN /\ exact(Estimate(metric, OneBitFactors(metric), Signs, k))
         /\ bits > 0 =>
              exact(Estimate(metric, ExtendedFactors(metric), Shifted, k))

\* A vector rebuilt from the codes of its own best factor is no farther from
\* the original than one rebuilt from its signs (reconstruct_into, delta).
ExtraBitsHelp ==
  phase = "encoded" /\ input.t = None =>
    ~Better([product |-> Along(residual, Signs), normSqr |-> Square(Signs)],
            [product |-> Along(residual, Shifted), normSqr |-> Square(Shifted)])

\* The factor the sweep ends with is the best there is.
Abstract == INSTANCE BestFactor WITH
  Magnitudes <- {[i \in DOMAIN r |-> Magnitude(r[i])] : r \in Residuals},
  factor <- IF input.t = None /\ phase \in {"code", "encoded"} THEN factor ELSE None
Implements == Abstract!Spec
=============================================================================
