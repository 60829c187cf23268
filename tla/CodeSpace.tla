----------------------------- MODULE CodeSpace -----------------------------
(***************************************************************************)
(* What the extended codes of a vector are, and how good.                  *)
(*                                                                         *)
(* A scaling factor t turns a magnitude m into the code floor(t * m), up   *)
(* to the largest code of its width; the code c stands for c + 1/2.  A     *)
(* factor is a fraction <<n, d>>.  The code divides the magnitudes by      *)
(* their norm first, which changes neither the codes a factor t / norm     *)
(* gives nor which of two codes points closer to the vector, so the        *)
(* magnitudes here are integers.  (The code adds 1e-5 before it cuts, for  *)
(* a rounded product just below an integer: exact products need none.)     *)
(***************************************************************************)
EXTENDS Integers, FiniteSetsExt

Levels(bits) == 2^bits - 1
Smaller(m, n) == IF m < n THEN m ELSE n
Greatest(o) == Max({o[i] : i \in DOMAIN o})

\* The order of fractions.
Less(s, t) == s[1] * t[2] < t[1] * s[2]

\* K_TIGHT_START, in hundredths.
Tight(bits) ==
  <<0, 15, 20, 52, 59, 71, 75, 77, 81>>[1 + Smaller(bits, 8)]

\* The factors considered, from t_start up to t_end (K_NENUM = 10).
End(o, bits) == <<Levels(bits) + 10, Greatest(o)>>
Start(o, bits) == <<(Levels(bits) + 10) * Tight(bits), 100 * Greatest(o)>>

Scaled(t, m) == (t[1] * m) \div t[2]
CodeAt(o, bits, t) ==
  [i \in DOMAIN o |-> Smaller(Scaled(t, o[i]), Levels(bits))]

\* The inner product of a code with the magnitudes, and its squared norm: the
\* first over the root of the second is how well it points at the vector.
Product(code, o) == MapThenSumSet(LAMBDA i : (2 * code[i] + 1) * o[i], DOMAIN o)
NormSqr(code) ==
  MapThenSumSet(LAMBDA i : (2 * code[i] + 1) * (2 * code[i] + 1), DOMAIN code)
Score(code, o) == [product |-> Product(code, o), normSqr |-> NormSqr(code)]
Better(s, r) ==
  s.product * s.product * r.normSqr > r.product * r.product * s.normSqr

\* The factors at which a code changes.
Breakpoints(o, bits) ==
  {t \in {<<c, o[i]>> : c \in 1..Levels(bits), i \in {j \in DOMAIN o : o[j] > 0}} :
     /\ Less(t, End(o, bits))
     /\ \E i \in DOMAIN o :
          o[i] = t[2] /\ t[1] > Scaled(Start(o, bits), o[i])}

\* Data whose codes change one at a time, none of them full at t_start.
Plain(o, bits) ==
  /\ Scaled(Start(o, bits), Greatest(o)) < Levels(bits)
  /\ \A i, j \in DOMAIN o :
       i # j /\ o[i] > 0 /\ o[j] > 0 =>
         \A c, d \in 1..Levels(bits) :
           c * o[j] = d * o[i] =>
             \/ c <= Scaled(Start(o, bits), o[i])
             \/ ~Less(<<c, o[i]>>, End(o, bits))
=============================================================================
