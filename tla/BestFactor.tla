---------------------------- MODULE BestFactor ----------------------------
(***************************************************************************)
(* What best_rescale_factor promises.  RabitqConfig: "compute optimal t    *)
(* for each vector".                                                       *)
(***************************************************************************)
EXTENDS CodeSpace

CONSTANTS
  None,
  Magnitudes,    \* the vectors considered, in magnitudes
  Widths         \* and widths

VARIABLES o, bits, factor
vars == <<o, bits, factor>>

Init ==
  /\ o \in Magnitudes /\ bits \in Widths
  /\ factor = None

Optimal(t) ==
  LET score(u) == Score(CodeAt(o, bits, u), o)
  IN \A u \in Breakpoints(o, bits) : ~Better(score(u), score(t))

\* A factor whose code is the best of all those after t_start, or, of data whose
\* codes do not change one by one, some factor after it.  (The code at t_start
\* itself is not tried, and can be better.)
Choose ==
  /\ factor = None /\ bits > 0 /\ Greatest(o) > 0
  /\ \/ /\ Plain(o, bits)
        /\ \E t \in Breakpoints(o, bits) : Optimal(t) /\ factor' = t
     \/ /\ ~Plain(o, bits)
        /\ \E m \in {o[i] : i \in DOMAIN o} \ {0} :
             \E c \in 1..Levels(bits) + 10 :
               /\ Less(Start(o, bits), <<c, m>>) /\ Less(<<c, m>>, End(o, bits))
               /\ factor' = <<c, m>>
  /\ UNCHANGED <<o, bits>>

Spec == Init /\ [][Choose]_vars
=============================================================================
