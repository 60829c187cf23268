--------------------------- MODULE TrainingProofs ---------------------------
(***************************************************************************)
(* What is done to vectors before they are searched.  Quantization, for    *)
(* every vector, width and factor: the sweep keeps its sums and its heap   *)
(* exact and ends with the best factor, codes keep sign and order, and     *)
(* estimates are exact along the residual.  K-means, for every data set    *)
(* whose sums fit a float, every configuration and division into chunks:   *)
(* threads account for each row once, an iteration is one of Lloyd's and   *)
(* never worse, what is returned belongs together, and rows that differ    *)
(* are kept apart.                                                         *)
(***************************************************************************)
EXTENDS Quantizer, KMeansTraining, Sequences, SequenceTheorems, FiniteSetTheorems, TLAPS

-----------------------------------------------------------------------------
(* Induction. *)

\* Induction over numbers, for a set: what has 0 and with n also n + 1.
LEMMA SetInduction ==
  ASSUME NEW T, T \subseteq Nat, 0 \in T, \A n \in T : n + 1 \in T
  PROVE  T = Nat
<1> SUFFICES ASSUME NEW m \in Nat, m \notin T PROVE FALSE
  OBVIOUS
<1> DEFINE f == [n \in 0..m |-> IF n \in T THEN n + 1 ELSE n]
<1>1. f \in Injection(0..m, 0..m)
  <2>1. f \in [0..m -> 0..m]
    OBVIOUS
  <2>2. \A x, y \in 0..m : f[x] = f[y] => x = y
    OBVIOUS
  <2> QED
    BY <2>1, <2>2 DEF Injection, IsInjective
<1>2. f \in Surjection(0..m, 0..m)
  BY <1>1, FS_Interval, FS_Injection
<1>3. \E n \in 0..m : f[n] = 0
  <2> HIDE DEF f
  <2>1. 0 \in 0..m
    OBVIOUS
  <2> QED
    BY <1>2, <2>1 DEF Surjection
<1> QED
  BY <1>3

\* The element a sum takes next.
Some(s) == CHOOSE x \in s : TRUE

\* Induction over a finite set in the order a sum goes through it.
LEMMA PeelInduction ==
  ASSUME NEW S, IsFiniteSet(S), NEW T, {} \in T,
         \A s \in SUBSET S : s # {} /\ s \ {Some(s)} \in T => s \in T
  PROVE  S \in T
<1> DEFINE N == {n \in Nat : \A s \in SUBSET S : Cardinality(s) = n => s \in T}
<1>1. \A s \in SUBSET S : IsFiniteSet(s) /\ Cardinality(s) \in Nat
  BY FS_Subset, FS_CardinalityType
<1>2. 0 \in N
  <2>1. \A s \in SUBSET S : Cardinality(s) = 0 => s = {}
    BY <1>1, FS_EmptySet
  <2> QED
    BY <2>1
<1>3. ASSUME NEW n \in N PROVE n + 1 \in N
  <2> SUFFICES ASSUME NEW s \in SUBSET S, Cardinality(s) = n + 1
               PROVE  s \in T
    OBVIOUS
  <2>1. s # {}
    BY FS_EmptySet
  <2>2. Some(s) \in s
    BY <2>1 DEF Some
  <2>3. Cardinality(s \ {Some(s)}) = Cardinality(s) - 1
    BY <1>1, <2>2, FS_RemoveElement
  <2>4. Cardinality(s \ {Some(s)}) = n
    BY <2>3
  <2> QED
    BY <2>1, <2>4
<1>4. N = Nat
  <2> HIDE DEF N
  <2>1. N \subseteq Nat
    BY DEF N
  <2> QED
    BY <1>2, <1>3, <2>1, SetInduction
<1> QED
  BY <1>1, <1>4

-----------------------------------------------------------------------------
(* Sums over finite sets, as MapThenSumSet works them out. *)

\* One turn of the recursion of a sum over the sets of D.
Sums(D, f, g) == [s \in D |-> IF s = {} THEN 0 ELSE f[Some(s)] + g[s \ {Some(s)}]]

SumOver(S, f) == (CHOOSE g : g = Sums(SUBSET S, f, g))[S]

\* There is a function that adds up so.
LEMMA SumExists ==
  ASSUME NEW S, IsFiniteSet(S), NEW f
  PROVE  \E g : g = Sums(SUBSET S, f, g)
<1> DEFINE Upto(n) == {s \in SUBSET S : Cardinality(s) <= n}
           T == {n \in Nat : \E g : g = Sums(Upto(n), f, g)}
<1>0. \A s \in SUBSET S : IsFiniteSet(s) /\ Cardinality(s) \in Nat
  BY FS_Subset, FS_CardinalityType
<1>1. \A s \in SUBSET S : s # {} => /\ Some(s) \in s
                                   /\ s \ {Some(s)} \in SUBSET S
                                   /\ Cardinality(s \ {Some(s)}) = Cardinality(s) - 1
  BY <1>0, FS_RemoveElement DEF Some
<1>2. 0 \in T
  <2>1. \A s \in Upto(0) : s = {}
    BY <1>0, FS_EmptySet
  <2> DEFINE g == [s \in Upto(0) |-> 0]
  <2>2. g = Sums(Upto(0), f, g)
    BY <2>1 DEF Sums
  <2> QED
    BY <2>2
<1>3. ASSUME NEW n \in T PROVE n + 1 \in T
  <2>1. PICK g : g = Sums(Upto(n), f, g)
    OBVIOUS
  <2> DEFINE h == Sums(Upto(n + 1), f, g)
  <2> HIDE DEF Upto
  <2>2. Upto(n) \subseteq Upto(n + 1)
    BY <1>0 DEF Upto
  <2>3. \A s \in Upto(n) : h[s] = g[s]
    <3>1. \A s \in Upto(n) : g[s] = IF s = {} THEN 0 ELSE f[Some(s)] + g[s \ {Some(s)}]
      BY <2>1 DEF Sums
    <3> QED
      BY <2>2, <3>1 DEF Sums
  <2>4. \A s \in Upto(n + 1) : s # {} => s \ {Some(s)} \in Upto(n)
    BY <1>0, <1>1 DEF Upto
  <2>5. h = Sums(Upto(n + 1), f, h)
    <3>1. \A s \in Upto(n + 1) : s # {} => h[s \ {Some(s)}] = g[s \ {Some(s)}]
      BY <2>3, <2>4
    <3> QED
      BY <3>1 DEF Sums
  <2>6. \E k : k = Sums(Upto(n + 1), f, k)
    <3> HIDE DEF h
    <3> QED BY <2>5
  <2> QED
    BY <2>6
<1>4. T = Nat
  <2> HIDE DEF T
  <2>1. T \subseteq Nat
    BY DEF T
  <2> QED
    BY <1>2, <1>3, <2>1, SetInduction
<1>5. Upto(Cardinality(S)) = SUBSET S
  BY FS_Subset, FS_CardinalityType
<1>6. Cardinality(S) \in Nat
  BY FS_CardinalityType
<1> QED
  BY <1>4, <1>5, <1>6

\* And no two.
LEMMA SumUnique ==
  ASSUME NEW S, IsFiniteSet(S), NEW f, NEW g, NEW h, NEW D,
         SUBSET S \subseteq D, g = Sums(D, f, g), h = Sums(SUBSET S, f, h)
  PROVE  g[S] = h[S]
<1> DEFINE T == {s \in SUBSET S : g[s] = h[s]}
<1>1. {} \in T
  BY DEF Sums
<1>2. ASSUME NEW s \in SUBSET S, s # {}, s \ {Some(s)} \in T
      PROVE  s \in T
  <2>1. g[s] = f[Some(s)] + g[s \ {Some(s)}] /\ h[s] = f[Some(s)] + h[s \ {Some(s)}]
    BY <1>2 DEF Sums
  <2> QED
    BY <1>2, <2>1
<1>3. S \in T
  <2> HIDE DEF T
  <2> QED
    BY <1>1, <1>2, PeelInduction
<1> QED
  BY <1>3

LEMMA SumEmpty ==
  ASSUME NEW f
  PROVE  SumOver({}, f) = 0
<1>1. PICK g : g = Sums(SUBSET {}, f, g) /\ SumOver({}, f) = g[{}]
  <2>1. \E g : g = Sums(SUBSET {}, f, g)
    BY SumExists, FS_EmptySet
  <2> QED
    BY <2>1 DEF SumOver
<1>2. {} \in SUBSET {}
  OBVIOUS
<1> QED
  BY <1>1, <1>2 DEF Sums

LEMMA SumStep ==
  ASSUME NEW S, IsFiniteSet(S), S # {}, NEW f
  PROVE  SumOver(S, f) = f[Some(S)] + SumOver(S \ {Some(S)}, f)
<1> DEFINE R == S \ {Some(S)}
<1>1. PICK g : g = Sums(SUBSET S, f, g) /\ SumOver(S, f) = g[S]
  BY SumExists DEF SumOver
<1>2. IsFiniteSet(R) /\ SUBSET R \subseteq SUBSET S
  BY FS_Subset
<1>3. PICK h : h = Sums(SUBSET R, f, h) /\ SumOver(R, f) = h[R]
  <2> HIDE DEF R
  <2> QED
    BY <1>2, SumExists DEF SumOver
<1>4. g[R] = h[R]
  <2> HIDE DEF R
  <2> QED
    BY <1>1, <1>2, <1>3, SumUnique
<1>5. g[S] = f[Some(S)] + g[R]
  BY <1>1 DEF Sums
<1> QED
  BY <1>1, <1>3, <1>4, <1>5

\* What a proof by PeelInduction about sums has to show.
LEMMA PeelFacts ==
  ASSUME NEW S, IsFiniteSet(S), NEW s \in SUBSET S, s # {}
  PROVE  /\ IsFiniteSet(s) /\ Some(s) \in s /\ Some(s) \in S
         /\ s \ {Some(s)} \in SUBSET S
         /\ \A f : SumOver(s, f) = f[Some(s)] + SumOver(s \ {Some(s)}, f)
  BY FS_Subset, SumStep DEF Some

\* A sum of integers is one.
LEMMA SumInt ==
  ASSUME NEW S, IsFiniteSet(S), NEW f, \A x \in S : f[x] \in Int
  PROVE  SumOver(S, f) \in Int
<1> DEFINE T == {s \in SUBSET S : SumOver(s, f) \in Int}
<1>1. {} \in T
  BY SumEmpty
<1>2. ASSUME NEW s \in SUBSET S, s # {}, s \ {Some(s)} \in T
      PROVE  s \in T
  <2>1. PICK x, r : x = Some(s) /\ r = s \ {Some(s)}
    OBVIOUS
  <2>2. /\ x \in S /\ r \in T
        /\ SumOver(s, f) = f[x] + SumOver(r, f)
    BY <1>2, <2>1, PeelFacts
  <2> QED
    BY <2>2
<1>3. S \in T
  <2> HIDE DEF T
  <2> QED
    BY <1>1, <1>2, PeelInduction
<1> QED
  BY <1>3

\* A sum of multiples is the sum of the multiples of the sums.
LEMMA SumLinear ==
  ASSUME NEW S, IsFiniteSet(S), NEW f, NEW g, NEW h, NEW a \in Int, NEW b \in Int,
         \A x \in S : f[x] \in Int /\ g[x] \in Int /\ h[x] = a * f[x] + b * g[x]
  PROVE  SumOver(S, h) = a * SumOver(S, f) + b * SumOver(S, g)
<1> DEFINE T == {s \in SUBSET S :
                   /\ SumOver(s, f) \in Int /\ SumOver(s, g) \in Int
                   /\ SumOver(s, h) = a * SumOver(s, f) + b * SumOver(s, g)}
<1>1. {} \in T
  BY SumEmpty
<1>2. ASSUME NEW s \in SUBSET S, s # {}, s \ {Some(s)} \in T
      PROVE  s \in T
  <2>1. PICK x, r : x = Some(s) /\ r = s \ {Some(s)}
    OBVIOUS
  <2>2. /\ x \in S /\ r \in T
        /\ SumOver(s, f) = f[x] + SumOver(r, f)
        /\ SumOver(s, g) = g[x] + SumOver(r, g)
        /\ SumOver(s, h) = h[x] + SumOver(r, h)
    <3> HIDE DEF T
    <3> QED
      BY <1>2, <2>1, PeelFacts
  <2>3. PICK u, v, y, z :
          u = f[x] /\ v = g[x] /\ y = SumOver(r, f) /\ z = SumOver(r, g)
    OBVIOUS
  <2>4. /\ u \in Int /\ v \in Int /\ y \in Int /\ z \in Int
        /\ h[x] = a * u + b * v /\ SumOver(r, h) = a * y + b * z
    BY <2>2, <2>3
  <2>5. SumOver(s, f) = u + y /\ SumOver(s, g) = v + z
        /\ SumOver(s, h) = (a * u + b * v) + (a * y + b * z)
    BY <2>2, <2>3, <2>4, Zenon
  <2>6. (a * u + b * v) + (a * y + b * z) = a * (u + y) + b * (v + z)
    BY <2>4, SMT
  <2> QED
    BY <2>4, <2>5, <2>6
<1>3. S \in T
  <2> HIDE DEF T
  <2> QED
    BY <1>1, <1>2, PeelInduction
<1> QED
  BY <1>3

\* Equal terms have equal sums.
LEMMA SumSame ==
  ASSUME NEW S, IsFiniteSet(S), NEW f, NEW g, \A x \in S : f[x] = g[x]
  PROVE  SumOver(S, f) = SumOver(S, g)
<1> DEFINE T == {s \in SUBSET S : SumOver(s, f) = SumOver(s, g)}
<1>1. {} \in T
  BY SumEmpty
<1>2. ASSUME NEW s \in SUBSET S, s # {}, s \ {Some(s)} \in T
      PROVE  s \in T
  <2>1. PICK x, r : x = Some(s) /\ r = s \ {Some(s)}
    OBVIOUS
  <2>2. /\ x \in S /\ r \in T
        /\ SumOver(s, f) = f[x] + SumOver(r, f)
        /\ SumOver(s, g) = g[x] + SumOver(r, g)
    BY <1>2, <2>1, PeelFacts
  <2> QED
    BY <2>2
<1>3. S \in T
  <2> HIDE DEF T
  <2> QED
    BY <1>1, <1>2, PeelInduction
<1> QED
  BY <1>3

\* Smaller terms have a smaller sum.
LEMMA SumLess ==
  ASSUME NEW S, IsFiniteSet(S), NEW f, NEW g,
         \A x \in S : f[x] \in Int /\ g[x] \in Int /\ f[x] <= g[x]
  PROVE  SumOver(S, f) <= SumOver(S, g)
<1> DEFINE T == {s \in SUBSET S :
                   /\ SumOver(s, f) \in Int /\ SumOver(s, g) \in Int
                   /\ SumOver(s, f) <= SumOver(s, g)}
<1>1. {} \in T
  BY SumEmpty
<1>2. ASSUME NEW s \in SUBSET S, s # {}, s \ {Some(s)} \in T
      PROVE  s \in T
  <2>1. PICK x, r : x = Some(s) /\ r = s \ {Some(s)}
    OBVIOUS
  <2>2. /\ x \in S /\ r \in T
        /\ SumOver(s, f) = f[x] + SumOver(r, f)
        /\ SumOver(s, g) = g[x] + SumOver(r, g)
    BY <1>2, <2>1, PeelFacts
  <2> QED
    BY <2>2
<1>3. S \in T
  <2> HIDE DEF T
  <2> QED
    BY <1>1, <1>2, PeelInduction
<1> QED
  BY <1>3

\* A sum changes by what one term changes by.
LEMMA SumPoint ==
  ASSUME NEW S, IsFiniteSet(S), NEW f, NEW g, NEW i \in S,
         \A x \in S : f[x] \in Int /\ g[x] \in Int,
         \A x \in S \ {i} : g[x] = f[x]
  PROVE  SumOver(S, g) = SumOver(S, f) + (g[i] - f[i])
<1> DEFINE d == g[i] - f[i]
           T == {s \in SUBSET S :
                   /\ SumOver(s, f) \in Int
                   /\ SumOver(s, g) = SumOver(s, f) + (IF i \in s THEN d ELSE 0)}
<1>1. {} \in T
  BY SumEmpty
<1>2. ASSUME NEW s \in SUBSET S, s # {}, s \ {Some(s)} \in T
      PROVE  s \in T
  <2>1. PICK x, r : x = Some(s) /\ r = s \ {Some(s)}
    OBVIOUS
  <2>2. /\ x \in S /\ x \in s /\ r \in T
        /\ SumOver(s, f) = f[x] + SumOver(r, f)
        /\ SumOver(s, g) = g[x] + SumOver(r, g)
    BY <1>2, <2>1, PeelFacts
  <2>3. CASE x = i
    BY <2>1, <2>2, <2>3
  <2>4. CASE x # i
    BY <2>1, <2>2, <2>4
  <2> QED
    BY <2>3, <2>4
<1>3. S \in T
  <2> HIDE DEF T
  <2> QED
    BY <1>1, <1>2, PeelInduction
<1> QED
  BY <1>3

-----------------------------------------------------------------------------
(* The sums of the quantizer. *)

\* Twice the inner product of a code with the magnitudes.
LEMMA ProductIs ==
  ASSUME NEW c, NEW v, IsFiniteSet(DOMAIN v)
  PROVE  Product(c, v) = SumOver(DOMAIN v, [x \in DOMAIN v |-> (2*c[x] + 1) * v[x]])
<1> DEFINE f == [x \in DOMAIN v |-> (2*c[x] + 1) * v[x]]
           Turn(g) == [s \in SUBSET DOMAIN v |->
                         IF s = {} THEN 0
                         ELSE (2*c[Some(s)] + 1) * v[Some(s)] + g[s \ {Some(s)}]]
<1>1. Product(c, v) = (CHOOSE g : g = Turn(g))[DOMAIN v]
  BY Zenon DEF Product, MapThenSumSet, MapThenFoldSet, Some
<1>2. ASSUME NEW g PROVE Turn(g) = Sums(SUBSET DOMAIN v, f, g)
  <2>1. \A s \in SUBSET DOMAIN v : s # {} => Some(s) \in DOMAIN v
    BY DEF Some
  <2>2. \A s \in SUBSET DOMAIN v : s # {} => f[Some(s)] = (2*c[Some(s)] + 1) * v[Some(s)]
    BY <2>1
  <2> QED
    BY <2>2, Zenon DEF Sums
<1> HIDE DEF Turn, f
<1>3. \E g : g = Turn(g)
  BY <1>2, SumExists
<1>4. PICK g : g = Turn(g) /\ Product(c, v) = g[DOMAIN v]
  BY <1>1, <1>3
<1>5. PICK h : h = Sums(SUBSET DOMAIN v, f, h) /\ SumOver(DOMAIN v, f) = h[DOMAIN v]
  BY SumExists DEF SumOver
<1>6. g[DOMAIN v] = h[DOMAIN v]
  BY <1>2, <1>4, <1>5, SumUnique
<1> QED
  BY <1>4, <1>5, <1>6 DEF f

\* An inner product.
LEMMA AlongIs ==
  ASSUME NEW v, NEW w, IsFiniteSet(DOMAIN v)
  PROVE  Along(v, w) = SumOver(DOMAIN v, [x \in DOMAIN v |-> v[x] * w[x]])
<1> DEFINE f == [x \in DOMAIN v |-> v[x] * w[x]]
           Turn(g) == [s \in SUBSET DOMAIN v |->
                         IF s = {} THEN 0
                         ELSE v[Some(s)] * w[Some(s)] + g[s \ {Some(s)}]]
<1>1. Along(v, w) = (CHOOSE g : g = Turn(g))[DOMAIN v]
  BY Zenon DEF Along, MapThenSumSet, MapThenFoldSet, Some
<1>2. ASSUME NEW g PROVE Turn(g) = Sums(SUBSET DOMAIN v, f, g)
  <2>1. \A s \in SUBSET DOMAIN v : s # {} => Some(s) \in DOMAIN v
    BY DEF Some
  <2>2. \A s \in SUBSET DOMAIN v : s # {} => f[Some(s)] = v[Some(s)] * w[Some(s)]
    BY <2>1
  <2> QED
    BY <2>2, Zenon DEF Sums
<1> HIDE DEF Turn, f
<1>3. \E g : g = Turn(g)
  BY <1>2, SumExists
<1>4. PICK g : g = Turn(g) /\ Along(v, w) = g[DOMAIN v]
  BY <1>1, <1>3
<1>5. PICK h : h = Sums(SUBSET DOMAIN v, f, h) /\ SumOver(DOMAIN v, f) = h[DOMAIN v]
  BY SumExists DEF SumOver
<1>6. g[DOMAIN v] = h[DOMAIN v]
  BY <1>2, <1>4, <1>5, SumUnique
<1> QED
  BY <1>4, <1>5, <1>6 DEF f

\* Four times the square norm of a code.
LEMMA NormIs ==
  ASSUME NEW c, IsFiniteSet(DOMAIN c)
  PROVE  NormSqr(c) = SumOver(DOMAIN c, [x \in DOMAIN c |-> (2*c[x] + 1) * (2*c[x] + 1)])
<1> DEFINE f == [x \in DOMAIN c |-> (2*c[x] + 1) * (2*c[x] + 1)]
           Turn(g) == [s \in SUBSET DOMAIN c |->
                         IF s = {} THEN 0
                         ELSE (2*c[Some(s)] + 1) * (2*c[Some(s)] + 1) + g[s \ {Some(s)}]]
<1>1. NormSqr(c) = (CHOOSE g : g = Turn(g))[DOMAIN c]
  BY Zenon DEF NormSqr, MapThenSumSet, MapThenFoldSet, Some
<1>2. ASSUME NEW g PROVE Turn(g) = Sums(SUBSET DOMAIN c, f, g)
  <2>1. \A s \in SUBSET DOMAIN c : s # {} => Some(s) \in DOMAIN c
    BY DEF Some
  <2>2. \A s \in SUBSET DOMAIN c : s # {} => f[Some(s)] = (2*c[Some(s)] + 1) * (2*c[Some(s)] + 1)
    BY <2>1
  <2> QED
    BY <2>2, Zenon DEF Sums
<1> HIDE DEF Turn, f
<1>3. \E g : g = Turn(g)
  BY <1>2, SumExists
<1>4. PICK g : g = Turn(g) /\ NormSqr(c) = g[DOMAIN c]
  BY <1>1, <1>3
<1>5. PICK h : h = Sums(SUBSET DOMAIN c, f, h) /\ SumOver(DOMAIN c, f) = h[DOMAIN c]
  BY SumExists DEF SumOver
<1>6. g[DOMAIN c] = h[DOMAIN c]
  BY <1>2, <1>4, <1>5, SumUnique
<1> QED
  BY <1>4, <1>5, <1>6 DEF f

LEMMA SquareIs ==
  ASSUME NEW v
  PROVE  Square(v) = Along(v, v)
  BY Zenon DEF Square, Along

-----------------------------------------------------------------------------
(* The largest element, the powers of two, and quotients. *)

LEMMA LargestTerm ==
  ASSUME NEW S, IsFiniteSet(S), S # {}, NEW f, \A x \in S : f[x] \in Int
  PROVE  \E x \in S : \A y \in S : f[y] <= f[x]
<1> DEFINE T == {s \in SUBSET S : s = {} \/ \E x \in s : \A y \in s : f[y] <= f[x]}
<1>1. {} \in T
  OBVIOUS
<1>2. ASSUME NEW s \in SUBSET S, s # {}, s \ {Some(s)} \in T
      PROVE  s \in T
  <2>1. PICK x, r : x = Some(s) /\ r = s \ {Some(s)}
    OBVIOUS
  <2>2. x \in s /\ s = r \cup {x}
    BY <1>2, <2>1, PeelFacts
  <2>3. CASE r = {}
    BY <2>2, <2>3
  <2>4. CASE r # {}
    <3>1. PICK z \in r : \A y \in r : f[y] <= f[z]
      BY <1>2, <2>1, <2>4
    <3>2. CASE f[x] <= f[z]
      BY <2>2, <3>1, <3>2
    <3>3. CASE ~(f[x] <= f[z])
      BY <2>2, <3>1, <3>3
    <3> QED
      BY <3>2, <3>3
  <2> QED
    BY <2>3, <2>4
<1>3. S \in T
  <2> HIDE DEF T
  <2> QED
    BY <1>1, <1>2, PeelInduction
<1> QED
  BY <1>3

LEMMA MaxIs ==
  ASSUME NEW S, S \subseteq Int, NEW x \in S, \A y \in S : y <= x
  PROVE  Max(S) = x
<1>1. Max(S) \in S /\ \A y \in S : Max(S) >= y
  BY DEF Max
<1>2. Max(S) \in Int /\ x \in Int /\ Max(S) <= x /\ x <= Max(S)
  BY <1>1
<1> QED
  BY <1>2

LEMMA MaxOfSome ==
  ASSUME NEW S, S \subseteq Int, IsFiniteSet(S), S # {}
  PROVE  Max(S) \in S /\ \A y \in S : y <= Max(S)
<1> DEFINE f == [x \in S |-> x]
<1>1. \E x \in S : \A y \in S : f[y] <= f[x]
  <2>1. \A x \in S : f[x] \in Int
    OBVIOUS
  <2> HIDE DEF f
  <2> QED
    BY <2>1, LargestTerm
<1>2. PICK x \in S : \A y \in S : y <= x
  BY <1>1
<1>3. Max(S) = x
  BY <1>2, MaxIs
<1> QED
  BY <1>2, <1>3

LEMMA Powers ==
  ASSUME NEW b \in 0..15
  PROVE  /\ 2^b \in Nat \ {0} /\ 2^(b + 1) = 2 * 2^b
         /\ b > 0 => 2^b > 1
<1>0. CASE b = 0
  BY <1>0, SMT
<1>1. CASE b = 1
  BY <1>1, SMT
<1>2. CASE b = 2
  BY <1>2, SMT
<1>3. CASE b = 3
  BY <1>3, SMT
<1>4. CASE b = 4
  BY <1>4, SMT
<1>5. CASE b = 5
  BY <1>5, SMT
<1>6. CASE b = 6
  BY <1>6, SMT
<1>7. CASE b = 7
  BY <1>7, SMT
<1>8. CASE b = 8
  BY <1>8, SMT
<1>9. CASE b = 9
  BY <1>9, SMT
<1>10. CASE b = 10
  BY <1>10, SMT
<1>11. CASE b = 11
  BY <1>11, SMT
<1>12. CASE b = 12
  BY <1>12, SMT
<1>13. CASE b = 13
  BY <1>13, SMT
<1>14. CASE b = 14
  BY <1>14, SMT
<1>15. CASE b = 15
  BY <1>15, SMT
<1> QED
  BY <1>0, <1>1, <1>2, <1>3, <1>4, <1>5, <1>6, <1>7, <1>8, <1>9, <1>10, <1>11, <1>12, <1>13, <1>14, <1>15, SMT

\* What a quotient is.
LEMMA Quotient ==
  ASSUME NEW a \in Nat, NEW d \in Nat \ {0}
  PROVE  /\ a \div d \in Nat /\ d * (a \div d) <= a /\ a < d * (a \div d) + d
<1>1. a \div d \in Nat /\ a % d \in 0..d - 1 /\ a = d * (a \div d) + (a % d)
  BY SMT
<1> QED
  BY <1>1, SMT

\* And that it is told by that.
LEMMA QuotientIs ==
  ASSUME NEW a \in Nat, NEW d \in Nat \ {0}, NEW q \in Nat,
         d * q <= a, a < d * q + d
  PROVE  a \div d = q
<1>1. PICK p : p = a \div d
  OBVIOUS
<1>2. p \in Nat /\ d * p <= a /\ a < d * p + d
  BY <1>1, Quotient
<1>3. ~(p < q)
  <2> SUFFICES ASSUME p < q PROVE FALSE
    OBVIOUS
  <2>1. PICK k \in Nat : q = p + 1 + k
    <3>1. q - p - 1 \in Nat /\ q = p + 1 + (q - p - 1)
      BY <1>2
    <3> QED
      BY <3>1
  <2>2. d * q = d * p + d + d * k /\ d * k \in Nat
    BY <1>2, <2>1, SMT
  <2>3. d * p \in Int
    BY <1>2, SMT
  <2> QED
    BY <1>2, <2>2, <2>3
<1>4. ~(q < p)
  <2> SUFFICES ASSUME q < p PROVE FALSE
    OBVIOUS
  <2>1. PICK k \in Nat : p = q + 1 + k
    <3>1. p - q - 1 \in Nat /\ p = q + 1 + (p - q - 1)
      BY <1>2
    <3> QED
      BY <3>1
  <2>2. d * p = d * q + d + d * k /\ d * k \in Nat
    BY <1>2, <2>1, SMT
  <2>3. d * q \in Int
    BY <1>2, SMT
  <2> QED
    BY <1>2, <2>2, <2>3
<1> QED
  BY <1>1, <1>2, <1>3, <1>4

-----------------------------------------------------------------------------
(* The vector to be encoded. *)

USE QuantizerAssumption

InputOK == input \in [residual : Residuals, centroid : Centroids,
                      bits : Widths, t : Constants]

LEMMA InputFacts ==
  ASSUME InputOK
  PROVE  /\ Coordinates \subseteq Nat /\ IsFiniteSet(Coordinates)
         /\ residual \in [Coordinates -> Int] /\ input.centroid \in [Coordinates -> Int]
         /\ o \in [Coordinates -> Nat] /\ DOMAIN o = Coordinates
         /\ \A i \in Coordinates : /\ o[i] = Magnitude(residual[i])
                                   /\ o[i] > 0 <=> residual[i] # 0
         /\ bits \in 0..15
<1>1. input.residual \in Residuals /\ input.centroid \in Centroids /\ input.bits \in Widths
  BY DEF InputOK
<1>2. DOMAIN input.residual = DOMAIN input.centroid
  BY <1>1
<1>3. /\ Coordinates \subseteq Nat /\ IsFiniteSet(Coordinates)
      /\ residual \in [Coordinates -> Int]
  BY <1>1 DEF Coordinates, residual
<1>4. input.centroid \in [Coordinates -> Int]
  BY <1>1, <1>2 DEF Coordinates, residual
<1>5. /\ o \in [Coordinates -> Nat] /\ DOMAIN o = Coordinates
      /\ \A i \in Coordinates : /\ o[i] = Magnitude(residual[i])
                                /\ o[i] > 0 <=> residual[i] # 0
  BY <1>3 DEF o, Magnitude
<1>6. bits \in 0..15
  BY <1>1 DEF bits
<1> QED
  BY <1>3, <1>4, <1>5, <1>6

LEMMA LevelsFacts ==
  ASSUME InputOK
  PROVE  /\ Levels(bits) \in Nat /\ 2^bits = Levels(bits) + 1
         /\ 2^(bits + 1) = 2 * (Levels(bits) + 1)
         /\ bits > 0 => Levels(bits) > 0
<1>1. bits \in 0..15
  BY InputFacts
<1>2. PICK p, q, l : p = 2^bits /\ q = 2^(bits + 1) /\ l = Levels(bits)
  OBVIOUS
<1>3. /\ 2^bits \in Nat \ {0} /\ 2^(bits + 1) = 2 * 2^bits
      /\ bits > 0 => 2^bits > 1
  BY <1>1, Powers
<1>4. p \in Nat \ {0} /\ q = 2 * p /\ (bits > 0 => p > 1) /\ l = p - 1
  BY <1>2, <1>3 DEF Levels
<1>5. l \in Nat /\ p = l + 1 /\ q = 2 * (l + 1) /\ (bits > 0 => l > 0)
  BY <1>4
<1> QED
  BY <1>2, <1>5, Zenon

LEMMA SumZero ==
  ASSUME NEW S, IsFiniteSet(S), NEW f, \A x \in S : f[x] = 0
  PROVE  SumOver(S, f) = 0
<1> DEFINE T == {s \in SUBSET S : SumOver(s, f) = 0}
<1>1. {} \in T
  BY SumEmpty
<1>2. ASSUME NEW s \in SUBSET S, s # {}, s \ {Some(s)} \in T
      PROVE  s \in T
  <2>1. PICK x, r : x = Some(s) /\ r = s \ {Some(s)}
    OBVIOUS
  <2>2. x \in S /\ r \in T /\ SumOver(s, f) = f[x] + SumOver(r, f)
    BY <1>2, <2>1, PeelFacts
  <2> QED
    BY <2>2
<1>3. S \in T
  <2> HIDE DEF T
  <2> QED
    BY <1>1, <1>2, PeelInduction
<1> QED
  BY <1>3

\* A vector off its centroid has a largest coordinate.
LEMMA GreatestFacts ==
  ASSUME InputOK, Square(residual) > 0
  PROVE  /\ Greatest(o) \in Nat \ {0}
         /\ \A i \in Coordinates : o[i] <= Greatest(o)
         /\ \E i \in Coordinates : o[i] = Greatest(o)
<1>1. /\ Coordinates \subseteq Nat /\ IsFiniteSet(Coordinates)
      /\ residual \in [Coordinates -> Int]
      /\ o \in [Coordinates -> Nat] /\ DOMAIN o = Coordinates
      /\ \A i \in Coordinates : o[i] > 0 <=> residual[i] # 0
  BY InputFacts
<1>2. \E i \in Coordinates : residual[i] # 0
  <2> SUFFICES ASSUME \A i \in Coordinates : residual[i] = 0 PROVE FALSE
    OBVIOUS
  <2> DEFINE f == [x \in DOMAIN residual |-> residual[x] * residual[x]]
  <2>1. Square(residual) = SumOver(DOMAIN residual, f)
    <3>1. IsFiniteSet(DOMAIN residual)
      BY <1>1
    <3> QED
      BY <3>1, SquareIs, AlongIs
  <2>2. \A x \in DOMAIN residual : f[x] = 0
    BY <1>1
  <2>3. IsFiniteSet(DOMAIN residual)
    BY <1>1
  <2> HIDE DEF f
  <2>4. SumOver(DOMAIN residual, f) = 0
    BY <2>2, <2>3, SumZero
  <2> QED
    BY <2>1, <2>4
<1>3. PICK m \in Coordinates : \A i \in Coordinates : o[i] <= o[m]
  BY <1>1, <1>2, LargestTerm
<1>4. Greatest(o) = o[m]
  <2>1. PICK V : V = {o[i] : i \in DOMAIN o}
    OBVIOUS
  <2>2. V \subseteq Int /\ o[m] \in V /\ \A y \in V : y <= o[m]
    BY <1>1, <1>3, <2>1
  <2>3. Max(V) = o[m]
    BY <2>2, MaxIs
  <2> QED
    BY <2>1, <2>3 DEF Greatest
<1>5. o[m] > 0
  BY <1>1, <1>2, <1>3
<1> QED
  BY <1>1, <1>3, <1>4, <1>5

\* A sum of naturals is one, and no less than any of its terms.
LEMMA SumAtLeast ==
  ASSUME NEW S, IsFiniteSet(S), NEW f, \A x \in S : f[x] \in Nat
  PROVE  SumOver(S, f) \in Nat /\ \A i \in S : f[i] <= SumOver(S, f)
<1> DEFINE T == {s \in SUBSET S :
                   SumOver(s, f) \in Nat /\ \A i \in s : f[i] <= SumOver(s, f)}
<1>1. {} \in T
  BY SumEmpty
<1>2. ASSUME NEW s \in SUBSET S, s # {}, s \ {Some(s)} \in T
      PROVE  s \in T
  <2>1. PICK x, r : x = Some(s) /\ r = s \ {Some(s)}
    OBVIOUS
  <2>2. x \in S /\ r \in T /\ s = r \cup {x} /\ SumOver(s, f) = f[x] + SumOver(r, f)
    <3> HIDE DEF T
    <3>1. x \in S /\ x \in s /\ SumOver(s, f) = f[x] + SumOver(r, f)
      BY <1>2, <2>1, PeelFacts
    <3> QED
      BY <1>2, <2>1, <3>1
  <2>3. SumOver(s, f) \in Nat /\ f[x] <= SumOver(s, f) /\ SumOver(r, f) <= SumOver(s, f)
    BY <2>2
  <2>4. ASSUME NEW i \in s PROVE f[i] <= SumOver(s, f)
    BY <2>2, <2>3, <2>4
  <2> QED
    BY <2>3, <2>4
<1>3. S \in T
  <2> HIDE DEF T
  <2> QED
    BY <1>1, <1>2, PeelInduction
<1> QED
  BY <1>3

\* Inner product and norm of a code.
LEMMA ScoreFacts ==
  ASSUME InputOK, NEW c \in [Coordinates -> Nat]
  PROVE  /\ Product(c, o) \in Nat /\ NormSqr(c) \in Nat
         /\ Square(residual) > 0 => Product(c, o) > 0 /\ NormSqr(c) > 0
<1>1. /\ IsFiniteSet(Coordinates) /\ o \in [Coordinates -> Nat] /\ DOMAIN o = Coordinates
      /\ DOMAIN c = Coordinates
  BY InputFacts
<1> DEFINE f == [x \in Coordinates |-> (2*c[x] + 1) * o[x]]
           g == [x \in Coordinates |-> (2*c[x] + 1) * (2*c[x] + 1)]
<1>2. Product(c, o) = SumOver(Coordinates, f) /\ NormSqr(c) = SumOver(Coordinates, g)
  <2>1. Product(c, o) = SumOver(DOMAIN o, [x \in DOMAIN o |-> (2*c[x] + 1) * o[x]])
    BY <1>1, ProductIs
  <2>2. NormSqr(c) = SumOver(DOMAIN c, [x \in DOMAIN c |-> (2*c[x] + 1) * (2*c[x] + 1)])
    BY <1>1, NormIs
  <2> QED
    BY <1>1, <2>1, <2>2
<1>3. \A x \in Coordinates : /\ f[x] \in Nat /\ g[x] \in Nat /\ g[x] > 0
                             /\ o[x] > 0 => f[x] > 0
  <2> SUFFICES ASSUME NEW x \in Coordinates
               PROVE  /\ f[x] \in Nat /\ g[x] \in Nat /\ g[x] > 0
                      /\ o[x] > 0 => f[x] > 0
    OBVIOUS
  <2>1. PICK d \in Nat, m \in Nat : d = c[x] /\ m = o[x]
    BY <1>1
  <2>2. (2*d + 1) * m \in Nat /\ (m > 0 => (2*d + 1) * m > 0)
        /\ (2*d + 1) * (2*d + 1) \in Nat /\ (2*d + 1) * (2*d + 1) > 0
    BY SMT
  <2> QED
    BY <2>1, <2>2
<1> HIDE DEF f, g
<1>4. /\ SumOver(Coordinates, f) \in Nat /\ SumOver(Coordinates, g) \in Nat
      /\ \A i \in Coordinates : /\ f[i] <= SumOver(Coordinates, f)
                                /\ g[i] <= SumOver(Coordinates, g)
  BY <1>1, <1>3, SumAtLeast
<1>5. ASSUME Square(residual) > 0
      PROVE  SumOver(Coordinates, f) > 0 /\ SumOver(Coordinates, g) > 0
  <2>1. PICK i \in Coordinates : o[i] > 0
    BY <1>5, GreatestFacts
  <2>2. f[i] \in Nat /\ g[i] \in Nat /\ f[i] > 0 /\ g[i] > 0
    BY <1>3, <2>1
  <2> QED
    BY <1>4, <2>2
<1> QED
  BY <1>2, <1>4, <1>5

\* What one more turn of the sweep adds to them.
LEMMA ScoreStep ==
  ASSUME InputOK, NEW c \in [Coordinates -> Nat], NEW i \in Coordinates,
         NEW d, d = [c EXCEPT ![i] = c[i] + 1]
  PROVE  /\ Product(d, o) = Product(c, o) + 2 * o[i]
         /\ NormSqr(d) = NormSqr(c) + 8 * (c[i] + 1)
<1>1. /\ IsFiniteSet(Coordinates) /\ o \in [Coordinates -> Nat] /\ DOMAIN o = Coordinates
      /\ DOMAIN c = Coordinates /\ DOMAIN d = Coordinates /\ d \in [Coordinates -> Nat]
  <2>1. DOMAIN c = Coordinates /\ DOMAIN d = Coordinates /\ d \in [Coordinates -> Nat]
    OBVIOUS
  <2> QED
    BY <2>1, InputFacts
<1> DEFINE P(e) == [x \in Coordinates |-> (2*e[x] + 1) * o[x]]
           N(e) == [x \in Coordinates |-> (2*e[x] + 1) * (2*e[x] + 1)]
<1>2. ASSUME NEW e \in [Coordinates -> Nat]
      PROVE  Product(e, o) = SumOver(Coordinates, P(e)) /\ NormSqr(e) = SumOver(Coordinates, N(e))
  <2>1. Product(e, o) = SumOver(DOMAIN o, [x \in DOMAIN o |-> (2*e[x] + 1) * o[x]])
    BY <1>1, ProductIs
  <2>2. DOMAIN e = Coordinates
    OBVIOUS
  <2>3. NormSqr(e) = SumOver(DOMAIN e, [x \in DOMAIN e |-> (2*e[x] + 1) * (2*e[x] + 1)])
    BY <1>1, <2>2, NormIs
  <2> QED
    BY <1>1, <2>1, <2>2, <2>3
<1>3. ASSUME NEW e \in [Coordinates -> Nat], NEW x \in Coordinates
      PROVE  P(e)[x] \in Int /\ N(e)[x] \in Int
  <2>1. e[x] \in Nat /\ o[x] \in Nat
    BY <1>1
  <2> QED
    BY <2>1, SMT
<1>4. \A x \in Coordinates \ {i} : P(d)[x] = P(c)[x] /\ N(d)[x] = N(c)[x]
  OBVIOUS
<1>5. P(d)[i] - P(c)[i] = 2 * o[i] /\ N(d)[i] - N(c)[i] = 8 * (c[i] + 1)
  <2>1. PICK a \in Nat, m \in Nat : a = c[i] /\ m = o[i]
    BY <1>1
  <2>2. P(d)[i] = (2*(a + 1) + 1) * m /\ P(c)[i] = (2*a + 1) * m
        /\ N(d)[i] = (2*(a + 1) + 1) * (2*(a + 1) + 1) /\ N(c)[i] = (2*a + 1) * (2*a + 1)
    BY <2>1
  <2>3. (2*(a + 1) + 1) * m - (2*a + 1) * m = 2*m
        /\ (2*(a + 1) + 1) * (2*(a + 1) + 1) - (2*a + 1) * (2*a + 1) = 8 * (a + 1)
    BY SMT
  <2> QED
    BY <2>1, <2>2, <2>3
<1> HIDE DEF P, N
<1>6. /\ SumOver(Coordinates, P(d)) = SumOver(Coordinates, P(c)) + (P(d)[i] - P(c)[i])
      /\ SumOver(Coordinates, N(d)) = SumOver(Coordinates, N(c)) + (N(d)[i] - N(c)[i])
  <2>1. PICK p, q, u, v : p = P(c) /\ q = P(d) /\ u = N(c) /\ v = N(d)
    OBVIOUS
  <2>2. /\ \A x \in Coordinates : p[x] \in Int /\ q[x] \in Int
        /\ \A x \in Coordinates \ {i} : q[x] = p[x]
    BY <1>1, <1>3, <1>4, <2>1
  <2>3. /\ \A x \in Coordinates : u[x] \in Int /\ v[x] \in Int
        /\ \A x \in Coordinates \ {i} : v[x] = u[x]
    BY <1>1, <1>3, <1>4, <2>1
  <2>4. SumOver(Coordinates, q) = SumOver(Coordinates, p) + (q[i] - p[i])
    <3>1. IsFiniteSet(Coordinates) /\ i \in Coordinates
      BY <1>1
    <3>2. \A x \in Coordinates : p[x] \in Int /\ q[x] \in Int
      BY <2>2
    <3>3. \A x \in Coordinates \ {i} : q[x] = p[x]
      BY <2>2
    <3> QED
      BY ONLY <3>1, <3>2, <3>3, SumPoint, SMT
  <2>5. SumOver(Coordinates, v) = SumOver(Coordinates, u) + (v[i] - u[i])
    <3>1. IsFiniteSet(Coordinates) /\ i \in Coordinates
      BY <1>1
    <3>2. \A x \in Coordinates : u[x] \in Int /\ v[x] \in Int
      BY <2>3
    <3>3. \A x \in Coordinates \ {i} : v[x] = u[x]
      BY <2>3
    <3> QED
      BY ONLY <3>1, <3>2, <3>3, SumPoint, SMT
  <2> QED
    BY <2>1, <2>4, <2>5
<1> QED
  BY <1>1, <1>2, <1>5, <1>6

-----------------------------------------------------------------------------
(* The sweep. *)

Fraction(t) == t = <<t[1], t[2]>> /\ t[1] \in Nat /\ t[2] \in Nat \ {0}
Extended == bits > 0 /\ Square(residual) > 0

PhaseOK ==
  /\ phase \in {"begin", "sweep", "code", "encoded"}
  /\ product \in Nat /\ normSqr \in Nat /\ ipnorm \in Nat
  /\ DOMAIN heap \subseteq Coordinates
  /\ phase = "begin" => ipnorm = 0

FactorOK ==
  phase \in {"sweep", "code"} => Extended /\ (input.t = None => Fraction(factor))

SweepOK ==
  phase = "sweep" =>
    /\ input.t = None
    /\ cur \in [Coordinates -> 0..Levels(bits) + 10]
    /\ product = Product(cur, o) /\ normSqr = NormSqr(cur)
    /\ \A i \in DOMAIN heap : o[i] > 0

\* A vector gets no extended code, or its codes with those of negative
\* coordinates complemented.
EncodedOK ==
  phase = "encoded" =>
    \/ /\ bits = 0 \/ Square(residual) = 0
       /\ code = NoCode /\ ipnorm = 0
    \/ /\ Extended /\ (input.t = None => Fraction(factor))
       /\ ipnorm = CodeProduct
       /\ code = [i \in Coordinates |->
                    IF Negative(residual[i]) THEN Levels(bits) - Codes[i] ELSE Codes[i]]

IInv == InputOK /\ PhaseOK /\ FactorOK /\ SweepOK /\ HeapExact /\ EncodedOK

\* Squares are natural numbers.
LEMMA SquareNat ==
  ASSUME InputOK
  PROVE  Square(residual) \in Nat
<1>1. IsFiniteSet(Coordinates) /\ residual \in [Coordinates -> Int]
  BY InputFacts
<1> DEFINE f == [x \in DOMAIN residual |-> residual[x] * residual[x]]
<1>2. Square(residual) = SumOver(DOMAIN residual, f)
  BY <1>1, SquareIs, AlongIs DEF Coordinates
<1>3. \A x \in DOMAIN residual : f[x] \in Nat
  <2>1. \A x \in Int : x * x \in Nat
    BY SMT
  <2> QED
    BY <1>1, <2>1
<1> HIDE DEF f
<1>4. IsFiniteSet(DOMAIN residual)
  BY <1>1 DEF Coordinates
<1> QED
  BY <1>2, <1>3, <1>4, SumAtLeast

\* The bounds of the sweep, and the codes at its start.
LEMMA StartFacts ==
  ASSUME InputOK, Square(residual) > 0
  PROVE  /\ Fraction(Start(o, bits)) /\ Fraction(End(o, bits))
         /\ Tight(bits) \in 0..81
         /\ \A i \in Coordinates :
              /\ Scaled(Start(o, bits), o[i]) \in 0..Levels(bits) + 10
              /\ 100 * Scaled(Start(o, bits), o[i]) * Greatest(o)
                   <= (Levels(bits) + 10) * Tight(bits) * o[i]
              /\ (Levels(bits) + 10) * Tight(bits) * o[i]
                   < 100 * (Scaled(Start(o, bits), o[i]) + 1) * Greatest(o)
<1>1. PICK L \in Nat, G \in Nat \ {0} : L = Levels(bits) + 10 /\ G = Greatest(o)
  BY LevelsFacts, GreatestFacts
<1>2. PICK K \in 0..81 : K = Tight(bits)
  <2>1. Smaller(bits, 8) \in 0..8
    BY InputFacts DEF Smaller
  <2>2. 1 + Smaller(bits, 8) \in 1..9
    BY <2>1
  <2>3. \A k \in 1..9 : <<0, 15, 20, 52, 59, 71, 75, 77, 81>>[k] \in 0..81
    OBVIOUS
  <2> QED
    BY <2>2, <2>3 DEF Tight
<1>3. Start(o, bits) = <<L * K, 100 * G>> /\ End(o, bits) = <<L, G>>
  BY <1>1, <1>2 DEF Start, End
<1>4. L * K \in Nat /\ 100 * G \in Nat \ {0}
  BY <1>1, <1>2, SMT
<1>5. ASSUME NEW i \in Coordinates
      PROVE  /\ Scaled(Start(o, bits), o[i]) \in 0..L
             /\ 100 * Scaled(Start(o, bits), o[i]) * G <= L * K * o[i]
             /\ L * K * o[i] < 100 * (Scaled(Start(o, bits), o[i]) + 1) * G
  <2>1. PICK m \in Nat : m = o[i] /\ m <= G
    BY <1>1, <1>5, InputFacts, GreatestFacts
  <2>2. PICK q : q = (L * K * m) \div (100 * G)
    OBVIOUS
  <2>3. L * K * m \in Nat
    BY <1>1, <1>2, <2>1, SMT
  <2>4. q \in Nat /\ (100 * G) * q <= L * K * m /\ L * K * m < (100 * G) * q + 100 * G
    BY <1>4, <2>2, <2>3, Quotient
  <2>5. Scaled(Start(o, bits), o[i]) = q
    BY <1>3, <2>1, <2>2 DEF Scaled
  <2>6. (100 * G) * q = 100 * q * G /\ (100 * G) * q + 100 * G = 100 * (q + 1) * G
    BY <1>1, <2>4, SMT
  <2>7. q <= L
    <3> SUFFICES ASSUME q > L PROVE FALSE
      BY <2>4
    <3>1. PICK k \in Nat : q = L + 1 + k
      <4>1. q - L - 1 \in Nat /\ q = L + 1 + (q - L - 1)
        BY <1>1, <2>4
      <4> QED
        BY <4>1
    <3>2. (100 * G) * q = 100 * (L * G) + 100 * G + 100 * (G * k) /\ L * G \in Nat /\ G * k \in Nat
      BY <1>1, <3>1, SMT
    <3>3. L * K * m <= 100 * (L * G)
      <4>1. PICK a \in Nat, b \in Nat : 100 = K + a /\ G = m + b
        <5>1. 100 - K \in Nat /\ 100 = K + (100 - K) /\ G - m \in Nat /\ G = m + (G - m)
          BY <1>1, <1>2, <2>1
        <5> QED
          BY <5>1
      <4>2. (K + a) * (L * (m + b)) = L * K * m + (K * (L * b) + a * (L * m) + a * (L * b))
        BY <1>1, <1>2, <2>1, <4>1, SMT
      <4>3. K * (L * b) + a * (L * m) + a * (L * b) \in Nat
        BY <1>1, <1>2, <2>1, <4>1, SMT
      <4> QED
        BY <2>3, <4>1, <4>2, <4>3
    <3> QED
      BY <1>1, <2>3, <2>4, <3>2, <3>3
  <2> QED
    BY <1>1, <2>1, <2>4, <2>5, <2>6, <2>7
<1> QED
  BY <1>1, <1>2, <1>3, <1>4, <1>5 DEF Fraction

\* The multiples that are cut to codes, by either kind of factor: they grow with
\* the magnitude.
LEMMA MultipleFacts ==
  ASSUME InputOK, input.t = None => Fraction(factor),
         NEW i \in Coordinates, NEW j \in Coordinates, o[i] <= o[j]
  PROVE  Multiple(i) \in Nat /\ Multiple(j) \in Nat /\ Multiple(i) <= Multiple(j)
<1>1. PICK m \in Nat, n \in Nat : m = o[i] /\ n = o[j] /\ m <= n
  BY InputFacts
<1>2. CASE input.t = None
  <2>1. PICK a \in Nat, d \in Nat \ {0} : factor = <<a, d>>
    BY <1>2 DEF Fraction
  <2>2. PICK p, q : p = (a * m) \div d /\ q = (a * n) \div d
    OBVIOUS
  <2>3. a * m \in Nat /\ a * n \in Nat /\ a * m <= a * n
    <3>1. PICK k \in Nat : n = m + k
      <4>1. n - m \in Nat /\ n = m + (n - m)
        BY <1>1
      <4> QED
        BY <4>1
    <3>2. a * (m + k) = a * m + a * k /\ a * k \in Nat /\ a * m \in Nat
      BY SMT
    <3> QED
      BY <3>1, <3>2
  <2>4. /\ p \in Nat /\ d * p <= a * m /\ q \in Nat /\ a * n < d * q + d
    BY <2>2, <2>3, Quotient
  <2>5. p <= q
    <3> SUFFICES ASSUME p > q PROVE FALSE
      BY <2>4
    <3>1. PICK k \in Nat : p = q + 1 + k
      <4>1. p - q - 1 \in Nat /\ p = q + 1 + (p - q - 1)
        BY <2>4
      <4> QED
        BY <4>1
    <3>2. d * p = d * q + d + d * k /\ d * k \in Nat /\ d * q \in Nat
      BY <2>4, <3>1, SMT
    <3> QED
      BY <2>3, <2>4, <3>2
  <2>6. Multiple(i) = p /\ Multiple(j) = q
    BY <1>1, <1>2, <2>1, <2>2 DEF Multiple, Scaled
  <2> QED
    BY <2>4, <2>5, <2>6
<1>3. CASE input.t # None
  <2>1. PICK a \in Nat, d \in Nat \ {0} : input.t[1] = a /\ input.t[2] = d
    <3>1. input.t \in Constants
      BY DEF InputOK
    <3> QED
      BY <1>3, <3>1
  <2>2. PICK s \in Nat : s = Square(residual)
    BY SquareNat
  <2> DEFINE Below(x) == {c \in 0..a * x : c * c * s * d * d <= a * a * x * x}
  <2>3. ASSUME NEW x \in Nat
        PROVE  /\ a * x \in Nat /\ Below(x) \subseteq Nat /\ 0 \in Below(x)
               /\ IsFiniteSet(Below(x))
    <3>1. a * x \in Nat /\ a * a * x * x \in Nat /\ 0 * 0 * s * d * d = 0
      <4>1. a * x \in Nat
        BY SMT
      <4>2. a * a * x * x = (a * x) * (a * x)
        BY SMT
      <4>3. (a * x) * (a * x) \in Nat
        BY <4>1, SMT
      <4> QED
        BY <4>1, <4>2, <4>3, SMT
    <3>2. 0 \in Below(x)
      BY <3>1
    <3>3. PICK w \in Nat : w = a * x
      BY <3>1
    <3>4. Below(x) \subseteq 0..w
      BY <3>3
    <3>5. IsFiniteSet(0..w)
      BY ONLY w \in Nat, FS_Interval
    <3>6. IsFiniteSet(Below(x)) /\ Below(x) \subseteq Nat
      <4> HIDE DEF Below
      <4>1. IsFiniteSet(Below(x))
        BY <3>4, <3>5, FS_Subset
      <4> QED
        BY <3>4, <4>1
    <3> HIDE DEF Below
    <3> QED
      BY <3>1, <3>2, <3>6
  <2>4. Below(m) \subseteq Below(n)
    <3>1. PICK k \in Nat : n = m + k
      <4>1. n - m \in Nat /\ n = m + (n - m)
        BY <1>1
      <4> QED
        BY <4>1
    <3>2. a * n = a * m + a * k /\ a * k \in Nat /\ a * m \in Nat
      BY <3>1, SMT
    <3>3. a * a * m * m <= a * a * n * n
      <4>1. PICK u \in Nat, v \in Nat : u = a * m /\ v = a * k
        BY <3>2
      <4>2. a * a * m * m = u * u /\ a * a * n * n = (u + v) * (u + v)
        <5>1. a * a * m * m = (a * m) * (a * m) /\ a * a * n * n = (a * n) * (a * n)
          BY SMT
        <5>2. a * n = u + v
          BY <3>2, <4>1
        <5> QED
          BY <4>1, <5>1, <5>2
      <4>3. (u + v) * (u + v) = u * u + (2 * (u * v) + v * v) /\ u * u \in Nat
            /\ 2 * (u * v) + v * v \in Nat
        BY SMT
      <4> QED
        BY <4>2, <4>3
    <3>4. ASSUME NEW c \in Below(m) PROVE c \in Below(n)
      <4>1. c \in Nat /\ c <= a * m /\ c * c * s * d * d <= a * a * m * m
        BY <3>2
      <4>2. c * c * s * d * d \in Int /\ a * a * m * m \in Int /\ a * a * n * n \in Int
        BY <4>1, SMT
      <4>3. c * c * s * d * d <= a * a * n * n
        BY <3>3, <4>1, <4>2
      <4>4. c \in 0..a * n
        BY <3>2, <4>1
      <4> QED
        BY <4>3, <4>4
    <3> QED
      BY <3>4
  <2>5. Multiple(i) = Max(Below(m)) /\ Multiple(j) = Max(Below(n))
    BY <1>1, <1>3, <2>1, <2>2, Zenon DEF Multiple, ScaledByNorm
  <2> HIDE DEF Below
  <2>6. ASSUME NEW x \in Nat
        PROVE  Max(Below(x)) \in Below(x) /\ \A y \in Below(x) : y <= Max(Below(x))
    <3>1. Below(x) \subseteq Int /\ Below(x) # {} /\ IsFiniteSet(Below(x))
      BY <2>3
    <3> QED
      BY <3>1, MaxOfSome
  <2>7. Max(Below(m)) \in Below(m) /\ Max(Below(n)) \in Below(n)
        /\ Max(Below(m)) <= Max(Below(n))
    BY <2>4, <2>6
  <2> QED
    BY <2>3, <2>5, <2>7
<1> QED
  BY <1>2, <1>3

\* The codes fit their width, and grow with the magnitude.
LEMMA CodesFacts ==
  ASSUME InputOK, input.t = None => Fraction(factor)
  PROVE  /\ Codes \in [Coordinates -> 0..Levels(bits)]
         /\ \A i, j \in Coordinates : o[i] <= o[j] => Codes[i] <= Codes[j]
<1>1. Levels(bits) \in Nat
  BY LevelsFacts
<1>2. \A i \in Coordinates : Codes[i] = Clamped(Multiple(i))
  BY DEF Codes
<1>3. ASSUME NEW i \in Coordinates, NEW j \in Coordinates, o[i] <= o[j]
      PROVE  /\ Clamped(Multiple(i)) \in 0..Levels(bits)
             /\ Clamped(Multiple(i)) <= Clamped(Multiple(j))
  <2>1. Multiple(i) \in Nat /\ Multiple(j) \in Nat /\ Multiple(i) <= Multiple(j)
    BY <1>3, MultipleFacts
  <2> QED
    BY <1>1, <2>1 DEF Clamped, Smaller
<1>4. \A i \in Coordinates : o[i] <= o[i]
  BY InputFacts
<1>5. \A i \in Coordinates : Clamped(Multiple(i)) \in 0..Levels(bits)
  BY <1>3, <1>4
<1>6. Codes \in [Coordinates -> 0..Levels(bits)]
  BY <1>5 DEF Codes
<1> QED
  BY <1>2, <1>3, <1>6

-----------------------------------------------------------------------------
(* Every step keeps the invariant. *)

\* The arguments stay, and all that is worked out from them.
LEMMA SameInput ==
  ASSUME input' = input
  PROVE  /\ residual' = residual /\ bits' = bits /\ Coordinates' = Coordinates
         /\ o' = o /\ NoCode' = NoCode /\ (Extended <=> Extended')
         /\ (InputOK <=> InputOK')
<1>1. residual' = residual /\ bits' = bits /\ (InputOK <=> InputOK')
  BY DEF residual, bits, InputOK
<1>2. Coordinates' = Coordinates
  BY <1>1 DEF Coordinates
<1>3. o' = o /\ NoCode' = NoCode
  BY <1>1, <1>2 DEF o, NoCode
<1>4. Extended <=> Extended'
  BY <1>1 DEF Extended
<1> QED
  BY <1>1, <1>2, <1>3, <1>4

LEMMA InitInv == Init => IInv
<1> SUFFICES ASSUME Init PROVE IInv
  OBVIOUS
<1>1. InputOK /\ phase = "begin" /\ DOMAIN heap = {} /\ product = 0 /\ normSqr = 0 /\ ipnorm = 0
  BY DEF Init, InputOK
<1> QED
  BY <1>1 DEF IInv, PhaseOK, FactorOK, SweepOK, HeapExact, EncodedOK

LEMMA NoExtensionInv == IInv /\ NoExtension => IInv'
<1> SUFFICES ASSUME IInv, NoExtension PROVE IInv'
  OBVIOUS
<1>1. /\ phase = "begin" /\ phase' = "encoded" /\ code' = NoCode
      /\ bits = 0 \/ Square(residual) = 0
      /\ UNCHANGED <<input, product, normSqr, heap, ipnorm>> /\ InputOK /\ PhaseOK
  BY DEF IInv, NoExtension
<1>2. /\ residual' = residual /\ bits' = bits /\ Coordinates' = Coordinates
      /\ NoCode' = NoCode /\ InputOK'
  BY <1>1, SameInput
<1>3. PhaseOK'
  BY <1>1, <1>2 DEF PhaseOK
<1>4. EncodedOK'
  BY <1>1, <1>2 DEF EncodedOK, PhaseOK
<1> QED
  BY <1>1, <1>2, <1>3, <1>4 DEF IInv, FactorOK, SweepOK, HeapExact

LEMMA TakeConstantInv == IInv /\ TakeConstant => IInv'
<1> SUFFICES ASSUME IInv, TakeConstant PROVE IInv'
  OBVIOUS
<1>1. /\ phase = "begin" /\ phase' = "code" /\ Extended /\ input.t # None
      /\ UNCHANGED <<input, product, normSqr, heap, ipnorm>> /\ InputOK /\ PhaseOK
  BY DEF IInv, TakeConstant, Extended
<1>2. Coordinates' = Coordinates /\ InputOK' /\ Extended'
  BY <1>1, SameInput
<1>3. PhaseOK'
  BY <1>1, <1>2 DEF PhaseOK
<1> QED
  BY <1>1, <1>2, <1>3 DEF IInv, FactorOK, SweepOK, HeapExact, EncodedOK

LEMMA StartSweepInv == IInv /\ StartSweep => IInv'
<1> SUFFICES ASSUME IInv, StartSweep PROVE IInv'
  OBVIOUS
<1>1. /\ phase = "begin" /\ phase' = "sweep" /\ Extended /\ input.t = None
      /\ cur' = [i \in Coordinates |-> Scaled(Start(o, bits), o[i])]
      /\ product' = Product(cur', o) /\ normSqr' = NormSqr(cur')
      /\ heap' = [i \in {j \in Coordinates : o[j] > 0} |-> <<cur'[i] + 1, o[i]>>]
      /\ factor' = Start(o, bits)
      /\ UNCHANGED <<input, ipnorm>> /\ InputOK /\ PhaseOK
  BY DEF IInv, StartSweep, Extended
<1>2. /\ residual' = residual /\ bits' = bits /\ Coordinates' = Coordinates
      /\ o' = o /\ InputOK' /\ Extended' /\ Square(residual) > 0
  BY <1>1, SameInput DEF Extended
<1>3. cur' \in [Coordinates -> 0..Levels(bits) + 10] /\ Fraction(Start(o, bits))
  BY <1>1, <1>2, StartFacts
<1>4. product' \in Nat /\ normSqr' \in Nat
  <2>1. cur' \in [Coordinates -> Nat]
    BY <1>3
  <2> QED
    BY <1>1, <2>1, ScoreFacts
<1>5. /\ DOMAIN heap' = {j \in Coordinates : o[j] > 0}
      /\ \A i \in DOMAIN heap' : heap'[i] = <<cur'[i] + 1, o[i]>>
  BY <1>1
<1>6. PhaseOK'
  BY <1>1, <1>2, <1>4, <1>5 DEF PhaseOK
<1>7. SweepOK'
  BY <1>1, <1>2, <1>3, <1>5 DEF SweepOK
<1>8. HeapExact'
  BY <1>2, <1>5 DEF HeapExact
<1> QED
  BY <1>1, <1>2, <1>3, <1>6, <1>7, <1>8 DEF IInv, FactorOK, EncodedOK

\* What a turn of the sweep finds.
LEMMA TurnFacts ==
  ASSUME IInv, phase = "sweep", NEW i \in DOMAIN heap
  PROVE  /\ InputOK /\ Extended /\ input.t = None /\ i \in Coordinates
         /\ cur \in [Coordinates -> 0..Levels(bits) + 10]
         /\ product = Product(cur, o) /\ normSqr = NormSqr(cur)
         /\ o[i] \in Nat \ {0} /\ heap[i] = <<cur[i] + 1, o[i]>>
         /\ DOMAIN heap \subseteq Coordinates
  BY InputFacts DEF IInv, PhaseOK, FactorOK, SweepOK, HeapExact

LEMMA AdvanceInv ==
  ASSUME IInv, NEW i \in DOMAIN heap, Advance(i)
  PROVE  IInv'
<1>1. /\ phase = "sweep" /\ Less(heap[i], End(o, bits))
      /\ cur' = [cur EXCEPT ![i] = cur[i] + 1]
      /\ normSqr' = Grown(cur[i] + 1) /\ product' = product + 2 * o[i]
      /\ \/ factor' = heap[i]
         \/ factor' = factor
      /\ heap' = IF Open(cur[i] + 1) /\ Less(<<cur[i] + 2, o[i]>>, End(o, bits))
                 THEN Pushed(i, <<cur[i] + 2, o[i]>>) ELSE Remaining(i)
      /\ UNCHANGED <<input, phase, ipnorm>>
  <2>1. cur[i] + 1 + 1 = cur[i] + 2
    BY TurnFacts DEF Advance
  <2> QED
    BY <2>1 DEF Advance
<1>2. /\ InputOK /\ Extended /\ input.t = None /\ i \in Coordinates
      /\ cur \in [Coordinates -> 0..Levels(bits) + 10]
      /\ product = Product(cur, o) /\ normSqr = NormSqr(cur)
      /\ o[i] \in Nat \ {0} /\ heap[i] = <<cur[i] + 1, o[i]>>
      /\ DOMAIN heap \subseteq Coordinates
  BY <1>1, TurnFacts
<1>3. /\ residual' = residual /\ bits' = bits /\ Coordinates' = Coordinates
      /\ o' = o /\ InputOK' /\ Extended'
  BY <1>1, <1>2, SameInput
<1>4. Levels(bits) \in Nat /\ Square(residual) > 0
  BY <1>2, LevelsFacts DEF Extended
<1>5. cur[i] + 1 \in 0..Levels(bits) + 10
  <2>1. PICK L \in Nat, G \in Nat \ {0}, m \in Nat \ {0}, c \in Nat :
          L = Levels(bits) + 10 /\ G = Greatest(o) /\ m = o[i] /\ m <= G /\ c = cur[i]
    BY <1>2, <1>4, GreatestFacts
  <2>2. (c + 1) * G < L * m
    BY <1>1, <1>2, <2>1 DEF Less, End
  <2>3. L * m <= L * G
    <3>1. PICK k \in Nat : G = m + k
      <4>1. G - m \in Nat /\ G = m + (G - m)
        BY <2>1
      <4> QED
        BY <4>1
    <3>2. L * (m + k) = L * m + L * k /\ L * k \in Nat /\ L * m \in Nat
      BY <2>1, SMT
    <3> QED
      BY <3>1, <3>2
  <2>4. c + 1 <= L
    <3> SUFFICES ASSUME c + 1 > L PROVE FALSE
      BY <2>1
    <3>1. PICK k \in Nat : c + 1 = L + 1 + k
      <4>1. c - L \in Nat /\ c + 1 = L + 1 + (c - L)
        BY <2>1
      <4> QED
        BY <4>1
    <3>2. (L + 1 + k) * G = L * G + G + k * G /\ L * G \in Nat /\ k * G \in Nat /\ L * m \in Nat
      BY <2>1, SMT
    <3> QED
      BY <2>1, <2>2, <2>3, <3>1, <3>2
  <2> QED
    BY <1>4, <2>1, <2>4
<1>6. cur' \in [Coordinates -> 0..Levels(bits) + 10]
  BY <1>1, <1>2, <1>5
<1>7. product' = Product(cur', o) /\ normSqr' = NormSqr(cur') /\ product' \in Nat /\ normSqr' \in Nat
  <2>1. cur \in [Coordinates -> Nat] /\ cur' \in [Coordinates -> Nat]
    BY <1>2, <1>6
  <2>2. Product(cur', o) = Product(cur, o) + 2 * o[i]
        /\ NormSqr(cur') = NormSqr(cur) + 8 * (cur[i] + 1)
    BY <1>1, <1>2, <2>1, ScoreStep
  <2>3. product' = Product(cur', o) /\ normSqr' = NormSqr(cur')
    BY <1>1, <1>2, <2>2 DEF Grown
  <2> QED
    BY <1>2, <2>1, <2>3, ScoreFacts
<1>8. /\ DOMAIN heap' \subseteq DOMAIN heap
      /\ \A j \in DOMAIN heap' : heap'[j] = <<cur'[j] + 1, o[j]>>
      /\ DOMAIN heap \ {i} \subseteq DOMAIN heap'
      /\ cur'[i] < Levels(bits) /\ Less(<<cur'[i] + 1, o[i]>>, End(o, bits)) => i \in DOMAIN heap'
  <2>1. \A j \in DOMAIN heap : heap[j] = <<cur[j] + 1, o[j]>>
    BY <1>1 DEF IInv, HeapExact
  <2>2. \A j \in DOMAIN heap \ {i} : cur'[j] = cur[j]
    BY <1>1, <1>2
  <2>3. cur'[i] = cur[i] + 1 /\ cur'[i] + 1 = cur[i] + 2
    BY <1>1, <1>2
  <2>4. CASE Open(cur[i] + 1) /\ Less(<<cur[i] + 2, o[i]>>, End(o, bits))
    <3>1. heap' = [j \in DOMAIN heap |-> IF j = i THEN <<cur[i] + 2, o[i]>> ELSE heap[j]]
      BY <1>1, <2>4 DEF Pushed
    <3> QED
      BY <2>1, <2>2, <2>3, <3>1
  <2>5. CASE ~(Open(cur[i] + 1) /\ Less(<<cur[i] + 2, o[i]>>, End(o, bits)))
    <3>1. heap' = [j \in DOMAIN heap \ {i} |-> heap[j]]
      BY <1>1, <2>5 DEF Remaining
    <3>2. ~(cur'[i] < Levels(bits) /\ Less(<<cur'[i] + 1, o[i]>>, End(o, bits)))
      BY <2>3, <2>5 DEF Open
    <3> QED
      BY <2>1, <2>2, <3>1, <3>2
  <2> QED
    BY <2>4, <2>5
<1>9. PhaseOK'
  BY <1>1, <1>2, <1>3, <1>7, <1>8 DEF IInv, PhaseOK
<1>10. SweepOK'
  BY <1>1, <1>2, <1>3, <1>6, <1>7, <1>8 DEF IInv, SweepOK
<1>11. HeapExact'
  <2>1. \A j \in Coordinates : (/\ o[j] > 0 /\ cur'[j] < Levels(bits)
                                /\ Less(<<cur'[j] + 1, o[j]>>, End(o, bits))) => j \in DOMAIN heap'
    <3> SUFFICES ASSUME NEW j \in Coordinates, j # i, o[j] > 0, cur'[j] < Levels(bits),
                        Less(<<cur'[j] + 1, o[j]>>, End(o, bits))
                 PROVE  j \in DOMAIN heap'
      BY <1>8
    <3>1. cur'[j] = cur[j]
      BY <1>1, <1>2
    <3>2. j \in DOMAIN heap
      BY <1>1, <3>1 DEF IInv, HeapExact
    <3> QED
      BY <1>8, <3>2
  <2> QED
    BY <1>3, <1>8, <2>1 DEF HeapExact
<1>12. FactorOK'
  <2>1. Fraction(heap[i])
    BY <1>2 DEF Fraction
  <2>2. Fraction(factor)
    BY <1>1, <1>2 DEF IInv, FactorOK
  <2>3. Fraction(factor')
    BY <1>1, <2>1, <2>2
  <2>4. Fraction(factor)'
    BY <2>3 DEF Fraction
  <2> QED
    BY <1>1, <1>3, <2>4 DEF FactorOK
<1>13. EncodedOK'
  BY <1>1 DEF EncodedOK
<1> QED
  BY <1>3, <1>9, <1>10, <1>11, <1>12, <1>13 DEF IInv

LEMMA SkipInv ==
  ASSUME IInv, NEW i \in DOMAIN heap, Skip(i)
  PROVE  IInv'
<1>1. /\ phase = "sweep" /\ ~Less(heap[i], End(o, bits))
      /\ heap' = Remaining(i)
      /\ UNCHANGED <<input, phase, cur, product, normSqr, factor, ipnorm>>
  BY DEF Skip
<1>2. /\ InputOK /\ Extended /\ i \in Coordinates
      /\ heap[i] = <<cur[i] + 1, o[i]>> /\ DOMAIN heap \subseteq Coordinates
  BY <1>1, TurnFacts
<1>3. /\ residual' = residual /\ bits' = bits /\ Coordinates' = Coordinates
      /\ o' = o /\ InputOK' /\ Extended'
  BY <1>1, <1>2, SameInput
<1>4. DOMAIN heap' = DOMAIN heap \ {i} /\ \A j \in DOMAIN heap' : heap'[j] = heap[j]
  BY <1>1 DEF Remaining
<1>5. PhaseOK' /\ SweepOK' /\ FactorOK'
  <2>1. PhaseOK'
    BY <1>1, <1>3, <1>4 DEF IInv, PhaseOK
  <2>2. SweepOK'
    <3>1. /\ input.t = None
          /\ cur \in [Coordinates -> 0..Levels(bits) + 10]
          /\ product = Product(cur, o) /\ normSqr = NormSqr(cur)
          /\ \A j \in DOMAIN heap : o[j] > 0
      BY <1>1 DEF IInv, SweepOK
    <3> QED
      BY <1>1, <1>3, <1>4, <3>1 DEF SweepOK
  <2>3. FactorOK'
    BY <1>1, <1>3 DEF IInv, FactorOK, Fraction
  <2> QED
    BY <2>1, <2>2, <2>3
<1>6. HeapExact'
  <2>1. /\ \A j \in DOMAIN heap : heap[j] = <<cur[j] + 1, o[j]>>
        /\ \A j \in Coordinates :
             (/\ o[j] > 0 /\ cur[j] < Levels(bits)
              /\ Less(<<cur[j] + 1, o[j]>>, End(o, bits))) => j \in DOMAIN heap
    BY <1>1 DEF IInv, HeapExact
  <2> QED
    BY <1>1, <1>2, <1>3, <1>4, <2>1 DEF HeapExact
<1>7. EncodedOK'
  BY <1>1 DEF EncodedOK
<1> QED
  BY <1>3, <1>5, <1>6, <1>7 DEF IInv

LEMMA EndSweepInv == IInv /\ EndSweep => IInv'
<1> SUFFICES ASSUME IInv, EndSweep PROVE IInv'
  OBVIOUS
<1>1. /\ phase = "sweep" /\ phase' = "code"
      /\ UNCHANGED <<input, product, normSqr, heap, factor, ipnorm>>
  BY DEF EndSweep
<1>2. Coordinates' = Coordinates /\ InputOK' /\ (Extended <=> Extended')
  BY <1>1, SameInput DEF IInv
<1>3. PhaseOK'
  BY <1>1, <1>2 DEF IInv, PhaseOK
<1>4. FactorOK'
  BY <1>1, <1>2 DEF IInv, FactorOK, Fraction
<1> QED
  BY <1>1, <1>2, <1>3, <1>4 DEF IInv, SweepOK, HeapExact, EncodedOK

\* The codes follow from the arguments and the factor.
LEMMA SameCodes ==
  ASSUME UNCHANGED <<input, factor>>
  PROVE  Codes' = Codes /\ CodeProduct' = CodeProduct
<1>1. /\ residual' = residual /\ bits' = bits /\ Coordinates' = Coordinates /\ o' = o
  BY SameInput
<1>2. ASSUME NEW i PROVE Multiple(i)' = Multiple(i)
  <2>1. ScaledByNorm(input.t, o[i])' = ScaledByNorm(input.t, o[i])
    BY <1>1 DEF ScaledByNorm
  <2> QED
    BY <1>1, <2>1 DEF Multiple
<1>3. Codes' = Codes
  BY <1>1, <1>2 DEF Codes, Clamped
<1> QED
  BY <1>1, <1>3 DEF CodeProduct

LEMMA EncodeInv == IInv /\ Encode => IInv'
<1> SUFFICES ASSUME IInv, Encode PROVE IInv'
  OBVIOUS
<1>1. /\ phase = "code" /\ phase' = "encoded" /\ ipnorm' = CodeProduct
      /\ code' = [i \in Coordinates |->
                    IF Negative(residual[i]) THEN Levels(bits) - Codes[i] ELSE Codes[i]]
      /\ UNCHANGED <<input, product, normSqr, heap, factor>>
      /\ InputOK /\ Extended /\ (input.t = None => Fraction(factor))
  BY DEF IInv, FactorOK, Encode
<1>2. /\ residual' = residual /\ bits' = bits /\ Coordinates' = Coordinates
      /\ o' = o /\ InputOK' /\ Extended'
  BY <1>1, SameInput
<1>3. Codes' = Codes /\ CodeProduct' = CodeProduct
  BY <1>1, SameCodes
<1>4. CodeProduct \in Nat
  <2>1. Levels(bits) \in Nat /\ Codes \in [Coordinates -> 0..Levels(bits)]
    BY <1>1, LevelsFacts, CodesFacts
  <2>2. Codes \in [Coordinates -> Nat]
    BY <2>1
  <2> QED
    BY <1>1, <2>2, ScoreFacts DEF CodeProduct
<1>5. PhaseOK'
  BY <1>1, <1>2, <1>4 DEF IInv, PhaseOK
<1>6. EncodedOK'
  BY <1>1, <1>2, <1>3 DEF EncodedOK, Fraction, Negative
<1> QED
  BY <1>1, <1>2, <1>5, <1>6 DEF IInv, FactorOK, SweepOK, HeapExact

LEMMA SameInv == IInv /\ UNCHANGED vars => IInv'
<1> SUFFICES ASSUME IInv, UNCHANGED vars PROVE IInv'
  OBVIOUS
<1>1. /\ UNCHANGED <<input, phase, cur, product, normSqr, heap, factor, code, ipnorm>>
  BY DEF vars
<1>2. /\ residual' = residual /\ bits' = bits /\ Coordinates' = Coordinates
      /\ o' = o /\ NoCode' = NoCode /\ InputOK' /\ (Extended <=> Extended')
  BY <1>1, SameInput DEF IInv
<1>3. Codes' = Codes /\ CodeProduct' = CodeProduct
  BY <1>1, SameCodes
<1>4. PhaseOK' /\ FactorOK' /\ SweepOK'
  BY <1>1, <1>2 DEF IInv, PhaseOK, FactorOK, SweepOK, Fraction
<1>5. HeapExact'
  BY <1>1, <1>2 DEF IInv, HeapExact
<1>6. EncodedOK'
  BY <1>1, <1>2, <1>3 DEF IInv, EncodedOK, Fraction, Negative
<1> QED
  BY <1>2, <1>4, <1>5, <1>6 DEF IInv

LEMMA StepInv == IInv /\ [Next \/ Returned]_vars => IInv'
<1> SUFFICES ASSUME IInv, [Next \/ Returned]_vars PROVE IInv'
  OBVIOUS
<1>1. CASE NoExtension
  BY <1>1, NoExtensionInv
<1>2. CASE TakeConstant
  BY <1>2, TakeConstantInv
<1>3. CASE StartSweep
  BY <1>3, StartSweepInv
<1>4. ASSUME NEW i \in DOMAIN heap, Advance(i) PROVE IInv'
  BY <1>4, AdvanceInv
<1>5. ASSUME NEW i \in DOMAIN heap, Skip(i) PROVE IInv'
  BY <1>5, SkipInv
<1>6. CASE EndSweep
  BY <1>6, EndSweepInv
<1>7. CASE Encode
  BY <1>7, EncodeInv
<1>8. CASE Returned \/ UNCHANGED vars
  BY <1>8, SameInv DEF Returned
<1> QED
  BY <1>1, <1>2, <1>3, <1>4, <1>5, <1>6, <1>7, <1>8 DEF Next

\* The invariant the theorems about quantize_with_centroid rest on.
THEOREM Invariance == Spec => []IInv
<1> QED
  BY InitInv, StepInv, PTL DEF Spec

-----------------------------------------------------------------------------
(* Theorems of the codes. *)

\* What the codes of a vector stand for.
LEMMA EncodedFacts ==
  ASSUME InputOK, EncodedOK, phase = "encoded", NEW i \in Coordinates
  PROVE  /\ TotalCode(i) \in 0..2^(bits + 1) - 1
         /\ Extended =>
              /\ Codes[i] \in Nat
              /\ Shifted[i] = IF residual[i] < 0 THEN -(2 * Codes[i] + 1) ELSE 2 * Codes[i] + 1
         /\ ~Extended =>
              Shifted[i] = IF residual[i] < 0 THEN -(2 * Levels(bits) + 1) ELSE 1
<1>1. PICK L \in Nat, r \in Int, b \in Nat :
        /\ L = Levels(bits) /\ 2^bits = L + 1 /\ 2^(bits + 1) = 2 * (L + 1)
        /\ r = residual[i] /\ b = bits
  BY LevelsFacts, InputFacts
<1>2. PICK n : n = code[i]
  OBVIOUS
<1>3. /\ TotalCode(i) = n + Binary(i) * (L + 1)
      /\ Shifted[i] = 2 * TotalCode(i) - (2 * (L + 1) - 1)
  BY <1>1, <1>2, Zenon DEF TotalCode, Shifted
<1>4. Binary(i) = IF r >= 0 THEN 1 ELSE 0
  BY <1>1 DEF Binary
<1>5. CASE Extended
  <2>1. /\ input.t = None => Fraction(factor)
        /\ code = [j \in Coordinates |->
                    IF Negative(residual[j]) THEN Levels(bits) - Codes[j] ELSE Codes[j]]
    <3>1. ~(bits = 0 \/ Square(residual) = 0)
      BY <1>5, InputFacts, SquareNat DEF Extended
    <3> QED
      BY <3>1 DEF EncodedOK
  <2>2. PICK c \in 0..L : c = Codes[i]
    BY <1>1, <2>1, CodesFacts
  <2>3. n = IF r < 0 THEN L - c ELSE c
    BY <1>1, <1>2, <2>1, <2>2 DEF Negative
  <2>4. CASE r < 0
    <3>1. TotalCode(i) = L - c /\ Shifted[i] = -(2 * c + 1)
      BY <1>3, <1>4, <2>3, <2>4
    <3> QED
      BY <1>1, <1>5, <2>2, <2>4, <3>1
  <2>5. CASE r >= 0
    <3>1. TotalCode(i) = c + (L + 1) /\ Shifted[i] = 2 * c + 1
      BY <1>3, <1>4, <2>3, <2>5
    <3> QED
      BY <1>1, <1>5, <2>2, <2>5, <3>1
  <2> QED
    BY <2>4, <2>5
<1>6. CASE ~Extended
  <2>1. n = 0
    BY <1>2, <1>6 DEF EncodedOK, NoCode
  <2>2. CASE r < 0
    <3>1. TotalCode(i) = 0 /\ Shifted[i] = -(2 * L + 1)
      BY <1>3, <1>4, <2>1, <2>2
    <3> QED
      BY <1>1, <1>6, <2>2, <3>1
  <2>3. CASE r >= 0
    <3>1. TotalCode(i) = L + 1 /\ Shifted[i] = 1
      BY <1>3, <1>4, <2>1, <2>3
    <3> QED
      BY <1>1, <1>6, <2>3, <3>1
  <2> QED
    BY <2>2, <2>3
<1> QED
  BY <1>5, <1>6

\* At every turn of the loop of best_rescale_factor, which only ever adds to
\* them, inner product and norm are those of the codes the loop is at; and every
\* number that comes out fits its bits (quantize_with_centroid).
THEOREM SumsAreExact == Spec => []SumsExact
<1>1. ASSUME IInv PROVE SumsExact
  <2>1. InputOK /\ PhaseOK /\ SweepOK /\ EncodedOK
    BY <1>1 DEF IInv
  <2>2. phase = "encoded" => \A i \in Coordinates : TotalCode(i) \in 0..2^(bits + 1) - 1
    BY <2>1, EncodedFacts
  <2>3. TypeOK
    BY <2>1, <2>2 DEF TypeOK, PhaseOK, SweepOK
  <2> QED
    BY <2>1, <2>3 DEF SumsExact, SweepOK
<1> QED
  BY <1>1, Invariance, PTL

\* The heap of best_rescale_factor holds the next change of every coordinate
\* that has one before t_end, and nothing stale.
THEOREM HeapIsExact == Spec => []HeapExact
<1>1. IInv => HeapExact
  BY DEF IInv
<1> QED
  BY <1>1, Invariance, PTL

\* Codes keep sign and order (quantize_ex_with_inv, quantize_with_centroid).
THEOREM OrderIsKept == Spec => []OrderKept
<1>1. ASSUME IInv PROVE OrderKept
  <2> SUFFICES ASSUME phase = "encoded", NEW i \in Coordinates, NEW j \in Coordinates
               PROVE  /\ Shifted[i] * residual[i] >= 0
                      /\ residual[i] <= residual[j] => Shifted[i] <= Shifted[j]
    BY DEF OrderKept
  <2>1. InputOK /\ EncodedOK
    BY <1>1 DEF IInv
  <2>2. PICK r \in Int, s \in Int, m \in Nat, n \in Nat, L \in Nat :
          /\ r = residual[i] /\ s = residual[j] /\ L = Levels(bits)
          /\ m = o[i] /\ n = o[j] /\ m = Magnitude(r) /\ n = Magnitude(s)
    BY <2>1, InputFacts, LevelsFacts
  <2>3. m = (IF r < 0 THEN -r ELSE r) /\ n = (IF s < 0 THEN -s ELSE s)
    BY <2>2 DEF Magnitude
  <2>4. \E x \in Nat, y \in Nat :
          /\ Shifted[i] = IF r < 0 THEN -(x + 1) ELSE x + 1
          /\ Shifted[j] = IF s < 0 THEN -(y + 1) ELSE y + 1
          /\ m <= n /\ r < 0 /\ s < 0 => x <= y
          /\ n <= m /\ r < 0 /\ s < 0 => y <= x
          /\ m <= n /\ r >= 0 /\ s >= 0 => x <= y
    <3>1. CASE Extended
      <4>1. input.t = None => Fraction(factor)
        BY <2>1, <3>1, InputFacts, SquareNat DEF EncodedOK, Extended
      <4>2. PICK c \in Nat, d \in Nat : /\ c = Codes[i] /\ d = Codes[j]
                                        /\ m <= n => c <= d
                                        /\ n <= m => d <= c
        <5>1. Codes[i] \in Nat /\ Codes[j] \in Nat
          BY <2>1, <3>1, EncodedFacts
        <5>2. /\ o[i] <= o[j] => Codes[i] <= Codes[j]
              /\ o[j] <= o[i] => Codes[j] <= Codes[i]
          BY <2>1, <4>1, CodesFacts
        <5> QED
          BY <2>2, <5>1, <5>2
      <4>3. /\ Shifted[i] = IF r < 0 THEN -(2 * c + 1) ELSE 2 * c + 1
            /\ Shifted[j] = IF s < 0 THEN -(2 * d + 1) ELSE 2 * d + 1
        BY <2>1, <2>2, <3>1, <4>2, EncodedFacts
      <4>4. 2 * c \in Nat /\ 2 * d \in Nat /\ (c <= d => 2 * c <= 2 * d)
            /\ (d <= c => 2 * d <= 2 * c)
        OBVIOUS
      <4> WITNESS 2 * c \in Nat, 2 * d \in Nat
      <4> QED
        BY <4>2, <4>3, <4>4
    <3>2. CASE ~Extended
      <4>1. /\ Shifted[i] = IF r < 0 THEN -(2 * L + 1) ELSE 1
            /\ Shifted[j] = IF s < 0 THEN -(2 * L + 1) ELSE 1
        BY <2>1, <2>2, <3>2, EncodedFacts
      <4>2. PICK x \in Nat, y \in Nat : /\ x = IF r < 0 THEN 2 * L ELSE 0
                                        /\ y = IF s < 0 THEN 2 * L ELSE 0
        OBVIOUS
      <4> WITNESS x \in Nat, y \in Nat
      <4> QED
        BY <4>1, <4>2
    <3> QED
      BY <3>1, <3>2
  <2>5. PICK x \in Nat, y \in Nat :
          /\ Shifted[i] = IF r < 0 THEN -(x + 1) ELSE x + 1
          /\ Shifted[j] = IF s < 0 THEN -(y + 1) ELSE y + 1
          /\ m <= n /\ r < 0 /\ s < 0 => x <= y
          /\ n <= m /\ r < 0 /\ s < 0 => y <= x
          /\ m <= n /\ r >= 0 /\ s >= 0 => x <= y
    BY <2>4
  <2>6. r <= s => Shifted[i] <= Shifted[j]
    BY <2>3, <2>5
  <2>7. Shifted[i] * r >= 0
    <3>1. CASE r < 0
      <4>1. PICK k \in Nat : r = -k
        <5>1. -r \in Nat /\ r = -(-r)
          BY <3>1
        <5> QED
          BY <5>1
      <4>2. (-(x + 1)) * (-k) = (x + 1) * k /\ (x + 1) * k \in Nat
        BY SMT
      <4> QED
        BY <2>5, <3>1, <4>1, <4>2
    <3>2. CASE r >= 0
      <4>1. r \in Nat
        BY <3>2
      <4>2. (x + 1) * r \in Nat
        BY <4>1, SMT
      <4> QED
        BY <2>5, <3>2, <4>2
    <3> QED
      BY <3>1, <3>2
  <2> QED
    BY <2>2, <2>6, <2>7
<1> QED
  BY <1>1, Invariance, PTL

-----------------------------------------------------------------------------
(* Inner products. *)

\* The terms of an inner product.
Terms(v, w) == [x \in Coordinates |-> v[x] * w[x]]

LEMMA AlongFacts ==
  ASSUME InputOK, NEW v \in [Coordinates -> Int], NEW w \in [Coordinates -> Int]
  PROVE  /\ Along(v, w) = SumOver(Coordinates, Terms(v, w))
         /\ \A x \in Coordinates : Terms(v, w)[x] \in Int
         /\ Along(v, w) \in Int /\ Along(v, w) = Along(w, v)
<1>1. IsFiniteSet(Coordinates) /\ DOMAIN v = Coordinates /\ DOMAIN w = Coordinates
  BY InputFacts
<1>2. Along(v, w) = SumOver(Coordinates, Terms(v, w))
      /\ Along(w, v) = SumOver(Coordinates, Terms(w, v))
  BY <1>1, AlongIs DEF Terms
<1>3. ASSUME NEW x \in Coordinates
      PROVE  Terms(v, w)[x] \in Int /\ Terms(v, w)[x] = Terms(w, v)[x]
  <2>1. v[x] \in Int /\ w[x] \in Int
    OBVIOUS
  <2>2. v[x] * w[x] \in Int /\ v[x] * w[x] = w[x] * v[x]
    BY <2>1, SMT
  <2> QED
    BY <2>2 DEF Terms
<1>4. SumOver(Coordinates, Terms(v, w)) \in Int
  BY <1>1, <1>3, SumInt
<1>5. SumOver(Coordinates, Terms(v, w)) = SumOver(Coordinates, Terms(w, v))
  BY <1>1, <1>3, SumSame
<1> QED
  BY <1>2, <1>3, <1>4, <1>5

\* Inner products with a point on a line.
LEMMA AlongLine ==
  ASSUME InputOK, NEW v \in [Coordinates -> Int], NEW c \in [Coordinates -> Int],
         NEW r \in [Coordinates -> Int], NEW k \in Int
  PROVE  Along(v, [i \in Coordinates |-> c[i] + k * r[i]]) = Along(v, c) + k * Along(v, r)
<1> DEFINE q == [i \in Coordinates |-> c[i] + k * r[i]]
<1>1. \A i \in Coordinates : c[i] \in Int /\ r[i] \in Int /\ v[i] \in Int
  OBVIOUS
<1>2. ASSUME NEW i \in Coordinates PROVE c[i] + k * r[i] \in Int
  BY <1>1, SMT
<1>3. q \in [Coordinates -> Int]
  BY <1>2
<1>4. ASSUME NEW x \in Coordinates
      PROVE  Terms(v, q)[x] = 1 * Terms(v, c)[x] + k * Terms(v, r)[x]
  <2>1. PICK a \in Int, b \in Int, d \in Int : a = v[x] /\ b = c[x] /\ d = r[x]
    BY <1>1
  <2>2. Terms(v, q)[x] = a * (b + k * d) /\ Terms(v, c)[x] = a * b /\ Terms(v, r)[x] = a * d
    BY <2>1 DEF Terms
  <2>3. a * (b + k * d) = 1 * (a * b) + k * (a * d)
    BY SMT
  <2> QED
    BY <2>2, <2>3
<1> HIDE DEF q
<1>5. PICK f, g, h : f = Terms(v, c) /\ g = Terms(v, r) /\ h = Terms(v, q)
  OBVIOUS
<1>6. \A x \in Coordinates : f[x] \in Int /\ g[x] \in Int /\ h[x] = 1 * f[x] + k * g[x]
  BY <1>4, <1>5, AlongFacts
<1>7. IsFiniteSet(Coordinates) /\ 1 \in Int
  BY InputFacts
<1>8. SumOver(Coordinates, h) = 1 * SumOver(Coordinates, f) + k * SumOver(Coordinates, g)
  BY ONLY <1>6, <1>7, k \in Int, SumLinear, SMT
<1>9. /\ Along(v, c) = SumOver(Coordinates, f) /\ Along(v, r) = SumOver(Coordinates, g)
      /\ Along(v, q) = SumOver(Coordinates, h) /\ Along(v, c) \in Int
  BY <1>3, <1>5, AlongFacts
<1>10. Along(v, q) = Along(v, c) + k * Along(v, r)
  BY <1>8, <1>9
<1> QED
  BY <1>10 DEF q

\* The estimate for a query on the line, for any codes: it needs the inner
\* product of the codes with the residual, and that it is not 0 for nothing.
LEMMA EstimateIs ==
  ASSUME InputOK, NEW xu \in [Coordinates -> Int], NEW metric \in {"L2", "InnerProduct"},
         NEW k \in Int, Along(residual, xu) = 0 => Square(residual) = 0,
         NEW e, e = Estimate(metric, [add |-> AddFactor(metric, xu),
                                      rescale |-> RescaleFactor(metric, Along(residual, xu))], xu, k)
  PROVE  e[1] = e[2] * TrueDistance(metric, k)
<1> DEFINE c == input.centroid
           query == [i \in Coordinates |-> c[i] + k * residual[i]]
           vector == [i \in Coordinates |-> c[i] + residual[i]]
<1>1. residual \in [Coordinates -> Int] /\ c \in [Coordinates -> Int]
  BY InputFacts
<1>2. query \in [Coordinates -> Int] /\ vector \in [Coordinates -> Int]
  <2>1. ASSUME NEW i \in Coordinates
        PROVE  c[i] + k * residual[i] \in Int /\ c[i] + residual[i] \in Int
    <3>1. c[i] \in Int /\ residual[i] \in Int
      BY <1>1
    <3> QED
      BY <3>1, SMT
  <2> QED
    BY <2>1
<1>3. vector = [i \in Coordinates |-> c[i] + 1 * residual[i]]
  BY <1>1
<1> HIDE DEF c
<1>4. PICK S \in Nat, P \in Int, X \in Int, R \in Int, C \in Int :
        /\ S = Square(residual) /\ P = Along(residual, xu) /\ X = Along(c, xu)
        /\ R = Along(residual, c) /\ C = Along(c, c)
  BY <1>1, SquareNat, AlongFacts
<1>5. Along(xu, query) = X + k * P
  <2>1. Along(xu, query) = Along(xu, c) + k * Along(xu, residual)
    BY <1>1, AlongLine
  <2>2. Along(xu, c) = X /\ Along(xu, residual) = P
    BY <1>1, <1>4, AlongFacts
  <2> QED
    BY <2>1, <2>2
<1>6. Along(query, c) = C + k * R
  <2>1. Along(c, query) = Along(c, c) + k * Along(c, residual)
    BY <1>1, AlongLine
  <2>2. Along(query, c) = Along(c, query) /\ Along(c, residual) = R
    BY <1>1, <1>2, <1>4, AlongFacts
  <2> QED
    BY <1>4, <2>1, <2>2
<1>7. Along(vector, query) = (C + k * R) + (R + k * S)
  <2>1. Along(query, vector) = Along(query, c) + 1 * Along(query, residual)
    <3> HIDE DEF query, vector
    <3>1. PICK one \in Int : one = 1
      OBVIOUS
    <3>2. vector = [i \in Coordinates |-> c[i] + one * residual[i]]
      BY <1>3, <3>1
    <3>3. Along(query, [i \in Coordinates |-> c[i] + one * residual[i]])
            = Along(query, c) + one * Along(query, residual)
      BY <1>1, <1>2, AlongLine
    <3> QED
      BY <3>1, <3>2, <3>3
  <2>2. Along(residual, query) = R + k * S
    BY <1>1, <1>4, AlongLine, SquareIs
  <2>3. Along(query, residual) = Along(residual, query) /\ Along(vector, query) = Along(query, vector)
    BY <1>1, <1>2, AlongFacts
  <2>4. R + k * S \in Int
    BY <1>4, SMT
  <2> QED
    BY <1>6, <2>1, <2>2, <2>3, <2>4
<1> HIDE DEF query, vector
<1>8. PICK s, u : s = Over(S * X, P) /\ u = Over(S, P)
  OBVIOUS
<1>9. IF P = 0 THEN S = 0 /\ s = <<0, 1>> /\ u = <<0, 1>> ELSE s = <<S * X, P>> /\ u = <<S, P>>
  BY <1>4, <1>8 DEF Over
<1>10. CASE metric = "L2"
  <2>1. PICK a, r : a = <<S * s[2] + 2 * s[1], s[2]>> /\ r = <<-2 * u[1], u[2]>>
    OBVIOUS
  <2>2. AddFactor(metric, xu) = a /\ RescaleFactor(metric, P) = r
    BY <1>4, <1>8, <1>10, <2>1, Zenon DEF AddFactor, RescaleFactor, c
  <2>3. e = <<a[1] * r[2] + (k * k * S) * a[2] * r[2] + r[1] * (X + k * P) * a[2], a[2] * r[2]>>
    <3>1. PICK f : f = [add |-> AddFactor(metric, xu), rescale |-> RescaleFactor(metric, P)]
      OBVIOUS
    <3>2. e = Estimate(metric, f, xu, k) /\ f.add = a /\ f.rescale = r
      BY <1>4, <2>2, <3>1
    <3> QED
      BY <1>4, <1>5, <1>10, <3>2, Zenon DEF Estimate, query, c
  <2>4. TrueDistance(metric, k) = (k - 1) * (k - 1) * S
    BY <1>4, <1>10 DEF TrueDistance
  <2>5. CASE P = 0
    <3>1. a = <<0, 1>> /\ r = <<0, 1>> /\ S = 0
      BY <1>9, <2>1, <2>5
    <3>2. 0 * 1 + (k * k * 0) * 1 * 1 + 0 * (X + k * P) * 1 = (1 * 1) * ((k - 1) * (k - 1) * 0)
      BY SMT
    <3> QED
      BY <2>3, <2>4, <3>1, <3>2
  <2>6. CASE P # 0
    <3>1. a[1] = S * P + 2 * (S * X) /\ a[2] = P /\ r[1] = -2 * S /\ r[2] = P
      BY <1>9, <2>1, <2>6
    <3>2. (S * P + 2 * (S * X)) * P + (k * k * S) * P * P + (-2 * S) * (X + k * P) * P
            = (P * P) * ((k - 1) * (k - 1) * S)
      BY SMT
    <3> QED
      BY <2>3, <2>4, <3>1, <3>2
  <2> QED
    BY <2>5, <2>6
<1>11. CASE metric = "InnerProduct"
  <2>1. PICK a, r : a = <<(1 - R) * s[2] + s[1], s[2]>> /\ r = <<-u[1], u[2]>>
    OBVIOUS
  <2>2. AddFactor(metric, xu) = a /\ RescaleFactor(metric, P) = r
    BY <1>4, <1>8, <1>11, <2>1 DEF AddFactor, RescaleFactor, c
  <2>3. e = <<a[1] * r[2] + (-(C + k * R)) * a[2] * r[2] + r[1] * (X + k * P) * a[2], a[2] * r[2]>>
    <3>1. PICK f : f = [add |-> AddFactor(metric, xu), rescale |-> RescaleFactor(metric, P)]
      OBVIOUS
    <3>2. e = Estimate(metric, f, xu, k) /\ f.add = a /\ f.rescale = r
      BY <1>4, <2>2, <3>1
    <3>3. metric # "L2"
      BY <1>11
    <3> QED
      BY <1>4, <1>5, <1>6, <3>2, <3>3, Zenon DEF Estimate, query, c
  <2>4. TrueDistance(metric, k) = 1 - ((C + k * R) + (R + k * S))
    BY <1>7, <1>11 DEF TrueDistance, vector, query, c
  <2>5. CASE P = 0
    <3>1. a[1] = (1 - R) * 1 + 0 /\ a[2] = 1 /\ r[1] = 0 /\ r[2] = 1 /\ S = 0
      BY <1>9, <2>1, <2>5
    <3>2. ((1 - R) * 1 + 0) * 1 + (-(C + k * R)) * 1 * 1 + 0 * (X + k * P) * 1
            = (1 * 1) * (1 - ((C + k * R) + (R + k * 0)))
      BY SMT
    <3> QED
      BY <2>3, <2>4, <3>1, <3>2
  <2>6. CASE P # 0
    <3>1. a[1] = (1 - R) * P + S * X /\ a[2] = P /\ r[1] = -S /\ r[2] = P
      BY <1>9, <2>1, <2>6
    <3>2. ((1 - R) * P + S * X) * P + (-(C + k * R)) * P * P + (-S) * (X + k * P) * P
            = (P * P) * (1 - ((C + k * R) + (R + k * S)))
      BY SMT
    <3> QED
      BY <2>3, <2>4, <3>1, <3>2
  <2> QED
    BY <2>5, <2>6
<1> QED
  BY <1>10, <1>11

\* Codes with the signs of the residual: their inner product with it is that of
\* the codes with the magnitudes, and 0 only for a vector at its centroid.
LEMMA SignedCodes ==
  ASSUME InputOK, NEW c \in [Coordinates -> Nat], NEW xu, xu = [i \in Coordinates |-> xu[i]],
         \A i \in Coordinates :
           xu[i] = IF residual[i] < 0 THEN -(2 * c[i] + 1) ELSE 2 * c[i] + 1
  PROVE  /\ xu \in [Coordinates -> Int]
         /\ Along(residual, xu) = Product(c, o)
         /\ Along(residual, xu) = 0 => Square(residual) = 0
<1>1. /\ IsFiniteSet(Coordinates) /\ residual \in [Coordinates -> Int]
      /\ o \in [Coordinates -> Nat] /\ DOMAIN o = Coordinates
      /\ \A i \in Coordinates : o[i] = Magnitude(residual[i])
  BY InputFacts
<1>2. xu \in [Coordinates -> Int]
  <2>1. ASSUME NEW i \in Coordinates PROVE xu[i] \in Int
    <3>1. residual[i] \in Int /\ c[i] \in Nat
      BY <1>1
    <3>2. -(2 * c[i] + 1) \in Int /\ 2 * c[i] + 1 \in Int
      BY <3>1
    <3> QED
      BY <3>2
  <2> QED
    BY <2>1
<1> DEFINE f == [x \in Coordinates |-> (2*c[x] + 1) * o[x]]
<1>3. ASSUME NEW x \in Coordinates PROVE Terms(residual, xu)[x] = f[x]
  <2>1. PICK d \in Nat, m \in Nat, r \in Int :
          d = c[x] /\ m = o[x] /\ r = residual[x] /\ m = (IF r < 0 THEN -r ELSE r)
    BY <1>1 DEF Magnitude
  <2>2. PICK e \in Nat : e = 2*d + 1
    OBVIOUS
  <2>3. xu[x] = (IF r < 0 THEN -e ELSE e) /\ f[x] = e * m
    BY <2>1, <2>2
  <2>4. Terms(residual, xu)[x] = r * xu[x]
    BY <2>1 DEF Terms
  <2>5. r * (-e) = e * (-r) /\ r * e = e * r
    BY ONLY r \in Int, e \in Nat, SMT
  <2>6. CASE r < 0
    <3>1. Terms(residual, xu)[x] = r * (-e) /\ f[x] = e * (-r)
      BY <2>1, <2>3, <2>4, <2>6
    <3> QED
      BY <2>5, <3>1
  <2>7. CASE r >= 0
    <3>1. Terms(residual, xu)[x] = r * e /\ f[x] = e * r
      BY <2>1, <2>3, <2>4, <2>7
    <3> QED
      BY <2>5, <3>1
  <2> QED
    BY <2>1, <2>6, <2>7
<1>4. Product(c, o) = SumOver(Coordinates, f)
  <2>1. Product(c, o) = SumOver(DOMAIN o, [x \in DOMAIN o |-> (2*c[x] + 1) * o[x]])
    BY <1>1, ProductIs
  <2> QED
    BY <1>1, <2>1
<1> HIDE DEF f
<1>5. SumOver(Coordinates, Terms(residual, xu)) = SumOver(Coordinates, f)
  <2>1. PICK g, h : g = Terms(residual, xu) /\ h = f
    OBVIOUS
  <2>2. \A x \in Coordinates : g[x] = h[x]
    BY <1>3, <2>1
  <2>3. IsFiniteSet(Coordinates)
    BY <1>1
  <2>4. SumOver(Coordinates, g) = SumOver(Coordinates, h)
    BY ONLY <2>2, <2>3, SumSame, SMT
  <2> QED
    BY <2>1, <2>4
<1>6. Along(residual, xu) = Product(c, o)
  BY <1>1, <1>2, <1>4, <1>5, AlongFacts
<1>7. Along(residual, xu) = 0 => Square(residual) = 0
  <2>1. /\ Product(c, o) \in Nat /\ Square(residual) \in Nat
        /\ Square(residual) > 0 => Product(c, o) > 0
    BY ScoreFacts, SquareNat
  <2> QED
    BY <1>6, <2>1
<1> QED
  BY <1>2, <1>6, <1>7

\* Whatever the codes, both estimates are exact for queries on the line from the
\* centroid to the vector (compute_one_bit_factors, compute_extended_factors and
\* the ipnorm_inv of quantize_ex_with_inv): the denominators the code guards
\* against are 0 only for the vector that is its centroid.
THEOREM EstimatesAreExact == Spec => []ExactAlongResidual
<1>1. ASSUME IInv PROVE ExactAlongResidual
  <2> SUFFICES ASSUME phase = "encoded", NEW metric \in {"L2", "InnerProduct"},
                      NEW k \in {-1, 1, 2}
               PROVE  /\ Estimate(metric, OneBitFactors(metric), Signs, k)[1]
                           = Estimate(metric, OneBitFactors(metric), Signs, k)[2]
                               * TrueDistance(metric, k)
                      /\ bits > 0 =>
                           Estimate(metric, ExtendedFactors(metric), Shifted, k)[1]
                             = Estimate(metric, ExtendedFactors(metric), Shifted, k)[2]
                                 * TrueDistance(metric, k)
    BY DEF ExactAlongResidual
  <2>1. InputOK /\ EncodedOK /\ k \in Int
    BY <1>1 DEF IInv
  <2>2. /\ residual \in [Coordinates -> Int] /\ Levels(bits) \in Nat
        /\ IsFiniteSet(Coordinates)
    BY <2>1, InputFacts, LevelsFacts
  <2>3. Estimate(metric, OneBitFactors(metric), Signs, k)[1]
          = Estimate(metric, OneBitFactors(metric), Signs, k)[2] * TrueDistance(metric, k)
    <3>1. NoCode \in [Coordinates -> Nat] /\ \A i \in Coordinates : NoCode[i] = 0
      BY DEF NoCode
    <3>2. ASSUME NEW i \in Coordinates
          PROVE  Signs[i] = IF residual[i] < 0 THEN -(2 * NoCode[i] + 1) ELSE 2 * NoCode[i] + 1
      <4>1. residual[i] \in Int
        BY <2>2
      <4> QED
        BY <3>1, <4>1 DEF Signs, Binary
    <3>3. Signs = [i \in Coordinates |-> Signs[i]]
      BY DEF Signs
    <3>4. Signs \in [Coordinates -> Int] /\ (Along(residual, Signs) = 0 => Square(residual) = 0)
      BY <2>1, <3>1, <3>2, <3>3, SignedCodes
    <3>5. PICK e : e = Estimate(metric, [add |-> AddFactor(metric, Signs),
                                rescale |-> RescaleFactor(metric, Along(residual, Signs))], Signs, k)
      OBVIOUS
    <3>6. e[1] = e[2] * TrueDistance(metric, k)
      BY <2>1, <3>4, <3>5, EstimateIs
    <3> QED
      BY <3>5, <3>6 DEF OneBitFactors
  <2>4. ASSUME bits > 0
        PROVE  Estimate(metric, ExtendedFactors(metric), Shifted, k)[1]
                 = Estimate(metric, ExtendedFactors(metric), Shifted, k)[2] * TrueDistance(metric, k)
    <3>1. Shifted = [i \in Coordinates |-> Shifted[i]]
      BY DEF Shifted
    <3>2. /\ Shifted \in [Coordinates -> Int]
          /\ Along(residual, Shifted) = 0 => Square(residual) = 0
          /\ ipnorm = Along(residual, Shifted)
      <4>1. CASE Extended
        <5>1. (input.t = None => Fraction(factor)) /\ ipnorm = CodeProduct
          BY <2>1, <4>1, InputFacts, SquareNat DEF EncodedOK, Extended
        <5>2. Codes \in [Coordinates -> 0..Levels(bits)]
          BY <2>1, <5>1, CodesFacts
        <5>3. Codes \in [Coordinates -> Nat]
          BY <2>2, <5>2
        <5>4. \A i \in Coordinates :
                Shifted[i] = IF residual[i] < 0 THEN -(2 * Codes[i] + 1) ELSE 2 * Codes[i] + 1
          BY <2>1, <4>1, EncodedFacts
        <5>5. /\ Shifted \in [Coordinates -> Int]
              /\ Along(residual, Shifted) = Product(Codes, o)
              /\ Along(residual, Shifted) = 0 => Square(residual) = 0
          BY <2>1, <3>1, <5>3, <5>4, SignedCodes
        <5> QED
          BY <5>1, <5>5 DEF CodeProduct
      <4>2. CASE ~Extended
        <5>1. Square(residual) = 0 /\ ipnorm = 0
          BY <2>1, <2>4, <4>2, InputFacts, SquareNat DEF EncodedOK, Extended
        <5>2. \A i \in Coordinates : residual[i] = 0
          <6>1. Along(residual, residual) = SumOver(Coordinates, Terms(residual, residual))
            BY <2>1, <2>2, AlongFacts
          <6>2. ASSUME NEW i \in Coordinates
                PROVE  /\ Terms(residual, residual)[i] \in Nat
                       /\ Terms(residual, residual)[i] = 0 => residual[i] = 0
            <7>1. \A x \in Int : x * x \in Nat /\ (x * x = 0 => x = 0)
              BY SMT
            <7> QED
              BY <2>2, <7>1 DEF Terms
          <6>3. \A i \in Coordinates :
                  Terms(residual, residual)[i] <= SumOver(Coordinates, Terms(residual, residual))
            BY <2>2, <6>2, SumAtLeast
          <6> QED
            BY <5>1, <6>1, <6>2, <6>3, SquareIs
        <5>3. \A i \in Coordinates : Shifted[i] = 1
          BY <2>1, <4>2, <5>2, EncodedFacts
        <5>4. Shifted \in [Coordinates -> Int]
          BY <3>1, <5>3
        <5>5. \A i \in Coordinates : Terms(residual, Shifted)[i] = 0
          BY <5>2, <5>3 DEF Terms
        <5>6. Along(residual, Shifted) = 0
          BY <2>1, <2>2, <5>4, <5>5, AlongFacts, SumZero
        <5> QED
          BY <5>1, <5>4, <5>6
      <4> QED
        BY <4>1, <4>2
    <3>3. PICK e : e = Estimate(metric, [add |-> AddFactor(metric, Shifted),
                              rescale |-> RescaleFactor(metric, Along(residual, Shifted))], Shifted, k)
      OBVIOUS
    <3>4. e[1] = e[2] * TrueDistance(metric, k)
      BY <2>1, <3>2, <3>3, EstimateIs
    <3> QED
      BY <3>2, <3>3, <3>4 DEF ExtendedFactors
  <2> QED
    BY <2>3, <2>4
<1> QED
  BY <1>1, Invariance, PTL

-----------------------------------------------------------------------------
(* The sweep finds the best factor. *)

StartCodes == [i \in Coordinates |-> Scaled(Start(o, bits), o[i])]

\* A factor the sweep may try.
Within(t) ==
  /\ t = <<t[1], t[2]>>
  /\ t[1] \in 1..Levels(bits) + 10
  /\ t[2] \in {o[i] : i \in Coordinates} \ {0}
  /\ Less(Start(o, bits), t) /\ Less(t, End(o, bits))

\* No factor was tried yet.
Untried ==
  /\ best = [product |-> 0, normSqr |-> 1]
  /\ cur = StartCodes
  /\ \A i \in Coordinates : o[i] = Greatest(o) => i \in DOMAIN heap

ScoreAt(t) == Score(CodeAt(o, bits, t), o)

\* The factors with a change of a code that was made.
Tried == {t \in Breakpoints(o, bits) :
            \E i \in Coordinates : o[i] = t[2] /\ t[1] <= cur[i]}

BestOfTried ==
  /\ factor \in Breakpoints(o, bits)
  /\ best = ScoreAt(factor)
  /\ \A t \in Tried : ~Better(ScoreAt(t), best)

\* No change was made that comes after one in the heap.
Behind ==
  \A i \in DOMAIN heap, j \in Coordinates :
    o[j] > 0 => ~Less(heap[i], <<cur[j], o[j]>>)

PlainOK ==
  /\ \A i \in Coordinates : /\ cur[i] <= Levels(bits)
                            /\ o[i] = 0 => cur[i] = 0
                            /\ i \in DOMAIN heap => cur[i] < Levels(bits)
  /\ Behind
  /\ Untried \/ BestOfTried

FactorInv ==
  /\ phase = "begin" => factor = None
  /\ phase = "sweep" =>
       /\ \A i \in Coordinates : cur[i] >= StartCodes[i]
       /\ Untried \/ Within(factor)
       /\ Plain(o, bits) => PlainOK

\* Products with a number greater than 0 are in the order of the numbers.
LEMMA Scale ==
  ASSUME NEW x \in Int, NEW y \in Int, NEW d \in Nat \ {0}
  PROVE  /\ x * d \in Int /\ y * d \in Int
         /\ x < y <=> x * d < y * d
         /\ x <= y <=> x * d <= y * d
<1>1. x * d \in Int /\ y * d \in Int
  BY SMT
<1>2. ASSUME x < y PROVE x * d < y * d
  <2>1. PICK k \in Nat : y = x + 1 + k
    <3>1. y - x - 1 \in Nat /\ y = x + 1 + (y - x - 1)
      BY <1>2
    <3> QED
      BY <3>1
  <2>2. (x + 1 + k) * d = x * d + d + k * d /\ k * d \in Nat
    BY SMT
  <2> QED
    BY <1>1, <2>1, <2>2
<1>3. ASSUME y < x PROVE y * d < x * d
  <2>1. PICK k \in Nat : x = y + 1 + k
    <3>1. x - y - 1 \in Nat /\ x = y + 1 + (x - y - 1)
      BY <1>3
    <3> QED
      BY <3>1
  <2>2. (y + 1 + k) * d = y * d + d + k * d /\ k * d \in Nat
    BY SMT
  <2> QED
    BY <1>1, <2>1, <2>2
<1>4. x = y => x * d = y * d
  OBVIOUS
<1> QED
  BY <1>1, <1>2, <1>3, <1>4

\* Fractions a / b, c / d and e / f in order.
LEMMA ThreeFractions ==
  ASSUME NEW a \in Nat, NEW b \in Nat \ {0}, NEW c \in Nat, NEW d \in Nat \ {0},
         NEW e \in Nat, NEW f \in Nat \ {0}, a * d <= c * b
  PROVE  /\ c * f < e * d => a * f < e * b
         /\ c * f <= e * d => a * f <= e * b
<1>1. /\ a * d \in Nat /\ c * b \in Nat /\ c * f \in Nat /\ e * d \in Nat
      /\ a * f \in Nat /\ e * b \in Nat
  BY SMT
<1>2. (a * d) * f <= (c * b) * f
  BY <1>1, Scale
<1>3. /\ (a * d) * f = (a * f) * d /\ (c * b) * f = (c * f) * b /\ (e * d) * b = (e * b) * d
  BY SMT
<1>4. /\ c * f < e * d => (c * f) * b < (e * d) * b
      /\ c * f <= e * d => (c * f) * b <= (e * d) * b
  <2>1. PICK m \in Int, n \in Int : m = c * f /\ n = e * d
    BY <1>1
  <2>2. (m < n => m * b < n * b) /\ (m <= n => m * b <= n * b)
    BY Scale
  <2> QED
    BY <2>1, <2>2
<1>5. (a * f) * d \in Int /\ (c * f) * b \in Int /\ (e * b) * d \in Int
  BY <1>1, Scale
<1>6. /\ c * f < e * d => (a * f) * d < (e * b) * d
      /\ c * f <= e * d => (a * f) * d <= (e * b) * d
  BY <1>2, <1>3, <1>4, <1>5
<1>7. /\ a * f < e * b <=> (a * f) * d < (e * b) * d
      /\ a * f <= e * b <=> (a * f) * d <= (e * b) * d
  <2>1. a * f \in Int /\ e * b \in Int
    BY <1>1
  <2> QED
    BY <2>1, Scale
<1> QED
  BY <1>6, <1>7

LEMMA LessFacts ==
  ASSUME NEW s, NEW t, NEW u, Fraction(s), Fraction(t), Fraction(u)
  PROVE  /\ ~Less(t, s) /\ Less(t, u) => Less(s, u)
         /\ ~Less(t, s) /\ ~Less(u, t) => ~Less(u, s)
         /\ Less(s, t) => ~Less(t, s)
<1>1. PICK a \in Nat, b \in Nat \ {0}, c \in Nat, d \in Nat \ {0}, e \in Nat, f \in Nat \ {0} :
        s[1] = a /\ s[2] = b /\ t[1] = c /\ t[2] = d /\ u[1] = e /\ u[2] = f
  BY DEF Fraction
<1>2. /\ Less(t, s) <=> c * b < a * d
      /\ Less(s, t) <=> a * d < c * b
      /\ Less(t, u) <=> c * f < e * d
      /\ Less(u, t) <=> e * d < c * f
      /\ Less(s, u) <=> a * f < e * b
      /\ Less(u, s) <=> e * b < a * f
  BY <1>1 DEF Less
<1>3. /\ a * d \in Nat /\ c * b \in Nat /\ c * f \in Nat /\ e * d \in Nat
      /\ a * f \in Nat /\ e * b \in Nat
  BY SMT
<1>4. a * d <= c * b => /\ c * f < e * d => a * f < e * b
                        /\ c * f <= e * d => a * f <= e * b
  BY ThreeFractions
<1> QED
  BY <1>2, <1>3, <1>4

\* What no score is better than.
LEMMA BetterFacts ==
  ASSUME NEW s, NEW r, NEW q,
         \A x \in {s, r, q} : x.product \in Nat /\ x.normSqr \in Nat \ {0},
         ~Better(s, r), ~Better(r, q)
  PROVE  ~Better(s, q)
<1>1. PICK a \in Nat, b \in Nat \ {0}, c \in Nat, d \in Nat \ {0}, e \in Nat, f \in Nat \ {0} :
        /\ s.product * s.product = a /\ s.normSqr = b
        /\ r.product * r.product = c /\ r.normSqr = d
        /\ q.product * q.product = e /\ q.normSqr = f
  <2>1. \A x \in Nat : x * x \in Nat
    BY SMT
  <2> QED
    BY <2>1
<1>2. ~(a * d > c * b) /\ ~(c * f > e * d)
  BY <1>1 DEF Better
<1>3. a * d \in Nat /\ c * b \in Nat /\ c * f \in Nat /\ e * d \in Nat /\ a * f \in Nat /\ e * b \in Nat
  BY SMT
<1>4. a * d <= c * b /\ c * f <= e * d
  BY <1>2, <1>3
<1>5. a * f <= e * b
  BY <1>4, ThreeFractions
<1>6. ~(a * f > e * b)
  BY <1>3, <1>5
<1> QED
  BY <1>1, <1>6 DEF Better

LEMMA ScoreAtFacts ==
  ASSUME InputOK, Square(residual) > 0, NEW t, Fraction(t)
  PROVE  /\ CodeAt(o, bits, t) \in [Coordinates -> 0..Levels(bits)]
         /\ ScoreAt(t).product \in Nat /\ ScoreAt(t).normSqr \in Nat \ {0}
<1>1. /\ o \in [Coordinates -> Nat] /\ DOMAIN o = Coordinates /\ Levels(bits) \in Nat
  BY InputFacts, LevelsFacts
<1>2. ASSUME NEW i \in Coordinates
      PROVE  Smaller(Scaled(t, o[i]), Levels(bits)) \in 0..Levels(bits)
  <2>1. PICK a \in Nat, d \in Nat \ {0}, m \in Nat : t[1] = a /\ t[2] = d /\ m = o[i]
    BY <1>1 DEF Fraction
  <2>2. PICK q : q = (a * m) \div d
    OBVIOUS
  <2>3. q \in Nat
    <3>1. a * m \in Nat
      BY SMT
    <3> QED
      BY <2>2, <3>1, Quotient
  <2>4. Scaled(t, o[i]) = q
    BY <2>1, <2>2 DEF Scaled
  <2> QED
    BY <1>1, <2>3, <2>4 DEF Smaller
<1>3. CodeAt(o, bits, t) \in [Coordinates -> 0..Levels(bits)]
  BY <1>1, <1>2 DEF CodeAt
<1>4. CodeAt(o, bits, t) \in [Coordinates -> Nat]
  BY <1>1, <1>3
<1>5. PICK c : c = CodeAt(o, bits, t)
  OBVIOUS
<1>6. Product(c, o) \in Nat /\ NormSqr(c) \in Nat /\ NormSqr(c) > 0
  BY <1>4, <1>5, ScoreFacts
<1> QED
  BY <1>3, <1>5, <1>6 DEF ScoreAt, Score

LEMMA BreakpointFacts ==
  ASSUME InputOK, NEW t \in Breakpoints(o, bits)
  PROVE  /\ Fraction(t) /\ t[1] \in 1..Levels(bits) /\ Less(t, End(o, bits))
         /\ \E i \in Coordinates : /\ o[i] = t[2] /\ o[i] > 0
                                   /\ t[1] > Scaled(Start(o, bits), o[i])
<1>1. /\ o \in [Coordinates -> Nat] /\ DOMAIN o = Coordinates /\ Levels(bits) \in Nat
  BY InputFacts, LevelsFacts
<1>2. PICK c \in 1..Levels(bits), j \in Coordinates : t = <<c, o[j]>> /\ o[j] > 0
  BY <1>1 DEF Breakpoints
<1>3. t[1] = c /\ t[2] = o[j]
  BY <1>2
<1>4. Less(t, End(o, bits)) /\ \E i \in Coordinates : o[i] = t[2] /\ t[1] > Scaled(Start(o, bits), o[i])
  BY <1>1 DEF Breakpoints
<1> QED
  BY <1>1, <1>2, <1>3, <1>4 DEF Fraction

\* The next code of a coordinate is due after t_start.
LEMMA AfterStart ==
  ASSUME InputOK, Square(residual) > 0, NEW i \in Coordinates, o[i] > 0,
         NEW c \in Nat, c >= Scaled(Start(o, bits), o[i])
  PROVE  Less(Start(o, bits), <<c + 1, o[i]>>)
<1>1. PICK L \in Nat, G \in Nat \ {0}, K \in 0..81, m \in Nat \ {0}, s \in Nat :
        /\ L = Levels(bits) + 10 /\ G = Greatest(o) /\ K = Tight(bits) /\ m = o[i]
        /\ s = Scaled(Start(o, bits), o[i]) /\ s <= c
        /\ L * K * m < 100 * (s + 1) * G
  <2>1. /\ Levels(bits) + 10 \in Nat /\ Greatest(o) \in Nat \ {0} /\ Tight(bits) \in 0..81
        /\ o[i] \in Nat \ {0} /\ Scaled(Start(o, bits), o[i]) \in Nat
        /\ (Levels(bits) + 10) * Tight(bits) * o[i]
             < 100 * (Scaled(Start(o, bits), o[i]) + 1) * Greatest(o)
    BY LevelsFacts, GreatestFacts, StartFacts, InputFacts
  <2> QED
    BY <2>1
<1>2. PICK k \in Nat : c = s + k
  <2>1. c - s \in Nat /\ c = s + (c - s)
    BY <1>1
  <2> QED
    BY <2>1
<1>3. (c + 1) * (100 * G) = 100 * (s + 1) * G + 100 * (k * G) /\ k * G \in Nat
      /\ L * K * m \in Nat /\ 100 * (s + 1) * G \in Nat
  BY <1>1, <1>2, SMT
<1>4. (L * K) * m < (c + 1) * (100 * G)
  BY <1>1, <1>3
<1> QED
  BY <1>1, <1>4 DEF Less, Start

\* At t_start no code is past t_start.
LEMMA UptoStart ==
  ASSUME InputOK, Square(residual) > 0, NEW i \in Coordinates, o[i] > 0
  PROVE  ~Less(Start(o, bits), <<Scaled(Start(o, bits), o[i]), o[i]>>)
<1>1. PICK L \in Nat, G \in Nat \ {0}, K \in 0..81, m \in Nat \ {0}, s \in Nat :
        /\ L = Levels(bits) + 10 /\ G = Greatest(o) /\ K = Tight(bits) /\ m = o[i]
        /\ s = Scaled(Start(o, bits), o[i])
        /\ 100 * s * G <= L * K * m
  <2>1. /\ Levels(bits) + 10 \in Nat /\ Greatest(o) \in Nat \ {0} /\ Tight(bits) \in 0..81
        /\ o[i] \in Nat \ {0} /\ Scaled(Start(o, bits), o[i]) \in Nat
        /\ 100 * Scaled(Start(o, bits), o[i]) * Greatest(o)
             <= (Levels(bits) + 10) * Tight(bits) * o[i]
    BY LevelsFacts, GreatestFacts, StartFacts, InputFacts
  <2> QED
    BY <2>1
<1>2. s * (100 * G) = 100 * s * G /\ s * (100 * G) \in Nat /\ L * K * m \in Nat
  BY <1>1, SMT
<1>3. ~((L * K) * m < s * (100 * G))
  BY <1>1, <1>2
<1> QED
  BY <1>1, <1>3 DEF Less, Start

\* The largest coordinate changes at least once: no entry of K_TIGHT_START is
\* near enough to 1.
LEMMA GreatestDue ==
  ASSUME InputOK, Square(residual) > 0, NEW i \in Coordinates, o[i] = Greatest(o)
  PROVE  /\ o[i] > 0
         /\ Less(<<Scaled(Start(o, bits), o[i]) + 1, o[i]>>, End(o, bits))
<1>1. PICK L \in Nat, G \in Nat \ {0}, K \in 0..81, s \in Nat :
        /\ L = Levels(bits) + 10 /\ L >= 10 /\ G = Greatest(o) /\ K = Tight(bits) /\ G = o[i]
        /\ s = Scaled(Start(o, bits), o[i])
        /\ 100 * s * G <= L * K * G
  <2>1. /\ Levels(bits) + 10 \in Nat /\ Levels(bits) + 10 >= 10
        /\ Greatest(o) \in Nat \ {0} /\ Tight(bits) \in 0..81
        /\ Scaled(Start(o, bits), o[i]) \in Nat
        /\ 100 * Scaled(Start(o, bits), o[i]) * Greatest(o)
             <= (Levels(bits) + 10) * Tight(bits) * o[i]
    BY LevelsFacts, GreatestFacts, StartFacts
  <2> QED
    BY <2>1
<1>2. 100 * s <= L * K
  <2>1. 100 * s \in Int /\ L * K \in Int /\ 100 * s * G = (100 * s) * G /\ L * K * G = (L * K) * G
    BY SMT
  <2>2. PICK x \in Int, y \in Int : x = 100 * s /\ y = L * K
    BY <2>1
  <2>3. x * G <= y * G
    BY <1>1, <2>1, <2>2
  <2> QED
    BY <2>2, <2>3, Scale
<1>3. L * K <= 81 * L
  <2>1. PICK k \in Nat : 81 = K + k
    <3>1. 81 - K \in Nat /\ 81 = K + (81 - K)
      BY <1>1
    <3> QED
      BY <3>1
  <2>2. (K + k) * L = L * K + k * L /\ k * L \in Nat /\ L * K \in Nat
    BY SMT
  <2> QED
    BY <2>1, <2>2
<1>4. s + 1 < L
  <2>1. PICK n \in Nat : n = L * K
    BY <1>1, SMT
  <2> QED
    BY <1>1, <1>2, <1>3, <2>1
<1>5. (s + 1) * G < L * G
  <2>1. s + 1 \in Int /\ L \in Int
    BY <1>1
  <2> QED
    BY <1>4, <2>1, Scale
<1> QED
  BY <1>1, <1>5 DEF Less, End

\* Everything worked out from the arguments alone stays.
LEMMA SameSpace ==
  ASSUME input' = input
  PROVE  /\ \A t : (Within(t) <=> Within(t)') /\ ScoreAt(t)' = ScoreAt(t)
         /\ StartCodes' = StartCodes /\ Breakpoints(o, bits)' = Breakpoints(o, bits)
         /\ (Plain(o, bits) <=> Plain(o, bits)')
<1>1. bits' = bits /\ Coordinates' = Coordinates /\ o' = o
  BY SameInput
<1>2. \A t : Within(t) <=> Within(t)'
  BY <1>1 DEF Within
<1>3. \A t : ScoreAt(t)' = ScoreAt(t)
  BY <1>1 DEF ScoreAt
<1>4. StartCodes' = StartCodes
  BY <1>1 DEF StartCodes
<1> QED
  BY <1>1, <1>2, <1>3, <1>4

LEMMA StartSweepFactor == IInv /\ FactorInv /\ StartSweep => FactorInv'
<1> SUFFICES ASSUME IInv, FactorInv, StartSweep PROVE FactorInv'
  OBVIOUS
<1>1. /\ phase' = "sweep" /\ Square(residual) > 0 /\ InputOK
      /\ cur' = StartCodes
      /\ heap' = [i \in {j \in Coordinates : o[j] > 0} |-> <<cur'[i] + 1, o[i]>>]
      /\ best' = [product |-> 0, normSqr |-> 1]
      /\ input' = input
  BY DEF IInv, StartSweep, StartCodes
<1>2. bits' = bits /\ Coordinates' = Coordinates /\ o' = o /\ StartCodes' = StartCodes
      /\ (Plain(o, bits) <=> Plain(o, bits)')
  BY <1>1, SameInput, SameSpace
<1>3. \A i \in Coordinates : cur'[i] = Scaled(Start(o, bits), o[i]) /\ cur'[i] \in Nat
  BY <1>1, StartFacts, LevelsFacts DEF StartCodes
<1>4. /\ DOMAIN heap' = {j \in Coordinates : o[j] > 0}
      /\ \A i \in DOMAIN heap' : heap'[i] = <<cur'[i] + 1, o[i]>>
  BY <1>1
<1>5. Untried'
  <2>1. \A i \in Coordinates : o[i] = Greatest(o) => o[i] > 0
    BY <1>1, GreatestFacts
  <2> QED
    BY <1>1, <1>2, <1>4, <2>1 DEF Untried
<1>6. ASSUME Plain(o, bits) PROVE PlainOK'
  <2>1. PICK g \in Coordinates : o[g] = Greatest(o) /\ \A i \in Coordinates : o[i] <= o[g]
    BY <1>1, GreatestFacts
  <2>2. cur'[g] < Levels(bits)
    BY <1>3, <1>6, <2>1 DEF Plain
  <2>3. ASSUME NEW i \in Coordinates
        PROVE  cur'[i] < Levels(bits) /\ (o[i] = 0 => cur'[i] = 0)
    <3>1. PICK L \in Nat, G \in Nat \ {0}, K \in 0..81, m \in Nat, s \in Nat, l \in Nat, h \in Nat :
            /\ l = Levels(bits) /\ L = l + 10 /\ G = Greatest(o) /\ K = Tight(bits) /\ m = o[i] /\ m <= G
            /\ s = cur'[i] /\ h = cur'[g] /\ h < l
            /\ 100 * s * G <= L * K * m /\ L * K * G < 100 * (h + 1) * G
      <4>1. /\ Levels(bits) \in Nat /\ Levels(bits) + 10 \in Nat /\ Greatest(o) \in Nat \ {0}
            /\ Tight(bits) \in 0..81 /\ o[i] \in Nat /\ o[i] <= Greatest(o)
        BY <1>1, LevelsFacts, GreatestFacts, StartFacts, InputFacts
      <4>2. /\ 100 * cur'[i] * Greatest(o) <= (Levels(bits) + 10) * Tight(bits) * o[i]
            /\ (Levels(bits) + 10) * Tight(bits) * Greatest(o) < 100 * (cur'[g] + 1) * Greatest(o)
        BY <1>1, <1>3, <2>1, StartFacts
      <4> QED
        BY <1>3, <2>2, <4>1, <4>2
    <3>2. s <= h
      <4>1. L * K * m <= L * K * G
        <5>1. PICK k \in Nat : G = m + k
          <6>1. G - m \in Nat /\ G = m + (G - m)
            BY <3>1
          <6> QED
            BY <6>1
        <5>2. L * K * (m + k) = L * K * m + L * K * k /\ L * K * k \in Nat /\ L * K * m \in Nat
          BY SMT
        <5> QED
          BY <5>1, <5>2
      <4>2. 100 * s * G = (100 * s) * G /\ 100 * (h + 1) * G = (100 * (h + 1)) * G
            /\ (100 * s) * G \in Int /\ (100 * (h + 1)) * G \in Int /\ L * K * m \in Int
            /\ L * K * G \in Int
        BY SMT
      <4>3. PICK x \in Int, y \in Int : x = 100 * s /\ y = 100 * (h + 1)
        OBVIOUS
      <4>4. x * G < y * G
        BY <3>1, <4>1, <4>2, <4>3
      <4>5. x < y
        BY <4>4, Scale
      <4> QED
        BY <4>3, <4>5
    <3>3. m = 0 => s = 0
      <4>1. L * K * 0 = 0 /\ (s > 0 => 100 * s * G > 0)
        BY <3>1, SMT
      <4> QED
        BY <3>1, <4>1
    <3> QED
      BY <3>1, <3>2, <3>3
  <2>4. Behind'
    <3>1. ASSUME NEW i \in DOMAIN heap', NEW j \in Coordinates, o[j] > 0
          PROVE  ~Less(heap'[i], <<cur'[j], o[j]>>)
      <4>1. i \in Coordinates /\ o[i] > 0 /\ heap'[i] = <<cur'[i] + 1, o[i]>>
        BY <1>4
      <4>2. Less(Start(o, bits), heap'[i])
        BY <1>1, <1>3, <4>1, AfterStart
      <4>3. ~Less(Start(o, bits), <<cur'[j], o[j]>>)
        BY <1>1, <1>3, <3>1, UptoStart
      <4>4. Fraction(Start(o, bits)) /\ Fraction(heap'[i]) /\ Fraction(<<cur'[j], o[j]>>)
        <5>1. o[i] \in Nat \ {0} /\ o[j] \in Nat \ {0} /\ cur'[i] + 1 \in Nat /\ cur'[j] \in Nat
          BY <1>1, <1>3, <3>1, <4>1, InputFacts
        <5> QED
          BY <1>1, <4>1, <5>1, StartFacts DEF Fraction
      <4>5. Less(<<cur'[j], o[j]>>, heap'[i])
        BY <4>2, <4>3, <4>4, LessFacts
      <4> QED
        BY <4>4, <4>5, LessFacts
    <3> QED
      BY <1>2, <1>4, <3>1 DEF Behind
  <2>5. Levels(bits) \in Nat
    BY <1>1, LevelsFacts
  <2> QED
    BY <1>2, <1>3, <1>5, <2>3, <2>4, <2>5 DEF PlainOK
<1> QED
  BY <1>1, <1>2, <1>3, <1>5, <1>6 DEF FactorInv

\* A turn that makes a change: the factor it is due at, and what stays.
LEMMA ChangeFacts ==
  ASSUME IInv, FactorInv, NEW i \in DOMAIN heap, Advance(i)
  PROVE  /\ InputOK /\ Square(residual) > 0 /\ i \in Coordinates /\ phase = "sweep"
         /\ cur \in [Coordinates -> Nat] /\ cur' \in [Coordinates -> Nat]
         /\ cur'[i] = cur[i] + 1 /\ \A j \in Coordinates \ {i} : cur'[j] = cur[j]
         /\ \A j \in Coordinates : cur[j] >= Scaled(Start(o, bits), o[j])
         /\ heap[i] = <<cur[i] + 1, o[i]>> /\ o[i] \in Nat \ {0}
         /\ Fraction(heap[i]) /\ Within(heap[i])
         /\ \A j \in DOMAIN heap : /\ j \in Coordinates /\ o[j] \in Nat \ {0}
                                   /\ heap[j] = <<cur[j] + 1, o[j]>> /\ Fraction(heap[j])
                                   /\ ~Less(heap[j], heap[i])
<1>1. /\ phase = "sweep" /\ First(i) /\ Less(heap[i], End(o, bits))
      /\ cur' = [cur EXCEPT ![i] = cur[i] + 1] /\ input' = input
      /\ \A j \in DOMAIN heap : ~Less(heap[j], heap[i])
  BY DEF Advance, First
<1>2. IInv'
  BY AdvanceInv
<1>3. /\ InputOK /\ Square(residual) > 0 /\ input.t = None /\ i \in Coordinates
      /\ cur \in [Coordinates -> 0..Levels(bits) + 10]
      /\ Levels(bits) \in Nat
  BY <1>1, TurnFacts, LevelsFacts DEF Extended
<1>4. cur' \in [Coordinates -> 0..Levels(bits) + 10]
  <2>1. phase' = "sweep" /\ Coordinates' = Coordinates /\ bits' = bits
    BY <1>1, SameInput DEF Advance
  <2> QED
    BY <1>2, <2>1 DEF IInv, SweepOK
<1>5. \A j \in Coordinates : cur[j] >= Scaled(Start(o, bits), o[j])
  BY <1>1 DEF FactorInv, StartCodes
<1>6. ASSUME NEW j \in DOMAIN heap
      PROVE  /\ j \in Coordinates /\ o[j] \in Nat \ {0}
             /\ heap[j] = <<cur[j] + 1, o[j]>> /\ Fraction(heap[j])
  <2>1. j \in Coordinates /\ o[j] \in Nat \ {0} /\ heap[j] = <<cur[j] + 1, o[j]>>
    BY <1>1, TurnFacts
  <2>2. cur[j] + 1 \in Nat
    BY <1>3, <2>1
  <2> QED
    BY <2>1, <2>2 DEF Fraction
<1>7. /\ cur \in [Coordinates -> Nat] /\ cur' \in [Coordinates -> Nat]
      /\ cur'[i] = cur[i] + 1 /\ \A j \in Coordinates \ {i} : cur'[j] = cur[j]
  BY <1>1, <1>3, <1>4
<1>8. Within(heap[i])
  <2>1. Less(Start(o, bits), heap[i])
    BY <1>3, <1>5, <1>6, <1>7, AfterStart
  <2>2. cur[i] + 1 \in 1..Levels(bits) + 10
    BY <1>3, <1>4, <1>7
  <2> QED
    BY <1>1, <1>3, <1>6, <2>1, <2>2 DEF Within
<1> QED
  BY <1>1, <1>3, <1>5, <1>6, <1>7, <1>8

\* Where codes change one at a time, a change leads to the codes at its factor.
LEMMA ChangedCodes ==
  ASSUME IInv, FactorInv, NEW i \in DOMAIN heap, Advance(i), Plain(o, bits)
  PROVE  heap[i] \in Breakpoints(o, bits) /\ cur' = CodeAt(o, bits, heap[i])
<1>1. /\ InputOK /\ Square(residual) > 0 /\ i \in Coordinates /\ phase = "sweep"
      /\ cur \in [Coordinates -> Nat] /\ cur' \in [Coordinates -> Nat]
      /\ cur'[i] = cur[i] + 1 /\ \A j \in Coordinates \ {i} : cur'[j] = cur[j]
      /\ \A j \in Coordinates : cur[j] >= Scaled(Start(o, bits), o[j])
      /\ heap[i] = <<cur[i] + 1, o[i]>> /\ o[i] \in Nat \ {0}
      /\ Fraction(heap[i]) /\ Within(heap[i])
      /\ \A j \in DOMAIN heap : /\ j \in Coordinates /\ o[j] \in Nat \ {0}
                                /\ heap[j] = <<cur[j] + 1, o[j]>> /\ Fraction(heap[j])
                                /\ ~Less(heap[j], heap[i])
  BY ChangeFacts
<1>2. /\ \A j \in Coordinates : /\ cur[j] <= Levels(bits)
                                /\ o[j] = 0 => cur[j] = 0
                                /\ j \in DOMAIN heap => cur[j] < Levels(bits)
      /\ Behind
  BY <1>1 DEF FactorInv, PlainOK
<1>3. o \in [Coordinates -> Nat] /\ DOMAIN o = Coordinates /\ Levels(bits) \in Nat
  BY <1>1, InputFacts, LevelsFacts
<1>4. cur[i] + 1 \in 1..Levels(bits) /\ cur[i] + 1 > Scaled(Start(o, bits), o[i])
      /\ Less(heap[i], End(o, bits))
  <2>1. Scaled(Start(o, bits), o[i]) \in Int
    BY <1>1, StartFacts
  <2> QED
    BY <1>1, <1>2, <1>3, <2>1 DEF Within
<1>5. heap[i] \in Breakpoints(o, bits)
  <2>1. PICK c \in 1..Levels(bits) : c = cur[i] + 1 /\ heap[i] = <<c, o[i]>>
    BY <1>1, <1>4
  <2>2. PICK t : t = <<c, o[i]>> /\ t[1] = c /\ t[2] = o[i]
    <3>1. <<c, o[i]>>[1] = c /\ <<c, o[i]>>[2] = o[i]
      OBVIOUS
    <3> QED
      BY <3>1, Zenon
  <2>3. Less(t, End(o, bits)) /\ t[1] > Scaled(Start(o, bits), o[i]) /\ o[i] > 0
    BY <1>1, <1>4, <2>1, <2>2
  <2>4. t \in Breakpoints(o, bits)
    BY <1>1, <1>3, <2>2, <2>3 DEF Breakpoints
  <2> QED
    BY <2>1, <2>2, <2>4
<1>6. ASSUME NEW j \in Coordinates
      PROVE  Smaller(Scaled(heap[i], o[j]), Levels(bits)) = cur'[j]
  <2>1. PICK a \in Nat, d \in Nat \ {0}, m \in Nat, c \in Nat, L \in Nat :
          /\ a = cur[i] + 1 /\ d = o[i] /\ m = o[j] /\ c = cur[j] /\ L = Levels(bits)
    BY <1>1, <1>3
  <2>0. PICK q : q = (a * m) \div d
    OBVIOUS
  <2>2. Scaled(heap[i], o[j]) = q
    BY <1>1, <2>0, <2>1 DEF Scaled
  <2>3. a * m \in Nat /\ c * d \in Nat /\ d * c = c * d
    BY SMT
  <2>4. q \in Nat /\ d * q <= a * m /\ a * m < d * q + d
    BY <2>0, <2>3, Quotient
  <2>5. CASE j = i
    <3>1. q = a
      <4>1. d * a <= a * d /\ a * d < d * a + d
        BY SMT
      <4>2. m = d
        BY <2>1, <2>5
      <4> QED
        BY <2>0, <2>1, <4>1, <4>2, QuotientIs
    <3> QED
      BY <1>1, <1>4, <2>1, <2>2, <2>5, <3>1 DEF Smaller
  <2>6. CASE j # i /\ m = 0
    <3>1. q = 0
      <4>1. a * 0 = 0 /\ d * 0 = 0
        BY SMT
      <4> QED
        BY <2>0, <2>1, <2>6, <4>1, QuotientIs
    <3>2. cur'[j] = 0 /\ 0 <= L
      BY <1>1, <1>2, <2>1, <2>6
    <3>3. (IF q < L THEN q ELSE L) = 0
      BY <3>1, <3>2
    <3> QED
      BY <2>1, <2>2, <3>2, <3>3 DEF Smaller
  <2>7. CASE j # i /\ m > 0
    <3>1. c * d <= a * m
      <4>1. ~Less(heap[i], <<cur[j], o[j]>>)
        BY <1>2, <2>1, <2>7 DEF Behind
      <4>2. ~(a * m < c * d)
        BY <1>1, <2>1, <4>1 DEF Less
      <4> QED
        BY <2>3, <4>2
    <3>2. c < L => a * m < (c + 1) * d
      <4> SUFFICES ASSUME c < L PROVE a * m < (c + 1) * d
        OBVIOUS
      <4>1. a * m \in Nat /\ (c + 1) * d \in Nat
        BY SMT
      <4>2. CASE j \in DOMAIN heap
        <5>1. ~Less(heap[j], heap[i]) /\ heap[j] = <<cur[j] + 1, o[j]>>
          BY <1>1, <4>2
        <5>2. ~((c + 1) * d < a * m)
          BY <1>1, <2>1, <5>1 DEF Less
        <5>3. a * m # (c + 1) * d
          <6>1. a \in 1..Levels(bits) /\ c + 1 \in 1..Levels(bits)
            BY <1>4, <2>1
          <6>2. a * o[j] = (c + 1) * o[i] =>
                  a <= Scaled(Start(o, bits), o[i]) \/ ~Less(<<a, o[i]>>, End(o, bits))
            BY <1>1, <1>3, <2>1, <2>7, <6>1 DEF Plain
          <6>3. ~(a <= Scaled(Start(o, bits), o[i])) /\ Less(<<a, o[i]>>, End(o, bits))
            <7>1. Scaled(Start(o, bits), o[i]) \in Int
              BY <1>1, StartFacts
            <7> QED
              BY <1>1, <1>4, <2>1, <7>1
          <6> QED
            BY <2>1, <6>2, <6>3
        <5> QED
          BY <4>1, <5>2, <5>3
      <4>3. CASE j \notin DOMAIN heap
        <5>1. ~Less(<<cur[j] + 1, o[j]>>, End(o, bits))
          BY <1>1, <2>1, <2>7, <4>3 DEF IInv, HeapExact
        <5>2. Fraction(<<cur[j] + 1, o[j]>>) /\ Fraction(End(o, bits))
          <6>1. cur[j] + 1 \in Nat /\ o[j] \in Nat \ {0}
            BY <2>1, <2>7
          <6> QED
            BY <1>1, <6>1, StartFacts DEF Fraction
        <5>3. Less(heap[i], <<cur[j] + 1, o[j]>>)
          <6>1. PICK s, t, u : s = heap[i] /\ t = End(o, bits) /\ u = <<cur[j] + 1, o[j]>>
            OBVIOUS
          <6>2. Less(s, t) /\ ~Less(u, t) /\ Fraction(s) /\ Fraction(t) /\ Fraction(u)
            BY <1>1, <1>4, <5>1, <5>2, <6>1
          <6>3. Less(s, u)
            BY <6>2, LessFacts
          <6> QED
            BY <6>1, <6>3
        <5> QED
          BY <1>1, <2>1, <5>3 DEF Less
      <4> QED
        BY <4>2, <4>3
    <3>3. CASE c < L
      <4>1. (c + 1) * d = d * c + d
        BY SMT
      <4>2. d * c <= a * m /\ a * m < d * c + d
        BY <2>3, <3>1, <3>2, <3>3, <4>1
      <4>3. q = c
        BY <2>0, <2>1, <2>3, <4>2, QuotientIs
      <4> QED
        BY <1>1, <2>1, <2>2, <2>7, <3>3, <4>3 DEF Smaller
    <3>4. CASE c = L
      <4>1. q >= c
        <5> SUFFICES ASSUME q < c PROVE FALSE
          BY <2>4
        <5>1. PICK k \in Nat : c = q + 1 + k
          <6>1. c - q - 1 \in Nat /\ c = q + 1 + (c - q - 1)
            BY <2>4
          <6> QED
            BY <6>1
        <5>2. (q + 1 + k) * d = d * q + d + k * d /\ k * d \in Nat /\ d * q \in Nat
          BY <2>4, SMT
        <5> QED
          BY <2>3, <2>4, <3>1, <5>1, <5>2
      <4>2. cur'[j] = L
        BY <1>1, <2>1, <2>7, <3>4
      <4>3. (IF q < L THEN q ELSE L) = L
        BY <2>4, <3>4, <4>1
      <4> QED
        BY <2>1, <2>2, <4>2, <4>3 DEF Smaller
    <3> QED
      BY <1>2, <2>1, <3>3, <3>4
  <2> QED
    BY <2>1, <2>5, <2>6, <2>7
<1>7. CodeAt(o, bits, heap[i]) = [j \in Coordinates |-> cur'[j]]
  BY <1>3, <1>6 DEF CodeAt
<1> QED
  BY <1>1, <1>5, <1>7

\* What is left in the heap comes after the change made.
LEMMA StillBehind ==
  ASSUME IInv, FactorInv, NEW i \in DOMAIN heap, Advance(i), Behind
  PROVE  Behind'
<1>1. /\ InputOK /\ Square(residual) > 0 /\ i \in Coordinates
      /\ cur \in [Coordinates -> Nat] /\ cur' \in [Coordinates -> Nat]
      /\ cur'[i] = cur[i] + 1 /\ \A j \in Coordinates \ {i} : cur'[j] = cur[j]
      /\ heap[i] = <<cur[i] + 1, o[i]>> /\ o[i] \in Nat \ {0} /\ Fraction(heap[i])
      /\ \A j \in DOMAIN heap : /\ j \in Coordinates /\ o[j] \in Nat \ {0}
                                /\ heap[j] = <<cur[j] + 1, o[j]>> /\ Fraction(heap[j])
                                /\ ~Less(heap[j], heap[i])
  BY ChangeFacts
<1>2. o \in [Coordinates -> Nat] /\ Coordinates' = Coordinates /\ o' = o
  BY <1>1, InputFacts, SameInput DEF Advance
<1>3. IInv' /\ phase' = "sweep"
  BY AdvanceInv DEF Advance
<1>4. ASSUME NEW k \in DOMAIN heap'
      PROVE  k \in DOMAIN heap /\ heap'[k] = <<cur'[k] + 1, o[k]>>
  <2>1. heap'[k] = <<cur'[k] + 1, o'[k]>>
    BY <1>3 DEF IInv, HeapExact
  <2>2. k \in DOMAIN heap
    <3>1. DOMAIN Pushed(i, <<cur[i] + 1 + 1, o[i]>>) = DOMAIN heap
      BY DEF Pushed
    <3>2. DOMAIN Remaining(i) = DOMAIN heap \ {i}
      BY DEF Remaining
    <3> QED
      BY <3>1, <3>2 DEF Advance
  <2> QED
    BY <1>2, <2>1, <2>2
<1>5. ASSUME NEW k \in DOMAIN heap', NEW j \in Coordinates, o[j] > 0
      PROVE  ~Less(heap'[k], <<cur'[j], o[j]>>)
  <2>1. k \in DOMAIN heap /\ k \in Coordinates /\ o[k] \in Nat \ {0}
        /\ heap'[k] = <<cur'[k] + 1, o[k]>> /\ o[j] \in Nat \ {0}
    BY <1>1, <1>2, <1>4, <1>5
  <2>2. Fraction(heap'[k]) /\ Fraction(<<cur'[j], o[j]>>)
    <3>1. cur'[k] + 1 \in Nat /\ cur'[j] \in Nat
      BY <1>1, <2>1
    <3> QED
      BY <2>1, <3>1 DEF Fraction
  <2>3. ~Less(heap[i], <<cur'[j], o[j]>>)
    <3>1. CASE j = i
      <4>1. PICK a \in Nat : a = (cur[i] + 1) * o[i]
        BY <1>1, SMT
      <4> QED
        BY <1>1, <3>1, <4>1 DEF Less
    <3>2. CASE j # i
      BY <1>1, <1>5, <3>2 DEF Behind
    <3> QED
      BY <3>1, <3>2
  <2>4. ~Less(heap'[k], heap[i])
    <3>1. CASE k # i
      <4>1. heap'[k] = heap[k]
        BY <1>1, <2>1, <3>1
      <4> QED
        BY <1>1, <2>1, <4>1
    <3>2. CASE k = i
      <4>1. heap'[k] = <<cur[i] + 2, o[i]>>
        BY <1>1, <2>1, <3>2
      <4>2. PICK c \in Nat, m \in Nat : c = cur[i] /\ m = o[i]
        BY <1>1
      <4>3. ~((c + 2) * m < (c + 1) * m)
        <5>1. (c + 2) * m = (c + 1) * m + m /\ (c + 1) * m \in Nat
          BY SMT
        <5> QED
          BY <5>1
      <4> QED
        BY <1>1, <4>1, <4>2, <4>3 DEF Less
    <3> QED
      BY <3>1, <3>2
  <2> QED
    <3>1. PICK s, t, u : s = <<cur'[j], o[j]>> /\ t = heap[i] /\ u = heap'[k]
      OBVIOUS
    <3>2. ~Less(t, s) /\ ~Less(u, t) /\ Fraction(s) /\ Fraction(t) /\ Fraction(u)
      BY <1>1, <2>2, <2>3, <2>4, <3>1
    <3>3. ~Less(u, s)
      BY <3>2, LessFacts
    <3> QED
      BY <3>1, <3>3
<1> QED
  BY <1>2, <1>5 DEF Behind

LEMMA AdvanceFactor ==
  ASSUME IInv, FactorInv, NEW i \in DOMAIN heap, Advance(i)
  PROVE  FactorInv'
<1>1. /\ InputOK /\ Square(residual) > 0 /\ i \in Coordinates /\ phase = "sweep"
      /\ cur \in [Coordinates -> Nat] /\ cur' \in [Coordinates -> Nat]
      /\ cur'[i] = cur[i] + 1 /\ \A j \in Coordinates \ {i} : cur'[j] = cur[j]
      /\ \A j \in Coordinates : cur[j] >= Scaled(Start(o, bits), o[j])
      /\ heap[i] = <<cur[i] + 1, o[i]>> /\ o[i] \in Nat \ {0}
      /\ Fraction(heap[i]) /\ Within(heap[i])
  BY ChangeFacts
<1>2. /\ phase' = "sweep" /\ input' = input /\ IInv'
  BY AdvanceInv, <1>1 DEF Advance
<1>3. /\ bits' = bits /\ Coordinates' = Coordinates /\ o' = o /\ StartCodes' = StartCodes
      /\ Breakpoints(o, bits)' = Breakpoints(o, bits) /\ (Plain(o, bits) <=> Plain(o, bits)')
      /\ \A t : (Within(t) <=> Within(t)') /\ ScoreAt(t)' = ScoreAt(t)
  BY <1>2, SameInput, SameSpace
<1>4. PICK score : score = [product |-> product', normSqr |-> normSqr']
  OBVIOUS
<1>5. \/ /\ Better(score, best) \/ ~Better(best, score)
         /\ best' = score /\ factor' = heap[i]
      \/ ~Better(score, best) /\ best' = best /\ factor' = factor
  BY <1>4 DEF Advance, Improves, Ties
<1>6. /\ score = Score(cur', o)
      /\ score.product \in Nat \ {0} /\ score.normSqr \in Nat \ {0}
  <2>1. product' = Product(cur', o) /\ normSqr' = NormSqr(cur')
    BY <1>2, <1>3 DEF IInv, SweepOK
  <2>2. /\ Product(cur', o) \in Nat /\ NormSqr(cur') \in Nat
        /\ Product(cur', o) > 0 /\ NormSqr(cur') > 0
    BY <1>1, ScoreFacts
  <2> QED
    BY <1>4, <2>1, <2>2 DEF Score
<1>7. Untried => Better(score, best)
  <2>1. Untried => best.product = 0 /\ best.normSqr = 1
    BY DEF Untried
  <2>2. \A p \in Nat \ {0}, n \in Nat : p * p * 1 > 0 * 0 * n
    BY SMT
  <2> QED
    BY <1>6, <2>1, <2>2 DEF Better
<1>8. Untried => best' = score /\ factor' = heap[i]
  BY <1>5, <1>7
<1>9. Within(factor')
  BY <1>1, <1>5, <1>8 DEF FactorInv
<1>10. \A j \in Coordinates : cur'[j] >= StartCodes[j]
  <2>1. ASSUME NEW j \in Coordinates PROVE cur'[j] >= StartCodes[j]
    <3>1. StartCodes[j] \in Int /\ cur[j] >= StartCodes[j] /\ cur[j] \in Nat
      BY <1>1, StartFacts DEF StartCodes
    <3> QED
      BY <1>1, <3>1
  <2> QED
    BY <2>1
<1>11. ASSUME Plain(o, bits) PROVE PlainOK'
  <2>1. heap[i] \in Breakpoints(o, bits) /\ cur' = CodeAt(o, bits, heap[i])
    BY <1>11, ChangedCodes
  <2>2. PlainOK
    BY <1>1, <1>11 DEF FactorInv
  <2>3. ASSUME NEW j \in Coordinates
        PROVE  /\ cur'[j] <= Levels(bits)
               /\ o[j] = 0 => cur'[j] = 0
               /\ j \in DOMAIN heap' => cur'[j] < Levels(bits)
    <3>1. Levels(bits) \in Nat
      BY <1>1, LevelsFacts
    <3>2. CASE j = i
      <4>1. cur[i] < Levels(bits)
        BY <1>1, <2>2 DEF PlainOK
      <4>2. i \in DOMAIN heap' => cur[i] + 1 < Levels(bits)
        <5>1. i \notin DOMAIN Remaining(i)
          BY DEF Remaining
        <5> QED
          BY <5>1 DEF Advance, Open
      <4> QED
        BY <1>1, <3>1, <3>2, <4>1, <4>2
    <3>3. CASE j # i
      <4>1. j \in DOMAIN heap' => j \in DOMAIN heap
        <5>1. DOMAIN Remaining(i) \subseteq DOMAIN heap
          BY DEF Remaining
        <5>2. DOMAIN Pushed(i, <<cur[i] + 1 + 1, o[i]>>) = DOMAIN heap
          BY DEF Pushed
        <5> QED
          BY <5>1, <5>2 DEF Advance
      <4> QED
        BY <1>1, <2>2, <3>3, <4>1 DEF PlainOK
    <3> QED
      BY <3>2, <3>3
  <2>4. Behind'
    BY <2>2, StillBehind DEF PlainOK
  <2>5. score = ScoreAt(heap[i])
    BY <1>6, <2>1 DEF ScoreAt
  <2>6. ASSUME NEW t \in Tried' PROVE t = heap[i] \/ (t \in Tried /\ ~Untried)
    <3>1. t \in Breakpoints(o, bits)
      BY <1>3 DEF Tried
    <3>2. PICK j \in Coordinates : o[j] = t[2] /\ t[1] <= cur'[j]
      BY <1>3 DEF Tried
    <3>3. t = <<t[1], t[2]>> /\ t[1] \in Nat
          /\ \E n \in Coordinates : o[n] = t[2] /\ t[1] > Scaled(Start(o, bits), o[n])
      BY <1>1, <3>1, BreakpointFacts DEF Fraction
    <3>4. t \in Tried => ~Untried
      <4> SUFFICES ASSUME t \in Tried, Untried PROVE FALSE
        OBVIOUS
      <4>1. PICK n \in Coordinates : o[n] = t[2] /\ t[1] <= cur[n]
        BY DEF Tried
      <4>2. cur[n] = Scaled(Start(o, bits), t[2])
        BY <4>1 DEF Untried, StartCodes
      <4> QED
        BY <1>1, <3>3, <4>1, <4>2
    <3>5. CASE t \in Tried
      BY <3>4, <3>5
    <3>6. CASE t \notin Tried
      <4>1. ~(t[1] <= cur[j])
        BY <3>1, <3>2, <3>6 DEF Tried
      <4>2. j = i /\ t[1] = cur[i] + 1
        BY <1>1, <3>2, <3>3, <4>1
      <4> QED
        BY <1>1, <3>2, <3>3, <4>2
    <3> QED
      BY <3>5, <3>6
  <2>7. ASSUME NEW t \in Breakpoints(o, bits)
        PROVE  ScoreAt(t).product \in Nat /\ ScoreAt(t).normSqr \in Nat \ {0}
    BY <1>1, BreakpointFacts, ScoreAtFacts
  <2>8. BestOfTried'
    <3>1. CASE best' = score /\ factor' = heap[i] /\ (Better(score, best) \/ ~Better(best, score))
      <4>1. ASSUME NEW t \in Tried' PROVE ~Better(ScoreAt(t), score)
        <5>1. CASE t = heap[i]
          <6>1. \A x \in Nat : ~(x > x)
            OBVIOUS
          <6>2. PICK p \in Nat, n \in Nat : p = score.product /\ n = score.normSqr
            BY <1>6
          <6>3. p * p * n \in Nat
            BY SMT
          <6>4. ~Better(score, score)
            BY <6>1, <6>2, <6>3 DEF Better
          <6> QED
            BY <2>5, <5>1, <6>4
        <5>2. CASE t # heap[i]
          <6>1. t \in Tried /\ BestOfTried
            BY <2>2, <2>6, <5>2 DEF PlainOK
          <6>2. t \in Breakpoints(o, bits) /\ factor \in Breakpoints(o, bits)
                /\ best = ScoreAt(factor) /\ ~Better(ScoreAt(t), best)
            BY <6>1 DEF Tried, BestOfTried
          <6>3. ~Better(best, score)
            <7> SUFFICES ASSUME Better(score, best) PROVE ~Better(best, score)
              BY <3>1
            <7>1. PICK p \in Nat, n \in Nat, q \in Nat, m \in Nat :
                    p = score.product /\ n = score.normSqr /\ q = best.product /\ m = best.normSqr
              BY <1>6, <2>7, <6>2
            <7>2. p * p * m \in Nat /\ q * q * n \in Nat
              BY SMT
            <7> QED
              BY <7>1, <7>2 DEF Better
          <6>4. PICK x, y, z : x = ScoreAt(t) /\ y = best /\ z = score
            OBVIOUS
          <6>5. \A w \in {x, y, z} : w.product \in Nat /\ w.normSqr \in Nat \ {0}
            BY <1>6, <2>7, <6>2, <6>4
          <6>6. ~Better(x, z)
            BY <6>2, <6>3, <6>4, <6>5, BetterFacts
          <6> QED
            BY <6>4, <6>6
        <5> QED
          BY <5>1, <5>2
      <4> QED
        BY <1>3, <2>1, <2>5, <3>1, <4>1 DEF BestOfTried
    <3>2. CASE ~Better(score, best) /\ best' = best /\ factor' = factor
      <4>1. BestOfTried
        BY <1>7, <2>2, <3>2 DEF PlainOK
      <4>2. ASSUME NEW t \in Tried' PROVE ~Better(ScoreAt(t), best)
        BY <2>5, <2>6, <3>2, <4>1, <4>2 DEF BestOfTried
      <4> QED
        BY <1>3, <3>2, <4>1, <4>2 DEF BestOfTried
    <3> QED
      BY <1>5, <3>1, <3>2
  <2> QED
    BY <1>3, <2>3, <2>4, <2>8 DEF PlainOK
<1>12. Within(factor)'
  BY <1>3, <1>9 DEF Within
<1> QED
  BY <1>2, <1>3, <1>10, <1>11, <1>12 DEF FactorInv

LEMMA SkipFactor ==
  ASSUME IInv, FactorInv, NEW i \in DOMAIN heap, Skip(i)
  PROVE  FactorInv'
<1>1. /\ phase = "sweep" /\ ~Less(heap[i], End(o, bits))
      /\ heap' = Remaining(i)
      /\ UNCHANGED <<input, phase, cur, best, factor>>
  BY DEF Skip
<1>2. /\ bits' = bits /\ Coordinates' = Coordinates /\ o' = o /\ StartCodes' = StartCodes
      /\ Breakpoints(o, bits)' = Breakpoints(o, bits) /\ (Plain(o, bits) <=> Plain(o, bits)')
      /\ \A t : (Within(t) <=> Within(t)') /\ ScoreAt(t)' = ScoreAt(t)
  BY <1>1, SameInput, SameSpace
<1>3. DOMAIN heap' = DOMAIN heap \ {i} /\ \A j \in DOMAIN heap' : heap'[j] = heap[j]
  BY <1>1 DEF Remaining
<1>4. InputOK /\ Square(residual) > 0 /\ i \in Coordinates /\ heap[i] = <<cur[i] + 1, o[i]>>
  BY <1>1, TurnFacts DEF Extended
<1>5. Untried => Untried'
  <2> SUFFICES ASSUME Untried, NEW j \in Coordinates, o[j] = Greatest(o)
               PROVE  j \in DOMAIN heap'
    BY <1>1, <1>2 DEF Untried
  <2>1. j \in DOMAIN heap
    BY DEF Untried
  <2>2. j # i
    <3>1. cur[j] = Scaled(Start(o, bits), o[j])
      BY DEF Untried, StartCodes
    <3>2. Less(<<cur[j] + 1, o[j]>>, End(o, bits))
      BY <1>4, <3>1, GreatestDue
    <3> QED
      BY <1>1, <1>4, <3>2
  <2> QED
    BY <1>3, <2>1, <2>2
<1>6. Tried' = Tried
  BY <1>1, <1>2 DEF Tried
<1>7. BestOfTried => BestOfTried'
  BY <1>1, <1>2, <1>6 DEF BestOfTried
<1>8. Behind => Behind'
  BY <1>1, <1>2, <1>3 DEF Behind
<1>9. PlainOK => PlainOK'
  BY <1>1, <1>2, <1>3, <1>5, <1>7, <1>8 DEF PlainOK
<1>10. Within(factor) => Within(factor)'
  BY <1>1, <1>2 DEF Within
<1> QED
  BY <1>1, <1>2, <1>5, <1>9, <1>10 DEF FactorInv

LEMMA FactorStep == IInv /\ FactorInv /\ [Next \/ Returned]_vars => FactorInv'
<1> SUFFICES ASSUME IInv, FactorInv, [Next \/ Returned]_vars PROVE FactorInv'
  OBVIOUS
<1>1. CASE StartSweep
  BY <1>1, StartSweepFactor
<1>2. ASSUME NEW i \in DOMAIN heap, Advance(i) PROVE FactorInv'
  BY <1>2, AdvanceFactor
<1>3. ASSUME NEW i \in DOMAIN heap, Skip(i) PROVE FactorInv'
  BY <1>3, SkipFactor
<1>4. CASE NoExtension \/ TakeConstant \/ EndSweep \/ Encode
  <2>1. phase' \in {"encoded", "code"}
    BY <1>4 DEF NoExtension, TakeConstant, EndSweep, Encode
  <2> QED
    BY <2>1 DEF FactorInv
<1>5. CASE Returned \/ UNCHANGED vars
  <2>1. UNCHANGED <<input, phase, cur, heap, best, factor>>
    BY <1>5 DEF Returned, vars
  <2>2. /\ bits' = bits /\ Coordinates' = Coordinates /\ o' = o /\ StartCodes' = StartCodes
        /\ Breakpoints(o, bits)' = Breakpoints(o, bits) /\ (Plain(o, bits) <=> Plain(o, bits)')
        /\ \A t : (Within(t) <=> Within(t)') /\ ScoreAt(t)' = ScoreAt(t)
    BY <2>1, SameInput, SameSpace
  <2>3. (Untried <=> Untried') /\ (Within(factor) <=> Within(factor)') /\ (Behind <=> Behind')
    BY <2>1, <2>2 DEF Untried, Within, Behind
  <2>4. Tried' = Tried
    BY <2>1, <2>2 DEF Tried
  <2>5. BestOfTried <=> BestOfTried'
    BY <2>1, <2>2, <2>4 DEF BestOfTried
  <2>6. PlainOK <=> PlainOK'
    BY <2>1, <2>2, <2>3, <2>5 DEF PlainOK
  <2> QED
    BY <2>1, <2>2, <2>3, <2>6 DEF FactorInv
<1> QED
  BY <1>1, <1>2, <1>3, <1>4, <1>5 DEF Next

\* The sweep does not end before it tried every change of a code.
LEMMA AllTried ==
  ASSUME IInv, FactorInv, EndSweep
  PROVE  /\ Within(factor)
         /\ Plain(o, bits) =>
              /\ factor \in Breakpoints(o, bits)
              /\ \A t \in Breakpoints(o, bits) : ~Better(ScoreAt(t), ScoreAt(factor))
<1>1. phase = "sweep" /\ DOMAIN heap = {}
  BY DEF EndSweep
<1>2. /\ InputOK /\ Square(residual) > 0 /\ cur \in [Coordinates -> 0..Levels(bits) + 10]
      /\ Levels(bits) \in Nat
  BY <1>1, LevelsFacts DEF IInv, FactorOK, SweepOK, Extended
<1>3. ~Untried
  <2>1. PICK g \in Coordinates : o[g] = Greatest(o)
    BY <1>2, GreatestFacts
  <2> QED
    BY <1>1, <2>1 DEF Untried
<1>4. ASSUME NEW t \in Breakpoints(o, bits) PROVE t \in Tried
  <2>1. /\ Fraction(t) /\ t[1] \in 1..Levels(bits) /\ Less(t, End(o, bits))
    BY <1>2, BreakpointFacts
  <2>2. PICK i \in Coordinates : o[i] = t[2] /\ o[i] > 0
    BY <1>2, BreakpointFacts
  <2>3. t[1] <= cur[i]
    <3> SUFFICES ASSUME ~(t[1] <= cur[i]) PROVE FALSE
      OBVIOUS
    <3>1. PICK L \in Nat, G \in Nat \ {0}, a \in Nat, m \in Nat \ {0}, c \in Nat :
            /\ L = Levels(bits) + 10 /\ G = Greatest(o) /\ a = t[1] /\ m = o[i] /\ c = cur[i]
            /\ a >= c + 1
      <4>1. /\ Levels(bits) + 10 \in Nat /\ Greatest(o) \in Nat \ {0} /\ t[1] \in Nat
            /\ o[i] \in Nat \ {0} /\ cur[i] \in Nat /\ t[1] >= cur[i] + 1
        BY <1>2, <2>1, <2>2, GreatestFacts, InputFacts
      <4> QED
        BY <4>1
    <3>2. a * G < L * m
      BY <2>1, <2>2, <3>1 DEF Less, End
    <3>3. (c + 1) * G <= a * G
      <4>1. PICK n \in Nat : n = c + 1 /\ n <= a
        BY <3>1
      <4>2. n * G <= a * G
        BY <4>1, Scale
      <4> QED
        BY <4>1, <4>2
    <3>4. (c + 1) * G < L * m
      <4>1. (c + 1) * G \in Int /\ a * G \in Int /\ L * m \in Int
        BY SMT
      <4> QED
        BY <3>2, <3>3, <4>1
    <3>5. Less(<<cur[i] + 1, o[i]>>, End(o, bits))
      BY <3>1, <3>4 DEF Less, End
    <3>6. cur[i] < Levels(bits)
      BY <1>2, <2>1, <3>1
    <3> QED
      BY <1>1, <2>2, <3>5, <3>6 DEF IInv, HeapExact
  <2> QED
    BY <2>2, <2>3 DEF Tried
<1>5. Within(factor)
  BY <1>1, <1>3 DEF FactorInv
<1>6. ASSUME Plain(o, bits)
      PROVE  /\ factor \in Breakpoints(o, bits)
             /\ \A t \in Breakpoints(o, bits) : ~Better(ScoreAt(t), ScoreAt(factor))
  <2>1. BestOfTried
    BY <1>1, <1>3, <1>6 DEF FactorInv, PlainOK
  <2> QED
    BY <1>4, <2>1 DEF BestOfTried
<1> QED
  BY <1>5, <1>6

\* The abstract specification's codes and scores are the same.
LEMMA AbstractSpace ==
  /\ \A b : Abstract!Levels(b) = Levels(b)
  /\ \A v : Abstract!Greatest(v) = Greatest(v)
  /\ \A s, t : Abstract!Less(s, t) <=> Less(s, t)
  /\ \A s, t : Abstract!Better(s, t) <=> Better(s, t)
  /\ \A v, b : Abstract!Start(v, b) = Start(v, b) /\ Abstract!End(v, b) = End(v, b)
  /\ \A t, m : Abstract!Scaled(t, m) = Scaled(t, m)
  /\ \A v, b : Abstract!Breakpoints(v, b) = Breakpoints(v, b)
  /\ \A v, b : Abstract!Plain(v, b) <=> Plain(v, b)
  /\ \A v, b, t : Abstract!Score(Abstract!CodeAt(v, b, t), v) = Score(CodeAt(v, b, t), v)
<1>1. \A b : Abstract!Levels(b) = Levels(b)
  BY DEF Abstract!Levels, Levels
<1>2. \A v : Abstract!Greatest(v) = Greatest(v)
  BY Zenon DEF Abstract!Greatest, Greatest, Abstract!Max, Max
<1>3. \A s, t : Abstract!Less(s, t) <=> Less(s, t)
  BY DEF Abstract!Less, Less
<1>4. \A s, t : Abstract!Better(s, t) <=> Better(s, t)
  BY DEF Abstract!Better, Better
<1>5. \A m, n : Abstract!Smaller(m, n) = Smaller(m, n)
  BY DEF Abstract!Smaller, Smaller
<1>6. \A b : Abstract!Tight(b) = Tight(b)
  BY <1>5, Zenon DEF Abstract!Tight, Tight
<1>7. \A v, b : Abstract!Start(v, b) = Start(v, b) /\ Abstract!End(v, b) = End(v, b)
  BY <1>1, <1>2, <1>6, Zenon DEF Abstract!Start, Start, Abstract!End, End
<1>8. \A t, m : Abstract!Scaled(t, m) = Scaled(t, m)
  BY Zenon DEF Abstract!Scaled, Scaled
<1>9. \A v, b : Abstract!Breakpoints(v, b) = Breakpoints(v, b)
  BY <1>1, <1>3, <1>7, <1>8 DEF Abstract!Breakpoints, Breakpoints
<1>10. \A v, b : Abstract!Plain(v, b) <=> Plain(v, b)
  BY <1>1, <1>2, <1>3, <1>7, <1>8 DEF Abstract!Plain, Plain
<1>11. \A v, b, t : Abstract!CodeAt(v, b, t) = CodeAt(v, b, t)
  BY <1>1, <1>5, <1>8 DEF Abstract!CodeAt, CodeAt
<1>12. ASSUME NEW c, NEW v PROVE Abstract!Score(c, v) = Score(c, v)
  <2>1. Abstract!Product(c, v) = Product(c, v)
    BY Zenon DEF Abstract!Product, Product, Abstract!MapThenSumSet, MapThenSumSet,
                 Abstract!MapThenFoldSet, MapThenFoldSet
  <2>2. Abstract!NormSqr(c) = NormSqr(c)
    BY Zenon DEF Abstract!NormSqr, NormSqr, Abstract!MapThenSumSet, MapThenSumSet,
                 Abstract!MapThenFoldSet, MapThenFoldSet
  <2> QED
    BY <2>1, <2>2 DEF Abstract!Score, Score
<1> QED
  BY <1>1, <1>2, <1>3, <1>4, <1>7, <1>8, <1>9, <1>10, <1>11, <1>12

\* What the abstract specification sees of the factor.
Chosen == IF input.t = None /\ phase \in {"code", "encoded"} THEN factor ELSE None

LEMMA ChosenStep ==
  ASSUME IInv, FactorInv, [Next \/ Returned]_vars
  PROVE  [Abstract!Choose]_<<o, bits, Chosen>>
<1>1. CASE EndSweep
  <2>1. /\ phase = "sweep" /\ phase' = "code" /\ UNCHANGED <<input, factor>>
        /\ InputOK /\ Extended /\ input.t = None
    BY <1>1, TurnFacts DEF EndSweep, IInv, FactorOK, SweepOK
  <2>2. o' = o /\ bits' = bits /\ Chosen = None /\ Chosen' = factor
    BY <2>1, SameInput DEF Chosen
  <2>3. bits > 0 /\ Greatest(o) > 0 /\ DOMAIN o = Coordinates
    BY <2>1, GreatestFacts, InputFacts DEF Extended
  <2>4. /\ Within(factor)
        /\ Plain(o, bits) =>
             /\ factor \in Breakpoints(o, bits)
             /\ \A t \in Breakpoints(o, bits) : ~Better(ScoreAt(t), ScoreAt(factor))
    BY <1>1, AllTried
  <2>5. CASE Plain(o, bits)
    <3>1. factor \in Abstract!Breakpoints(o, bits) /\ Abstract!Optimal(factor)
      BY <2>4, <2>5, AbstractSpace DEF Abstract!Optimal, ScoreAt
    <3> QED
      BY <2>2, <2>3, <2>5, <3>1, AbstractSpace DEF Abstract!Choose, Chosen
  <2>6. CASE ~Plain(o, bits)
    <3>1. PICK m \in {o[i] : i \in DOMAIN o} \ {0}, c \in 1..Levels(bits) + 10 :
            /\ factor = <<c, m>>
            /\ Less(Start(o, bits), <<c, m>>) /\ Less(<<c, m>>, End(o, bits))
      BY <2>3, <2>4 DEF Within
    <3> QED
      BY <2>2, <2>3, <2>6, <3>1, AbstractSpace DEF Abstract!Choose, Chosen
  <2> QED
    BY <2>5, <2>6
<1>2. CASE ~EndSweep
  <2>1. input' = input
    BY DEF Next, NoExtension, TakeConstant, StartSweep, Advance, Skip, EndSweep, Encode, Returned, vars
  <2>2. Chosen' = Chosen
    <3>1. CASE NoExtension
      <4>1. phase = "begin" /\ factor' = factor /\ factor = None
        BY <3>1 DEF NoExtension, FactorInv
      <4> QED
        BY <2>1, <4>1 DEF Chosen
    <3>2. CASE TakeConstant
      <4>1. input.t # None
        BY <3>2 DEF TakeConstant
      <4> QED
        BY <2>1, <4>1 DEF Chosen
    <3>3. CASE StartSweep
      BY <3>3 DEF StartSweep, Chosen
    <3>4. CASE \E i \in DOMAIN heap : Advance(i) \/ Skip(i)
      <4>1. phase = "sweep" /\ phase' = "sweep"
        BY <3>4 DEF Advance, Skip
      <4> QED
        BY <4>1 DEF Chosen
    <3>5. CASE Encode
      BY <2>1, <3>5 DEF Encode, Chosen
    <3>6. CASE Returned \/ UNCHANGED vars
      BY <3>6 DEF Returned, vars, Chosen
    <3> QED
      BY <1>2, <3>1, <3>2, <3>3, <3>4, <3>5, <3>6 DEF Next
  <2> QED
    BY <2>1, <2>2, SameInput
<1> QED
  BY <1>1, <1>2

\* best_rescale_factor keeps its promise: it implements BestFactor.
THEOREM FactorIsBest == Spec => Implements
<1>1. Init => Abstract!Init /\ FactorInv
  <2> SUFFICES ASSUME Init PROVE Abstract!Init /\ FactorInv
    OBVIOUS
  <2>1. phase = "begin" /\ factor = None /\ residual \in Residuals /\ bits \in Widths
    BY DEF Init, residual, bits
  <2>2. o \in {[i \in DOMAIN r |-> Magnitude(r[i])] : r \in Residuals}
    BY <2>1 DEF o, Coordinates
  <2> QED
    BY <2>1, <2>2 DEF Abstract!Init, FactorInv
<1>2. Abstract!vars = <<o, bits, Chosen>>
  BY DEF Abstract!vars, Chosen
<1>3. IInv /\ FactorInv /\ [Next \/ Returned]_vars => [Abstract!Choose]_(Abstract!vars)
  <2> SUFFICES ASSUME IInv, FactorInv, [Next \/ Returned]_vars
               PROVE  [Abstract!Choose]_(Abstract!vars)
    OBVIOUS
  <2>1. [Abstract!Choose]_<<o, bits, Chosen>>
    BY ChosenStep
  <2>2. Abstract!vars' = <<o, bits, Chosen>>'
    BY DEF Abstract!vars, Chosen
  <2> QED
    BY <1>2, <2>1, <2>2
<1> QED
  BY <1>1, <1>3, FactorStep, Invariance, PTL DEF Spec, Implements, Abstract!Spec

-----------------------------------------------------------------------------
(* Parts of sums. *)

HIDE QuantizerAssumption

\* A sum may start with any term.
LEMMA SumRemove ==
  ASSUME NEW S, IsFiniteSet(S), NEW f, \A x \in S : f[x] \in Int, NEW x \in S
  PROVE  SumOver(S, f) = f[x] + SumOver(S \ {x}, f)
<1> DEFINE Good(s) == \A y \in s : SumOver(s, f) = f[y] + SumOver(s \ {y}, f)
           N == {n \in Nat : \A s \in SUBSET S : Cardinality(s) = n => Good(s)}
<1>1. \A s \in SUBSET S : IsFiniteSet(s) /\ Cardinality(s) \in Nat /\ SumOver(s, f) \in Int
  BY FS_Subset, FS_CardinalityType, SumInt
<1>2. 0 \in N
  <2>1. \A s \in SUBSET S : Cardinality(s) = 0 => s = {}
    BY <1>1, FS_EmptySet
  <2> QED
    BY <2>1
<1>3. ASSUME NEW n \in N PROVE n + 1 \in N
  <2> SUFFICES ASSUME NEW s \in SUBSET S, Cardinality(s) = n + 1, NEW y \in s
               PROVE  SumOver(s, f) = f[y] + SumOver(s \ {y}, f)
    OBVIOUS
  <2>1. PICK z : z = Some(s)
    OBVIOUS
  <2>2. z \in s /\ SumOver(s, f) = f[z] + SumOver(s \ {z}, f)
    BY <1>1, <2>1, SumStep DEF Some
  <2>3. CASE y = z
    BY <2>2, <2>3
  <2>4. CASE y # z
    <3>1. \A u \in s : s \ {u} \in SUBSET S /\ Cardinality(s \ {u}) = n
      <4>1. n \in Nat /\ IsFiniteSet(s) /\ Cardinality(s) = n + 1
        BY <1>1
      <4>2. \A u \in s : Cardinality(s \ {u}) = Cardinality(s) - 1
        BY <4>1, FS_RemoveElement
      <4> QED
        BY <4>1, <4>2
    <3>2. SumOver(s \ {z}, f) = f[y] + SumOver((s \ {z}) \ {y}, f)
      BY <2>2, <2>4, <3>1
    <3>3. SumOver(s \ {y}, f) = f[z] + SumOver((s \ {y}) \ {z}, f)
      BY <2>2, <2>4, <3>1
    <3>4. (s \ {z}) \ {y} = (s \ {y}) \ {z}
      OBVIOUS
    <3>5. PICK t : t = (s \ {y}) \ {z}
      OBVIOUS
    <3>6. t \in SUBSET S /\ f[y] \in Int /\ f[z] \in Int
      BY <2>2, <3>5
    <3>7. SumOver(t, f) \in Int
      BY <1>1, <3>6
    <3>8. SumOver(s \ {z}, f) = f[y] + SumOver(t, f) /\ SumOver(s \ {y}, f) = f[z] + SumOver(t, f)
      BY <3>2, <3>3, <3>4, <3>5
    <3> QED
      BY <2>2, <3>6, <3>7, <3>8
  <2> QED
    BY <2>3, <2>4
<1>4. N = Nat
  <2> HIDE DEF N
  <2>1. N \subseteq Nat
    BY DEF N
  <2> QED
    BY <1>2, <1>3, <2>1, SetInduction
<1> QED
  BY <1>1, <1>4

\* The sum over two sets that have nothing in common.
LEMMA SumUnion ==
  ASSUME NEW A, IsFiniteSet(A), NEW B, IsFiniteSet(B), A \cap B = {},
         NEW f, \A x \in A \cup B : f[x] \in Int
  PROVE  SumOver(A \cup B, f) = SumOver(A, f) + SumOver(B, f)
<1> DEFINE T == {s \in SUBSET A : /\ SumOver(s, f) \in Int
                                  /\ SumOver(s \cup B, f) = SumOver(s, f) + SumOver(B, f)}
<1>1. SumOver(B, f) \in Int
  BY SumInt
<1>2. {} \in T
  <2>1. {} \cup B = B
    OBVIOUS
  <2> QED
    BY <1>1, <2>1, SumEmpty
<1>3. ASSUME NEW s \in SUBSET A, s # {}, s \ {Some(s)} \in T
      PROVE  s \in T
  <2>1. PICK x, r : x = Some(s) /\ r = s \ {Some(s)}
    OBVIOUS
  <2>2. x \in s /\ x \in A /\ r \in T /\ SumOver(s, f) = f[x] + SumOver(r, f)
    BY <1>3, <2>1, PeelFacts
  <2>3. PICK u : u = s \cup B
    OBVIOUS
  <2>4. /\ IsFiniteSet(u) /\ x \in u /\ u \ {x} = r \cup B
        /\ \A y \in u : f[y] \in Int
    <3>1. IsFiniteSet(s)
      BY FS_Subset
    <3>2. IsFiniteSet(u)
      BY <2>3, <3>1, FS_Union
    <3> QED
      BY <2>1, <2>2, <2>3, <3>2
  <2>5. SumOver(u, f) = f[x] + SumOver(u \ {x}, f)
    BY <2>4, SumRemove
  <2>6. SumOver(u, f) = f[x] + (SumOver(r, f) + SumOver(B, f))
    BY <2>2, <2>4, <2>5
  <2> QED
    BY <1>1, <2>2, <2>3, <2>6
<1>4. A \in T
  <2> HIDE DEF T
  <2> QED
    BY <1>2, <1>3, PeelInduction
<1> QED
  BY <1>4

\* Terms of at most m add up to no more than that for each.
LEMMA SumBound ==
  ASSUME NEW S, IsFiniteSet(S), NEW f, NEW m \in Nat,
         \A x \in S : f[x] \in Int /\ -m <= f[x] /\ f[x] <= m
  PROVE  /\ SumOver(S, f) \in Int
         /\ -(Cardinality(S) * m) <= SumOver(S, f) /\ SumOver(S, f) <= Cardinality(S) * m
<1> DEFINE T == {s \in SUBSET S :
                   /\ SumOver(s, f) \in Int
                   /\ -(Cardinality(s) * m) <= SumOver(s, f)
                   /\ SumOver(s, f) <= Cardinality(s) * m}
<1>1. {} \in T
  BY SumEmpty, FS_EmptySet
<1>2. ASSUME NEW s \in SUBSET S, s # {}, s \ {Some(s)} \in T
      PROVE  s \in T
  <2>1. PICK x, r : x = Some(s) /\ r = s \ {Some(s)}
    OBVIOUS
  <2>2. /\ IsFiniteSet(s) /\ x \in s /\ x \in S /\ r \in T
        /\ SumOver(s, f) = f[x] + SumOver(r, f)
    BY <1>2, <2>1, PeelFacts
  <2>3. Cardinality(s) \in Nat /\ Cardinality(r) = Cardinality(s) - 1
    BY <2>1, <2>2, FS_CardinalityType, FS_RemoveElement
  <2>4. PICK p, q, u, v : p = Cardinality(s) /\ q = Cardinality(r) /\ u = f[x] /\ v = SumOver(r, f)
    OBVIOUS
  <2>5. /\ p \in Int /\ q \in Int /\ q = p - 1 /\ u \in Int /\ v \in Int
        /\ -m <= u /\ u <= m /\ -(q * m) <= v /\ v <= q * m
    BY <2>2, <2>3, <2>4
  <2>6. p * m = q * m + m
    BY <2>5, SMT
  <2>7. PICK w : w = q * m
    OBVIOUS
  <2>8. -(p * m) <= u + v /\ u + v <= p * m /\ w \in Int
    BY <2>5, <2>6, <2>7
  <2> QED
    BY <2>2, <2>4, <2>5, <2>8
<1>3. S \in T
  <2> HIDE DEF T
  <2> QED
    BY <1>1, <1>2, PeelInduction
<1> QED
  BY <1>3

\* What is no larger in every part is no larger in all.
Class(S, near, c) == {x \in S : near[x] = c}
Lighter(S, f, g) == SumOver(S, f) <= SumOver(S, g)

LEMMA SumParts ==
  ASSUME NEW S, IsFiniteSet(S), NEW k \in Nat, NEW near \in [S -> 0..k - 1], NEW f, NEW g,
         \A x \in S : f[x] \in Int /\ g[x] \in Int,
         \A c \in 0..k - 1 : Lighter(Class(S, near, c), f, g)
  PROVE  SumOver(S, f) <= SumOver(S, g)
<1> DEFINE Upto(c) == {x \in S : near[x] < c}
           Part(c) == {x \in S : near[x] = c}
           N == {c \in Nat : c <= k => SumOver(Upto(c), f) <= SumOver(Upto(c), g)}
<1>1. \A s \in SUBSET S : IsFiniteSet(s) /\ SumOver(s, f) \in Int /\ SumOver(s, g) \in Int
  BY FS_Subset, SumInt
<1>2. 0 \in N
  <2>1. Upto(0) = {}
    OBVIOUS
  <2>2. SumOver({}, f) = 0 /\ SumOver({}, g) = 0
    BY SumEmpty
  <2>3. SumOver(Upto(0), f) <= SumOver(Upto(0), g)
    <3> HIDE DEF Upto
    <3>1. SumOver(Upto(0), f) = 0 /\ SumOver(Upto(0), g) = 0
      BY <2>1, <2>2, Zenon
    <3> QED
      BY <3>1
  <2> QED
    BY <2>3
<1>3. ASSUME NEW c \in N PROVE c + 1 \in N
  <2> HIDE DEF Upto
  <2> SUFFICES ASSUME c + 1 <= k PROVE SumOver(Upto(c + 1), f) <= SumOver(Upto(c + 1), g)
    OBVIOUS
  <2>1. PICK u, p : u = Upto(c) /\ p = Part(c)
    OBVIOUS
  <2>2. Upto(c + 1) = u \cup p /\ u \cap p = {} /\ u \in SUBSET S /\ p \in SUBSET S
    BY <2>1 DEF Upto
  <2>3. IsFiniteSet(u) /\ IsFiniteSet(p) /\ \A x \in u \cup p : f[x] \in Int /\ g[x] \in Int
    BY <1>1, <2>2
  <2>4. SumOver(u \cup p, f) = SumOver(u, f) + SumOver(p, f)
    BY <2>2, <2>3, SumUnion
  <2>5. SumOver(u \cup p, g) = SumOver(u, g) + SumOver(p, g)
    BY <2>2, <2>3, SumUnion
  <2>6. SumOver(u, f) <= SumOver(u, g)
    BY <2>1
  <2>7. SumOver(p, f) <= SumOver(p, g)
    <3>1. p = Class(S, near, c) /\ c \in 0..k - 1
      BY <2>1 DEF Class
    <3>2. Lighter(p, f, g)
      BY <3>1
    <3> QED
      BY <3>2 DEF Lighter
  <2>8. SumOver(u, f) \in Int /\ SumOver(u, g) \in Int /\ SumOver(p, f) \in Int /\ SumOver(p, g) \in Int
    BY <1>1, <2>2
  <2> QED
    BY ONLY <2>2, <2>4, <2>5, <2>6, <2>7, <2>8
<1>4. N = Nat
  <2> HIDE DEF N
  <2>1. N \subseteq Nat
    BY DEF N
  <2> QED
    BY <1>2, <1>3, <2>1, SetInduction
<1>5. Upto(k) = S
  OBVIOUS
<1> HIDE DEF Upto
<1> QED
  BY <1>4, <1>5

-----------------------------------------------------------------------------
(* K-means. *)

\* The best result so far is of the data and consistent.
ResultOK ==
  result # <<>> =>
    /\ \A r \in KM!Rows :
         result[1].assignments[r] = KM!Nearest(config.data[r], result[1].centroids)
    /\ result[1].objective
         = KM!Objective(config.data, result[1].centroids, result[1].assignments)

\* What is returned belongs together (assign_full_dataset, compute_objective).
THEOREM ResultBelongsTogether == Trains => []Consistent
<1> DEFINE Inv == ResultOK /\ (stage = "done" => result # <<>>)
<1>1. KM!Init => Inv
  BY DEF KM!Init, ResultOK
<1>2. Inv /\ [KM!Next]_(KM!vars) => Inv'
  <2> SUFFICES ASSUME Inv, [KM!Next]_(KM!vars) PROVE Inv'
    OBVIOUS
  <2>1. CASE KM!AssignFull
    <3>1. config' = config /\ stage' = "redo" /\ (result' = <<KM!Result>> \/ result' = result)
      BY <2>1 DEF KM!AssignFull
    <3>2. KM!Rows' = KM!Rows
      BY <3>1 DEF KM!Rows
    <3>3. CASE result' = result
      BY <3>1, <3>2, <3>3 DEF ResultOK
    <3>4. CASE result' = <<KM!Result>>
      <4>1. PICK r : r = KM!Result /\ result'[1] = r
        BY <3>4
      <4>2. r.assignments = [x \in KM!Rows |-> KM!Nearest(config.data[x], centroids)]
            /\ r.centroids = centroids
            /\ r.objective = KM!Objective(config.data, r.centroids, r.assignments)
        BY <4>1 DEF KM!Result
      <4>3. \A x \in KM!Rows : r.assignments[x] = KM!Nearest(config.data[x], r.centroids)
        BY <4>2
      <4> QED
        BY <3>1, <3>2, <4>1, <4>2, <4>3 DEF ResultOK
    <3> QED
      BY <3>1, <3>3, <3>4
  <2>2. CASE ~KM!AssignFull
    <3>1. config' = config /\ result' = result
      BY <2>2 DEF KM!Next, KM!vars, KM!Call, KM!Forgy, KM!Split, KM!Fold, KM!Merge, KM!Update, KM!Return
    <3>2. stage' = "done" => stage = "done" \/ result # <<>>
      BY <2>2 DEF KM!Next, KM!vars, KM!Call, KM!Forgy, KM!Split, KM!Fold, KM!Merge, KM!Update, KM!Return
    <3>3. KM!Rows' = KM!Rows
      BY <3>1 DEF KM!Rows
    <3> QED
      BY <3>1, <3>2, <3>3 DEF ResultOK
  <2> QED
    BY <2>1, <2>2
<1>3. Inv => Consistent
  BY DEF Consistent, KM!Consistent, ResultOK
<1> QED
  BY <1>1, <1>2, <1>3, PTL DEF Trains, KM!Spec

-----------------------------------------------------------------------------
(* The nearest centroid. *)

\* A least value, and the first index that has it.
LEMMA LeastFirst ==
  ASSUME NEW S, IsFiniteSet(S), S # {}, S \subseteq Int, NEW f, \A x \in S : f[x] \in Int
  PROVE  \E x \in S : \A y \in S : f[x] < f[y] \/ (f[x] = f[y] /\ x <= y)
<1> DEFINE Best(s, x) == \A y \in s : f[x] < f[y] \/ (f[x] = f[y] /\ x <= y)
           T == {s \in SUBSET S : s = {} \/ \E x \in s : Best(s, x)}
<1>1. {} \in T
  OBVIOUS
<1>2. ASSUME NEW s \in SUBSET S, s # {}, s \ {Some(s)} \in T
      PROVE  s \in T
  <2>1. PICK x, r : x = Some(s) /\ r = s \ {Some(s)}
    OBVIOUS
  <2>2. x \in s /\ s = r \cup {x}
    BY <1>2, <2>1, PeelFacts
  <2>3. CASE r = {}
    BY <2>2, <2>3
  <2>4. CASE r # {}
    <3>1. PICK z \in r : Best(r, z)
      BY <1>2, <2>1, <2>4
    <3>2. CASE f[x] < f[z] \/ (f[x] = f[z] /\ x <= z)
      <4>1. Best(s, x)
        BY <2>2, <3>1, <3>2
      <4> QED
        BY <2>2, <4>1
    <3>3. CASE ~(f[x] < f[z] \/ (f[x] = f[z] /\ x <= z))
      <4>1. Best(s, z)
        BY <2>2, <3>1, <3>3
      <4> QED
        BY <2>2, <3>1, <4>1
    <3> QED
      BY <3>2, <3>3
  <2> QED
    BY <2>3, <2>4
<1>3. S \in T
  <2> HIDE DEF T
  <2> QED
    BY <1>1, <1>2, PeelInduction
<1> QED
  BY <1>3

LEMMA MinIs ==
  ASSUME NEW S, S \subseteq Int, NEW x \in S, \A y \in S : x <= y
  PROVE  KM!Min(S) = x
<1>1. KM!Min(S) \in S /\ \A y \in S : KM!Min(S) <= y
  BY DEF KM!Min
<1>2. KM!Min(S) \in Int /\ x \in Int /\ KM!Min(S) <= x /\ x <= KM!Min(S)
  BY <1>1
<1> QED
  BY <1>2

\* Centroids, numbered from 0.
Centers(z, k) == k \in Nat \ {0} /\ z \in [0..k - 1 -> Int]

LEMMA DistanceInt ==
  ASSUME Unit \in Int, NEW x \in Int, NEW c \in Int
  PROVE  KM!Distance(x, c) \in Int /\ KM!Distance(x, c) >= 0
<1>1. PICK d : d = x * Unit - c
  OBVIOUS
<1>2. d \in Int /\ d * d >= 0
  BY <1>1, SMT
<1> QED
  BY <1>1, <1>2 DEF KM!Distance

LEMMA NearestFacts ==
  ASSUME Unit \in Int, NEW k, NEW z, Centers(z, k), NEW x \in Int
  PROVE  /\ KM!Nearest(x, z) \in 0..k - 1
         /\ \A d \in 0..k - 1 :
              \/ KM!Distance(x, z[KM!Nearest(x, z)]) < KM!Distance(x, z[d])
              \/ /\ KM!Distance(x, z[KM!Nearest(x, z)]) = KM!Distance(x, z[d])
                 /\ KM!Nearest(x, z) <= d
         /\ KM!Far(x, z) = KM!Distance(x, z[KM!Nearest(x, z)])
         /\ \A d \in 0..k - 1 : KM!Far(x, z) <= KM!Distance(x, z[d])
<1> DEFINE f == [c \in 0..k - 1 |-> KM!Distance(x, z[c])]
           Best(c) == \A d \in 0..k - 1 :
                        \/ KM!Distance(x, z[c]) < KM!Distance(x, z[d])
                        \/ KM!Distance(x, z[c]) = KM!Distance(x, z[d]) /\ c <= d
<1>0. DOMAIN z = 0..k - 1 /\ \A c \in 0..k - 1 : z[c] \in Int /\ f[c] \in Int
  BY DistanceInt DEF Centers
<1>1. \E c \in 0..k - 1 : Best(c)
  <2>1. IsFiniteSet(0..k - 1) /\ 0..k - 1 # {} /\ 0..k - 1 \subseteq Int
    <3>1. k \in Int /\ 0 \in 0..k - 1
      BY DEF Centers
    <3>2. IsFiniteSet(0..k - 1)
      BY <3>1, FS_Interval
    <3> QED
      BY <3>1, <3>2
  <2>2. \A c \in 0..k - 1 : f[c] = KM!Distance(x, z[c]) /\ f[c] \in Int
    BY <1>0
  <2> HIDE DEF f
  <2>3. \E c \in 0..k - 1 : \A y \in 0..k - 1 : f[c] < f[y] \/ (f[c] = f[y] /\ c <= y)
    BY <2>1, <2>2, LeastFirst
  <2> QED
    BY <2>2, <2>3
<1>2. KM!Nearest(x, z) \in 0..k - 1 /\ Best(KM!Nearest(x, z))
  <2>1. KM!Nearest(x, z) = CHOOSE c \in 0..k - 1 : Best(c)
    BY <1>0, Zenon DEF KM!Nearest
  <2> HIDE DEF Best
  <2> QED
    BY <1>1, <2>1
<1>3. PICK n : n = KM!Nearest(x, z)
  OBVIOUS
<1>4. \A d \in 0..k - 1 : KM!Distance(x, z[d]) \in Int
  BY <1>0
<1>5. KM!Far(x, z) = KM!Distance(x, z[n])
  <2>1. PICK S : S = {KM!Distance(x, z[c]) : c \in 0..k - 1}
    OBVIOUS
  <2>2. KM!Far(x, z) = KM!Min(S)
    BY <1>0, <2>1 DEF KM!Far
  <2>3. S \subseteq Int /\ KM!Distance(x, z[n]) \in S
    BY <1>2, <1>3, <1>4, <2>1
  <2>4. \A y \in S : KM!Distance(x, z[n]) <= y
    BY <1>2, <1>3, <1>4, <2>1
  <2> QED
    BY <2>2, <2>3, <2>4, MinIs
<1>6. \A d \in 0..k - 1 : KM!Distance(x, z[n]) <= KM!Distance(x, z[d])
  BY <1>2, <1>3, <1>4
<1> QED
  BY <1>2, <1>3, <1>5, <1>6

-----------------------------------------------------------------------------
(* Sums of points, and what rounding leaves of them. *)

LEMMA SameSets ==
  /\ \A s : KM!Cardinality(s) = Cardinality(s)
  /\ \A s : KM!IsFiniteSet(s) <=> IsFiniteSet(s)
<1>1. \A s : KM!IsFiniteSet(s) <=> IsFiniteSet(s)
  BY Zenon DEF KM!IsFiniteSet, IsFiniteSet
<1>2. \A s : KM!Cardinality(s) = Cardinality(s)
  BY <1>1, Zenon DEF KM!Cardinality, Cardinality
<1> QED
  BY <1>1, <1>2

\* The terms of a total are those of the points.
LEMMA TotalIs ==
  ASSUME NEW p, NEW s, IsFiniteSet(s)
  PROVE  KM!Total(p, s) = SumOver(s, p)
<1> DEFINE Turn(g) == [t \in SUBSET s |-> IF t = {} THEN 0 ELSE p[Some(t)] + g[t \ {Some(t)}]]
<1>1. KM!Total(p, s) = (CHOOSE g : g = Turn(g))[s]
  BY Zenon DEF KM!Total, KM!MapThenSumSet, KM!MapThenFoldSet, Some
<1>2. \A g : Turn(g) = Sums(SUBSET s, p, g)
  BY Zenon DEF Sums
<1> HIDE DEF Turn
<1>3. \E g : g = Turn(g)
  BY <1>2, SumExists
<1>4. PICK g : g = Turn(g) /\ KM!Total(p, s) = g[s]
  BY <1>1, <1>3
<1>5. PICK h : h = Sums(SUBSET s, p, h) /\ SumOver(s, p) = h[s]
  BY SumExists DEF SumOver
<1>6. g[s] = h[s]
  BY <1>2, <1>4, <1>5, SumUnique
<1> QED
  BY <1>4, <1>5, <1>6

\* How far the points are from their centroids, in all.
Spread(p, z) == SumOver(DOMAIN p, [i \in DOMAIN p |-> KM!Far(p[i], z)])

LEMMA SpreadIs ==
  ASSUME NEW p, NEW z, IsFiniteSet(DOMAIN p)
  PROVE  KM!MapThenSumSet(LAMBDA i : KM!Far(p[i], z), DOMAIN p) = Spread(p, z)
<1> DEFINE f == [i \in DOMAIN p |-> KM!Far(p[i], z)]
           S == DOMAIN p
           Turn(g) == [t \in SUBSET S |->
                         IF t = {} THEN 0 ELSE KM!Far(p[Some(t)], z) + g[t \ {Some(t)}]]
<1>1. KM!MapThenSumSet(LAMBDA i : KM!Far(p[i], z), DOMAIN p) = (CHOOSE g : g = Turn(g))[S]
  BY Zenon DEF KM!MapThenSumSet, KM!MapThenFoldSet, Some
<1>2. ASSUME NEW g PROVE Turn(g) = Sums(SUBSET S, f, g)
  <2>1. \A t \in SUBSET S : t # {} => Some(t) \in S
    BY DEF Some
  <2>2. \A t \in SUBSET S : t # {} => f[Some(t)] = KM!Far(p[Some(t)], z)
    BY <2>1
  <2> QED
    BY <2>2, Zenon DEF Sums
<1> HIDE DEF Turn, f, S
<1>3. IsFiniteSet(S)
  BY DEF S
<1>4. \E g : g = Turn(g)
  BY <1>2, <1>3, SumExists
<1>5. PICK g : g = Turn(g) /\ KM!MapThenSumSet(LAMBDA i : KM!Far(p[i], z), DOMAIN p) = g[S]
  BY <1>1, <1>4
<1>6. PICK h : h = Sums(SUBSET S, f, h) /\ SumOver(S, f) = h[S]
  BY <1>3, SumExists DEF SumOver
<1>7. g[S] = h[S]
  BY <1>2, <1>3, <1>5, <1>6, SumUnique
<1> QED
  BY <1>5, <1>6, <1>7 DEF f, S, Spread

\* The sums of every input have no more bits than a float.
Fits ==
  /\ Mantissa \in 15..30
  /\ \A i \in Inputs : \E m \in Nat :
       /\ \A r \in DOMAIN i.data : -m <= i.data[r] /\ i.data[r] <= m
       /\ Cardinality(DOMAIN i.data) * m < 2^Mantissa

LEMMA RoundedIs ==
  ASSUME Mantissa \in 15..30, NEW x \in Int, x < 2^Mantissa, -x < 2^Mantissa
  PROVE  KM!Rounded(x) = x
<1>1. PICK size : size = IF x < 0 THEN -x ELSE x
  OBVIOUS
<1>2. PICK ulps : ulps = {2^e : e \in {e \in 0..30 - Mantissa : size < 2^(Mantissa + e)}}
  OBVIOUS
<1>3. 2^0 = 1
  BY SMT
<1>4. 1 \in ulps
  <2>1. Mantissa + 0 = Mantissa
    OBVIOUS
  <2>2. size < 2^Mantissa
    BY <1>1
  <2>3. 0 \in 0..30 - Mantissa /\ size < 2^(Mantissa + 0)
    BY <2>1, <2>2
  <2> QED
    BY <1>2, <1>3, <2>3, Zenon
<1>5. ulps \subseteq Int /\ \A u \in ulps : 1 <= u
  <2>1. \A e \in 0..30 - Mantissa : e \in 0..15
    OBVIOUS
  <2>2. \A e \in 0..30 - Mantissa : 2^e \in Nat \ {0}
    BY <2>1, Powers
  <2> QED
    BY <1>2, <2>2
<1>6. KM!Min(ulps) = 1
  <2>1. PICK one : one = 1
    OBVIOUS
  <2>2. one \in ulps /\ ulps \subseteq Int /\ \A u \in ulps : one <= u
    BY <1>4, <1>5, <2>1
  <2> QED
    BY <2>1, <2>2, MinIs
<1>7. x \div 1 = x /\ x % 1 = 0
  BY SMT
<1>8. KM!Rounded(x) = LET ulp == 1
                          q == x \div ulp
                          twice == 2 * (x % ulp)
                      IN IF twice < ulp \/ (twice = ulp /\ q % 2 = 0) THEN q * ulp ELSE (q + 1) * ulp
  BY <1>1, <1>2, <1>6, Zenon DEF KM!Rounded
<1> QED
  BY <1>7, <1>8

-----------------------------------------------------------------------------
(* Ranks: the elements of a finite set in a strict total order.            *)

\* How many come before x.
RankIn(S, R, x) == Cardinality({y \in S : <<y, x>> \in R})

Orders(R, S) ==
  /\ \A x \in S : <<x, x>> \notin R
  /\ \A x, y, z \in S : <<x, y>> \in R /\ <<y, z>> \in R => <<x, z>> \in R
  /\ \A x, y \in S : x # y => <<x, y>> \in R \/ <<y, x>> \in R

\* What comes later has more before it.
LEMMA RankGrows ==
  ASSUME NEW S, IsFiniteSet(S), NEW R, Orders(R, S),
         NEW x \in S, NEW y \in S, <<x, y>> \in R
  PROVE  RankIn(S, R, x) < RankIn(S, R, y)
<1> DEFINE X == {z \in S : <<z, x>> \in R}
           Y == {z \in S : <<z, y>> \in R}
<1>1. X \cup {x} \subseteq Y /\ x \notin X
  BY DEF Orders
<1>2. IsFiniteSet(X) /\ IsFiniteSet(Y)
  <2>1. X \subseteq S /\ Y \subseteq S
    OBVIOUS
  <2> HIDE DEF X, Y
  <2> QED
    BY <2>1, FS_Subset
<1> HIDE DEF X, Y
<1>3. IsFiniteSet(X \cup {x}) /\ Cardinality(X \cup {x}) = Cardinality(X) + 1
  BY <1>1, <1>2, FS_AddElement
<1>4. Cardinality(X \cup {x}) <= Cardinality(Y)
  BY <1>1, <1>2, FS_Subset
<1>5. Cardinality(X) \in Nat /\ Cardinality(Y) \in Nat
  BY <1>2, FS_CardinalityType
<1> QED
  BY <1>3, <1>4, <1>5 DEF RankIn, X, Y

\* Ranks tell elements apart, and each of 0 .. n - 1 is the rank of one.
LEMMA Ranks ==
  ASSUME NEW S, IsFiniteSet(S), NEW R, Orders(R, S)
  PROVE  /\ Cardinality(S) \in Nat
         /\ \A x \in S : RankIn(S, R, x) \in 0 .. Cardinality(S) - 1
         /\ \A x, y \in S : RankIn(S, R, x) = RankIn(S, R, y) => x = y
         /\ \A n \in 0 .. Cardinality(S) - 1 : \E x \in S : RankIn(S, R, x) = n
<1> DEFINE k == Cardinality(S)
           rank == [x \in S |-> RankIn(S, R, x)]
<1>1. k \in Nat
  BY FS_CardinalityType
<1>2. ASSUME NEW x \in S PROVE RankIn(S, R, x) \in 0 .. k - 1
  <2> DEFINE X == {z \in S : <<z, x>> \in R}
  <2>1. X \subseteq S \ {x}
    BY DEF Orders
  <2>2. IsFiniteSet(S \ {x}) /\ Cardinality(S \ {x}) = k - 1
    BY FS_RemoveElement
  <2> HIDE DEF X
  <2>3. IsFiniteSet(X) /\ Cardinality(X) \in Nat /\ Cardinality(X) <= k - 1
    BY <2>1, <2>2, FS_Subset, FS_CardinalityType
  <2> QED
    BY <1>1, <2>3 DEF RankIn, X
<1>3. ASSUME NEW x \in S, NEW y \in S, x # y
      PROVE  RankIn(S, R, x) # RankIn(S, R, y)
  <2>1. RankIn(S, R, x) \in Int /\ RankIn(S, R, y) \in Int
    BY <1>1, <1>2
  <2>2. RankIn(S, R, x) < RankIn(S, R, y) \/ RankIn(S, R, y) < RankIn(S, R, x)
    BY <1>3, RankGrows DEF Orders
  <2> QED
    BY <2>1, <2>2
<1>4. rank \in Injection(S, 0 .. k - 1)
  <2>1. rank \in [S -> 0 .. k - 1]
    BY <1>2
  <2>2. \A x, y \in S : rank[x] = rank[y] => x = y
    BY <1>3
  <2> QED
    BY <2>1, <2>2 DEF Injection, IsInjective
<1>5. rank \in Surjection(S, 0 .. k - 1)
  <2>1. IsFiniteSet(0 .. k - 1) /\ Cardinality(0 .. k - 1) = k
    BY <1>1, FS_Interval
  <2> HIDE DEF rank
  <2> QED
    BY <1>4, <2>1, FS_Injection
<1>6. ASSUME NEW n \in 0 .. k - 1
      PROVE  \E x \in S : RankIn(S, R, x) = n
  <2>1. \E x \in S : rank[x] = n
    <3> HIDE DEF rank
    <3> QED
      BY <1>5 DEF Surjection
  <2> QED
    BY <2>1
<1> QED
  BY <1>1, <1>2, <1>3, <1>6

\* The k first ones come before the others, and are k if there are others.
LEMMA FirstOnes ==
  ASSUME NEW S, IsFiniteSet(S), NEW R, Orders(R, S), NEW k \in Nat,
         NEW T, T = {x \in S : RankIn(S, R, x) < k}, NEW x \in S \ T
  PROVE  Cardinality(T) = k /\ \A y \in T : <<y, x>> \in R
<1> DEFINE n == Cardinality(S)
           rank == [y \in T |-> RankIn(S, R, y)]
<1>1. /\ n \in Nat
      /\ \A y \in S : RankIn(S, R, y) \in 0 .. n - 1
      /\ \A y, z \in S : RankIn(S, R, y) = RankIn(S, R, z) => y = z
      /\ \A m \in 0 .. n - 1 : \E y \in S : RankIn(S, R, y) = m
  BY Ranks
<1>2. RankIn(S, R, x) >= k /\ k <= n - 1
  BY <1>1
<1>3. rank \in Bijection(T, 0 .. k - 1)
  <2>1. rank \in [T -> 0 .. k - 1]
    BY <1>1
  <2>2. \A y, z \in T : rank[y] = rank[z] => y = z
    BY <1>1
  <2>3. \A m \in 0 .. k - 1 : \E y \in T : rank[y] = m
    <3> SUFFICES ASSUME NEW m \in 0 .. k - 1 PROVE \E y \in T : rank[y] = m
      OBVIOUS
    <3>1. m \in 0 .. n - 1
      BY <1>1, <1>2
    <3>2. PICK y \in S : RankIn(S, R, y) = m
      BY <1>1, <3>1
    <3> QED
      BY <3>2
  <2> HIDE DEF rank
  <2>4. rank \in Injection(T, 0 .. k - 1)
    BY <2>1, <2>2 DEF Injection, IsInjective
  <2>5. rank \in Surjection(T, 0 .. k - 1)
    BY <2>1, <2>3 DEF Surjection
  <2> QED
    BY <2>4, <2>5 DEF Bijection
<1>4. IsFiniteSet(T)
  <2>1. T \subseteq S
    OBVIOUS
  <2> QED
    BY <2>1, FS_Subset
<1>5. Cardinality(T) = k
  <2>1. IsFiniteSet(0 .. k - 1) /\ Cardinality(0 .. k - 1) = k
    BY FS_Interval
  <2> HIDE DEF rank
  <2> QED
    BY <1>3, <1>4, <2>1, FS_Bijection DEF ExistsBijection
<1>6. ASSUME NEW y \in T PROVE <<y, x>> \in R
  <2>1. y \in S /\ RankIn(S, R, y) < RankIn(S, R, x) /\ RankIn(S, R, y) \in Int
        /\ RankIn(S, R, x) \in Int
    BY <1>1, <1>2
  <2>2. y # x
    BY <2>1
  <2>3. <<x, y>> \notin R
    BY <2>1, RankGrows
  <2> QED
    BY <2>1, <2>2, <2>3 DEF Orders
<1> QED
  BY <1>5, <1>6

\* The k farthest of some rows, the first of equals.
Ahead(rows, far, i) == {j \in rows : far[j] > far[i] \/ (far[j] = far[i] /\ j < i)}
Top(rows, far, k) == {i \in rows : Cardinality(Ahead(rows, far, i)) < k}

LEMMA TopFacts ==
  ASSUME NEW rows, IsFiniteSet(rows), rows \subseteq Int, NEW far, \A i \in rows : far[i] \in Int,
         NEW k \in Nat, NEW i \in rows, i \notin Top(rows, far, k)
  PROVE  /\ Cardinality(Top(rows, far, k)) = k
         /\ \A j \in Top(rows, far, k) : far[j] >= far[i]
<1> DEFINE T == Top(rows, far, k)
<1>1. PICK R : R = {p \in rows \X rows :
                      far[p[1]] > far[p[2]] \/ (far[p[1]] = far[p[2]] /\ p[1] < p[2])}
  OBVIOUS
<1>2. \A j, h \in rows : <<j, h>> \in R <=> far[j] > far[h] \/ (far[j] = far[h] /\ j < h)
  BY <1>1
<1>3. Orders(R, rows)
  BY <1>2 DEF Orders
<1>4. \A j \in rows : RankIn(rows, R, j) = Cardinality(Ahead(rows, far, j))
  <2> SUFFICES ASSUME NEW j \in rows
               PROVE  RankIn(rows, R, j) = Cardinality(Ahead(rows, far, j))
    OBVIOUS
  <2>1. {h \in rows : <<h, j>> \in R} = Ahead(rows, far, j)
    BY <1>2 DEF Ahead
  <2> QED
    BY <2>1 DEF RankIn
<1>5. T = {j \in rows : RankIn(rows, R, j) < k}
  BY <1>4 DEF Top
<1> HIDE DEF T
<1>6. i \in rows \ T
  BY DEF T
<1>7. Cardinality(T) = k /\ \A j \in T : <<j, i>> \in R
  BY <1>3, <1>5, <1>6, FirstOnes
<1>8. T \subseteq rows
  BY <1>5
<1>9. ASSUME NEW j \in T PROVE far[j] >= far[i]
  <2>1. far[j] > far[i] \/ far[j] = far[i]
    BY <1>2, <1>6, <1>7, <1>8
  <2> QED
    BY <1>6, <1>8, <2>1
<1> QED
  BY <1>7, <1>9 DEF T

\* The i-th of chosen rows is one of them, and each is the i-th for some i.
LEMMA NthFacts ==
  ASSUME NEW S, IsFiniteSet(S), S \subseteq Int
  PROVE  /\ Cardinality(S) \in Nat
         /\ \A n \in 0..Cardinality(S) - 1 : KM!Nth(S, n) \in S
         /\ \A x \in S : \E n \in 0..Cardinality(S) - 1 : KM!Nth(S, n) = x
<1>0. PICK R : R = {p \in S \X S : p[1] < p[2]}
  OBVIOUS
<1>1. Orders(R, S)
  BY <1>0 DEF Orders
<1>2. \A x \in S : RankIn(S, R, x) = KM!Cardinality({y \in S : y < x})
  <2> SUFFICES ASSUME NEW x \in S
               PROVE  RankIn(S, R, x) = KM!Cardinality({y \in S : y < x})
    OBVIOUS
  <2>1. {y \in S : <<y, x>> \in R} = {y \in S : y < x}
    BY <1>0
  <2> QED
    BY <2>1, SameSets DEF RankIn
<1>3. /\ Cardinality(S) \in Nat
      /\ \A x \in S : RankIn(S, R, x) \in 0 .. Cardinality(S) - 1
      /\ \A x, y \in S : RankIn(S, R, x) = RankIn(S, R, y) => x = y
      /\ \A n \in 0 .. Cardinality(S) - 1 : \E x \in S : RankIn(S, R, x) = n
  BY <1>1, Ranks
<1>4. ASSUME NEW n \in 0..Cardinality(S) - 1
      PROVE  KM!Nth(S, n) \in S /\ RankIn(S, R, KM!Nth(S, n)) = n
  <2>1. \E x \in S : KM!Cardinality({y \in S : y < x}) = n
    BY <1>2, <1>3
  <2>2. KM!Nth(S, n) \in S /\ KM!Cardinality({y \in S : y < KM!Nth(S, n)}) = n
    BY <2>1 DEF KM!Nth
  <2> QED
    BY <1>2, <2>2
<1>5. ASSUME NEW x \in S
      PROVE  \E n \in 0..Cardinality(S) - 1 : KM!Nth(S, n) = x
  <2>1. RankIn(S, R, x) \in 0..Cardinality(S) - 1
    BY <1>3
  <2>2. KM!Nth(S, RankIn(S, R, x)) = x
    BY <1>3, <1>4, <2>1
  <2> QED
    BY <2>1, <2>2
<1> QED
  BY <1>3, <1>4, <1>5

-----------------------------------------------------------------------------
(* The invariant of k-means. *)

\* The rows of chunks from..to-1, and those of them nearest to c.
Span(from, to) == {i \in DOMAIN points : from * config.chunk <= i /\ i < to * config.chunk}
Part(from, to, c) == {i \in Span(from, to) : KM!Near(i) = c}

Sampled ==
  /\ 0 < config.k /\ 0 < config.niter
  /\ \E m \in config.k..Cardinality(KM!Rows) :
       /\ points \in [0..m - 1 -> Int]
       /\ \A i \in 0..m - 1 : \E r \in KM!Rows : points[i] = config.data[r]
       /\ m = Cardinality(KM!Rows) =>
            \A r \in KM!Rows : \E i \in 0..m - 1 : points[i] = config.data[r]

\* s is a half of w.
HalfOf(s, w) ==
  /\ w.to - w.from >= 2
  /\ \/ s.from = w.from /\ s.to = w.from + (w.to - w.from) \div 2
     \/ s.from = w.from + (w.to - w.from) \div 2 /\ s.to = w.to

\* up leads from the whole range to s.
Leads(up, s) ==
  /\ up \in Seq([from : Int, to : Int])
  /\ up = <<>> => s.from = 0 /\ s.to = KM!Chunks
  /\ up # <<>> => /\ up[1].from = 0 /\ up[1].to = KM!Chunks
                  /\ HalfOf(s, up[Len(up)])
                  /\ \A i \in 1..Len(up) - 1 : HalfOf(up[i + 1], up[i])

Fields(s) ==
  s = [from |-> s.from, next |-> s.next, to |-> s.to, up |-> s.up, counts |-> s.counts,
       sums |-> s.sums, candidates |-> s.candidates, assigned |-> s.assigned]

\* What a state has of the chunks it is of.
Holds(s) ==
  /\ s.counts = [c \in KM!K |-> Cardinality(Part(s.from, s.next, c))]
  /\ s.sums = [c \in KM!K |-> SumOver(Part(s.from, s.next, c), points)]
  /\ s.candidates = UNION {KM!Candidates(x) : x \in s.from..s.next - 1}
  /\ s.assigned = [i \in Span(s.from, s.next) |-> KM!Near(i)]

StateOK(s) ==
  /\ Fields(s)
  /\ s.from \in Int /\ s.next \in Int /\ s.to \in Int
  /\ 0 <= s.from /\ s.from <= s.next /\ s.next <= s.to /\ s.to <= KM!Chunks /\ s.from < s.to
  /\ Leads(s.up, s)
  /\ Holds(s)

Covers(s, x) == s.from <= x /\ x < s.to

StatesOK ==
  /\ \A s \in states : StateOK(s)
  /\ \A x \in 0..KM!Chunks - 1 : \E s \in states : Covers(s, x)
  /\ \A s, t \in states, x \in 0..KM!Chunks - 1 : Covers(s, x) /\ Covers(t, x) => s = t

TrainInv ==
  /\ config \in Inputs
  /\ stage \in {"call", "redo", "fold", "full", "done", "panic"}
  /\ left \in 0..config.niter /\ redo \in 0..config.nredo
  /\ result = <<>> \/ Len(result) = 1
  /\ stage # "fold" => left = 0 /\ states = {}
  /\ stage = "call" => centroids = <<>>
  /\ stage \in {"redo", "fold", "full", "done"} => Sampled
  /\ stage \in {"fold", "full"} => Centers(centroids, config.k) /\ redo < config.nredo
  /\ stage = "fold" => left > 0 /\ config.chunk # 0 /\ StatesOK

\* What an input is.
LEMMA ConfigFacts ==
  ASSUME KM!KMeansAssumption, config \in Inputs
  PROVE  /\ Unit \in Nat \ {0} /\ Reseeds \in Nat \ {0}
         /\ IsFiniteSet(KM!Rows) /\ Cardinality(KM!Rows) \in Nat
         /\ KM!Rows = 0..Cardinality(KM!Rows) - 1
         /\ \A r \in KM!Rows : config.data[r] \in Int /\ Unit % (r + 1) = 0
         /\ config.k \in Nat /\ config.niter \in Nat /\ config.nredo \in Nat
         /\ config.chunk \in Nat /\ config.per \in Nat /\ config.spherical \in BOOLEAN
<1>1. PICK d : d = config.data
  OBVIOUS
<1>2. /\ Unit \in Nat \ {0} /\ Reseeds \in Nat \ {0}
      /\ KM!IsFiniteSet(DOMAIN d) /\ DOMAIN d = 0..KM!Cardinality(DOMAIN d) - 1
      /\ \A r \in DOMAIN d : d[r] \in Int /\ Unit % (r + 1) = 0
      /\ config.k \in Nat /\ config.niter \in Nat /\ config.nredo \in Nat
      /\ config.chunk \in Nat /\ config.per \in Nat /\ config.spherical \in BOOLEAN
  BY <1>1 DEF KM!KMeansAssumption
<1>3. IsFiniteSet(DOMAIN d) /\ DOMAIN d = 0..Cardinality(DOMAIN d) - 1
  BY <1>2, SameSets
<1>4. Cardinality(DOMAIN d) \in Nat
  BY <1>3, FS_CardinalityType
<1> QED
  BY <1>1, <1>2, <1>3, <1>4 DEF KM!Rows

\* What a sample is.
LEMMA SampleFacts ==
  ASSUME KM!KMeansAssumption, config \in Inputs, Sampled,
         NEW n, n = Cardinality(DOMAIN points)
  PROVE  /\ n \in Nat \ {0} /\ config.k \in Nat \ {0} /\ config.k <= n
         /\ n <= Cardinality(KM!Rows)
         /\ DOMAIN points = 0..n - 1 /\ IsFiniteSet(DOMAIN points)
         /\ points \in [0..n - 1 -> Int]
         /\ KM!Cardinality(KM!Trained) = n
         /\ \A i \in 0..n - 1 : \E r \in KM!Rows : points[i] = config.data[r]
         /\ n = Cardinality(KM!Rows) =>
              \A r \in KM!Rows : \E i \in 0..n - 1 : points[i] = config.data[r]
<1>1. PICK m \in config.k..Cardinality(KM!Rows) :
       /\ points \in [0..m - 1 -> Int]
       /\ \A i \in 0..m - 1 : \E r \in KM!Rows : points[i] = config.data[r]
       /\ m = Cardinality(KM!Rows) =>
            \A r \in KM!Rows : \E i \in 0..m - 1 : points[i] = config.data[r]
  BY DEF Sampled
<1>2. config.k \in Nat \ {0} /\ Cardinality(KM!Rows) \in Nat
  BY ConfigFacts DEF Sampled
<1>3. m \in Nat \ {0} /\ config.k <= m /\ m <= Cardinality(KM!Rows) /\ DOMAIN points = 0..m - 1
  BY <1>1, <1>2
<1>4. IsFiniteSet(0..m - 1) /\ Cardinality(0..m - 1) = m
  BY <1>3, FS_Interval
<1>5. n = m
  BY <1>3, <1>4
<1>6. KM!Cardinality(KM!Trained) = n
  BY SameSets DEF KM!Trained
<1> QED
  BY <1>1, <1>2, <1>3, <1>4, <1>5, <1>6

LEMMA KMeansInit == ASSUME KM!KMeansAssumption, KM!Init PROVE TrainInv
<1>1. config \in Inputs /\ 0 \in 0..config.niter /\ 0 \in 0..config.nredo
  BY ConfigFacts DEF KM!Init
<1> QED
  BY <1>1 DEF KM!Init, TrainInv

\* Rows that do not change.
LEMMA SameConfig ==
  ASSUME config' = config
  PROVE  KM!Rows' = KM!Rows /\ KM!K' = KM!K
  BY DEF KM!Rows, KM!K

LEMMA SameSample ==
  ASSUME config' = config, points' = points
  PROVE  Sampled' = Sampled
  BY DEF Sampled, KM!Rows

\* select_training_indices leaves a sample.
LEMMA CallTrain ==
  ASSUME KM!KMeansAssumption, TrainInv, KM!Call
  PROVE  TrainInv'
<1>1. /\ config \in Inputs /\ config' = config /\ stage = "call"
      /\ left' = left /\ redo' = redo /\ result' = result /\ states' = states
      /\ centroids' = centroids
      /\ left = 0 /\ states = {} /\ left \in 0..config.niter /\ redo \in 0..config.nredo
      /\ result = <<>> \/ Len(result) = 1
  BY DEF KM!Call, TrainInv
<1>2. CASE stage' = "panic"
  BY <1>1, <1>2 DEF TrainInv
<1>3. CASE stage' # "panic"
  <2>1. KM!Valid /\ stage' = "redo"
    BY <1>3 DEF KM!Call
  <2>2. PICK chosen \in KM!kSubset(KM!Target, KM!Rows) : points' = KM!Sample(chosen)
    BY <2>1 DEF KM!Call
  <2>3. PICK n : n = Cardinality(KM!Rows)
    OBVIOUS
  <2>4. /\ n \in Nat /\ IsFiniteSet(KM!Rows) /\ KM!Rows = 0..n - 1
        /\ \A r \in KM!Rows : config.data[r] \in Int
        /\ config.k \in Nat /\ config.per \in Nat
    BY <1>1, <2>3, ConfigFacts
  <2>5. 0 < config.k /\ config.k <= n /\ 0 < config.niter
    BY <2>1, <2>3, SameSets DEF KM!Valid
  <2>6. chosen \in SUBSET KM!Rows
    BY <2>2 DEF KM!kSubset
  <2>7. Cardinality(chosen) = KM!Target
    BY <2>2, SameSets DEF KM!kSubset
  <2>8. config.k <= KM!Target /\ KM!Target \in Int
    <3>1. PICK x : x = KM!Min({KM!Cardinality(KM!Rows), config.k * config.per})
      OBVIOUS
    <3>2. x \in Int
      <4>1. PICK p, q : p = KM!Cardinality(KM!Rows) /\ q = config.k * config.per
        OBVIOUS
      <4>2. p \in Int /\ q \in Int
        BY <2>3, <2>4, <4>1, SameSets
      <4>3. CASE p <= q
        <5>1. {p, q} \subseteq Int /\ p \in {p, q} /\ \A y \in {p, q} : p <= y
          BY <4>2, <4>3
        <5>2. KM!Min({p, q}) = p
          BY <5>1, MinIs
        <5> QED
          BY <3>1, <4>1, <4>2, <5>2
      <4>4. CASE q <= p
        <5>1. {p, q} \subseteq Int /\ q \in {p, q} /\ \A y \in {p, q} : q <= y
          BY <4>2, <4>4
        <5>2. KM!Min({p, q}) = q
          BY <5>1, MinIs
        <5> QED
          BY <3>1, <4>1, <4>2, <5>2
      <4> QED
        BY <4>2, <4>3, <4>4
    <3>3. KM!Target = KM!Max({x, config.k})
      BY <3>1 DEF KM!Target
    <3>4. \E y \in {x, config.k} : \A z \in {x, config.k} : y >= z
      <4>1. CASE x >= config.k
        BY <2>4, <3>2, <4>1
      <4>2. CASE ~(x >= config.k)
        BY <2>4, <3>2, <4>2
      <4> QED
        BY <4>1, <4>2
    <3>5. KM!Max({x, config.k}) \in {x, config.k} /\ KM!Max({x, config.k}) >= config.k
      BY <3>4 DEF KM!Max
    <3> QED
      BY <2>4, <3>2, <3>3, <3>5
  <2>9. IsFiniteSet(chosen) /\ Cardinality(chosen) \in Nat /\ Cardinality(chosen) <= n
        /\ (Cardinality(chosen) = n => chosen = KM!Rows)
    BY <2>3, <2>4, <2>6, FS_Subset, FS_CardinalityType
  <2>10. PICK m : m = Cardinality(chosen)
    OBVIOUS
  <2>11. points' = [i \in 0..m - 1 |-> config.data[KM!Nth(chosen, i)]]
    BY <2>2, <2>10, SameSets DEF KM!Sample
  <2>12. /\ \A i \in 0..m - 1 : KM!Nth(chosen, i) \in chosen
         /\ \A x \in chosen : \E i \in 0..m - 1 : KM!Nth(chosen, i) = x
    <3>1. chosen \subseteq Int
      BY <2>4, <2>6
    <3> QED
      BY <2>9, <2>10, <3>1, NthFacts
  <2>13. m \in config.k..n
    BY <2>4, <2>7, <2>8, <2>9, <2>10
  <2>14. points' \in [0..m - 1 -> Int]
    BY <2>4, <2>6, <2>11, <2>12
  <2>15. \A i \in 0..m - 1 : \E r \in KM!Rows : points'[i] = config.data[r]
    BY <2>6, <2>11, <2>12
  <2>16. ASSUME m = n, NEW r \in KM!Rows
         PROVE  \E i \in 0..m - 1 : points'[i] = config.data[r]
    <3>1. r \in chosen
      BY <2>9, <2>10, <2>16
    <3>2. PICK i \in 0..m - 1 : KM!Nth(chosen, i) = r
      BY <2>12, <3>1
    <3> QED
      BY <2>11, <3>2
  <2>17. Sampled'
    <3>1. KM!Rows' = KM!Rows
      BY <1>1, SameConfig
    <3> QED
      BY <1>1, <2>3, <2>5, <2>13, <2>14, <2>15, <2>16, <3>1 DEF Sampled
  <2> QED
    BY <1>1, <2>1, <2>17 DEF TrainInv
<1> QED
  BY <1>2, <1>3

-----------------------------------------------------------------------------
(* Chunks and their rows. *)

LEMMA TimesGrow ==
  ASSUME NEW a \in Int, NEW b \in Int, a <= b, NEW d \in Nat
  PROVE  a * d \in Int /\ b * d \in Int /\ a * d <= b * d
<1>1. PICK e \in Nat : b = a + e
  BY SMT
<1>2. b * d = a * d + e * d /\ e * d \in Nat /\ a * d \in Int
  BY <1>1, SMT
<1> QED
  BY <1>2

\* There are as many chunks as the rows fill.
LEMMA ChunkFacts ==
  ASSUME KM!KMeansAssumption, config \in Inputs, Sampled, config.chunk # 0,
         NEW n, n = Cardinality(DOMAIN points)
  PROVE  /\ KM!Chunks \in Nat \ {0} /\ config.chunk \in Nat \ {0}
         /\ KM!Chunks * config.chunk >= n
         /\ \A x \in 0..KM!Chunks - 1 : x * config.chunk \in Nat /\ x * config.chunk < n
<1>1. PICK d, C : d = config.chunk /\ C = KM!Chunks
  OBVIOUS
<1>2. n \in Nat \ {0} /\ d \in Nat \ {0}
  BY <1>1, ConfigFacts, SampleFacts
<1>3. C = (n + d - 1) \div d
  <2>1. KM!Cardinality(KM!Trained) = n
    BY SampleFacts
  <2> QED
    BY <1>1, <2>1 DEF KM!Chunks
<1>4. C \in Nat /\ d * C <= n + d - 1 /\ n + d - 1 < d * C + d
  <2>1. PICK a : a = n + d - 1
    OBVIOUS
  <2>2. a \in Nat
    BY <1>2, <2>1
  <2> QED
    BY <1>2, <1>3, <2>1, <2>2, Quotient
<1>5. d * C = C * d /\ C * d \in Nat
  BY <1>2, <1>4, SMT
<1>6. C # 0
  <2>1. d * 0 = 0
    BY <1>2, SMT
  <2> QED
    BY <1>2, <1>4, <2>1
<1>7. ASSUME NEW x \in 0..C - 1 PROVE x * d \in Nat /\ x * d < n
  <2>1. x * d <= (C - 1) * d
    BY <1>2, <1>4, TimesGrow
  <2>2. (C - 1) * d = C * d - d
    BY <1>2, <1>4, SMT
  <2>3. x * d \in Nat
    BY <1>2, <1>4, SMT
  <2>4. PICK p, q, g : p = x * d /\ q = C * d /\ g = d * C
    OBVIOUS
  <2>5. /\ p \in Nat /\ q \in Nat /\ g = q /\ n \in Nat /\ d \in Nat
        /\ p <= q - d /\ g <= n + d - 1
    BY <1>2, <1>4, <1>5, <2>1, <2>2, <2>3, <2>4, Zenon
  <2>6. p < n
    BY ONLY <2>5
  <2> QED
    BY <2>3, <2>4, <2>6
<1> QED
  BY <1>1, <1>2, <1>4, <1>5, <1>6, <1>7

LEMMA SpanFacts ==
  ASSUME KM!KMeansAssumption, config \in Inputs, Sampled, config.chunk # 0
  PROVE  /\ \A a \in Int : Span(a, a) = {}
         /\ \A a, b : /\ Span(a, b) \subseteq DOMAIN points
                      /\ Span(a, b) \subseteq Int
                      /\ IsFiniteSet(Span(a, b))
         /\ \A a : KM!RowsOf(a) = Span(a, a + 1)
         /\ Span(0, KM!Chunks) = DOMAIN points
<1>1. PICK n, d : n = Cardinality(DOMAIN points) /\ d = config.chunk
  OBVIOUS
<1>2. n \in Nat \ {0} /\ DOMAIN points = 0..n - 1 /\ IsFiniteSet(DOMAIN points) /\ d \in Nat \ {0}
  BY <1>1, ConfigFacts, SampleFacts
<1>3. \A a, b : Span(a, b) \subseteq DOMAIN points
  BY DEF Span
<1>4. \A a, b : IsFiniteSet(Span(a, b))
  BY <1>2, <1>3, FS_Subset
<1>5. \A a : KM!RowsOf(a) = Span(a, a + 1)
  BY DEF KM!RowsOf, KM!Trained, Span
<1>6. \A a \in Int : Span(a, a) = {}
  <2> SUFFICES ASSUME NEW a \in Int, NEW i \in DOMAIN points, a * d <= i, i < a * d
               PROVE  FALSE
    BY <1>1 DEF Span
  <2>1. a * d \in Int
    BY <1>2, SMT
  <2> QED
    BY <1>2, <2>1
<1>7. Span(0, KM!Chunks) = DOMAIN points
  <2>1. KM!Chunks * d >= n /\ KM!Chunks \in Nat
    BY <1>1, ChunkFacts
  <2>2. 0 * d = 0 /\ KM!Chunks * d \in Nat
    BY <1>2, <2>1, SMT
  <2>3. \A i \in DOMAIN points : 0 * d <= i /\ i < KM!Chunks * d
    BY <1>2, <2>1, <2>2
  <2> QED
    BY <1>1, <2>3 DEF Span
<1> QED
  BY <1>2, <1>3, <1>4, <1>5, <1>6, <1>7

\* A span is divided where one likes.
LEMMA SpanSplit ==
  ASSUME KM!KMeansAssumption, config \in Inputs, Sampled, config.chunk # 0,
         NEW a \in Int, NEW b \in Int, NEW e \in Int, a <= b, b <= e
  PROVE  Span(a, e) = Span(a, b) \cup Span(b, e) /\ Span(a, b) \cap Span(b, e) = {}
<1>1. PICK n, d : n = Cardinality(DOMAIN points) /\ d = config.chunk
  OBVIOUS
<1>2. DOMAIN points = 0..n - 1 /\ n \in Nat /\ d \in Nat
  BY <1>1, ConfigFacts, SampleFacts
<1>3. PICK p, q, r : p = a * d /\ q = b * d /\ r = e * d
  OBVIOUS
<1>4. p \in Int /\ q \in Int /\ r \in Int /\ p <= q /\ q <= r
  BY <1>2, <1>3, TimesGrow
<1>5. /\ Span(a, e) = {i \in 0..n - 1 : p <= i /\ i < r}
      /\ Span(a, b) = {i \in 0..n - 1 : p <= i /\ i < q}
      /\ Span(b, e) = {i \in 0..n - 1 : q <= i /\ i < r}
  BY <1>1, <1>2, <1>3 DEF Span
<1> QED
  BY <1>2, <1>4, <1>5

\* The rows of some chunks in a row are those of a span.
LEMMA SpanUnion ==
  ASSUME KM!KMeansAssumption, config \in Inputs, Sampled, config.chunk # 0,
         NEW a \in Nat, NEW b \in Int, a <= b
  PROVE  UNION {KM!RowsOf(x) : x \in a..b - 1} = Span(a, b)
<1>1. PICK n, d : n = Cardinality(DOMAIN points) /\ d = config.chunk
  OBVIOUS
<1>2. DOMAIN points = 0..n - 1 /\ n \in Nat /\ d \in Nat \ {0}
  BY <1>1, ConfigFacts, SampleFacts
<1>3. ASSUME NEW x \in a..b - 1 PROVE KM!RowsOf(x) \subseteq Span(a, b)
  <2>1. x \in Int /\ x + 1 \in Int /\ a <= x /\ x <= x + 1 /\ x + 1 <= b /\ a <= x + 1
    OBVIOUS
  <2>2. Span(a, b) = Span(a, x + 1) \cup Span(x + 1, b)
    BY <2>1, SpanSplit
  <2>3. Span(a, x + 1) = Span(a, x) \cup Span(x, x + 1)
    <3>1. PICK y : y = x + 1
      OBVIOUS
    <3>2. a \in Int /\ x \in Int /\ y \in Int /\ a <= x /\ x <= y
      BY <2>1, <3>1
    <3>3. Span(a, y) = Span(a, x) \cup Span(x, y)
      BY <3>2, SpanSplit
    <3> QED
      BY <3>1, <3>3
  <2> QED
    BY <2>2, <2>3, SpanFacts
<1>4. ASSUME NEW i \in Span(a, b) PROVE \E x \in a..b - 1 : i \in KM!RowsOf(x)
  <2>1. PICK x : x = i \div d
    OBVIOUS
  <2>2. i \in DOMAIN points /\ i \in Nat /\ a * d <= i /\ i < b * d
    BY <1>1, <1>2 DEF Span
  <2>3. x \in Nat /\ d * x <= i /\ i < d * x + d
    BY <1>2, <2>1, <2>2, Quotient
  <2>4. d * x = x * d /\ (x + 1) * d = x * d + d /\ x * d \in Int
    BY <1>2, <2>3, SMT
  <2>5. a <= x
    <3> SUFFICES ASSUME x + 1 <= a PROVE FALSE
      BY <2>3
    <3>1. (x + 1) * d <= a * d /\ a * d \in Int
      BY <1>2, <2>3, TimesGrow
    <3>2. PICK p, q, g : p = (x + 1) * d /\ q = a * d /\ g = x * d
      OBVIOUS
    <3>3. /\ g \in Int /\ q \in Int /\ i \in Int /\ d \in Int /\ p = g + d
          /\ p <= q /\ q <= i /\ i < g + d
      BY <1>2, <2>2, <2>3, <2>4, <3>1, <3>2
    <3> QED
      BY ONLY <3>3
  <2>6. x <= b - 1
    <3> SUFFICES ASSUME b <= x PROVE FALSE
      BY <2>3
    <3>1. b * d <= x * d /\ b * d \in Int
      BY <1>2, <2>3, TimesGrow
    <3>2. PICK p, q : p = x * d /\ q = b * d
      OBVIOUS
    <3>3. p \in Int /\ q \in Int /\ q <= p /\ i \in Int /\ p <= i /\ i < q
      BY <2>2, <2>3, <2>4, <3>1, <3>2
    <3> QED
      BY ONLY <3>3
  <2>7. i \in KM!RowsOf(x)
    BY <1>1, <2>2, <2>3, <2>4 DEF KM!RowsOf, KM!Trained
  <2> QED
    BY <2>3, <2>5, <2>6, <2>7
<1> QED
  BY <1>3, <1>4

-----------------------------------------------------------------------------
(* The steps of an iteration. *)

LEMMA FieldsOf ==
  ASSUME NEW from, NEW to, NEW up
  PROVE  LET s == KM!State(from, to, up)
         IN /\ Fields(s) /\ s.from = from /\ s.next = from /\ s.to = to /\ s.up = up
            /\ s.counts = [c \in KM!K |-> 0] /\ s.sums = [c \in KM!K |-> 0]
            /\ s.candidates = {} /\ s.assigned = <<>>
  BY DEF KM!State, Fields

\* The state of a thread that has folded no chunk holds what it should.
LEMMA EmptyHolds ==
  ASSUME KM!KMeansAssumption, config \in Inputs, Sampled, config.chunk # 0,
         NEW s, s.from \in Int, s.next = s.from,
         s.counts = [c \in KM!K |-> 0], s.sums = [c \in KM!K |-> 0],
         s.candidates = {}, s.assigned = <<>>
  PROVE  Holds(s)
<1>1. Span(s.from, s.next) = {}
  BY SpanFacts
<1>2. \A c : Part(s.from, s.next, c) = {}
  BY <1>1 DEF Part
<1>3. Cardinality({}) = 0 /\ SumOver({}, points) = 0
  BY FS_EmptySet, SumEmpty
<1>4. s.from..s.next - 1 = {}
  OBVIOUS
<1>5. <<>> = [i \in {} |-> KM!Near(i)]
  OBVIOUS
<1>6. s.candidates = UNION {KM!Candidates(x) : x \in s.from..s.next - 1}
  BY <1>4
<1>7. s.assigned = [i \in Span(s.from, s.next) |-> KM!Near(i)]
  BY <1>1, <1>5
<1>8. s.counts = [c \in KM!K |-> Cardinality(Part(s.from, s.next, c))]
  BY <1>2, <1>3
<1>9. s.sums = [c \in KM!K |-> SumOver(Part(s.from, s.next, c), points)]
  BY <1>2, <1>3
<1> QED
  BY <1>6, <1>7, <1>8, <1>9 DEF Holds

\* An iteration starts with all chunks to fold.
LEMMA FreshTrain ==
  ASSUME KM!KMeansAssumption, config \in Inputs, Sampled, config.chunk # 0,
         config' = config, points' = points, states' = KM!Fresh(KM!Trained)
  PROVE  StatesOK'
<1>1. PICK C : C = KM!Chunks
  OBVIOUS
<1>2. PICK s : s = KM!State(0, C, <<>>)
  OBVIOUS
<1>3. states' = {s} /\ KM!Chunks' = C
  BY <1>1, <1>2 DEF KM!Fresh, KM!Chunks, KM!Trained
<1>4. C \in Nat \ {0}
  BY <1>1, ChunkFacts
<1>5. /\ Fields(s) /\ s.from = 0 /\ s.next = 0 /\ s.to = C /\ s.up = <<>>
      /\ s.counts = [c \in KM!K |-> 0] /\ s.sums = [c \in KM!K |-> 0]
      /\ s.candidates = {} /\ s.assigned = <<>>
  BY <1>2, FieldsOf
<1>6. Holds(s)'
  <2>1. KM!K' = KM!K
    BY DEF KM!K
  <2>2. Span(s.from, s.next)' = {}
    <3>1. Span(s.from, s.next)' = Span(s.from, s.next)
      BY DEF Span
    <3> QED
      BY <1>5, <3>1, SpanFacts
  <2>3. \A c : Part(s.from, s.next, c)' = {}
    BY <2>2 DEF Part
  <2>4. Cardinality({}) = 0 /\ SumOver({}, points') = 0
    BY FS_EmptySet, SumEmpty
  <2>5. 0..0 - 1 = {}
    OBVIOUS
  <2>6. s.candidates = UNION {KM!Candidates(x)' : x \in s.from..s.next - 1}
    BY <1>5, <2>5
  <2>7. s.assigned = [i \in Span(s.from, s.next)' |-> KM!Near(i)']
    <3>1. <<>> = [i \in {} |-> KM!Near(i)']
      OBVIOUS
    <3> QED
      BY <1>5, <2>2, <3>1
  <2>8. s.counts = [c \in KM!K |-> Cardinality(Part(s.from, s.next, c)')]
    BY <1>5, <2>3, <2>4
  <2>9. s.sums = [c \in KM!K |-> SumOver(Part(s.from, s.next, c)', points')]
    BY <1>5, <2>3, <2>4
  <2> QED
    BY <2>1, <2>6, <2>7, <2>8, <2>9 DEF Holds
<1>7. Leads(s.up, s)'
  <2>1. <<>> \in Seq([from : Int, to : Int])
    OBVIOUS
  <2> QED
    BY <1>3, <1>5, <2>1 DEF Leads
<1>8. StateOK(s)'
  <2>1. 0 <= s.from /\ s.from <= s.next /\ s.next <= s.to /\ s.to <= C /\ s.from < s.to
        /\ s.from \in Int /\ s.next \in Int /\ s.to \in Int
    BY <1>4, <1>5
  <2>2. Fields(s)'
    BY <1>5 DEF Fields
  <2> QED
    BY <1>3, <1>6, <1>7, <2>1, <2>2 DEF StateOK
<1>9. \A x \in 0..C - 1 : Covers(s, x)
  BY <1>4, <1>5 DEF Covers
<1>10. \A x : Covers(s, x)' <=> Covers(s, x)
  BY DEF Covers
<1>11. \A t \in states' : t = s
  BY <1>3
<1>12. \A t \in states' : StateOK(t)'
  BY <1>8, <1>11
<1>13. \A x \in 0..KM!Chunks' - 1 : \E t \in states' : Covers(t, x)'
  BY <1>3, <1>9, <1>10
<1> QED
  BY <1>11, <1>12, <1>13 DEF StatesOK

\* initialize_centroids_random
LEMMA ForgyTrain ==
  ASSUME KM!KMeansAssumption, TrainInv, KM!Forgy
  PROVE  TrainInv'
<1>1. /\ config \in Inputs /\ config' = config /\ stage = "redo" /\ Sampled
      /\ points' = points /\ redo' = redo /\ result' = result
      /\ redo \in 0..config.nredo /\ redo < config.nredo
      /\ result = <<>> \/ Len(result) = 1
  BY DEF KM!Forgy, TrainInv
<1>2. Sampled'
  BY <1>1, SameSample
<1>3. config.niter \in Nat /\ 0 < config.niter /\ config.k \in Nat \ {0} /\ Unit \in Int
  BY <1>1, ConfigFacts DEF Sampled
<1>4. PICK n : n = Cardinality(DOMAIN points)
  OBVIOUS
<1>5. points \in [0..n - 1 -> Int] /\ KM!Trained = 0..n - 1
  BY <1>1, <1>4, SampleFacts DEF KM!Trained
<1>6. Centers(centroids, config.k)'
  <2>1. PICK f \in [KM!K -> KM!Trained] : centroids' = [c \in KM!K |-> Unit * points[f[c]]]
    BY DEF KM!Forgy
  <2>2. KM!K = 0..config.k - 1
    BY DEF KM!K
  <2>3. \A c \in KM!K : Unit * points[f[c]] \in Int
    BY <1>3, <1>5, <2>1
  <2> QED
    BY <1>1, <1>3, <2>1, <2>2, <2>3 DEF Centers
<1>7. CASE config.chunk = 0
  <2>1. stage' = "panic" /\ states' = {} /\ left' = 0
    BY <1>7 DEF KM!Forgy
  <2> QED
    BY <1>1, <1>3, <2>1 DEF TrainInv
<1>8. CASE config.chunk # 0
  <2>1. stage' = "fold" /\ states' = KM!Fresh(KM!Trained) /\ left' = config.niter
    BY <1>8 DEF KM!Forgy
  <2>2. StatesOK'
    BY <1>1, <1>8, <2>1, FreshTrain
  <2> QED
    BY <1>1, <1>2, <1>3, <1>6, <1>8, <2>1, <2>2 DEF TrainInv
<1> QED
  BY <1>7, <1>8

\* What a state should hold changes with the centroids and the sample only.
LEMMA SameStates ==
  ASSUME config' = config, points' = points, centroids' = centroids
  PROVE  /\ KM!Chunks' = KM!Chunks
         /\ \A s : StateOK(s)' <=> StateOK(s)
         /\ \A s, x : Covers(s, x)' <=> Covers(s, x)
<1>1. KM!Chunks' = KM!Chunks /\ KM!K' = KM!K
  BY DEF KM!Chunks, KM!Trained, KM!K
<1>2. \A a, b : Span(a, b)' = Span(a, b)
  BY DEF Span
<1>3. \A i : KM!Near(i)' = KM!Near(i) /\ KM!Distant(i)' = KM!Distant(i)
  BY DEF KM!Near, KM!Distant
<1>4. \A a, b, c : Part(a, b, c)' = Part(a, b, c)
  BY <1>2, <1>3 DEF Part
<1>5. \A x : KM!RowsOf(x)' = KM!RowsOf(x)
  BY DEF KM!RowsOf, KM!Trained
<1>6. \A x : KM!Candidates(x)' = KM!Candidates(x)
  BY <1>3, <1>5, Zenon DEF KM!Candidates
<1>7. \A s, w : HalfOf(s, w)' <=> HalfOf(s, w)
  BY DEF HalfOf
<1>8. \A u, s : Leads(u, s)' <=> Leads(u, s)
  BY <1>1, <1>7 DEF Leads
<1>9. \A s : Holds(s)' <=> Holds(s)
  <2> SUFFICES ASSUME NEW s PROVE Holds(s)' <=> Holds(s)
    OBVIOUS
  <2>1. [c \in KM!K' |-> Cardinality(Part(s.from, s.next, c)')]
          = [c \in KM!K |-> Cardinality(Part(s.from, s.next, c))]
    BY <1>1, <1>4
  <2>2. [c \in KM!K' |-> SumOver(Part(s.from, s.next, c)', points')]
          = [c \in KM!K |-> SumOver(Part(s.from, s.next, c), points)]
    BY <1>1, <1>4
  <2>3. UNION {KM!Candidates(x)' : x \in s.from..s.next - 1}
          = UNION {KM!Candidates(x) : x \in s.from..s.next - 1}
    BY <1>6
  <2>4. [i \in Span(s.from, s.next)' |-> KM!Near(i)']
          = [i \in Span(s.from, s.next) |-> KM!Near(i)]
    BY <1>2, <1>3
  <2> QED
    BY <2>1, <2>2, <2>3, <2>4 DEF Holds
<1>10. \A s : StateOK(s)' <=> StateOK(s)
  <2> SUFFICES ASSUME NEW s PROVE StateOK(s)' <=> StateOK(s)
    OBVIOUS
  <2>1. Fields(s)' <=> Fields(s)
    BY DEF Fields
  <2> QED
    BY <1>1, <1>8, <1>9, <2>1 DEF StateOK
<1>11. \A s, x : Covers(s, x)' <=> Covers(s, x)
  BY DEF Covers
<1> QED
  BY <1>1, <1>10, <1>11

\* A step of a thread, which leaves all else alone.
LEMMA ThreadStep ==
  ASSUME TrainInv, stage = "fold", StatesOK',
         config' = config, stage' = stage, points' = points, centroids' = centroids,
         left' = left, redo' = redo, result' = result
  PROVE  TrainInv'
<1>1. Sampled'
  BY SameSample DEF TrainInv
<1>2. Centers(centroids, config.k)'
  BY DEF TrainInv, Centers
<1> QED
  BY <1>1, <1>2 DEF TrainInv

\* The halves of a range lead on from where the range does.
LEMMA LeadsOn ==
  ASSUME NEW s, NEW t, NEW up, Leads(s.up, s), s.from \in Int, s.to \in Int,
         up = Append(s.up, [from |-> s.from, to |-> s.to]), HalfOf(t, [from |-> s.from, to |-> s.to])
  PROVE  Leads(up, t)
<1>1. PICK w, n : w = [from |-> s.from, to |-> s.to] /\ n = Len(s.up)
  OBVIOUS
<1>2. w \in [from : Int, to : Int] /\ s.up \in Seq([from : Int, to : Int]) /\ n \in Nat
  BY <1>1 DEF Leads
<1>3. /\ up \in Seq([from : Int, to : Int]) /\ Len(up) = n + 1 /\ up[n + 1] = w
      /\ \A i \in 1..n : up[i] = s.up[i]
  BY <1>1, <1>2
<1>4. up # <<>>
  BY <1>2, <1>3
<1>5. w.from = s.from /\ w.to = s.to
  BY <1>1
<1>6. HalfOf(t, up[Len(up)])
  BY <1>1, <1>3
<1>7. CASE s.up = <<>>
  <2>1. n = 0
    BY <1>1, <1>7
  <2>2. up[1] = w /\ s.from = 0 /\ s.to = KM!Chunks
    BY <1>3, <1>7, <2>1 DEF Leads
  <2>3. \A i \in 1..Len(up) - 1 : HalfOf(up[i + 1], up[i])
    BY <1>3, <2>1
  <2> QED
    BY <1>3, <1>4, <1>5, <1>6, <2>2, <2>3 DEF Leads
<1>8. CASE s.up # <<>>
  <2>1. n \in Nat \ {0}
    BY <1>1, <1>2, <1>8
  <2>2. /\ s.up[1].from = 0 /\ s.up[1].to = KM!Chunks
        /\ HalfOf(s, s.up[n])
        /\ \A i \in 1..n - 1 : HalfOf(s.up[i + 1], s.up[i])
    BY <1>1, <1>8 DEF Leads
  <2>3. up[1] = s.up[1]
    BY <1>3, <2>1
  <2>4. ASSUME NEW i \in 1..Len(up) - 1 PROVE HalfOf(up[i + 1], up[i])
    <3>1. i \in 1..n
      BY <1>3, <1>2
    <3>2. CASE i = n
      <4>1. up[i + 1] = w /\ up[i] = s.up[n]
        BY <1>3, <2>1, <3>2
      <4> QED
        BY <1>5, <2>2, <4>1 DEF HalfOf
    <3>3. CASE i # n
      <4>1. i \in 1..n - 1 /\ i + 1 \in 1..n
        BY <2>1, <3>1, <3>3
      <4> QED
        BY <1>3, <2>2, <3>1, <4>1
    <3> QED
      BY <3>2, <3>3
  <2> QED
    BY <1>3, <1>4, <1>6, <2>2, <2>3, <2>4 DEF Leads
<1> QED
  BY <1>7, <1>8

\* Each chunk is covered as before when some ranges give way to others that
\* cover the same chunks, each once.
LEMMA CoverStep ==
  ASSUME StatesOK, NEW olds, olds \subseteq states, NEW news,
         \A x \in 0..KM!Chunks - 1, t \in olds : Covers(t, x) => \E u \in news : Covers(u, x),
         \A x \in 0..KM!Chunks - 1, u \in news : Covers(u, x) => \E t \in olds : Covers(t, x),
         \A x \in 0..KM!Chunks - 1, u, v \in news : Covers(u, x) /\ Covers(v, x) => u = v,
         \A u \in news : StateOK(u),
         states' = (states \ olds) \cup news,
         config' = config, points' = points, centroids' = centroids
  PROVE  StatesOK'
<1>1. /\ KM!Chunks' = KM!Chunks
      /\ \A s : StateOK(s)' <=> StateOK(s)
      /\ \A s, x : Covers(s, x)' <=> Covers(s, x)
  BY SameStates
<1>2. \A s \in states' : StateOK(s)
  BY DEF StatesOK
<1>3. ASSUME NEW x \in 0..KM!Chunks - 1 PROVE \E s \in states' : Covers(s, x)
  <2>1. PICK s \in states : Covers(s, x)
    BY DEF StatesOK
  <2> QED
    BY <2>1
<1>4. ASSUME NEW x \in 0..KM!Chunks - 1, NEW s \in states', NEW t \in states',
             Covers(s, x), Covers(t, x)
      PROVE  s = t
  <2>1. \A u, v \in states : Covers(u, x) /\ Covers(v, x) => u = v
    BY DEF StatesOK
  <2>2. CASE s \in news /\ t \in news
    BY <1>4, <2>2
  <2>3. CASE s \in news /\ t \notin news
    <3>1. PICK u \in olds : Covers(u, x)
      BY <1>4, <2>3
    <3> QED
      BY <1>4, <2>1, <2>3, <3>1
  <2>4. CASE s \notin news /\ t \in news
    <3>1. PICK u \in olds : Covers(u, x)
      BY <1>4, <2>4
    <3> QED
      BY <1>4, <2>1, <2>4, <3>1
  <2>5. CASE s \notin news /\ t \notin news
    BY <1>4, <2>1, <2>5
  <2> QED
    BY <2>2, <2>3, <2>4, <2>5
<1> QED
  BY <1>1, <1>2, <1>3, <1>4 DEF StatesOK

LEMMA SplitTrain ==
  ASSUME KM!KMeansAssumption, TrainInv, NEW s \in states, KM!Split(s)
  PROVE  TrainInv'
<1>1. PICK mid, up :
        /\ mid = s.from + (s.to - s.from) \div 2
        /\ up = Append(s.up, [from |-> s.from, to |-> s.to])
        /\ states' = (states \ {s}) \cup {KM!State(s.from, mid, up), KM!State(mid, s.to, up)}
  BY DEF KM!Split
<1>2. /\ stage = "fold" /\ s.next = s.from /\ s.to - s.from >= 2
      /\ config' = config /\ stage' = stage /\ points' = points /\ centroids' = centroids
      /\ left' = left /\ redo' = redo /\ result' = result
  BY DEF KM!Split
<1>3. /\ config \in Inputs /\ Sampled /\ config.chunk # 0 /\ StatesOK
      /\ StateOK(s)
  BY <1>2 DEF TrainInv, StatesOK
<1>4. /\ s.from \in Int /\ s.to \in Int /\ 0 <= s.from /\ s.to <= KM!Chunks
      /\ Leads(s.up, s)
  BY <1>3 DEF StateOK
<1>5. mid \in Int /\ s.from < mid /\ mid < s.to
  <2>1. PICK d : d = s.to - s.from
    OBVIOUS
  <2>2. d \in Nat /\ d >= 2
    BY <1>2, <1>4, <2>1
  <2>3. d \div 2 \in Int /\ 0 < d \div 2 /\ d \div 2 < d
    BY <2>2, SMT
  <2> QED
    BY <1>1, <1>4, <2>1, <2>3
<1>6. PICK a, b : a = KM!State(s.from, mid, up) /\ b = KM!State(mid, s.to, up)
  OBVIOUS
<1>7. PICK w : w = [from |-> s.from, to |-> s.to]
  OBVIOUS
<1>8. w.from = s.from /\ w.to = s.to
  BY <1>7
<1>9. StateOK(a) /\ a.from = s.from /\ a.to = mid
  <2>1. /\ Fields(a) /\ a.from = s.from /\ a.next = s.from /\ a.to = mid /\ a.up = up
        /\ a.counts = [c \in KM!K |-> 0] /\ a.sums = [c \in KM!K |-> 0]
        /\ a.candidates = {} /\ a.assigned = <<>>
    BY <1>6, FieldsOf
  <2>2. Holds(a)
    BY <1>3, <1>4, <2>1, EmptyHolds
  <2>3. HalfOf(a, w)
    BY <1>1, <1>2, <1>8, <2>1 DEF HalfOf
  <2>4. Leads(a.up, a)
    BY <1>1, <1>4, <1>7, <2>1, <2>3, LeadsOn
  <2>5. mid <= KM!Chunks
    <3>1. KM!Chunks \in Int
      BY <1>3, ChunkFacts
    <3> QED
      BY <1>4, <1>5, <3>1
  <2> QED
    BY <1>4, <1>5, <2>1, <2>2, <2>4, <2>5 DEF StateOK
<1>10. StateOK(b) /\ b.from = mid /\ b.to = s.to
  <2>1. /\ Fields(b) /\ b.from = mid /\ b.next = mid /\ b.to = s.to /\ b.up = up
        /\ b.counts = [c \in KM!K |-> 0] /\ b.sums = [c \in KM!K |-> 0]
        /\ b.candidates = {} /\ b.assigned = <<>>
    BY <1>6, FieldsOf
  <2>2. Holds(b)
    BY <1>3, <1>5, <2>1, EmptyHolds
  <2>3. HalfOf(b, w)
    BY <1>1, <1>2, <1>8, <2>1 DEF HalfOf
  <2>4. Leads(b.up, b)
    BY <1>1, <1>4, <1>7, <2>1, <2>3, LeadsOn
  <2> QED
    BY <1>4, <1>5, <2>1, <2>2, <2>4 DEF StateOK
<1>11. StatesOK'
  <2>1. PICK olds, news : olds = {s} /\ news = {a, b}
    OBVIOUS
  <2>2. olds \subseteq states /\ states' = (states \ olds) \cup news
    BY <1>1, <1>6, <2>1
  <2>3. \A x \in Int : /\ Covers(s, x) <=> Covers(a, x) \/ Covers(b, x)
                       /\ ~(Covers(a, x) /\ Covers(b, x))
    BY <1>4, <1>5, <1>9, <1>10 DEF Covers
  <2>4. \A x \in 0..KM!Chunks - 1, t \in olds : Covers(t, x) => \E u \in news : Covers(u, x)
    BY <2>1, <2>3
  <2>5. \A x \in 0..KM!Chunks - 1, u \in news : Covers(u, x) => \E t \in olds : Covers(t, x)
    BY <2>1, <2>3
  <2>6. \A x \in 0..KM!Chunks - 1, u, v \in news : Covers(u, x) /\ Covers(v, x) => u = v
    BY <2>1, <2>3
  <2>7. \A u \in news : StateOK(u)
    BY <1>9, <1>10, <2>1
  <2> QED
    BY <1>2, <1>3, <2>2, <2>4, <2>5, <2>6, <2>7, CoverStep
<1> QED
  BY <1>2, <1>11, ThreadStep

-----------------------------------------------------------------------------
(* What a fold adds. *)

LEMMA PowerNat ==
  ASSUME Mantissa \in 15..30
  PROVE  2^Mantissa \in Nat
<1>1. \A m \in 15..30 : \/ m = 15 \/ m = 16 \/ m = 17 \/ m = 18 \/ m = 19 \/ m = 20 \/ m = 21
                        \/ m = 22 \/ m = 23 \/ m = 24 \/ m = 25 \/ m = 26 \/ m = 27 \/ m = 28
                        \/ m = 29 \/ m = 30
  OBVIOUS
<1>2. /\ 2^15 \in Nat /\ 2^16 \in Nat /\ 2^17 \in Nat /\ 2^18 \in Nat
      /\ 2^19 \in Nat /\ 2^20 \in Nat /\ 2^21 \in Nat /\ 2^22 \in Nat
      /\ 2^23 \in Nat /\ 2^24 \in Nat /\ 2^25 \in Nat /\ 2^26 \in Nat
      /\ 2^27 \in Nat /\ 2^28 \in Nat /\ 2^29 \in Nat /\ 2^30 \in Nat
  BY SMT
<1> QED
  BY <1>1, <1>2, Zenon

\* No sum of sampled points is rounded.
LEMMA SumFits ==
  ASSUME KM!KMeansAssumption, Fits, config \in Inputs, Sampled,
         NEW S, S \subseteq DOMAIN points
  PROVE  SumOver(S, points) \in Int /\ KM!Rounded(SumOver(S, points)) = SumOver(S, points)
<1>1. PICK n, N : n = Cardinality(DOMAIN points) /\ N = Cardinality(KM!Rows)
  OBVIOUS
<1>2. /\ n \in Nat /\ N \in Nat /\ n <= N /\ DOMAIN points = 0..n - 1
      /\ IsFiniteSet(DOMAIN points)
      /\ \A i \in 0..n - 1 : points[i] \in Int /\ \E r \in KM!Rows : points[i] = config.data[r]
  BY <1>1, SampleFacts, ConfigFacts
<1>3. PICK m \in Nat : /\ \A r \in KM!Rows : -m <= config.data[r] /\ config.data[r] <= m
                       /\ N * m < 2^Mantissa
  BY <1>1 DEF Fits, KM!Rows
<1>4. \A i \in S : points[i] \in Int /\ -m <= points[i] /\ points[i] <= m
  BY <1>2, <1>3
<1>5. IsFiniteSet(S) /\ Cardinality(S) \in Nat /\ Cardinality(S) <= n
  BY <1>1, <1>2, FS_Subset, FS_CardinalityType
<1>6. PICK c, v : c = Cardinality(S) /\ v = SumOver(S, points)
  OBVIOUS
<1>7. v \in Int /\ -(c * m) <= v /\ v <= c * m
  BY <1>4, <1>5, <1>6, SumBound
<1>8. c * m \in Int /\ N * m \in Int /\ c * m <= N * m
  BY <1>2, <1>5, <1>6, TimesGrow
<1>9. 2^Mantissa \in Nat /\ Mantissa \in 15..30
  BY PowerNat DEF Fits
<1>10. v < 2^Mantissa /\ -v < 2^Mantissa
  BY <1>3, <1>7, <1>8, <1>9
<1> QED
  BY <1>6, <1>7, <1>9, <1>10, RoundedIs

\* Rows first..last added one after the other to the sums of their clusters.
Adding(first, last, s0, near, p) ==
  [i \in first - 1..last |->
     [c \in DOMAIN s0 |-> s0[c] + SumOver({j \in first..i : near[j] = c}, p)]]
Turned(first, last, s0, near, p, g) ==
  [i \in first - 1..last |->
     IF i < first THEN s0 ELSE [g[i - 1] EXCEPT ![near[i]] = KM!Rounded(@ + p[i])]]

\* None of the sums is rounded.
Whole(first, last, s0, near, p) ==
  \A i \in first..last, c \in DOMAIN s0 :
    KM!Rounded(s0[c] + SumOver({j \in first..i : near[j] = c}, p))
      = s0[c] + SumOver({j \in first..i : near[j] = c}, p)

\* What adding them one after the other comes to.
Runs(first, last, s0, near, p) ==
  /\ \E g : g = Turned(first, last, s0, near, p, g)
  /\ \A g : g = Turned(first, last, s0, near, p, g) =>
       g[last] = Adding(first, last, s0, near, p)[last]

\* Turn by turn, unrounded, the sums come to those of the rows added.
LEMMA RunningSums ==
  ASSUME NEW first \in Int, NEW last \in Int, first <= last,
         NEW s0, NEW C, s0 \in [C -> Int],
         NEW near, \A i \in first..last : near[i] \in C,
         NEW p, \A i \in first..last : p[i] \in Int,
         Whole(first, last, s0, near, p)
  PROVE  Runs(first, last, s0, near, p)
<1> DEFINE P(i, c) == {j \in first..i : near[j] = c}
           V(i, c) == s0[c] + SumOver(P(i, c), p)
           G == Adding(first, last, s0, near, p)
<1>1. DOMAIN s0 = C /\ \A c \in C : s0[c] \in Int
  OBVIOUS
<1>2. \A i \in first - 1..last, c \in C :
        /\ IsFiniteSet(P(i, c)) /\ \A j \in P(i, c) : p[j] \in Int
        /\ SumOver(P(i, c), p) \in Int
  <2> SUFFICES ASSUME NEW i \in first - 1..last, NEW c \in C
               PROVE  /\ IsFiniteSet(P(i, c)) /\ \A j \in P(i, c) : p[j] \in Int
                      /\ SumOver(P(i, c), p) \in Int
    OBVIOUS
  <2>1. PICK S : S = P(i, c)
    OBVIOUS
  <2>2. S \subseteq first..last /\ \A j \in S : p[j] \in Int
    BY <2>1
  <2>3. IsFiniteSet(S)
    BY <2>2, FS_Interval, FS_Subset
  <2>4. SumOver(S, p) \in Int
    BY <2>2, <2>3, SumInt
  <2> QED
    BY <2>1, <2>2, <2>3, <2>4
<1>3. DOMAIN G = first - 1..last
      /\ \A i \in first - 1..last : G[i] = [c \in C |-> V(i, c)]
  BY <1>1 DEF Adding
<1>4. G[first - 1] = s0
  <2>1. first - 1 \in first - 1..last /\ first..first - 1 = {}
    OBVIOUS
  <2>2. \A c \in C : P(first - 1, c) = {}
    BY <2>1
  <2>3. \A c \in C : V(first - 1, c) = s0[c]
    BY <1>1, <2>2, SumEmpty
  <2>4. G[first - 1] = [c \in C |-> V(first - 1, c)]
    BY <1>3, <2>1
  <2> HIDE DEF V, G
  <2> QED
    BY <2>3, <2>4
<1>5. ASSUME NEW i \in first..last
      PROVE  G[i] = [G[i - 1] EXCEPT ![near[i]] = KM!Rounded(@ + p[i])]
  <2>1. i - 1 \in first - 1..last /\ i \in first - 1..last /\ near[i] \in C
    OBVIOUS
  <2>2. G[i - 1] = [c \in C |-> V(i - 1, c)] /\ G[i] = [c \in C |-> V(i, c)]
    BY <1>3, <2>1
  <2>3. ASSUME NEW c \in C, c # near[i] PROVE V(i, c) = V(i - 1, c)
    <3>1. P(i, c) = P(i - 1, c)
      BY <2>3
    <3> QED
      BY <3>1
  <2>4. V(i, near[i]) = KM!Rounded(V(i - 1, near[i]) + p[i])
    <3>1. PICK S, b : b = near[i] /\ S = P(i, b)
      OBVIOUS
    <3>2. i \in S /\ P(i - 1, b) = S \ {i} /\ b \in C
      BY <2>1, <3>1
    <3>3. SumOver(S, p) = p[i] + SumOver(S \ {i}, p)
      <4>1. IsFiniteSet(S) /\ \A j \in S : p[j] \in Int
        BY <1>2, <2>1, <3>1
      <4> QED
        BY <3>2, <4>1, SumRemove
    <3>4. SumOver(S, p) \in Int /\ SumOver(S \ {i}, p) \in Int /\ p[i] \in Int /\ s0[b] \in Int
      BY <1>1, <1>2, <2>1, <3>1, <3>2
    <3>5. V(i, b) = V(i - 1, b) + p[i]
      <4>1. V(i, b) = s0[b] + SumOver(S, p)
        BY <3>1, Zenon
      <4>2. V(i - 1, b) = s0[b] + SumOver(S \ {i}, p)
        BY <3>2, Zenon
      <4> HIDE DEF V
      <4> QED
        BY <3>3, <3>4, <4>1, <4>2
    <3>6. KM!Rounded(V(i, b)) = V(i, b)
      <4>1. KM!Rounded(s0[b] + SumOver({j \in first..i : near[j] = b}, p))
              = s0[b] + SumOver({j \in first..i : near[j] = b}, p)
        BY <1>1, <3>2 DEF Whole
      <4> QED
        BY <4>1
    <3> QED
      BY <3>1, <3>5, <3>6
  <2> HIDE DEF V, G
  <2> QED
    BY <2>1, <2>2, <2>3, <2>4
<1>6. G = Turned(first, last, s0, near, p, G)
  <2>1. ASSUME NEW i \in first - 1..last
        PROVE  G[i] = IF i < first THEN s0
                      ELSE [G[i - 1] EXCEPT ![near[i]] = KM!Rounded(@ + p[i])]
    <3> HIDE DEF G
    <3>1. CASE i < first
      <4>1. i = first - 1
        BY <3>1
      <4> QED
        BY <1>4, <3>1, <4>1
    <3>2. CASE ~(i < first)
      <4>1. i \in first..last
        BY <3>2
      <4> QED
        BY <1>5, <3>2, <4>1
    <3> QED
      BY <3>1, <3>2
  <2>2. G = [i \in first - 1..last |-> G[i]]
    BY DEF Adding
  <2> HIDE DEF G
  <2> QED
    BY <2>1, <2>2 DEF Turned
<1>7. \E g : g = Turned(first, last, s0, near, p, g)
  <2> HIDE DEF G
  <2> QED
    BY <1>6
<1>8. ASSUME NEW g, g = Turned(first, last, s0, near, p, g)
      PROVE  g[last] = G[last]
  <2>1. \A i \in first - 1..last :
          g[i] = IF i < first THEN s0
                 ELSE [g[i - 1] EXCEPT ![near[i]] = KM!Rounded(@ + p[i])]
    BY <1>8 DEF Turned
  <2> DEFINE N == {k \in Nat : first - 1 + k <= last => g[first - 1 + k] = G[first - 1 + k]}
  <2> HIDE DEF G
  <2>2. 0 \in N
    <3>1. first - 1 + 0 = first - 1 /\ first - 1 < first /\ first - 1 \in first - 1..last
      OBVIOUS
    <3>2. g[first - 1] = s0
      BY <2>1, <3>1
    <3> QED
      BY <1>4, <3>1, <3>2
  <2>3. ASSUME NEW k \in N PROVE k + 1 \in N
    <3> SUFFICES ASSUME first - 1 + (k + 1) <= last
                 PROVE  g[first - 1 + (k + 1)] = G[first - 1 + (k + 1)]
      OBVIOUS
    <3>1. PICK i : i = first - 1 + (k + 1)
      OBVIOUS
    <3>2. i \in first..last /\ i \in first - 1..last /\ ~(i < first) /\ i - 1 = first - 1 + k
          /\ first - 1 + k <= last
      BY <3>1
    <3>3. g[i - 1] = G[i - 1]
      BY <3>2
    <3>4. g[i] = [g[i - 1] EXCEPT ![near[i]] = KM!Rounded(@ + p[i])]
      BY <2>1, <3>2
    <3>5. G[i] = [G[i - 1] EXCEPT ![near[i]] = KM!Rounded(@ + p[i])]
      BY <1>5, <3>2
    <3>6. g[i] = G[i]
      BY <3>3, <3>4, <3>5
    <3> QED
      BY <3>1, <3>6
  <2>4. N = Nat
    <3> HIDE DEF N
    <3>1. N \subseteq Nat
      BY DEF N
    <3> QED
      BY <2>2, <2>3, <3>1, SetInduction
  <2>5. last - first + 1 \in Nat /\ first - 1 + (last - first + 1) = last
    OBVIOUS
  <2>6. g[last] = G[last]
    <3>1. PICK k \in Nat : first - 1 + k = last
      BY <2>5
    <3>2. k \in N
      BY <2>4
    <3> QED
      BY <3>1, <3>2
  <2> QED
    BY <2>6
<1> QED
  BY <1>7, <1>8 DEF Runs

\* The rows of a chunk are one after the other.
LEMMA RowsRange ==
  ASSUME KM!KMeansAssumption, config \in Inputs, Sampled, config.chunk # 0,
         NEW x \in 0..KM!Chunks - 1
  PROVE  \E first, last \in Int :
           /\ first <= last /\ KM!RowsOf(x) = first..last
           /\ KM!Min(KM!RowsOf(x)) = first /\ KM!Max(KM!RowsOf(x)) = last
<1>1. PICK n, d : n = Cardinality(DOMAIN points) /\ d = config.chunk
  OBVIOUS
<1>2. /\ DOMAIN points = 0..n - 1 /\ n \in Nat /\ d \in Nat \ {0}
      /\ x * d \in Nat /\ x * d < n /\ x \in Int
  BY <1>1, ConfigFacts, SampleFacts, ChunkFacts
<1>3. PICK a, b : a = x * d /\ b = (x + 1) * d
  OBVIOUS
<1>4. b = a + d /\ a \in Nat /\ b \in Int /\ a < n
  BY <1>2, <1>3, SMT
<1>5. PICK last : last = IF b <= n THEN b - 1 ELSE n - 1
  OBVIOUS
<1>6. last \in Int /\ a <= last
  BY <1>2, <1>4, <1>5
<1>7. KM!RowsOf(x) = {i \in 0..n - 1 : a <= i /\ i < b}
  BY <1>1, <1>2, <1>3 DEF KM!RowsOf, KM!Trained
<1>8. KM!RowsOf(x) = a..last
  BY <1>2, <1>4, <1>5, <1>7
<1>9. KM!Min(KM!RowsOf(x)) = a
  <2>1. PICK S : S = a..last
    OBVIOUS
  <2>2. S \subseteq Int /\ a \in S /\ \A y \in S : a <= y
    BY <1>4, <1>6, <2>1
  <2> QED
    BY <1>8, <2>1, <2>2, MinIs
<1>10. KM!Max(KM!RowsOf(x)) = last
  <2>1. PICK S : S = a..last
    OBVIOUS
  <2>2. S \subseteq Int /\ last \in S /\ \A y \in S : last >= y
    BY <1>4, <1>6, <2>1
  <2>3. KM!Max(S) \in S /\ \A y \in S : KM!Max(S) >= y
    BY <2>2 DEF KM!Max
  <2>4. KM!Max(S) = last
    <3>1. KM!Max(S) \in Int /\ last \in Int /\ KM!Max(S) >= last /\ last >= KM!Max(S)
      BY <2>2, <2>3
    <3> QED
      BY <3>1
  <2> QED
    BY <1>8, <2>1, <2>4
<1> QED
  BY <1>4, <1>6, <1>8, <1>9, <1>10

\* The clusters of points.
LEMMA NearType ==
  ASSUME KM!KMeansAssumption, config \in Inputs, Sampled, Centers(centroids, config.k)
  PROVE  \A i \in DOMAIN points : KM!Near(i) \in KM!K /\ points[i] \in Int
<1> SUFFICES ASSUME NEW i \in DOMAIN points
             PROVE  KM!Near(i) \in KM!K /\ points[i] \in Int
  OBVIOUS
<1>1. points[i] \in Int
  BY SampleFacts
<1>2. Unit \in Int
  BY ConfigFacts
<1>3. KM!Nearest(points[i], centroids) \in 0..config.k - 1
  <2>1. PICK x, k, z : x = points[i] /\ k = config.k /\ z = centroids
    OBVIOUS
  <2>2. x \in Int /\ Centers(z, k)
    BY <1>1, <2>1
  <2>3. KM!Nearest(x, z) \in 0..k - 1
    BY <1>2, <2>2, NearestFacts
  <2> QED
    BY <2>1, <2>3
<1> QED
  BY <1>1, <1>3 DEF KM!Near, KM!K

\* Two spans in a row have together what each has.
LEMMA PartsAdd ==
  ASSUME KM!KMeansAssumption, config \in Inputs, Sampled, config.chunk # 0,
         NEW a \in Int, NEW b \in Int, NEW e \in Int, a <= b, b <= e, NEW c
  PROVE  /\ Cardinality(Part(a, e, c)) = Cardinality(Part(a, b, c)) + Cardinality(Part(b, e, c))
         /\ SumOver(Part(a, e, c), points) = SumOver(Part(a, b, c), points) + SumOver(Part(b, e, c), points)
<1>1. Span(a, e) = Span(a, b) \cup Span(b, e) /\ Span(a, b) \cap Span(b, e) = {}
  BY SpanSplit
<1>2. PICK A, B : A = Part(a, b, c) /\ B = Part(b, e, c)
  OBVIOUS
<1>3. Part(a, e, c) = A \cup B /\ A \cap B = {} /\ A \subseteq DOMAIN points /\ B \subseteq DOMAIN points
  BY <1>1, <1>2 DEF Part, Span
<1>4. \A i \in DOMAIN points : points[i] \in Int
  BY SampleFacts
<1>5. IsFiniteSet(A) /\ IsFiniteSet(B)
  BY <1>3, SampleFacts, FS_Subset
<1>6. Cardinality(A \cup B) = Cardinality(A) + Cardinality(B)
  <2>1. Cardinality(A \cup B) = Cardinality(A) + Cardinality(B) - Cardinality(A \cap B)
    BY <1>5, FS_Union
  <2>2. Cardinality(A \cap B) = 0 /\ Cardinality(A) \in Nat /\ Cardinality(B) \in Nat
    BY <1>3, <1>5, FS_EmptySet, FS_CardinalityType
  <2> QED
    BY <2>1, <2>2
<1>7. SumOver(A \cup B, points) = SumOver(A, points) + SumOver(B, points)
  BY <1>3, <1>4, <1>5, SumUnion
<1> QED
  BY <1>2, <1>3, <1>6, <1>7

\* The sums of one more chunk.
LEMMA FoldedSums ==
  ASSUME KM!KMeansAssumption, Fits, config \in Inputs, Sampled, config.chunk # 0,
         Centers(centroids, config.k), NEW s, StateOK(s), s.next < s.to
  PROVE  KM!Folded(s).sums = [c \in KM!K |-> SumOver(Part(s.from, s.next + 1, c), points)]
<1>1. PICK x, rows : x = s.next /\ rows = KM!RowsOf(x)
  OBVIOUS
<1>2. /\ x \in 0..KM!Chunks - 1 /\ s.from \in Int /\ s.from <= x /\ x \in Int
      /\ s.sums = [c \in KM!K |-> SumOver(Part(s.from, x, c), points)]
      /\ Fields(s)
  <2>1. KM!Chunks \in Nat
    BY ChunkFacts
  <2> QED
    BY <1>1, <2>1 DEF StateOK, Holds
<1>3. PICK first \in Int, last \in Int :
        first <= last /\ rows = first..last /\ KM!Min(rows) = first /\ KM!Max(rows) = last
  BY <1>1, <1>2, RowsRange
<1>4. rows = Span(x, x + 1) /\ rows \subseteq DOMAIN points
  BY <1>1, SpanFacts
<1>5. PICK near : near = [i \in first..last |-> KM!Near(i)]
  OBVIOUS
<1>6. /\ \A i \in first..last : near[i] = KM!Near(i) /\ near[i] \in KM!K /\ points[i] \in Int
      /\ \A i \in DOMAIN points : points[i] \in Int
  BY <1>3, <1>4, <1>5, NearType
<1>7. \A i \in first..last : \A c : {j \in first..i : near[j] = c} \subseteq Part(x, x + 1, c)
  BY <1>3, <1>4, <1>6 DEF Part
<1>8. \A c : {j \in first..last : near[j] = c} = Part(x, x + 1, c)
  BY <1>3, <1>4, <1>6 DEF Part
<1>9. s.sums \in [KM!K -> Int]
  <2>1. \A c : Part(s.from, x, c) \subseteq DOMAIN points
    BY DEF Part, Span
  <2>2. \A c : SumOver(Part(s.from, x, c), points) \in Int
    BY <2>1, SumFits
  <2> QED
    BY <1>2, <2>2
<1>10. ASSUME NEW i \in first..last, NEW c \in KM!K
       PROVE  KM!Rounded(s.sums[c] + SumOver({j \in first..i : near[j] = c}, points))
                = s.sums[c] + SumOver({j \in first..i : near[j] = c}, points)
  <2>1. PICK A, B : A = Part(s.from, x, c) /\ B = {j \in first..i : near[j] = c}
    OBVIOUS
  <2>2. A \subseteq DOMAIN points /\ B \subseteq DOMAIN points /\ A \cap B = {}
    <3>1. B \subseteq Span(x, x + 1) /\ A \subseteq Span(s.from, x)
      BY <1>7, <2>1 DEF Part
    <3>2. PICK y : y = x + 1
      OBVIOUS
    <3>3. y \in Int /\ x <= y
      BY <1>2, <3>2
    <3>4. Span(s.from, x) \cap Span(x, y) = {}
      BY <1>2, <3>3, SpanSplit
    <3> QED
      BY <3>1, <3>2, <3>4, SpanFacts
  <2>3. IsFiniteSet(A) /\ IsFiniteSet(B)
    BY <2>2, SampleFacts, FS_Subset
  <2>4. SumOver(A \cup B, points) = SumOver(A, points) + SumOver(B, points)
    BY <1>6, <2>2, <2>3, SumUnion
  <2>5. KM!Rounded(SumOver(A \cup B, points)) = SumOver(A \cup B, points)
    <3>1. A \cup B \subseteq DOMAIN points
      BY <2>2
    <3> QED
      BY <3>1, SumFits
  <2>6. s.sums[c] = SumOver(A, points)
    BY <1>2, <2>1
  <2> QED
    BY <2>1, <2>4, <2>5, <2>6
<1>11. PICK s0, C : s0 = s.sums /\ C = KM!K
  OBVIOUS
<1>12. /\ \E g : g = Turned(first, last, s0, near, points, g)
       /\ \A g : g = Turned(first, last, s0, near, points, g) =>
            g[last] = Adding(first, last, s0, near, points)[last]
  <2>1. s0 \in [C -> Int]
    BY <1>9, <1>11
  <2>2. PICK p : p = points
    OBVIOUS
  <2>3. \A i \in first..last : near[i] \in C
    BY <1>6, <1>11
  <2>4. \A i \in first..last : p[i] \in Int
    BY <1>6, <2>2
  <2>5. Whole(first, last, s0, near, p)
    BY <1>10, <1>11, <2>1, <2>2 DEF Whole
  <2>6. first <= last
    BY <1>3
  <2>7. Runs(first, last, s0, near, p)
    BY ONLY first \in Int, last \in Int, <2>1, <2>3, <2>4, <2>5, <2>6, RunningSums, Zenon
  <2> QED
    BY <2>2, <2>7 DEF Runs
<1> DEFINE Turn(g) == [i \in first - 1..last |->
              IF i < first THEN s.sums
              ELSE [g[i - 1] EXCEPT ![KM!Near(i)] = KM!Rounded(@ + points[i])]]
<1>13. \A g : Turn(g) = Turned(first, last, s0, near, points, g)
  <2> SUFFICES ASSUME NEW g PROVE Turn(g) = Turned(first, last, s0, near, points, g)
    OBVIOUS
  <2>1. \A i \in first - 1..last : ~(i < first) => KM!Near(i) = near[i]
    BY <1>6
  <2> QED
    BY <1>11, <2>1 DEF Turned
<1>14. KM!Folded(s).sums = (CHOOSE g : g = Turn(g))[last]
  <2>1. "sums" \in DOMAIN s
    BY <1>2 DEF Fields
  <2>2. KM!Min(KM!RowsOf(s.next)) = first /\ KM!Max(KM!RowsOf(s.next)) = last
    BY <1>1, <1>3
  <2> QED
    BY <1>2, <2>1, <2>2 DEF KM!Folded, Fields
<1>15. PICK g : g = Turn(g) /\ KM!Folded(s).sums = g[last]
  <2>1. \E g : g = Turn(g)
    <3> HIDE DEF Turn
    <3> QED
      BY <1>12, <1>13
  <2> HIDE DEF Turn
  <2> QED
    BY <1>14, <2>1
<1>16. g[last] = [c \in C |-> s0[c] + SumOver(Part(x, x + 1, c), points)]
  <2>1. g = Turned(first, last, s0, near, points, g)
    <3> HIDE DEF Turn
    <3> QED
      BY <1>13, <1>15
  <2>2. g[last] = [c \in C |-> s0[c] + SumOver({j \in first..last : near[j] = c}, points)]
    <3>1. g[last] = Adding(first, last, s0, near, points)[last]
      BY <1>12, <2>1
    <3>2. DOMAIN s0 = C /\ last \in first - 1..last
      BY <1>3, <1>9, <1>11
    <3> QED
      BY <3>1, <3>2 DEF Adding
  <2> QED
    BY <1>8, <2>2
<1>17. \A c : SumOver(Part(s.from, x + 1, c), points)
                = SumOver(Part(s.from, x, c), points) + SumOver(Part(x, x + 1, c), points)
  <2>1. PICK y : y = x + 1
    OBVIOUS
  <2>2. y \in Int /\ x <= y
    BY <1>2, <2>1
  <2>3. \A c : SumOver(Part(s.from, y, c), points)
                = SumOver(Part(s.from, x, c), points) + SumOver(Part(x, y, c), points)
    BY <1>2, <2>2, PartsAdd
  <2> QED
    BY <2>1, <2>3
<1>18. \A c \in C : s0[c] + SumOver(Part(x, x + 1, c), points) = SumOver(Part(s.from, x + 1, c), points)
  BY <1>2, <1>11, <1>17
<1> HIDE DEF Turn
<1> QED
  BY <1>1, <1>11, <1>15, <1>16, <1>18

LEMMA FoldTrain ==
  ASSUME KM!KMeansAssumption, Fits, TrainInv, NEW s \in states, KM!Fold(s)
  PROVE  TrainInv'
<1>1. PICK t : t = KM!Folded(s)
  OBVIOUS
<1>2. /\ stage = "fold" /\ s.next < s.to /\ states' = (states \ {s}) \cup {t}
      /\ config' = config /\ stage' = stage /\ points' = points /\ centroids' = centroids
      /\ left' = left /\ redo' = redo /\ result' = result
  BY <1>1 DEF KM!Fold
<1>3. /\ config \in Inputs /\ Sampled /\ config.chunk # 0 /\ StatesOK
      /\ StateOK(s) /\ Centers(centroids, config.k)
  BY <1>2 DEF TrainInv, StatesOK
<1>4. PICK x, y, rows : x = s.next /\ y = x + 1 /\ rows = KM!RowsOf(x)
  OBVIOUS
<1>5. /\ s.from \in Int /\ x \in Int /\ y \in Int /\ s.to \in Int
      /\ 0 <= s.from /\ s.from <= x /\ x <= y /\ y <= s.to /\ s.to <= KM!Chunks
      /\ s.from < s.to
      /\ Leads(s.up, s) /\ Fields(s) /\ Holds(s)
  BY <1>2, <1>3, <1>4 DEF StateOK
<1>6. /\ Fields(t) /\ t.from = s.from /\ t.next = y /\ t.to = s.to /\ t.up = s.up
      /\ t.counts = [c \in KM!K |-> s.counts[c] + KM!Cardinality({i \in rows : KM!Near(i) = c})]
      /\ t.candidates = s.candidates \cup KM!Candidates(x)
      /\ t.assigned = KM!Joined([i \in rows |-> KM!Near(i)], s.assigned)
  <2>1. PICK v : v = t.sums
    OBVIOUS
  <2>2. \E w : t = [s EXCEPT
                      !.next = @ + 1,
                      !.counts = [c \in KM!K |-> @[c] + KM!Cardinality({i \in rows : KM!Near(i) = c})],
                      !.sums = w,
                      !.candidates = @ \cup KM!Candidates(s.next),
                      !.assigned = KM!Joined([i \in rows |-> KM!Near(i)], @)]
    BY <1>1, <1>4, Zenon DEF KM!Folded
  <2> QED
    BY <1>4, <1>5, <2>2 DEF Fields
<1>7. t.sums = [c \in KM!K |-> SumOver(Part(t.from, t.next, c), points)]
  BY <1>1, <1>2, <1>3, <1>4, <1>6, FoldedSums
<1>8. Span(s.from, y) = Span(s.from, x) \cup Span(x, y) /\ rows = Span(x, y)
  <2>1. Span(s.from, y) = Span(s.from, x) \cup Span(x, y)
    <3>1. PICK u : u = s.from
      OBVIOUS
    <3>2. u \in Int /\ x \in Int /\ y \in Int /\ u <= x /\ x <= y
      BY <1>5, <3>1
    <3>3. Span(u, y) = Span(u, x) \cup Span(x, y)
      BY <1>3, <3>2, SpanSplit
    <3> QED
      BY <3>1, <3>3
  <2>2. \A v : KM!RowsOf(v) = Span(v, v + 1)
    BY <1>3, SpanFacts
  <2> QED
    BY <1>4, <2>1, <2>2
<1>9. t.counts = [c \in KM!K |-> Cardinality(Part(t.from, t.next, c))]
  <2>1. s.counts = [c \in KM!K |-> Cardinality(Part(s.from, x, c))]
    BY <1>4, <1>5 DEF Holds
  <2>2. \A c : {i \in rows : KM!Near(i) = c} = Part(x, y, c)
    BY <1>8 DEF Part
  <2>3. \A c : Cardinality(Part(s.from, y, c))
                 = Cardinality(Part(s.from, x, c)) + Cardinality(Part(x, y, c))
    BY <1>3, <1>5, PartsAdd
  <2>4. \A c \in KM!K : s.counts[c] + KM!Cardinality({i \in rows : KM!Near(i) = c})
                          = Cardinality(Part(s.from, y, c))
    BY <2>1, <2>2, <2>3, SameSets
  <2> QED
    BY <1>6, <2>4
<1>10. t.candidates = UNION {KM!Candidates(z) : z \in t.from..t.next - 1}
  <2>1. s.candidates = UNION {KM!Candidates(z) : z \in s.from..x - 1}
    BY <1>4, <1>5 DEF Holds
  <2>2. s.from..y - 1 = (s.from..x - 1) \cup {x}
    BY <1>4, <1>5
  <2> QED
    BY <1>6, <2>1, <2>2
<1>11. t.assigned = [i \in Span(t.from, t.next) |-> KM!Near(i)]
  <2>1. s.assigned = [i \in Span(s.from, x) |-> KM!Near(i)]
    BY <1>4, <1>5 DEF Holds
  <2> QED
    BY <1>6, <1>8, <2>1 DEF KM!Joined
<1>12. Leads(t.up, t)
  <2>1. \A w : HalfOf(t, w) <=> HalfOf(s, w)
    BY <1>6 DEF HalfOf
  <2> QED
    BY <1>5, <1>6, <2>1 DEF Leads
<1>13. StateOK(t)
  <2>1. Holds(t)
    BY <1>7, <1>9, <1>10, <1>11 DEF Holds
  <2> QED
    BY <1>5, <1>6, <1>12, <2>1 DEF StateOK
<1>14. StatesOK'
  <2>1. PICK olds, news : olds = {s} /\ news = {t}
    OBVIOUS
  <2>2. olds \subseteq states /\ states' = (states \ olds) \cup news
    BY <1>2, <2>1
  <2>3. \A z : Covers(s, z) <=> Covers(t, z)
    BY <1>6 DEF Covers
  <2>4. \A z \in 0..KM!Chunks - 1, u \in olds : Covers(u, z) => \E v \in news : Covers(v, z)
    BY <2>1, <2>3
  <2>5. \A z \in 0..KM!Chunks - 1, u \in news : Covers(u, z) => \E v \in olds : Covers(v, z)
    BY <2>1, <2>3
  <2>6. \A z \in 0..KM!Chunks - 1, u, v \in news : Covers(u, z) /\ Covers(v, z) => u = v
    BY <2>1
  <2>7. \A u \in news : StateOK(u)
    BY <1>13, <2>1
  <2> QED
    BY <1>2, <1>3, <2>2, <2>4, <2>5, <2>6, <2>7, CoverStep
<1> QED
  BY <1>2, <1>14, ThreadStep

\* Two states that are merged are of the two halves of a range.
LEMMA Siblings ==
  ASSUME NEW a, NEW b, Leads(a.up, a), Leads(b.up, b), a.up = b.up, a.to = b.from,
         a.from \in Int, a.to \in Int, b.from \in Int, b.to \in Int,
         a.from < a.to, b.from < b.to, b.to <= KM!Chunks
  PROVE  /\ a.up # <<>> /\ a.from = KM!Last(a.up).from /\ b.to = KM!Last(a.up).to
         /\ \A t : t.from = a.from /\ t.to = b.to => Leads(KM!Front(a.up), t)
<1>1. PICK up, n : up = a.up /\ n = Len(up)
  OBVIOUS
<1>2. up \in Seq([from : Int, to : Int]) /\ n \in Nat
  BY <1>1 DEF Leads
<1>3. up # <<>>
  BY <1>1 DEF Leads
<1>4. n \in Nat \ {0}
  BY <1>1, <1>2, <1>3
<1>5. PICK w : w = up[n]
  OBVIOUS
<1>6. w.from \in Int /\ w.to \in Int
  <2>1. PICK R : R = [from : Int, to : Int]
    OBVIOUS
  <2>2. w \in R
    <3>1. up \in Seq(R) /\ n = Len(up) /\ n \in 1..n
      BY <1>1, <1>2, <1>4, <2>1
    <3> QED
      BY ONLY <1>5, <3>1
  <2> QED
    BY <2>1, <2>2
<1>7. HalfOf(a, w) /\ HalfOf(b, w)
  BY <1>1, <1>3, <1>5 DEF Leads
<1>8. a.from = w.from /\ b.to = w.to
  <2>1. PICK mid : mid = w.from + (w.to - w.from) \div 2
    OBVIOUS
  <2>2. mid \in Int /\ w.from < mid /\ mid < w.to
    <3>1. PICK d : d = w.to - w.from
      OBVIOUS
    <3>2. d \in Nat /\ d >= 2
      BY <1>6, <1>7, <3>1 DEF HalfOf
    <3>3. d \div 2 \in Int /\ 0 < d \div 2 /\ d \div 2 < d
      BY <3>2, SMT
    <3> QED
      BY <1>6, <2>1, <3>1, <3>3
  <2>3. /\ (a.from = w.from /\ a.to = mid) \/ (a.from = mid /\ a.to = w.to)
        /\ (b.from = w.from /\ b.to = mid) \/ (b.from = mid /\ b.to = w.to)
    BY <1>7, <2>1 DEF HalfOf
  <2> QED
    BY <1>6, <2>2, <2>3
<1>9. KM!Last(a.up) = w
  BY <1>1, <1>5 DEF KM!Last
<1>10. ASSUME NEW t, t.from = a.from, t.to = b.to PROVE Leads(KM!Front(a.up), t)
  <2>1. PICK front : front = KM!Front(a.up)
    OBVIOUS
  <2>2. /\ front \in Seq([from : Int, to : Int]) /\ Len(front) = n - 1
        /\ \A i \in 1..n - 1 : front[i] = up[i]
    <3>1. front = SubSeq(up, 1, n - 1)
      BY <1>1, <2>1 DEF KM!Front
    <3>2. PICK R : R = [from : Int, to : Int]
      OBVIOUS
    <3>3. up \in Seq(R) /\ n = Len(up) /\ n \in 1..n
      BY <1>1, <1>2, <1>4, <3>2
    <3>4. n - 1 \in Int /\ \A i \in 1..n - 1 : up[i] \in R
      BY ONLY <3>3, n \in Nat
    <3>5. front \in Seq(R) /\ Len(front) = n - 1 /\ \A i \in 1..n - 1 : front[i] = up[i]
      <4>1. PICK one \in Int, m \in Int : one = 1 /\ m = n - 1
        BY <3>4
      <4>2. \A i \in one..m : up[i] \in R
        BY <3>4, <4>1
      <4>3. /\ SubSeq(up, one, m) \in Seq(R)
            /\ Len(SubSeq(up, one, m)) = IF one <= m THEN m - one + 1 ELSE 0
            /\ \A i \in 1..m - one + 1 : SubSeq(up, one, m)[i] = up[one + i - 1]
        BY <4>2, SubSeqProperties
      <4>4. \A i \in 1..n - 1 : i \in 1..m - one + 1 /\ one + i - 1 = i
        BY <4>1
      <4> QED
        BY <1>4, <3>1, <4>1, <4>3, <4>4
    <3> QED
      BY <3>2, <3>5
  <2>3. /\ up[1].from = 0 /\ up[1].to = KM!Chunks
        /\ \A i \in 1..n - 1 : HalfOf(up[i + 1], up[i])
    BY <1>1, <1>3 DEF Leads
  <2>4. CASE n = 1
    <3>1. front = <<>>
      BY <2>2, <2>4
    <3>2. t.from = 0 /\ t.to = KM!Chunks
      BY <1>5, <1>8, <1>10, <2>3, <2>4
    <3> QED
      BY <2>1, <2>2, <3>1, <3>2 DEF Leads
  <2>5. CASE n # 1
    <3>1. n - 1 \in 1..n - 1 /\ 1 \in 1..n - 1 /\ n - 1 + 1 = n
      BY <1>4, <2>5
    <3>2. HalfOf(w, up[n - 1])
      BY <1>5, <2>3, <3>1
    <3>3. HalfOf(t, front[Len(front)])
      BY <1>8, <1>10, <2>2, <3>1, <3>2 DEF HalfOf
    <3>4. front[1] = up[1] /\ front # <<>>
      BY <2>2, <3>1
    <3>5. \A i \in 1..Len(front) - 1 : HalfOf(front[i + 1], front[i])
      <4> SUFFICES ASSUME NEW i \in 1..Len(front) - 1 PROVE HalfOf(front[i + 1], front[i])
        OBVIOUS
      <4>1. i \in 1..n - 1 /\ i + 1 \in 1..n - 1
        BY <1>4, <2>2
      <4> QED
        BY <2>2, <2>3, <4>1
    <3> QED
      BY <2>1, <2>2, <2>3, <3>3, <3>4, <3>5 DEF Leads
  <2> QED
    BY <2>4, <2>5
<1> QED
  BY <1>1, <1>3, <1>8, <1>9, <1>10

LEMMA MergeTrain ==
  ASSUME KM!KMeansAssumption, Fits, TrainInv, NEW a \in states, NEW b \in states, KM!Merge(a, b)
  PROVE  TrainInv'
<1>1. PICK t : t = KM!Merged(a, b)
  OBVIOUS
<1>2. /\ stage = "fold" /\ a.next = a.to /\ b.next = b.to /\ a.up = b.up /\ a.to = b.from
      /\ states' = (states \ {a, b}) \cup {t}
      /\ config' = config /\ stage' = stage /\ points' = points /\ centroids' = centroids
      /\ left' = left /\ redo' = redo /\ result' = result
  BY <1>1 DEF KM!Merge
<1>3. /\ config \in Inputs /\ Sampled /\ config.chunk # 0 /\ StatesOK
      /\ StateOK(a) /\ StateOK(b)
  BY <1>2 DEF TrainInv, StatesOK
<1>4. PICK x, y, z : x = a.from /\ y = a.to /\ z = b.to
  OBVIOUS
<1>5. /\ x \in Int /\ y \in Int /\ z \in Int /\ 0 <= x /\ x < y /\ y < z /\ z <= KM!Chunks
      /\ Leads(a.up, a) /\ Leads(b.up, b) /\ Holds(a) /\ Holds(b)
      /\ a.from = x /\ a.next = y /\ b.from = y /\ b.next = z
  BY <1>2, <1>3, <1>4 DEF StateOK
<1>6. /\ KM!Last(a.up).from = x /\ KM!Last(a.up).to = z
      /\ \A u : u.from = x /\ u.to = z => Leads(KM!Front(a.up), u)
  BY <1>2, <1>4, <1>5, Siblings
<1>7. /\ Fields(t) /\ t.from = x /\ t.next = z /\ t.to = z /\ t.up = KM!Front(a.up)
      /\ t.counts = [c \in KM!K |-> a.counts[c] + b.counts[c]]
      /\ t.sums = [c \in KM!K |-> KM!Rounded(a.sums[c] + b.sums[c])]
      /\ t.candidates = a.candidates \cup b.candidates
      /\ t.assigned = KM!Joined(a.assigned, b.assigned)
  BY <1>1, <1>6 DEF KM!Merged, Fields
<1>8. Span(x, z) = Span(x, y) \cup Span(y, z)
  BY <1>3, <1>5, SpanSplit
<1>9. \A c : /\ Cardinality(Part(x, z, c)) = Cardinality(Part(x, y, c)) + Cardinality(Part(y, z, c))
             /\ SumOver(Part(x, z, c), points)
                  = SumOver(Part(x, y, c), points) + SumOver(Part(y, z, c), points)
  BY <1>3, <1>5, PartsAdd
<1>10. t.counts = [c \in KM!K |-> Cardinality(Part(t.from, t.next, c))]
  <2>1. /\ a.counts = [c \in KM!K |-> Cardinality(Part(x, y, c))]
        /\ b.counts = [c \in KM!K |-> Cardinality(Part(y, z, c))]
    BY <1>5 DEF Holds
  <2>2. \A c \in KM!K : a.counts[c] + b.counts[c] = Cardinality(Part(x, z, c))
    BY <1>9, <2>1
  <2> QED
    BY <1>7, <2>2
<1>11. t.sums = [c \in KM!K |-> SumOver(Part(t.from, t.next, c), points)]
  <2>1. /\ a.sums = [c \in KM!K |-> SumOver(Part(x, y, c), points)]
        /\ b.sums = [c \in KM!K |-> SumOver(Part(y, z, c), points)]
    BY <1>5 DEF Holds
  <2>2. \A c \in KM!K : a.sums[c] + b.sums[c] = SumOver(Part(x, z, c), points)
    BY <1>9, <2>1
  <2>3. \A c : KM!Rounded(SumOver(Part(x, z, c), points)) = SumOver(Part(x, z, c), points)
    <3>1. \A c : Part(x, z, c) \subseteq DOMAIN points
      BY DEF Part, Span
    <3> QED
      BY <1>3, <3>1, SumFits
  <2>4. \A c \in KM!K : KM!Rounded(a.sums[c] + b.sums[c]) = SumOver(Part(x, z, c), points)
    BY <2>2, <2>3
  <2> QED
    BY <1>7, <2>4
<1>12. t.candidates = UNION {KM!Candidates(v) : v \in t.from..t.next - 1}
  <2>1. /\ a.candidates = UNION {KM!Candidates(v) : v \in x..y - 1}
        /\ b.candidates = UNION {KM!Candidates(v) : v \in y..z - 1}
    BY <1>5 DEF Holds
  <2>2. x..z - 1 = (x..y - 1) \cup (y..z - 1)
    BY <1>5
  <2> QED
    BY <1>7, <2>1, <2>2
<1>13. t.assigned = [i \in Span(t.from, t.next) |-> KM!Near(i)]
  <2>1. /\ a.assigned = [i \in Span(x, y) |-> KM!Near(i)]
        /\ b.assigned = [i \in Span(y, z) |-> KM!Near(i)]
    BY <1>5 DEF Holds
  <2> QED
    BY <1>7, <1>8, <2>1 DEF KM!Joined
<1>14. StateOK(t)
  <2>1. Holds(t)
    BY <1>10, <1>11, <1>12, <1>13 DEF Holds
  <2>2. Leads(t.up, t)
    BY <1>6, <1>7
  <2> QED
    BY <1>5, <1>7, <2>1, <2>2 DEF StateOK
<1>15. StatesOK'
  <2>1. PICK olds, news : olds = {a, b} /\ news = {t}
    OBVIOUS
  <2>2. olds \subseteq states /\ states' = (states \ olds) \cup news
    BY <1>2, <2>1
  <2>3. \A v \in Int : Covers(t, v) <=> Covers(a, v) \/ Covers(b, v)
    BY <1>4, <1>5, <1>7 DEF Covers
  <2>4. \A v \in 0..KM!Chunks - 1, u \in olds : Covers(u, v) => \E w \in news : Covers(w, v)
    BY <2>1, <2>3
  <2>5. \A v \in 0..KM!Chunks - 1, u \in news : Covers(u, v) => \E w \in olds : Covers(w, v)
    BY <2>1, <2>3
  <2>6. \A v \in 0..KM!Chunks - 1, u, w \in news : Covers(u, v) /\ Covers(w, v) => u = w
    BY <2>1
  <2>7. \A u \in news : StateOK(u)
    BY <1>14, <2>1
  <2> QED
    BY <1>2, <1>3, <2>2, <2>4, <2>5, <2>6, <2>7, CoverStep
<1> QED
  BY <1>2, <1>15, ThreadStep

-----------------------------------------------------------------------------
(* Reseeding. *)

\* The first n of the clusters E, and the rows that f gives to those of D.
Served(E, n) == {c \in E : Cardinality({d \in E : d < c}) < n}
Picked(f, D) == {f[d] : d \in D}

\* The clusters served get the farthest rows: all of E if there are candidates
\* for that many, and else the farthest of all goes to one of them.
ServedFarthest(S, far, R, E, served, f) ==
  /\ Cardinality(E) <= R =>
       /\ served = E
       /\ \A c \in E, i \in S : i \in Picked(f, E) \/ far[i] <= far[f[c]]
  /\ E # {} => \E c \in E : f[c] \in S /\ \A i \in S : far[i] <= far[f[c]]

\* The rows kept for reseeding serve the empty clusters as all rows would.
LEMMA Reseeding ==
  ASSUME NEW S, IsFiniteSet(S), S # {}, NEW far, \A i \in S : far[i] \in Int,
         NEW R \in Nat \ {0}, NEW pool \in SUBSET S,
         \A i \in S \ pool : \E T \in SUBSET pool :
           Cardinality(T) = R /\ \A j \in T : far[j] >= far[i],
         NEW E, IsFiniteSet(E), E \subseteq Int, Cardinality(E) <= Cardinality(S),
         NEW served, served = Served(E, Cardinality(pool)),
         NEW f, \A c \in served : f[c] \in pool,
         \A c, d \in served : c < d => far[f[c]] >= far[f[d]],
         \A c \in served, i \in pool : i \in Picked(f, served) \/ far[i] <= far[f[c]]
  PROVE  ServedFarthest(S, far, R, E, served, f)
<1> USE DEF Served, Picked, ServedFarthest
<1>1. /\ IsFiniteSet(pool) /\ Cardinality(pool) \in Nat
      /\ Cardinality(E) \in Nat /\ Cardinality(S) \in Nat
      /\ \A i \in pool : i \in S /\ far[i] \in Int
  BY FS_Subset, FS_CardinalityType
<1>2. \A T \in SUBSET pool : IsFiniteSet(T) /\ Cardinality(T) \in Nat /\ Cardinality(T) <= Cardinality(pool)
  BY <1>1, FS_Subset, FS_CardinalityType
<1>3. ASSUME Cardinality(E) <= R
      PROVE  /\ served = E
             /\ \A c \in E, i \in S : i \in {f[d] : d \in E} \/ far[i] <= far[f[c]]
  <2>1. Cardinality(E) <= Cardinality(pool)
    <3>1. CASE pool = S
      BY <3>1
    <3>2. CASE pool # S
      <4>1. PICK i \in S \ pool : TRUE
        BY <3>2
      <4>2. PICK T \in SUBSET pool : Cardinality(T) = R
        BY <4>1
      <4> QED
        BY <1>1, <1>2, <1>3, <4>2
    <3> QED
      BY <3>1, <3>2
  <2>2. ASSUME NEW c \in E PROVE Cardinality({d \in E : d < c}) < Cardinality(pool)
    <3>1. PICK L : L = {d \in E : d < c}
      OBVIOUS
    <3>2. PICK G : G = E \ {c}
      OBVIOUS
    <3>3. IsFiniteSet(G) /\ Cardinality(G) = Cardinality(E) - 1
      BY <3>2, FS_RemoveElement
    <3>5. L \subseteq G
      <4> SUFFICES ASSUME NEW d \in L PROVE d \in G
        OBVIOUS
      <4>1. d \in E /\ c \in Int /\ d < c
        BY <3>1
      <4> QED
        BY <3>2, <4>1
    <3>6. IsFiniteSet(L) /\ Cardinality(L) <= Cardinality(G)
      BY <3>3, <3>5, FS_Subset
    <3>4. IsFiniteSet(L) /\ Cardinality(L) \in Nat /\ Cardinality(L) <= Cardinality(E) - 1
      BY <3>3, <3>6, FS_CardinalityType
    <3> QED
      BY <1>1, <2>1, <3>1, <3>4
  <2>3. served = E
    BY <2>2
  <2>4. ASSUME NEW c \in E, NEW i \in S
        PROVE  i \in {f[d] : d \in E} \/ far[i] <= far[f[c]]
    <3>1. f[c] \in pool /\ far[f[c]] \in Int /\ far[i] \in Int
      BY <1>1, <2>3
    <3>2. CASE i \in pool
      BY <2>3, <3>2
    <3>3. CASE i \notin pool
      <4>1. PICK T \in SUBSET pool : Cardinality(T) = R /\ \A j \in T : far[j] >= far[i]
        BY <3>3
      <4>2. PICK D, B : D = E \ {c} /\ B = {f[d] : d \in D}
        OBVIOUS
      <4>3. IsFiniteSet(D) /\ Cardinality(D) = Cardinality(E) - 1
        BY <4>2, FS_RemoveElement
      <4>4. IsFiniteSet(B) /\ Cardinality(B) <= Cardinality(D)
        <5>1. PICK g : g = [d \in D |-> f[d]]
          OBVIOUS
        <5>2. g \in Surjection(D, B)
          <6>1. g \in [D -> B]
            BY <4>2, <5>1
          <6>2. \A b \in B : \E d \in D : g[d] = b
            BY <4>2, <5>1
          <6> QED
            BY <6>1, <6>2 DEF Surjection
        <5> QED
          BY <4>3, <5>2, FS_Surjection
      <4>5. Cardinality(B) \in Nat /\ Cardinality(B) < R
        BY <1>1, <1>3, <4>3, <4>4, FS_CardinalityType
      <4>6. ~(T \subseteq B)
        <5>1. T \subseteq B => Cardinality(T) <= Cardinality(B)
          BY <4>4, FS_Subset
        <5> QED
          BY <4>1, <4>5, <5>1
      <4>7. PICK j \in T : j \notin B
        BY <4>6
      <4>8. far[j] \in Int /\ j \in pool /\ far[i] <= far[j]
        BY <1>1, <3>1, <4>1, <4>7
      <4>9. CASE j = f[c]
        BY <4>8, <4>9
      <4>10. CASE j # f[c]
        <5>1. j \notin {f[d] : d \in E}
          BY <4>2, <4>7, <4>10
        <5>2. far[j] <= far[f[c]]
          BY <2>3, <4>8, <5>1
        <5> QED
          BY <3>1, <4>8, <5>2
      <4> QED
        BY <4>9, <4>10
    <3> QED
      BY <3>2, <3>3
  <2> QED
    BY <2>3, <2>4
<1>4. ASSUME E # {}
      PROVE  \E c \in E : f[c] \in S /\ \A i \in S : far[i] <= far[f[c]]
  <2>1. pool # {}
    <3> SUFFICES ASSUME pool = {} PROVE FALSE
      OBVIOUS
    <3>1. PICK i \in S : TRUE
      OBVIOUS
    <3>2. PICK T \in SUBSET pool : Cardinality(T) = R
      BY <3>1
    <3>3. T = {}
      BY <3>2
    <3> QED
      BY <3>2, <3>3, FS_EmptySet
  <2>2. PICK c \in E : \A d \in E : c <= d
    <3>1. PICK g : g = [d \in E |-> d]
      OBVIOUS
    <3>2. \A d \in E : g[d] = d /\ g[d] \in Int
      BY <3>1
    <3>3. \E c \in E : \A d \in E : g[c] < g[d] \/ (g[c] = g[d] /\ c <= d)
      BY <1>4, <3>2, LeastFirst
    <3>4. PICK c \in E : \A d \in E : g[c] < g[d] \/ (g[c] = g[d] /\ c <= d)
      BY <3>3
    <3>5. \A d \in E : c <= d
      BY <3>2, <3>4
    <3> QED
      BY <3>5
  <2>3. {d \in E : d < c} = {}
    <3> SUFFICES ASSUME NEW d \in E, d < c PROVE FALSE
      OBVIOUS
    <3>1. c \in Int /\ d \in Int /\ c <= d
      BY <2>2
    <3> QED
      BY <3>1
  <2>4. Cardinality(pool) > 0
    BY <1>1, <2>1, FS_EmptySet
  <2>5. c \in served
    <3>1. Cardinality({d \in E : d < c}) = 0
      BY <2>3, FS_EmptySet
    <3> QED
      BY <2>4, <3>1
  <2>6. f[c] \in pool /\ f[c] \in S /\ far[f[c]] \in Int
    BY <1>1, <2>5
  <2>7. ASSUME NEW i \in pool PROVE far[i] <= far[f[c]]
    <3>1. CASE i \in {f[d] : d \in served}
      <4>1. PICK d \in served : i = f[d]
        BY <3>1
      <4>2. CASE d = c
        BY <2>6, <4>1, <4>2
      <4>3. CASE d # c
        <5>1. c < d
          BY <2>2, <4>3
        <5> QED
          BY <1>1, <2>5, <2>6, <4>1, <5>1
      <4> QED
        BY <4>2, <4>3
    <3>2. CASE i \notin {f[d] : d \in served}
      BY <2>5, <3>2
    <3> QED
      BY <3>1, <3>2
  <2>8. ASSUME NEW i \in S \ pool PROVE far[i] <= far[f[c]]
    <3>1. PICK T \in SUBSET pool : Cardinality(T) = R /\ \A j \in T : far[j] >= far[i]
      OBVIOUS
    <3>2. T # {}
      BY <3>1, FS_EmptySet
    <3>3. PICK j \in T : far[j] >= far[i]
      BY <3>1, <3>2
    <3>4. far[j] <= far[f[c]] /\ far[j] \in Int /\ far[i] \in Int
      BY <1>1, <2>7
    <3> QED
      BY <2>6, <3>3, <3>4
  <2> QED
    BY <2>6, <2>7, <2>8
<1> QED
  BY <1>3, <1>4

\* How far the rows are; the rows a chunk puts forward.
Reach == [i \in DOMAIN points |-> KM!Distant(i)]
Forward(x) == Top(KM!RowsOf(x), Reach, Reseeds)

LEMMA ReachFacts ==
  ASSUME KM!KMeansAssumption, config \in Inputs, Sampled, Centers(centroids, config.k)
  PROVE  \A i \in DOMAIN points :
           Reach[i] \in Int /\ Reach[i] = KM!Distant(i) /\ KM!Distant(i) >= 0
<1> SUFFICES ASSUME NEW i \in DOMAIN points
             PROVE  KM!Distant(i) \in Int /\ KM!Distant(i) >= 0
  BY DEF Reach
<1>1. PICK x, z, k : x = points[i] /\ z = centroids /\ k = config.k
  OBVIOUS
<1>2. x \in Int /\ Unit \in Int /\ Centers(z, k)
  <2>1. points[i] \in Int
    BY SampleFacts
  <2>2. Unit \in Int
    BY ConfigFacts
  <2> QED
    BY <1>1, <2>1, <2>2
<1>3. /\ KM!Nearest(x, z) \in 0..k - 1
      /\ KM!Far(x, z) = KM!Distance(x, z[KM!Nearest(x, z)])
  BY <1>2, NearestFacts
<1>4. z[KM!Nearest(x, z)] \in Int
  BY <1>2, <1>3 DEF Centers
<1>5. KM!Far(x, z) \in Int /\ KM!Far(x, z) >= 0
  BY <1>2, <1>3, <1>4, DistanceInt
<1> QED
  BY <1>1, <1>5 DEF KM!Distant

LEMMA CandidatesAre ==
  ASSUME NEW x
  PROVE  KM!Candidates(x) = {[distance |-> Reach[i], row |-> i] : i \in Forward(x)}
<1>1. PICK rows : rows = KM!RowsOf(x)
  OBVIOUS
<1>2. \A i \in rows : i \in DOMAIN points /\ Reach[i] = KM!Distant(i)
  BY <1>1 DEF KM!RowsOf, KM!Trained, Reach
<1>3. \A i \in rows :
        {j \in rows : KM!Distant(j) > KM!Distant(i) \/ (KM!Distant(j) = KM!Distant(i) /\ j < i)}
          = Ahead(rows, Reach, i)
  BY <1>2 DEF Ahead
<1>4. \A i \in rows :
        KM!Cardinality({j \in rows : KM!Distant(j) > KM!Distant(i) \/ (KM!Distant(j) = KM!Distant(i) /\ j < i)})
          = Cardinality(Ahead(rows, Reach, i))
  BY <1>3, SameSets
<1>5. KM!Candidates(x) =
        {[distance |-> KM!Distant(i), row |-> i] :
           i \in {i \in rows :
             KM!Cardinality({j \in rows : KM!Distant(j) > KM!Distant(i) \/ (KM!Distant(j) = KM!Distant(i) /\ j < i)}) < Reseeds}}
  BY <1>1 DEF KM!Candidates
<1>6. Forward(x) = {i \in rows :
             KM!Cardinality({j \in rows : KM!Distant(j) > KM!Distant(i) \/ (KM!Distant(j) = KM!Distant(i) /\ j < i)}) < Reseeds}
  BY <1>1, <1>4 DEF Forward, Top
<1>7. \A i \in Forward(x) : i \in rows
  BY <1>1 DEF Forward, Top
<1> QED
  BY <1>2, <1>5, <1>6, <1>7

\* All clusters, and those without rows.
Clus(c) == {i \in DOMAIN points : KM!Near(i) = c}
NoRows == {c \in KM!K : Clus(c) = {}}
Moved(f) ==
  [c \in KM!K |-> IF c \in NoRows THEN Unit * points[f[c]]
                  ELSE SumOver(Clus(c), points) * (Unit \div Cardinality(Clus(c)))]

\* The rows put forward of all chunks.
Pool == UNION {Forward(x) : x \in 0..KM!Chunks - 1}

LEMMA PoolFacts ==
  ASSUME KM!KMeansAssumption, config \in Inputs, Sampled, config.chunk # 0,
         Centers(centroids, config.k)
  PROVE  /\ Pool \subseteq DOMAIN points
         /\ \A i \in DOMAIN points \ Pool : \E T \in SUBSET Pool :
              Cardinality(T) = Reseeds /\ \A j \in T : Reach[j] >= Reach[i]
<1>1. \A x : KM!RowsOf(x) \subseteq DOMAIN points /\ KM!RowsOf(x) \subseteq Int
             /\ IsFiniteSet(KM!RowsOf(x))
  BY SpanFacts
<1>2. \A x : Forward(x) \subseteq KM!RowsOf(x)
  BY DEF Forward, Top
<1>3. Pool \subseteq DOMAIN points
  BY <1>1, <1>2 DEF Pool
<1>4. ASSUME NEW i \in DOMAIN points \ Pool
      PROVE  \E T \in SUBSET Pool :
               Cardinality(T) = Reseeds /\ \A j \in T : Reach[j] >= Reach[i]
  <2>1. PICK C : C = KM!Chunks /\ C \in Nat \ {0}
    BY ChunkFacts
  <2>2. PICK zero : zero = 0
    OBVIOUS
  <2>3. zero \in Nat /\ C \in Int /\ zero <= C
    BY <2>1, <2>2
  <2>4. UNION {KM!RowsOf(x) : x \in zero..C - 1} = Span(zero, C)
    BY <2>3, SpanUnion
  <2>5. PICK x \in 0..C - 1 : i \in KM!RowsOf(x)
    BY <2>1, <2>2, <2>4, SpanFacts
  <2>6. i \notin Forward(x) /\ Forward(x) \in SUBSET Pool
    BY <2>1, <2>5 DEF Pool
  <2>7. PICK rows, far : rows = KM!RowsOf(x) /\ far = Reach
    OBVIOUS
  <2>8. /\ IsFiniteSet(rows) /\ rows \subseteq Int /\ i \in rows
        /\ \A j \in rows : far[j] \in Int
        /\ i \notin Top(rows, far, Reseeds)
    BY <1>1, <2>5, <2>6, <2>7, ReachFacts DEF Forward
  <2>9. Reseeds \in Nat
    BY ConfigFacts
  <2>10. /\ Cardinality(Top(rows, far, Reseeds)) = Reseeds
         /\ \A j \in Top(rows, far, Reseeds) : far[j] >= far[i]
    BY <2>8, <2>9, TopFacts
  <2> QED
    BY <2>6, <2>7, <2>10 DEF Forward
<1> QED
  BY <1>3, <1>4

\* Farthest(f) of Lloyd, and what holds of f even when there are too few candidates.
FarFirst(f) ==
  /\ \A c, d \in NoRows : c < d => f[c] # f[d] /\ Reach[f[c]] >= Reach[f[d]]
  /\ \A c \in NoRows, i \in DOMAIN points :
       i \in {f[d] : d \in NoRows} \/ Reach[i] <= Reach[f[c]]
Reseeded(f) ==
  /\ f \in [NoRows -> DOMAIN points]
  /\ Cardinality(NoRows) <= Reseeds => FarFirst(f)
  /\ NoRows # {} => \E c \in NoRows : \A i \in DOMAIN points : Reach[i] <= Reach[f[c]]

LEMMA ClusFacts ==
  ASSUME KM!KMeansAssumption, config \in Inputs, Sampled, Centers(centroids, config.k)
  PROVE  /\ \A c : /\ IsFiniteSet(Clus(c)) /\ Clus(c) \subseteq DOMAIN points
                   /\ Cardinality(Clus(c)) \in Nat
                   /\ Cardinality(Clus(c)) = 0 <=> Clus(c) = {}
                   /\ SumOver(Clus(c), points) \in Int
         /\ NoRows \subseteq Int /\ IsFiniteSet(NoRows) /\ NoRows \subseteq KM!K
         /\ Cardinality(NoRows) \in Nat /\ Cardinality(NoRows) <= Cardinality(DOMAIN points)
         /\ IsFiniteSet(DOMAIN points) /\ DOMAIN points # {}
<1>1. PICK n : n = Cardinality(DOMAIN points)
  OBVIOUS
<1>2. /\ n \in Nat \ {0} /\ config.k \in Nat \ {0} /\ config.k <= n
      /\ DOMAIN points = 0..n - 1 /\ IsFiniteSet(DOMAIN points)
      /\ points \in [0..n - 1 -> Int]
  BY <1>1, SampleFacts
<1>3. \A i \in DOMAIN points : points[i] \in Int
  BY <1>2
<1>4. \A c : /\ IsFiniteSet(Clus(c)) /\ Clus(c) \subseteq DOMAIN points
             /\ Cardinality(Clus(c)) \in Nat
             /\ Cardinality(Clus(c)) = 0 <=> Clus(c) = {}
             /\ SumOver(Clus(c), points) \in Int
  <2> SUFFICES ASSUME NEW c
               PROVE  /\ IsFiniteSet(Clus(c)) /\ Clus(c) \subseteq DOMAIN points
                      /\ Cardinality(Clus(c)) \in Nat
                      /\ Cardinality(Clus(c)) = 0 <=> Clus(c) = {}
                      /\ SumOver(Clus(c), points) \in Int
    OBVIOUS
  <2>1. PICK S : S = Clus(c)
    OBVIOUS
  <2>2. S \subseteq DOMAIN points
    BY <2>1 DEF Clus
  <2>3. IsFiniteSet(S) /\ \A i \in S : points[i] \in Int
    BY <1>2, <1>3, <2>2, FS_Subset
  <2>4. Cardinality(S) \in Nat /\ (Cardinality(S) = 0 <=> S = {})
    BY <2>3, FS_CardinalityType, FS_EmptySet
  <2>5. SumOver(S, points) \in Int
    BY <2>3, SumInt
  <2> QED
    BY <2>1, <2>2, <2>3, <2>4, <2>5
<1>5. PICK k, A : k = config.k /\ A = 0..k - 1
  OBVIOUS
<1>6. IsFiniteSet(A) /\ Cardinality(A) = k /\ A \subseteq Int /\ KM!K = A
  <2>1. k \in Nat \ {0}
    BY <1>2, <1>5
  <2>2. PICK a, b : a = 0 /\ b = k - 1
    OBVIOUS
  <2>3. a \in Int /\ b \in Int /\ ~(a > b) /\ b - a + 1 = k
    BY <2>1, <2>2
  <2>4. IsFiniteSet(a..b) /\ Cardinality(a..b) = k
    BY <2>3, FS_Interval
  <2> QED
    BY <1>5, <2>2, <2>3, <2>4 DEF KM!K
<1>7. NoRows \subseteq A
  BY <1>6 DEF NoRows
<1>8. IsFiniteSet(NoRows) /\ Cardinality(NoRows) <= k /\ Cardinality(NoRows) \in Nat
  BY <1>6, <1>7, FS_Subset, FS_CardinalityType
<1>9. NoRows \subseteq Int /\ NoRows \subseteq KM!K
  BY <1>6, <1>7
<1>10. Cardinality(NoRows) <= n
  BY <1>2, <1>5, <1>8
<1>11. DOMAIN points # {}
  <2>1. 0 \in 0..n - 1
    BY <1>2
  <2> QED
    BY <1>2, <2>1
<1> QED
  BY <1>1, <1>2, <1>4, <1>8, <1>9, <1>10, <1>11

\* A state of all chunks has what the clusters have.
LEMMA WholeHolds ==
  ASSUME KM!KMeansAssumption, config \in Inputs, Sampled, config.chunk # 0,
         NEW s, StateOK(s), s.up = <<>>, s.next = s.to
  PROVE  /\ s.counts = [c \in KM!K |-> Cardinality(Clus(c))]
         /\ s.sums = [c \in KM!K |-> SumOver(Clus(c), points)]
         /\ s.candidates = UNION {{[distance |-> Reach[i], row |-> i] : i \in Forward(x)} :
                                    x \in 0..KM!Chunks - 1}
         /\ s.assigned = [i \in DOMAIN points |-> KM!Near(i)]
<1>1. s.from = 0 /\ s.next = KM!Chunks /\ Holds(s)
  BY DEF StateOK, Leads
<1>2. Span(s.from, s.next) = DOMAIN points
  BY <1>1, SpanFacts
<1>3. \A c : Part(s.from, s.next, c) = Clus(c)
  BY <1>2 DEF Part, Clus
<1>4. s.candidates = UNION {KM!Candidates(x) : x \in 0..KM!Chunks - 1}
  BY <1>1 DEF Holds
<1>5. s.candidates = UNION {{[distance |-> Reach[i], row |-> i] : i \in Forward(x)} :
                                    x \in 0..KM!Chunks - 1}
  BY <1>4, CandidatesAre
<1>6. s.counts = [c \in KM!K |-> Cardinality(Part(s.from, s.next, c))]
      /\ s.sums = [c \in KM!K |-> SumOver(Part(s.from, s.next, c), points)]
      /\ s.assigned = [i \in Span(s.from, s.next) |-> KM!Near(i)]
  BY <1>1 DEF Holds
<1> QED
  BY <1>2, <1>3, <1>5, <1>6

\* The rows of the candidates, and how far one is.
LEMMA PoolIs ==
  ASSUME KM!KMeansAssumption, config \in Inputs, Sampled, config.chunk # 0,
         Centers(centroids, config.k),
         NEW candidates,
         candidates = UNION {{[distance |-> Reach[i], row |-> i] : i \in Forward(x)} :
                               x \in 0..KM!Chunks - 1}
  PROVE  /\ {x.row : x \in candidates} = Pool
         /\ \A i \in Pool :
              KM!Max({x.distance : x \in {x \in candidates : x.row = i}}) = Reach[i]
<1>1. \A x \in candidates : x.row \in Pool /\ x.distance = Reach[x.row]
  BY DEF Pool
<1>2. \A i \in Pool : \E x \in candidates : x.row = i
  <2> SUFFICES ASSUME NEW i \in Pool PROVE \E x \in candidates : x.row = i
    OBVIOUS
  <2>1. PICK y \in 0..KM!Chunks - 1 : i \in Forward(y)
    BY DEF Pool
  <2>2. PICK r : r = [distance |-> Reach[i], row |-> i]
    OBVIOUS
  <2>3. r \in {[distance |-> Reach[j], row |-> j] : j \in Forward(y)} /\ r.row = i
    BY <2>1, <2>2
  <2>4. r \in candidates
    BY <2>1, <2>3
  <2> QED
    BY <2>3, <2>4
<1>3. {x.row : x \in candidates} = Pool
  BY <1>1, <1>2
<1>4. ASSUME NEW i \in Pool
      PROVE  KM!Max({x.distance : x \in {x \in candidates : x.row = i}}) = Reach[i]
  <2>1. {x.distance : x \in {x \in candidates : x.row = i}} = {Reach[i]}
    BY <1>1, <1>2
  <2>2. PICK r, S : r = Reach[i] /\ S = {r}
    OBVIOUS
  <2>3. r \in Int
    BY <2>2, PoolFacts, ReachFacts
  <2>4. KM!Max(S) \in S
    BY <2>2, <2>3 DEF KM!Max
  <2> QED
    BY <2>1, <2>2, <2>4
<1> QED
  BY <1>3, <1>4

\* update_centroids: the means of the clusters, and for those without rows the
\* farthest ones.
LEMMA UpdateFacts ==
  ASSUME KM!KMeansAssumption, config \in Inputs, Sampled, config.chunk # 0,
         Centers(centroids, config.k),
         NEW s, StateOK(s), s.up = <<>>, s.next = s.to,
         NEW new \in KM!NewCentroids(s)
  PROVE  \E f : Reseeded(f) /\ new = Moved(f)
<1> DEFINE empty == {c \in KM!K : s.counts[c] = 0}
           pool == {x.row : x \in s.candidates}
           distance(i) == KM!Max({x.distance : x \in {x \in s.candidates : x.row = i}})
           served == {c \in empty : KM!Cardinality({d \in empty : d < c}) < KM!Cardinality(pool)}
           farthest(f) ==
             /\ {f[c] : c \in served} \subseteq pool
             /\ \A c, d \in served :
                  c < d => f[c] # f[d] /\ distance(f[c]) >= distance(f[d])
             /\ \A c \in served, i \in pool \ {f[d] : d \in served} :
                  distance(i) <= distance(f[c])
<1>1. PICK f \in [empty -> KM!Trained] :
        /\ farthest(f)
        /\ new = [c \in KM!K |-> IF c \in empty THEN Unit * points[f[c]] ELSE KM!Mean(s, c)]
  BY Zenon DEF KM!NewCentroids
<1>2. /\ s.counts = [c \in KM!K |-> Cardinality(Clus(c))]
      /\ s.sums = [c \in KM!K |-> SumOver(Clus(c), points)]
      /\ s.candidates = UNION {{[distance |-> Reach[i], row |-> i] : i \in Forward(x)} :
                                 x \in 0..KM!Chunks - 1}
  BY WholeHolds
<1>3. empty = NoRows
  BY <1>2, ClusFacts DEF NoRows
<1>4. pool = Pool /\ \A i \in Pool : distance(i) = Reach[i]
  BY <1>2, PoolIs
<1>5. served = {c \in NoRows : Cardinality({d \in NoRows : d < c}) < Cardinality(Pool)}
  BY <1>3, <1>4, SameSets
<1>6. new = Moved(f)
  <2>1. \A c \in KM!K : KM!Mean(s, c) = SumOver(Clus(c), points) * (Unit \div Cardinality(Clus(c)))
    BY <1>2 DEF KM!Mean
  <2> QED
    BY <1>1, <1>3, <2>1 DEF Moved
<1>7. PICK srv : srv = served
  OBVIOUS
<1>17. /\ \A c \in served : f[c] \in pool
       /\ \A c, d \in served : c < d => f[c] # f[d] /\ distance(f[c]) >= distance(f[d])
       /\ \A c \in served, i \in pool \ {f[d] : d \in served} : distance(i) <= distance(f[c])
  <2> HIDE DEF distance, served, pool
  <2>1. \A c \in served : f[c] \in pool
    BY <1>1
  <2>2. \A c, d \in served : c < d => f[c] # f[d] /\ distance(f[c]) >= distance(f[d])
    BY <1>1
  <2>3. \A c \in served, i \in pool \ {f[d] : d \in served} : distance(i) <= distance(f[c])
    BY <1>1
  <2> QED
    BY <2>1, <2>2, <2>3
<1>18. f \in [NoRows -> DOMAIN points]
  BY <1>1, <1>3 DEF KM!Trained
<1>10. srv = Served(NoRows, Cardinality(Pool))
  BY <1>5, <1>7 DEF Served
<1> HIDE DEF empty, pool, distance, served, farthest
<1>8. /\ \A c \in srv : f[c] \in Pool
      /\ \A c, d \in srv : c < d => f[c] # f[d] /\ Reach[f[c]] >= Reach[f[d]]
      /\ \A c \in srv, i \in Pool : i \in {f[d] : d \in srv} \/ Reach[i] <= Reach[f[c]]
  <2>1. \A c \in srv : f[c] \in Pool
    BY <1>4, <1>7, <1>17
  <2>2. \A c, d \in srv : c < d => f[c] # f[d] /\ Reach[f[c]] >= Reach[f[d]]
    BY <1>4, <1>7, <1>17, <2>1
  <2>3. \A c \in srv, i \in Pool : i \in {f[d] : d \in srv} \/ Reach[i] <= Reach[f[c]]
    <3> SUFFICES ASSUME NEW c \in srv, NEW i \in Pool, i \notin {f[d] : d \in srv}
                 PROVE  Reach[i] <= Reach[f[c]]
      OBVIOUS
    <3>1. c \in served /\ i \in pool \ {f[d] : d \in served}
      BY <1>4, <1>7
    <3>2. distance(i) <= distance(f[c])
      BY <1>17, <3>1
    <3> QED
      BY <1>4, <2>1, <3>2
  <2> QED
    BY <2>1, <2>2, <2>3
<1>9. f \in [NoRows -> DOMAIN points]
  BY <1>18
<1>11. PICK S, E, P, far, R :
         S = DOMAIN points /\ E = NoRows /\ P = Pool /\ far = Reach /\ R = Reseeds
  OBVIOUS
<1>12. /\ IsFiniteSet(S) /\ S # {} /\ \A i \in S : far[i] \in Int
       /\ R \in Nat \ {0} /\ P \in SUBSET S
       /\ IsFiniteSet(E) /\ E \subseteq Int /\ Cardinality(E) <= Cardinality(S)
  <2>1. \A i \in S : far[i] \in Int
    BY <1>11, ReachFacts
  <2>2. R \in Nat \ {0}
    BY <1>11, ConfigFacts
  <2>3. P \in SUBSET S
    BY <1>11, PoolFacts
  <2> QED
    BY <1>11, <2>1, <2>2, <2>3, ClusFacts
<1>13. \A i \in S \ P : \E T \in SUBSET P : Cardinality(T) = R /\ \A j \in T : far[j] >= far[i]
  BY <1>11, PoolFacts
<1>14. /\ \A c \in srv : f[c] \in P
       /\ \A c, d \in srv : c < d => far[f[c]] >= far[f[d]]
       /\ \A c \in srv, i \in P : i \in Picked(f, srv) \/ far[i] <= far[f[c]]
       /\ srv = Served(E, Cardinality(P))
  BY <1>8, <1>10, <1>11 DEF Picked
<1>15. ServedFarthest(S, far, R, E, srv, f)
  <2>1. IsFiniteSet(S) /\ S # {}
    BY <1>12
  <2>2. \A i \in S : far[i] \in Int
    BY <1>12
  <2>3. R \in Nat \ {0}
    BY <1>12
  <2>4. P \in SUBSET S
    BY <1>12
  <2>5. IsFiniteSet(E) /\ E \subseteq Int /\ Cardinality(E) <= Cardinality(S)
    BY <1>12
  <2>6. srv = Served(E, Cardinality(P))
    BY <1>14
  <2>7. \A c \in srv : f[c] \in P
    BY <1>14
  <2>8. \A c, d \in srv : c < d => far[f[c]] >= far[f[d]]
    BY <1>14
  <2>9. \A c \in srv, i \in P : i \in Picked(f, srv) \/ far[i] <= far[f[c]]
    BY <1>14
  <2> QED
    BY ONLY <1>13, <2>1, <2>2, <2>3, <2>4, <2>5, <2>6, <2>7, <2>8, <2>9, Reseeding
<1>16. Reseeded(f)
  <2>1. Cardinality(NoRows) <= Reseeds => FarFirst(f)
    BY <1>8, <1>11, <1>15 DEF FarFirst, Picked, ServedFarthest
  <2>2. NoRows # {} => \E c \in NoRows : \A i \in DOMAIN points : Reach[i] <= Reach[f[c]]
    BY <1>11, <1>15 DEF ServedFarthest
  <2> QED
    BY <1>9, <2>1, <2>2 DEF Reseeded
<1> QED
  BY <1>6, <1>16

LEMMA MovedInt ==
  ASSUME KM!KMeansAssumption, config \in Inputs, Sampled, Centers(centroids, config.k),
         NEW f, Reseeded(f)
  PROVE  Moved(f) \in [KM!K -> Int]
<1>1. ASSUME NEW c \in NoRows PROVE Unit * points[f[c]] \in Int
  <2>1. f[c] \in DOMAIN points
    BY DEF Reseeded
  <2>2. points[f[c]] \in Int
    BY <2>1, NearType
  <2>3. Unit \in Int
    BY ConfigFacts
  <2> QED
    BY <2>2, <2>3
<1>2. ASSUME NEW c \in KM!K, c \notin NoRows
      PROVE  SumOver(Clus(c), points) * (Unit \div Cardinality(Clus(c))) \in Int
  <2>1. PICK v, m, u : v = SumOver(Clus(c), points) /\ m = Cardinality(Clus(c)) /\ u = Unit
    OBVIOUS
  <2>2. m \in Nat \ {0} /\ v \in Int
    BY <1>2, <2>1, ClusFacts DEF NoRows
  <2>3. u \in Nat
    BY <2>1, ConfigFacts
  <2>4. u \div m \in Int
    BY <2>2, <2>3
  <2>5. v * (u \div m) \in Int
    BY <2>2, <2>4, SMT
  <2> QED
    BY <2>1, <2>5
<1> QED
  BY <1>1, <1>2 DEF Moved

\* update_centroids, with normalize_centroids for spherical ones.
LEMMA UpdateMoves ==
  ASSUME KM!KMeansAssumption, TrainInv, KM!Update
  PROVE  /\ config \in Inputs /\ stage = "fold" /\ Sampled /\ config.chunk # 0
         /\ Centers(centroids, config.k)
         /\ config' = config /\ points' = points /\ redo' = redo /\ result' = result
         /\ left \in 0..config.niter /\ left > 0 /\ left' = left - 1
         /\ stage' = (IF left' = 0 THEN "full" ELSE "fold")
         /\ states' = (IF left' = 0 THEN {} ELSE KM!Fresh(KM!Trained))
         /\ assignments' = [i \in DOMAIN points |-> KM!Near(i)]
         /\ \E f : /\ Reseeded(f) /\ Moved(f) \in [KM!K -> Int]
                   /\ centroids' = IF config.spherical THEN KM!Normalized(Moved(f)) ELSE Moved(f)
<1>1. /\ stage = "fold" /\ left' = left - 1
      /\ config' = config /\ points' = points /\ redo' = redo /\ result' = result
      /\ stage' = (IF left' = 0 THEN "full" ELSE "fold")
      /\ states' = (IF left' = 0 THEN {} ELSE KM!Fresh(KM!Trained))
  BY DEF KM!Update
<1>2. /\ config \in Inputs /\ Sampled /\ config.chunk # 0 /\ Centers(centroids, config.k)
      /\ left \in 0..config.niter /\ left > 0 /\ StatesOK
  BY <1>1 DEF TrainInv
<1>3. PICK s \in states :
        /\ s.up = <<>> /\ s.next = s.to /\ assignments' = s.assigned
        /\ \E new \in KM!NewCentroids(s) :
             centroids' = IF config.spherical THEN KM!Normalized(new) ELSE new
  BY DEF KM!Update
<1>4. StateOK(s)
  BY <1>2 DEF StatesOK
<1>5. assignments' = [i \in DOMAIN points |-> KM!Near(i)]
  BY <1>2, <1>3, <1>4, WholeHolds
<1>6. PICK new \in KM!NewCentroids(s) :
        centroids' = IF config.spherical THEN KM!Normalized(new) ELSE new
  BY <1>3
<1>7. PICK f : Reseeded(f) /\ new = Moved(f)
  BY <1>2, <1>3, <1>4, UpdateFacts
<1>8. Moved(f) \in [KM!K -> Int]
  BY <1>2, <1>7, MovedInt
<1> QED
  BY <1>1, <1>2, <1>5, <1>6, <1>7, <1>8

LEMMA UpdateTrain ==
  ASSUME KM!KMeansAssumption, TrainInv, KM!Update
  PROVE  TrainInv'
<1>1. /\ config \in Inputs /\ stage = "fold" /\ Sampled /\ config.chunk # 0
      /\ Centers(centroids, config.k)
      /\ config' = config /\ points' = points /\ redo' = redo /\ result' = result
      /\ left \in 0..config.niter /\ left > 0 /\ left' = left - 1
      /\ stage' = (IF left' = 0 THEN "full" ELSE "fold")
      /\ states' = (IF left' = 0 THEN {} ELSE KM!Fresh(KM!Trained))
  BY UpdateMoves
<1>2. redo \in 0..config.nredo /\ (result = <<>> \/ Len(result) = 1)
  BY DEF TrainInv
<1>3. Sampled'
  BY <1>1, SameSample
<1>4. config.niter \in Nat /\ Unit \in Int
  BY <1>1, ConfigFacts
<1>5. left' \in 0..config.niter
  BY <1>1, <1>4
<1>6. Centers(centroids, config.k)'
  <2>1. PICK g \in [KM!K -> Int] :
          centroids' = IF config.spherical THEN KM!Normalized(g) ELSE g
    BY UpdateMoves
  <2>2. KM!Normalized(g) \in [KM!K -> Int]
    BY <1>4 DEF KM!Normalized
  <2>3. centroids' \in [0..config.k - 1 -> Int]
    BY <2>1, <2>2 DEF KM!K
  <2> QED
    BY <1>1, <2>3 DEF Centers
<1>7. CASE left' = 0
  BY <1>1, <1>2, <1>3, <1>5, <1>6, <1>7 DEF TrainInv
<1>8. CASE left' # 0
  <2>1. stage' = "fold" /\ states' = KM!Fresh(KM!Trained) /\ left' > 0
    BY <1>1, <1>4, <1>8
  <2>2. StatesOK'
    BY <1>1, <2>1, FreshTrain
  <2> QED
    BY <1>1, <1>2, <1>3, <1>5, <1>6, <2>1, <2>2 DEF TrainInv
<1> QED
  BY <1>7, <1>8

\* assign_full_dataset and the return.
LEMMA AssignFullTrain ==
  ASSUME KM!KMeansAssumption, TrainInv, KM!AssignFull
  PROVE  TrainInv'
<1>1. /\ stage = "full" /\ stage' = "redo" /\ redo' = redo + 1
      /\ config' = config /\ points' = points /\ left' = left /\ states' = states
      /\ result' = <<KM!Result>> \/ result' = result
  BY DEF KM!AssignFull
<1>2. /\ config \in Inputs /\ Sampled /\ left = 0 /\ states = {}
      /\ redo \in 0..config.nredo /\ redo < config.nredo /\ left \in 0..config.niter
      /\ result = <<>> \/ Len(result) = 1
  BY <1>1 DEF TrainInv
<1>3. Sampled'
  BY <1>1, <1>2, SameSample
<1>4. result' = <<>> \/ Len(result') = 1
  BY <1>1, <1>2
<1>5. redo' \in 0..config.nredo
  BY <1>1, <1>2, ConfigFacts
<1> QED
  BY <1>1, <1>2, <1>3, <1>4, <1>5 DEF TrainInv

LEMMA ReturnTrain ==
  ASSUME KM!KMeansAssumption, TrainInv, KM!Return
  PROVE  TrainInv'
<1>1. /\ stage = "redo" /\ stage' \in {"panic", "done"}
      /\ config' = config /\ points' = points /\ left' = left /\ states' = states
      /\ redo' = redo /\ result' = result
  BY DEF KM!Return
<1>2. config \in Inputs /\ Sampled
  BY <1>1 DEF TrainInv
<1>3. Sampled'
  BY <1>1, <1>2, SameSample
<1> QED
  BY <1>1, <1>2, <1>3 DEF TrainInv

LEMMA StutterTrain ==
  ASSUME KM!KMeansAssumption, TrainInv, UNCHANGED KM!vars
  PROVE  TrainInv'
<1>1. /\ config' = config /\ stage' = stage /\ points' = points /\ centroids' = centroids
      /\ left' = left /\ redo' = redo /\ states' = states /\ result' = result
  BY DEF KM!vars
<1>2. Sampled => Sampled'
  <2> SUFFICES ASSUME Sampled PROVE Sampled'
    OBVIOUS
  <2>1. config \in Inputs
    BY DEF TrainInv
  <2> QED
    BY <1>1, <2>1, SameSample
<1>3. StatesOK => StatesOK'
  <2> SUFFICES ASSUME StatesOK PROVE StatesOK'
    OBVIOUS
  <2>1. /\ KM!Chunks' = KM!Chunks
        /\ \A s : StateOK(s)' <=> StateOK(s)
        /\ \A s, x : Covers(s, x)' <=> Covers(s, x)
    BY <1>1, SameStates
  <2> QED
    BY <1>1, <2>1 DEF StatesOK
<1>4. Centers(centroids, config.k) => Centers(centroids, config.k)'
  BY <1>1 DEF Centers
<1> QED
  BY <1>1, <1>2, <1>3, <1>4 DEF TrainInv

LEMMA TrainStep ==
  ASSUME KM!KMeansAssumption, Fits, TrainInv, [KM!Next]_(KM!vars)
  PROVE  TrainInv'
<1>1. CASE KM!Call
  BY <1>1, CallTrain
<1>2. CASE KM!Forgy
  BY <1>2, ForgyTrain
<1>3. ASSUME NEW s \in states, KM!Split(s) PROVE TrainInv'
  BY <1>3, SplitTrain
<1>4. ASSUME NEW s \in states, KM!Fold(s) PROVE TrainInv'
  BY <1>4, FoldTrain
<1>5. ASSUME NEW a \in states, NEW b \in states, KM!Merge(a, b) PROVE TrainInv'
  BY <1>5, MergeTrain
<1>6. CASE KM!Update
  BY <1>6, UpdateTrain
<1>7. CASE KM!AssignFull
  BY <1>7, AssignFullTrain
<1>8. CASE KM!Return
  BY <1>8, ReturnTrain
<1>9. CASE UNCHANGED KM!vars
  BY <1>9, StutterTrain
<1> QED
  BY <1>1, <1>2, <1>3, <1>4, <1>5, <1>6, <1>7, <1>8, <1>9 DEF KM!Next

LEMMA TrainInvariance ==
  ASSUME KM!KMeansAssumption, Fits
  PROVE  KM!Spec => []TrainInv
<1>1. KM!Init => TrainInv
  BY KMeansInit
<1>2. TrainInv /\ [KM!Next]_(KM!vars) => TrainInv'
  BY TrainStep
<1> QED
  BY <1>1, <1>2, PTL DEF KM!Spec

\* What a state of an iteration holds is what it should account for.
LEMMA StateAccounts ==
  ASSUME KM!KMeansAssumption, config \in Inputs, Sampled, config.chunk # 0,
         Centers(centroids, config.k), NEW s, StateOK(s)
  PROVE  /\ s.assigned \in [UNION {KM!RowsOf(x) : x \in s.from..s.next - 1} -> KM!K]
         /\ {x.row : x \in s.candidates} \subseteq KM!Trained
         /\ \A c \in KM!K :
              LET mine == {i \in DOMAIN s.assigned : s.assigned[i] = c}
              IN /\ s.counts[c] = KM!Cardinality(mine)
                 /\ s.sums[c] = KM!Total(points, mine)
<1>1. PICK a, b : a = s.from /\ b = s.next
  OBVIOUS
<1>2. a \in Nat /\ b \in Int /\ a <= b /\ Holds(s)
  BY <1>1 DEF StateOK
<1>3. UNION {KM!RowsOf(x) : x \in a..b - 1} = Span(a, b)
  BY <1>2, SpanUnion
<1>4. s.assigned = [i \in Span(a, b) |-> KM!Near(i)]
  BY <1>1, <1>2 DEF Holds
<1>5. Span(a, b) \subseteq DOMAIN points /\ IsFiniteSet(Span(a, b))
  BY SpanFacts
<1>6. s.assigned \in [Span(a, b) -> KM!K]
  BY <1>4, <1>5, NearType
<1>7. {x.row : x \in s.candidates} \subseteq KM!Trained
  <2> SUFFICES ASSUME NEW x \in s.candidates PROVE x.row \in KM!Trained
    OBVIOUS
  <2>1. PICK y : x \in KM!Candidates(y)
    BY <1>2 DEF Holds
  <2>2. x.row \in Forward(y)
    BY <2>1, CandidatesAre
  <2> QED
    BY <2>2 DEF Forward, Top, KM!RowsOf
<1>8. ASSUME NEW c \in KM!K
      PROVE  LET mine == {i \in DOMAIN s.assigned : s.assigned[i] = c}
             IN s.counts[c] = KM!Cardinality(mine) /\ s.sums[c] = KM!Total(points, mine)
  <2>1. PICK mine : mine = {i \in DOMAIN s.assigned : s.assigned[i] = c}
    OBVIOUS
  <2>2. mine = Part(a, b, c)
    BY <1>4, <2>1 DEF Part
  <2>3. IsFiniteSet(mine)
    BY <1>5, <2>2, FS_Subset DEF Part
  <2>4. s.counts[c] = Cardinality(mine) /\ s.sums[c] = SumOver(mine, points)
    BY <1>1, <1>2, <2>2 DEF Holds
  <2>5. KM!Cardinality(mine) = Cardinality(mine)
    BY SameSets
  <2>6. KM!Total(points, mine) = SumOver(mine, points)
    BY <2>3, TotalIs
  <2> QED
    BY <2>1, <2>4, <2>5, <2>6
<1> QED
  BY <1>1, <1>3, <1>6, <1>7, <1>8

LEMMA AccountedHolds ==
  ASSUME KM!KMeansAssumption, TrainInv
  PROVE  KM!Accounted
<1>1. stage # "fold" => states = {}
  BY DEF TrainInv
<1>2. ASSUME stage = "fold"
      PROVE  /\ config \in Inputs /\ Sampled /\ config.chunk # 0
             /\ Centers(centroids, config.k) /\ StatesOK
  BY <1>2 DEF TrainInv
<1>3. ASSUME NEW s \in states
      PROVE  /\ 0 <= s.from /\ s.from <= s.next /\ s.next <= s.to /\ s.to <= KM!Chunks
             /\ s.assigned \in [UNION {KM!RowsOf(x) : x \in s.from..s.next - 1} -> KM!K]
             /\ {x.row : x \in s.candidates} \subseteq KM!Trained
             /\ \A c \in KM!K :
                  LET mine == {i \in DOMAIN s.assigned : s.assigned[i] = c}
                  IN /\ s.counts[c] = KM!Cardinality(mine)
                     /\ s.sums[c] = KM!Total(points, mine)
  <2>1. /\ config \in Inputs /\ Sampled /\ config.chunk # 0
        /\ Centers(centroids, config.k) /\ StateOK(s)
    BY <1>1, <1>2, <1>3 DEF StatesOK
  <2>2. 0 <= s.from /\ s.from <= s.next /\ s.next <= s.to /\ s.to <= KM!Chunks
    BY <2>1 DEF StateOK
  <2> QED
    BY <2>1, <2>2, StateAccounts
<1>4. ASSUME stage = "fold", NEW x \in 0..KM!Chunks - 1
      PROVE  KM!Cardinality({s \in states : s.from <= x /\ x < s.to}) = 1
  <2>1. PICK s \in states : Covers(s, x)
    BY <1>2, <1>4 DEF StatesOK
  <2>2. {t \in states : t.from <= x /\ x < t.to} = {s}
    BY <1>2, <1>4, <2>1 DEF StatesOK, Covers
  <2>3. Cardinality({s}) = 1
    BY FS_Singleton
  <2> QED
    BY <2>2, <2>3, SameSets
<1>5. KM!TypeOK
  <2>1. result = <<>> \/ Len(result) = 1
    BY DEF TrainInv
  <2>2. KM!Len(result) <= 1
    <3>1. CASE result = <<>>
      <4>1. KM!Len(<<>>) = 0
        OBVIOUS
      <4>2. KM!Len(result) = 0
        BY <3>1, <4>1, Zenon
      <4> QED
        BY <4>2
    <3>2. CASE Len(result) = 1
      BY <3>2
    <3> QED
      BY <2>1, <3>1, <3>2
  <2>3. /\ stage \in {"call", "redo", "fold", "full", "done", "panic"}
        /\ left \in 0..config.niter /\ redo \in 0..config.nredo
    BY DEF TrainInv
  <2> QED
    BY <1>3, <1>4, <2>2, <2>3 DEF KM!TypeOK
<1> QED
  BY <1>3, <1>5 DEF KM!Accounted

\* At any moment every thread has accounted for the chunks it is done with, and
\* no chunk is anyone else's (assign_points_for_update, merge_from).
THEOREM ThreadsAccount ==
  ASSUME Fits
  PROVE  Trains => []Accounted
<1>1. TrainInv => Accounted
  BY AccountedHolds, TrainingAssumption DEF Accounted
<1>2. Trains => []TrainInv
  BY TrainInvariance, TrainingAssumption DEF Trains
<1> QED
  BY <1>1, <1>2, PTL

-----------------------------------------------------------------------------
(* An iteration is one of Lloyd's. *)

LEMMA SameLloyd ==
  /\ \A x, z : KM!Lloyd!Nearest(x, z) = KM!Nearest(x, z)
  /\ \A x, z : KM!Lloyd!Far(x, z) = KM!Far(x, z)
  /\ \A z : KM!Lloyd!Normalized(z) = KM!Normalized(z)
  /\ \A s : KM!Lloyd!Cardinality(s) = Cardinality(s)
<1>1. \A x, c : KM!Lloyd!Distance(x, c) = KM!Distance(x, c)
  BY DEF KM!Lloyd!Distance, KM!Distance
<1>2. \A x, z : KM!Lloyd!Nearest(x, z) = KM!Nearest(x, z)
  BY <1>1, Zenon DEF KM!Lloyd!Nearest, KM!Nearest
<1>3. \A s : KM!Lloyd!Min(s) = KM!Min(s)
  BY Zenon DEF KM!Lloyd!Min, KM!Min
<1>4. \A x, z : KM!Lloyd!Far(x, z) = KM!Far(x, z)
  BY <1>1, <1>3, Zenon DEF KM!Lloyd!Far, KM!Far
<1>5. \A z : KM!Lloyd!Normalized(z) = KM!Normalized(z)
  BY Zenon DEF KM!Lloyd!Normalized, KM!Normalized
<1>6. \A s : KM!Lloyd!IsFiniteSet(s) <=> IsFiniteSet(s)
  BY Zenon DEF KM!Lloyd!IsFiniteSet, IsFiniteSet
<1>7. \A s : KM!Lloyd!Cardinality(s) = Cardinality(s)
  BY <1>6, Zenon DEF KM!Lloyd!Cardinality, Cardinality
<1> QED
  BY <1>2, <1>4, <1>5, <1>7

LEMMA LloydTotal ==
  ASSUME NEW p, NEW s, IsFiniteSet(s)
  PROVE  KM!Lloyd!Total(p, s) = SumOver(s, p)
<1> DEFINE Turn(g) == [t \in SUBSET s |-> IF t = {} THEN 0 ELSE p[Some(t)] + g[t \ {Some(t)}]]
<1>1. KM!Lloyd!Total(p, s) = (CHOOSE g : g = Turn(g))[s]
  BY Zenon DEF KM!Lloyd!Total, KM!Lloyd!MapThenSumSet, KM!Lloyd!MapThenFoldSet, Some
<1>2. KM!Total(p, s) = (CHOOSE g : g = Turn(g))[s]
  BY Zenon DEF KM!Total, KM!MapThenSumSet, KM!MapThenFoldSet, Some
<1> QED
  BY <1>1, <1>2, TotalIs

\* The clusters and the distances are those of Lloyd.
LEMMA LloydTerms ==
  ASSUME KM!KMeansAssumption, config \in Inputs, Sampled, Centers(centroids, config.k)
  PROVE  /\ DOMAIN centroids = KM!K
         /\ \A c : KM!Lloyd!Cluster(c) = Clus(c)
         /\ KM!Lloyd!Empty = NoRows
         /\ \A i \in DOMAIN points : KM!Lloyd!Distant(i) = Reach[i]
         /\ \A c : KM!Lloyd!Cardinality(KM!Lloyd!Cluster(c)) = Cardinality(Clus(c))
         /\ \A c : KM!Lloyd!Total(points, KM!Lloyd!Cluster(c)) = SumOver(Clus(c), points)
<1>1. DOMAIN centroids = KM!K
  BY DEF Centers, KM!K
<1>2. \A c : KM!Lloyd!Cluster(c) = Clus(c)
  BY SameLloyd, Zenon DEF KM!Lloyd!Cluster, Clus, KM!Near
<1>3. KM!Lloyd!Empty = NoRows
  BY <1>1, <1>2, Zenon DEF KM!Lloyd!Empty, NoRows
<1>4. \A i \in DOMAIN points : KM!Lloyd!Distant(i) = Reach[i]
  BY SameLloyd DEF KM!Lloyd!Distant, Reach, KM!Distant
<1>5. \A c : KM!Lloyd!Cardinality(KM!Lloyd!Cluster(c)) = Cardinality(Clus(c))
  BY <1>2, SameLloyd, Zenon
<1>6. ASSUME NEW c PROVE KM!Lloyd!Total(points, KM!Lloyd!Cluster(c)) = SumOver(Clus(c), points)
  <2>1. IsFiniteSet(Clus(c))
    BY ClusFacts
  <2> QED
    BY <1>2, <2>1, LloydTotal
<1> QED
  BY <1>1, <1>2, <1>3, <1>4, <1>5, <1>6

LEMMA UpdateIterates ==
  ASSUME KM!KMeansAssumption, TrainInv, KM!Update
  PROVE  KM!Lloyd!Iterate
<1>1. /\ config \in Inputs /\ Sampled /\ Centers(centroids, config.k)
      /\ config' = config /\ points' = points /\ left > 0 /\ left' = left - 1
  BY UpdateMoves
<1>2. PICK f : /\ Reseeded(f)
               /\ centroids' = IF config.spherical THEN KM!Normalized(Moved(f)) ELSE Moved(f)
  BY UpdateMoves
<1>3. /\ DOMAIN centroids = KM!K
      /\ \A c : KM!Lloyd!Cluster(c) = Clus(c)
      /\ KM!Lloyd!Empty = NoRows
      /\ \A i \in DOMAIN points : KM!Lloyd!Distant(i) = Reach[i]
      /\ \A c : KM!Lloyd!Cardinality(KM!Lloyd!Cluster(c)) = Cardinality(Clus(c))
      /\ \A c : KM!Lloyd!Total(points, KM!Lloyd!Cluster(c)) = SumOver(Clus(c), points)
  BY <1>1, LloydTerms
<1>4. f \in [KM!Lloyd!Empty -> DOMAIN points]
  BY <1>2, <1>3 DEF Reseeded
<1>5. KM!Lloyd!Cardinality(KM!Lloyd!Empty) <= Reseeds => KM!Lloyd!Farthest(f)
  <2>1. KM!Lloyd!Cardinality(KM!Lloyd!Empty) = Cardinality(NoRows)
    BY <1>3, SameLloyd
  <2>2. \A c \in NoRows : f[c] \in DOMAIN points
    BY <1>3, <1>4
  <2>3. FarFirst(f) => KM!Lloyd!Farthest(f)
    BY <1>3, <2>2 DEF FarFirst, KM!Lloyd!Farthest
  <2> QED
    BY <1>2, <2>1, <2>3 DEF Reseeded
<1>6. Moved(f) = [c \in DOMAIN centroids |->
                IF c \in KM!Lloyd!Empty THEN Unit * points[f[c]]
                ELSE KM!Lloyd!Total(points, KM!Lloyd!Cluster(c))
                       * (Unit \div KM!Lloyd!Cardinality(KM!Lloyd!Cluster(c)))]
  BY <1>3 DEF Moved
<1>7. KM!Lloyd!Normalized(Moved(f)) = KM!Normalized(Moved(f))
  BY SameLloyd
<1>8. config.spherical' = config.spherical
  BY <1>1
<1> QED
  BY <1>1, <1>2, <1>4, <1>5, <1>6, <1>7, <1>8 DEF KM!Lloyd!Iterate

\* Init of Lloyd, and every step one of Lloyd's or a stutter.
LEMMA LloydStep ==
  ASSUME KM!KMeansAssumption, TrainInv, [KM!Next]_(KM!vars)
  PROVE  [KM!Lloyd!Next]_(KM!Lloyd!vars)
<1>1. CASE KM!Call
  <2>1. stage = "call" /\ left = 0 /\ centroids' = <<>>
    BY <1>1 DEF KM!Call, TrainInv
  <2>2. DOMAIN centroids' = {}
    BY <2>1
  <2>3. KM!Lloyd!Start
    BY <2>1, <2>2 DEF KM!Lloyd!Start
  <2> QED
    BY <2>3 DEF KM!Lloyd!Next
<1>2. CASE KM!Forgy
  <2>1. /\ left = 0 /\ points' = points
        /\ \E f \in [KM!K -> KM!Trained] : centroids' = [c \in KM!K |-> Unit * points[f[c]]]
    BY <1>2 DEF KM!Forgy, TrainInv
  <2>2. KM!Lloyd!Start
    BY <2>1 DEF KM!Lloyd!Start, KM!Trained
  <2> QED
    BY <2>2 DEF KM!Lloyd!Next
<1>3. CASE KM!Update
  BY <1>3, UpdateIterates DEF KM!Lloyd!Next
<1>4. CASE ~(KM!Call \/ KM!Forgy \/ KM!Update)
  <2>1. points' = points /\ centroids' = centroids /\ config' = config /\ left' = left
    BY <1>4 DEF KM!Next, KM!vars, KM!Split, KM!Fold, KM!Merge, KM!AssignFull, KM!Return
  <2> QED
    BY <2>1 DEF KM!Lloyd!vars
<1> QED
  BY <1>1, <1>2, <1>3, <1>4

\* However rayon divides the chunks, training is Lloyd's (run_lloyd_iterations).
THEOREM TrainingIsLloyd ==
  ASSUME Fits
  PROVE  Trains => IsLloyd
<1>1. KM!Init => KM!Lloyd!Init
  BY DEF KM!Init, KM!Lloyd!Init
<1>2. TrainInv /\ [KM!Next]_(KM!vars) => [KM!Lloyd!Next]_(KM!Lloyd!vars)
  BY LloydStep, TrainingAssumption
<1>3. KM!Spec => []TrainInv
  BY TrainInvariance, TrainingAssumption
<1> QED
  BY <1>1, <1>2, <1>3, PTL DEF Trains, KM!Spec, IsLloyd, KM!Implements, KM!Lloyd!Spec

-----------------------------------------------------------------------------
(* An iteration takes the centroids no farther from the sample. *)

LEMMA SumOnes ==
  ASSUME NEW S, IsFiniteSet(S), NEW f, \A x \in S : f[x] = 1
  PROVE  SumOver(S, f) = Cardinality(S)
<1> DEFINE T == {s \in SUBSET S : SumOver(s, f) = Cardinality(s)}
<1>1. {} \in T
  BY SumEmpty, FS_EmptySet
<1>2. ASSUME NEW s \in SUBSET S, s # {}, s \ {Some(s)} \in T
      PROVE  s \in T
  <2>1. PICK x, r : x = Some(s) /\ r = s \ {Some(s)}
    OBVIOUS
  <2>2. IsFiniteSet(s) /\ x \in s /\ SumOver(s, f) = f[x] + SumOver(r, f)
    <3>1. IsFiniteSet(s)
      BY FS_Subset
    <3>2. s # {} /\ x = Some(s) /\ r = s \ {Some(s)}
      BY <1>2, <2>1
    <3>3. SumOver(s, f) = f[x] + SumOver(r, f)
      BY <3>1, <3>2, SumStep
    <3> QED
      BY <3>1, <3>2, <3>3 DEF Some
  <2>3. IsFiniteSet(r) /\ Cardinality(r) = Cardinality(s) - 1 /\ Cardinality(s) \in Nat
    BY <2>1, <2>2, FS_RemoveElement, FS_CardinalityType
  <2>4. SumOver(r, f) = Cardinality(r) /\ f[x] = 1
    BY <1>2, <2>1, <2>2
  <2> QED
    BY <2>2, <2>3, <2>4
<1>3. S \in T
  <2> HIDE DEF T
  <2> QED
    BY <1>1, <1>2, PeelInduction
<1> QED
  BY <1>3

\* The squares of points from b and from a.
LEMMA TwoSquares ==
  ASSUME NEW u \in Int, NEW x \in Int, NEW a \in Int, NEW b \in Int
  PROVE  (x * u - a) * (x * u - a) = 1 * ((x * u - b) * (x * u - b))
                                     + 1 * (2 * (u * (b - a)) * x + (a * a - b * b) * 1)
<1>1. PICK y : y = x * u /\ y \in Int
  BY SMT
<1>2. (y - a) * (y - a) = y * y - 2 * (y * a) + a * a
      /\ (y - b) * (y - b) = y * y - 2 * (y * b) + b * b
  BY <1>1, SMT
<1>3. (u * (b - a)) * x = y * b - y * a
  BY <1>1, SMT
<1>4. PICK p, q, r, s, t : p = y * y /\ q = y * a /\ r = y * b /\ s = a * a /\ t = b * b
  OBVIOUS
<1>5. p \in Int /\ q \in Int /\ r \in Int /\ s \in Int /\ t \in Int
  BY <1>1, <1>4, SMT
<1>6. PICK v, w, e : v = (y - a) * (y - a) /\ w = (y - b) * (y - b) /\ e = (u * (b - a)) * x
  OBVIOUS
<1>7. v = p - 2 * q + s /\ w = p - 2 * r + t /\ e = r - q
  BY <1>2, <1>3, <1>4, <1>6
<1>8. v = w + (2 * e + (s - t))
  BY <1>5, <1>7
<1>9. 2 * (u * (b - a)) * x = 2 * e
  BY <1>6, SMT
<1> QED
  BY <1>1, <1>4, <1>5, <1>6, <1>7, <1>8, <1>9

Squares(A, p, u, a) == [i \in A |-> (p[i] * u - a) * (p[i] * u - a)]

\* Points are no farther from their mean than from anywhere else, in all.
LEMMA MeanIsNearest ==
  ASSUME NEW A, IsFiniteSet(A), A # {}, NEW p, \A i \in A : p[i] \in Int,
         NEW u \in Int, NEW q \in Int, u = Cardinality(A) * q,
         NEW a \in Int, NEW b, b = SumOver(A, p) * q
  PROVE  SumOver(A, Squares(A, p, u, b)) <= SumOver(A, Squares(A, p, u, a))
<1> DEFINE h == [i \in A |-> (p[i] * u - b) * (p[i] * u - b)]
           g == [i \in A |-> (p[i] * u - a) * (p[i] * u - a)]
           one == [i \in A |-> 1]
           e == 2 * (u * (b - a))
           d == a * a - b * b
           l == [i \in A |-> e * p[i] + d * 1]
<1>1. PICK m, v : m = Cardinality(A) /\ v = SumOver(A, p)
  OBVIOUS
<1>2. m \in Nat \ {0} /\ v \in Int /\ b \in Int
  <2>1. m \in Nat /\ m # 0
    BY <1>1, FS_CardinalityType, FS_EmptySet
  <2>2. v \in Int
    BY <1>1, SumInt
  <2>3. v * q \in Int
    BY <2>2, SMT
  <2> QED
    BY <1>1, <2>1, <2>2, <2>3
<1>3. e \in Int /\ d \in Int
  BY <1>2, SMT
<1>4. \A i \in A : p[i] \in Int /\ one[i] \in Int /\ one[i] = 1
  OBVIOUS
<1>5. \A i \in A : h[i] \in Int /\ h[i] = (p[i] * u - b) * (p[i] * u - b)
  <2> SUFFICES ASSUME NEW i \in A PROVE (p[i] * u - b) * (p[i] * u - b) \in Int
    OBVIOUS
  <2>1. PICK x : x = p[i] /\ x \in Int
    OBVIOUS
  <2>2. (x * u - b) * (x * u - b) \in Int
    BY <1>2, <2>1, SMT
  <2> QED
    BY <2>1, <2>2
<1>6. \A i \in A : l[i] \in Int /\ l[i] = e * p[i] + d * one[i]
  <2> HIDE DEF e, d
  <2> SUFFICES ASSUME NEW i \in A PROVE e * p[i] + d * 1 \in Int
    OBVIOUS
  <2>1. PICK x : x = p[i] /\ x \in Int
    OBVIOUS
  <2>2. e * x + d * 1 \in Int
    BY <1>3, <2>1, SMT
  <2> QED
    BY <2>1, <2>2
<1>7. \A i \in A : g[i] = 1 * h[i] + 1 * l[i]
  <2> SUFFICES ASSUME NEW i \in A
               PROVE  (p[i] * u - a) * (p[i] * u - a)
                        = 1 * ((p[i] * u - b) * (p[i] * u - b)) + 1 * (e * p[i] + d * 1)
    OBVIOUS
  <2>1. PICK x : x = p[i] /\ x \in Int
    OBVIOUS
  <2>2. (x * u - a) * (x * u - a) = 1 * ((x * u - b) * (x * u - b)) + 1 * (e * x + d * 1)
    BY <1>2, <2>1, TwoSquares
  <2> QED
    BY <2>1, <2>2
<1> HIDE DEF h, g, one, l, e, d
<1>8. SumOver(A, one) = m
  BY <1>1, <1>4, SumOnes
<1>9. SumOver(A, l) = e * v + d * m
  <2>1. SumOver(A, l) = e * SumOver(A, p) + d * SumOver(A, one)
    BY <1>3, <1>4, <1>6, SumLinear
  <2> QED
    BY <1>1, <1>8, <2>1
<1>10. SumOver(A, g) = 1 * SumOver(A, h) + 1 * SumOver(A, l)
  <2>1. PICK j : j = 1 /\ j \in Int
    OBVIOUS
  <2>2. \A i \in A : h[i] \in Int /\ l[i] \in Int /\ g[i] = j * h[i] + j * l[i]
    BY <1>5, <1>6, <1>7, <2>1
  <2>3. SumOver(A, g) = j * SumOver(A, h) + j * SumOver(A, l)
    BY <2>1, <2>2, SumLinear
  <2> QED
    BY <2>1, <2>3
<1>11. SumOver(A, h) \in Int
  BY <1>5, SumInt
<1>12. e * v + d * m >= 0
  <2>1. u * v = m * b
    <3>1. u = m * q /\ b = v * q
      BY <1>1
    <3>2. (m * q) * v = m * (v * q)
      BY <1>2, SMT
    <3> QED
      BY <3>1, <3>2, Zenon
  <2>2. PICK c : c = b - a /\ c \in Int
    BY <1>2
  <2>3. (2 * (u * c)) * v = 2 * (c * (u * v))
    BY <1>2, <2>2, SMT
  <2>4. c * (m * b) = m * (c * b) /\ d * m = m * (a * a - b * b)
    BY <1>2, <2>2, SMT DEF d
  <2>5. PICK w : w = c * b /\ w \in Int
    BY <1>2, <2>2, SMT
  <2>6. e * v = 2 * (m * w)
    BY <2>1, <2>2, <2>3, <2>4, <2>5 DEF e
  <2>7. c * c = w + w + (a * a - b * b)
    <3>1. a = b - c
      BY <1>2, <2>2
    <3>2. (b - c) * (b - c) = b * b - 2 * (c * b) + c * c
      BY <1>2, <2>2, SMT
    <3>3. b * b \in Int /\ c * c \in Int
      BY <1>2, <2>2, SMT
    <3> QED
      BY <2>5, <3>1, <3>2, <3>3
  <2>8. PICK y : y = a * a - b * b /\ y \in Int
    BY <1>2, SMT
  <2>9. 2 * (m * w) + m * y = m * (w + w + y)
    BY <1>2, <2>5, <2>8, SMT
  <2>10. PICK k : k = c * c /\ k \in Nat
    BY <2>2, SMT
  <2>11. e * v + d * m = m * k
    BY <2>4, <2>6, <2>7, <2>8, <2>9, <2>10
  <2>12. m * k >= 0
    BY <1>2, <2>10, SMT
  <2> QED
    BY <2>11, <2>12
<1>13. e * v + d * m \in Int
  BY <1>2, <1>3, SMT
<1>14. SumOver(A, h) <= SumOver(A, g)
  BY <1>9, <1>10, <1>11, <1>12, <1>13
<1> QED
  BY <1>14 DEF h, g, Squares

LEMMA FarInt ==
  ASSUME Unit \in Int, NEW k, NEW z, Centers(z, k), NEW x \in Int
  PROVE  KM!Far(x, z) \in Int
<1>1. KM!Nearest(x, z) \in 0..k - 1 /\ KM!Far(x, z) = KM!Distance(x, z[KM!Nearest(x, z)])
  BY NearestFacts
<1>2. z[KM!Nearest(x, z)] \in Int
  BY <1>1 DEF Centers
<1> QED
  BY <1>1, <1>2, DistanceInt

CostOK == IsFiniteSet(DOMAIN points) => KM!Cost = Spread(points, centroids)

LEMMA CostIs == CostOK
<1> SUFFICES ASSUME IsFiniteSet(DOMAIN points) PROVE KM!Cost = Spread(points, centroids)
  BY DEF CostOK
<1>1. KM!Cost = KM!MapThenSumSet(LAMBDA i : KM!Far(points[i], centroids), DOMAIN points)
  BY Zenon DEF KM!Cost, KM!Distant, KM!Trained, KM!MapThenSumSet, KM!MapThenFoldSet
<1> QED
  BY <1>1, SpreadIs

\* Unit is a multiple of the size of a cluster.
LEMMA UnitDivides ==
  ASSUME KM!KMeansAssumption, config \in Inputs, Sampled, Centers(centroids, config.k),
         NEW c \in KM!K, c \notin NoRows
  PROVE  /\ Unit \div Cardinality(Clus(c)) \in Int
         /\ Unit = Cardinality(Clus(c)) * (Unit \div Cardinality(Clus(c)))
<1>1. PICK m, n, N, u : /\ m = Cardinality(Clus(c)) /\ n = Cardinality(DOMAIN points)
                        /\ N = Cardinality(KM!Rows) /\ u = Unit
  OBVIOUS
<1>2. m \in Nat \ {0}
  BY <1>1, ClusFacts DEF NoRows
<1>3. n \in Nat /\ n <= N /\ IsFiniteSet(DOMAIN points)
  BY <1>1, SampleFacts
<1>4. m <= n
  <2>1. Clus(c) \subseteq DOMAIN points
    BY ClusFacts
  <2> QED
    BY <1>1, <1>3, <2>1, FS_Subset
<1>5. /\ N \in Nat /\ KM!Rows = 0..N - 1 /\ u \in Nat \ {0}
      /\ \A r \in KM!Rows : u % (r + 1) = 0
  BY <1>1, ConfigFacts
<1>6. m - 1 \in 0..N - 1 /\ m - 1 + 1 = m
  BY <1>2, <1>3, <1>4, <1>5
<1>7. u % m = 0
  BY <1>5, <1>6
<1>8. u \div m \in Nat /\ u = m * (u \div m) + (u % m)
  BY <1>2, <1>5, SMT
<1>9. m * (u \div m) \in Int
  BY <1>2, <1>8, SMT
<1>10. u = m * (u \div m)
  BY <1>7, <1>8, <1>9
<1> QED
  BY <1>1, <1>8, <1>10

LEMMA ClusterNearer ==
  ASSUME KM!KMeansAssumption, config \in Inputs, Sampled, Centers(centroids, config.k),
         NEW f, Reseeded(f), NEW z, z = Moved(f), NEW c \in KM!K,
         NEW old, old = [i \in DOMAIN points |-> KM!Far(points[i], centroids)],
         NEW new, new = [i \in DOMAIN points |-> KM!Far(points[i], z)]
  PROVE  SumOver(Clus(c), new) <= SumOver(Clus(c), old)
<1>1. CASE c \in NoRows
  <2>1. Clus(c) = {}
    BY <1>1 DEF NoRows
  <2>2. SumOver({}, new) = 0 /\ SumOver({}, old) = 0
    BY SumEmpty
  <2> QED
    BY <2>1, <2>2
<1>2. CASE c \notin NoRows
  <2>1. PICK A, a, b, u, m, q, k, y :
          /\ A = Clus(c) /\ a = centroids[c] /\ b = z[c] /\ u = Unit /\ k = config.k
          /\ m = Cardinality(Clus(c)) /\ q = Unit \div Cardinality(Clus(c))
          /\ y = centroids
    OBVIOUS
  <2>2. /\ IsFiniteSet(A) /\ A # {} /\ A \subseteq DOMAIN points
        /\ \A i \in A : points[i] \in Int
    BY <1>2, <2>1, ClusFacts, NearType DEF NoRows
  <2>3. u \in Int /\ q \in Int /\ u = Cardinality(A) * q
    <3>1. q \in Int /\ u = Cardinality(A) * q
      BY <1>2, <2>1, UnitDivides
    <3>2. u \in Int
      BY <2>1, ConfigFacts
    <3> QED
      BY <3>1, <3>2
  <2>4. KM!K = 0..k - 1 /\ Centers(y, k)
    BY <2>1 DEF KM!K
  <2>5. z \in [KM!K -> Int] /\ b = SumOver(A, points) * q
    <3>1. Moved(f) \in [KM!K -> Int]
      BY MovedInt
    <3>2. Moved(f)[c] = SumOver(Clus(c), points) * (Unit \div Cardinality(Clus(c)))
      BY <1>2 DEF Moved
    <3> QED
      BY <2>1, <3>1, <3>2
  <2>6. Centers(z, k) /\ a \in Int /\ b \in Int
    BY <2>1, <2>4, <2>5 DEF Centers
  <2> DEFINE h == [i \in A |-> (points[i] * u - b) * (points[i] * u - b)]
             g == [i \in A |-> (points[i] * u - a) * (points[i] * u - a)]
  <2>7. SumOver(A, h) <= SumOver(A, g)
    <3>1. PICK p : p = points
      OBVIOUS
    <3>2. /\ IsFiniteSet(A) /\ A # {} /\ \A i \in A : p[i] \in Int
          /\ b = SumOver(A, p) * q
      BY <2>2, <2>5, <3>1
    <3>3. a \in Int
      BY <2>6
    <3>4. SumOver(A, Squares(A, p, u, b)) <= SumOver(A, Squares(A, p, u, a))
      BY ONLY <2>3, <3>2, <3>3, MeanIsNearest
    <3>5. Squares(A, p, u, b) = h /\ Squares(A, p, u, a) = g
      BY <3>1 DEF Squares
    <3> HIDE DEF g, h
    <3> QED
      BY <3>4, <3>5
  <2>8. ASSUME NEW i \in A
        PROVE  /\ old[i] = g[i] /\ g[i] \in Int /\ h[i] \in Int
               /\ new[i] \in Int /\ new[i] <= h[i]
    <3>1. PICK x : x = points[i] /\ x \in Int
      BY <2>2
    <3>2. KM!Nearest(x, y) = c
      BY <2>1, <3>1 DEF Clus, KM!Near
    <3>3. KM!Far(x, y) = KM!Distance(x, y[KM!Nearest(x, y)])
      BY <2>3, <2>1, <2>4, <3>1, NearestFacts
    <3>4. old[i] = KM!Distance(x, a)
      BY <2>1, <2>2, <3>1, <3>2, <3>3
    <3>5. KM!Nearest(x, z) \in 0..k - 1 /\ KM!Far(x, z) = KM!Distance(x, z[KM!Nearest(x, z)])
          /\ \A d \in 0..k - 1 : KM!Far(x, z) <= KM!Distance(x, z[d])
      BY <2>3, <2>1, <2>6, <3>1, NearestFacts
    <3>6. new[i] = KM!Far(x, z)
      BY <2>2, <3>1
    <3>7. new[i] <= KM!Distance(x, b)
      BY <2>1, <2>4, <3>5, <3>6
    <3>8. KM!Distance(x, a) \in Int /\ KM!Distance(x, b) \in Int
          /\ KM!Distance(x, z[KM!Nearest(x, z)]) \in Int
      <4>1. Unit \in Int
        BY <2>1, <2>3
      <4>2. z[KM!Nearest(x, z)] \in Int
        BY <2>6, <3>5 DEF Centers
      <4> QED
        BY <2>6, <3>1, <4>1, <4>2, DistanceInt
    <3>9. g[i] = KM!Distance(x, a) /\ h[i] = KM!Distance(x, b)
      BY <2>1, <3>1 DEF KM!Distance
    <3> HIDE DEF g, h
    <3> QED
      BY <3>4, <3>5, <3>6, <3>7, <3>8, <3>9
  <2> HIDE DEF g, h
  <2>9. SumOver(A, old) = SumOver(A, g)
    BY <2>2, <2>8, SumSame
  <2>10. SumOver(A, new) <= SumOver(A, h)
    BY <2>2, <2>8, SumLess
  <2>11. SumOver(A, new) \in Int /\ SumOver(A, h) \in Int /\ SumOver(A, g) \in Int
    BY <2>2, <2>8, SumInt
  <2> QED
    BY <2>1, <2>7, <2>9, <2>10, <2>11
<1> QED
  BY <1>1, <1>2

LEMMA MovedNearer ==
  ASSUME KM!KMeansAssumption, config \in Inputs, Sampled, Centers(centroids, config.k),
         NEW f, Reseeded(f), NEW z, z = Moved(f)
  PROVE  Spread(points, z) <= Spread(points, centroids)
<1>1. PICK S, k, near, old, new :
        /\ S = DOMAIN points /\ k = config.k /\ near = [i \in DOMAIN points |-> KM!Near(i)]
        /\ old = [i \in DOMAIN points |-> KM!Far(points[i], centroids)]
        /\ new = [i \in DOMAIN points |-> KM!Far(points[i], z)]
  OBVIOUS
<1>2. IsFiniteSet(S) /\ k \in Nat /\ KM!K = 0..k - 1
  BY <1>1, SampleFacts DEF KM!K
<1>3. near \in [S -> 0..k - 1]
  BY <1>1, <1>2, NearType
<1>4. \A i \in S : new[i] \in Int /\ old[i] \in Int
  <2> SUFFICES ASSUME NEW i \in S PROVE new[i] \in Int /\ old[i] \in Int
    OBVIOUS
  <2>1. PICK x, y : x = points[i] /\ y = centroids
    OBVIOUS
  <2>2. x \in Int
    BY <1>1, <2>1, NearType
  <2>3. Unit \in Int
    BY ConfigFacts
  <2>4. Centers(z, k) /\ Centers(y, k)
    <3>1. Moved(f) \in [KM!K -> Int]
      BY MovedInt
    <3> QED
      BY <1>1, <1>2, <2>1, <3>1 DEF Centers
  <2>5. KM!Far(x, z) \in Int /\ KM!Far(x, y) \in Int
    BY <2>2, <2>3, <2>4, FarInt
  <2> QED
    BY <1>1, <2>1, <2>5
<1>5. \A c \in 0..k - 1 :
        SumOver(Class(S, near, c), new) <= SumOver(Class(S, near, c), old)
  <2> SUFFICES ASSUME NEW c \in 0..k - 1
               PROVE  SumOver(Class(S, near, c), new) <= SumOver(Class(S, near, c), old)
    OBVIOUS
  <2>1. Class(S, near, c) = Clus(c)
    BY <1>1 DEF Clus, Class
  <2>2. c \in KM!K
    BY <1>2
  <2>3. SumOver(Clus(c), new) <= SumOver(Clus(c), old)
    BY <1>1, <2>2, ClusterNearer
  <2> QED
    BY <2>1, <2>3
<1>6. SumOver(S, new) <= SumOver(S, old)
  <2>1. \A c \in 0..k - 1 : Lighter(Class(S, near, c), new, old)
    BY <1>5 DEF Lighter
  <2> QED
    BY <1>2, <1>3, <1>4, <2>1, SumParts
<1> QED
  BY <1>1, <1>6 DEF Spread

LEMMA SpreadInt ==
  ASSUME KM!KMeansAssumption, config \in Inputs, Sampled, Centers(centroids, config.k)
  PROVE  Spread(points, centroids) \in Int
<1>1. PICK far : far = [i \in DOMAIN points |-> KM!Far(points[i], centroids)]
  OBVIOUS
<1>2. ASSUME NEW i \in DOMAIN points PROVE far[i] \in Int
  <2>1. PICK x, z, k : x = points[i] /\ z = centroids /\ k = config.k
    OBVIOUS
  <2>2. x \in Int
    BY <2>1, NearType
  <2>3. Unit \in Int
    BY ConfigFacts
  <2>4. KM!Far(x, z) \in Int
    BY <2>1, <2>2, <2>3, FarInt
  <2> QED
    BY <1>1, <2>1, <2>4
<1>3. IsFiniteSet(DOMAIN points)
  BY SampleFacts
<1>4. SumOver(DOMAIN points, far) \in Int
  BY <1>2, <1>3, SumInt
<1> QED
  BY <1>1, <1>4 DEF Spread

LEMMA StepDescends ==
  ASSUME KM!KMeansAssumption, TrainInv, CostOK, CostOK', [KM!Next]_(KM!vars),
         stage = "fold", ~config.spherical
  PROVE  KM!Cost' <= KM!Cost
<1>1. config \in Inputs /\ Sampled /\ Centers(centroids, config.k)
  BY DEF TrainInv
<1>2. IsFiniteSet(DOMAIN points)
  BY <1>1, SampleFacts
<1>3. KM!Cost = Spread(points, centroids)
  BY <1>2 DEF CostOK
<1>4. points' = points
  BY DEF KM!Next, KM!vars, KM!Call, KM!Forgy, KM!Split, KM!Fold, KM!Merge,
         KM!Update, KM!AssignFull, KM!Return
<1>5. KM!Cost' = Spread(points', centroids')
  BY <1>2, <1>4 DEF CostOK
<1>6. CASE KM!Update
  <2>1. PICK f : Reseeded(f) /\ centroids' = Moved(f)
    BY <1>6, UpdateMoves
  <2>2. PICK z : z = Moved(f)
    OBVIOUS
  <2>3. Spread(points, z) <= Spread(points, centroids)
    BY <1>1, <2>1, <2>2, MovedNearer
  <2> QED
    BY <1>3, <1>4, <1>5, <2>1, <2>2, <2>3
<1>7. CASE ~KM!Update
  <2>1. centroids' = centroids
    BY <1>7 DEF KM!Next, KM!vars, KM!Call, KM!Forgy, KM!Split, KM!Fold, KM!Merge,
                KM!AssignFull, KM!Return
  <2>2. PICK v : v = Spread(points, centroids) /\ v \in Int
    BY <1>1, SpreadInt
  <2>3. KM!Cost' = v
    BY <1>4, <1>5, <2>1, <2>2
  <2> QED
    BY <1>3, <2>2, <2>3
<1> QED
  BY <1>6, <1>7

\* An iteration never takes the centroids farther from the sample, whatever
\* clusters are reseeded (run_lloyd_iterations).
THEOREM IterationsDescend ==
  ASSUME Fits
  PROVE  Trains => Descends
<1>1. TrainInv /\ CostOK /\ CostOK' /\ [KM!Next]_(KM!vars)
        => [stage = "fold" /\ ~config.spherical => KM!Cost' <= KM!Cost]_<<centroids, points>>
  BY StepDescends, TrainingAssumption
<1>2. KM!Spec => []TrainInv
  BY TrainInvariance, TrainingAssumption
<1>3. CostOK
  BY CostIs
<1> QED
  BY <1>1, <1>2, <1>3, PTL DEF Trains, KM!Spec, Descends, KM!Descends

-----------------------------------------------------------------------------
(* Unequal rows are not left in one group. *)

\* Numbers on one side of 0 that add up to it are all 0.
LEMMA ZeroSum ==
  ASSUME NEW A, IsFiniteSet(A), NEW g, \A i \in A : g[i] \in Int, SumOver(A, g) = 0,
         (\A i \in A : g[i] >= 0) \/ (\A i \in A : g[i] <= 0)
  PROVE  \A i \in A : g[i] = 0
<1>1. CASE \A i \in A : g[i] >= 0
  <2>1. \A i \in A : g[i] \in Nat
    BY <1>1
  <2>2. \A i \in A : g[i] <= SumOver(A, g)
    BY <2>1, SumAtLeast
  <2> QED
    BY <2>1, <2>2
<1>2. CASE \A i \in A : g[i] <= 0
  <2>7. PICK h : h = [i \in A |-> -g[i]]
    OBVIOUS
  <2>1. \A i \in A : h[i] \in Nat /\ h[i] = -g[i]
    BY <1>2, <2>7
  <2>2. PICK a, b : a = -1 /\ b = 0 /\ a \in Int /\ b \in Int
    OBVIOUS
  <2>3. \A i \in A : g[i] \in Int /\ h[i] = a * g[i] + b * g[i]
    BY <2>1, <2>2
  <2>4. SumOver(A, h) = a * SumOver(A, g) + b * SumOver(A, g)
    BY ONLY IsFiniteSet(A), <2>2, <2>3, SumLinear
  <2>5. SumOver(A, h) = 0
    BY <2>2, <2>4
  <2>6. \A i \in A : h[i] <= SumOver(A, h)
    BY <2>1, SumAtLeast
  <2> QED
    BY <2>1, <2>5, <2>6
<1> QED
  BY <1>1, <1>2

\* The mean of points is among them: not beyond all, and at the end only of equal ones.
LEMMA MeanAmong ==
  ASSUME NEW A, IsFiniteSet(A), A # {}, NEW p, \A i \in A : p[i] \in Int,
         NEW u \in Int, NEW q \in Int, u = Cardinality(A) * q,
         NEW b, b = SumOver(A, p) * q
  PROVE  /\ b \in Int /\ \A i \in A : p[i] * u \in Int
         /\ \E i \in A : p[i] * u <= b
         /\ \E i \in A : p[i] * u >= b
         /\ (\A i \in A : p[i] * u <= b) => \A i \in A : p[i] * u = b
         /\ (\A i \in A : p[i] * u >= b) => \A i \in A : p[i] * u = b
<1> DEFINE one == [i \in A |-> 1]
           g == [i \in A |-> p[i] * u - b]
<1>1. PICK m, v, d : m = Cardinality(A) /\ v = SumOver(A, p) /\ d = -b
  OBVIOUS
<1>2. m \in Nat /\ v \in Int /\ b \in Int /\ d \in Int
  <2>1. m \in Nat
    BY <1>1, FS_CardinalityType
  <2>2. v \in Int
    BY <1>1, SumInt
  <2>3. v * q \in Int
    BY <2>2, SMT
  <2> QED
    BY <1>1, <2>1, <2>2, <2>3
<1>3. \A i \in A : p[i] \in Int /\ one[i] \in Int /\ one[i] = 1
  OBVIOUS
<1>4. \A i \in A : /\ p[i] * u \in Int /\ g[i] \in Int /\ g[i] = p[i] * u - b
                   /\ g[i] = u * p[i] + d * one[i]
  <2> SUFFICES ASSUME NEW i \in A
               PROVE  /\ p[i] * u \in Int /\ p[i] * u - b \in Int
                      /\ p[i] * u - b = u * p[i] + d * 1
    OBVIOUS
  <2>1. PICK x : x = p[i] /\ x \in Int
    OBVIOUS
  <2>2. x * u \in Int /\ x * u = u * x
    BY <2>1, SMT
  <2> QED
    BY <1>1, <1>2, <2>1, <2>2
<1> HIDE DEF one, g
<1>5. SumOver(A, one) = m
  BY <1>1, <1>3, SumOnes
<1>6. SumOver(A, g) = u * v + d * m
  <2>1. SumOver(A, g) = u * SumOver(A, p) + d * SumOver(A, one)
    BY <1>2, <1>3, <1>4, SumLinear
  <2> QED
    BY <1>1, <1>5, <2>1
<1>7. u * v + d * m = 0
  <2>1. u = m * q /\ d = -(v * q)
    BY <1>1
  <2>2. (m * q) * v + (-(v * q)) * m = 0
    BY <1>2, SMT
  <2> QED
    BY <2>1, <2>2, Zenon
<1>8. SumOver(A, g) = 0
  BY <1>6, <1>7
<1>9. (\A i \in A : g[i] >= 0) \/ (\A i \in A : g[i] <= 0) => \A i \in A : g[i] = 0
  <2>1. \A i \in A : g[i] \in Int
    BY <1>4
  <2> QED
    BY <1>8, <2>1, ZeroSum
<1>10. (\A i \in A : p[i] * u <= b) => \A i \in A : p[i] * u = b
  <2> SUFFICES ASSUME \A i \in A : p[i] * u <= b PROVE \A i \in A : p[i] * u = b
    OBVIOUS
  <2>1. \A i \in A : g[i] <= 0
    BY <1>2, <1>4
  <2> QED
    BY <1>2, <1>4, <1>9, <2>1
<1>11. (\A i \in A : p[i] * u >= b) => \A i \in A : p[i] * u = b
  <2> SUFFICES ASSUME \A i \in A : p[i] * u >= b PROVE \A i \in A : p[i] * u = b
    OBVIOUS
  <2>1. \A i \in A : g[i] >= 0
    BY <1>2, <1>4
  <2> QED
    BY <1>2, <1>4, <1>9, <2>1
<1>12. PICK r : r = [i \in A |-> p[i] * u]
  OBVIOUS
<1>13. \A i \in A : r[i] = p[i] * u /\ r[i] \in Int
  BY <1>4, <1>12
<1>14. /\ (\A i \in A : r[i] <= b) => \A i \in A : r[i] = b
       /\ (\A i \in A : r[i] >= b) => \A i \in A : r[i] = b
  BY <1>10, <1>11, <1>13
<1>15. (\E i \in A : r[i] <= b) /\ (\E i \in A : r[i] >= b)
  BY <1>2, <1>13, <1>14
<1> QED
  BY <1>2, <1>10, <1>11, <1>13, <1>15

\* Which of two places is nearer, on a line.
LEMMA NearerSide ==
  ASSUME NEW x \in Int, NEW a \in Int, NEW b \in Int
  PROVE  /\ (x - a) * (x - a) <= (x - b) * (x - b) =>
              (a < b => 2 * x <= a + b) /\ (b < a => 2 * x >= a + b)
         /\ (x - a) * (x - a) < (x - b) * (x - b) =>
              /\ a # b
              /\ (a < b => 2 * x < a + b) /\ (b < a => 2 * x > a + b)
<1>1. PICK d, e : d = b - a /\ e = a + b - 2 * x
  OBVIOUS
<1>2. d \in Int /\ e \in Int
  BY <1>1
<1>3. PICK s, t, w : s = (x - a) * (x - a) /\ t = (x - b) * (x - b) /\ w = d * e
  OBVIOUS
<1>4. s \in Int /\ t \in Int /\ w \in Int
  BY <1>2, <1>3, SMT
<1>5. t - s = w
  <2>1. (x - b) * (x - b) - (x - a) * (x - a) = (b - a) * (a + b - 2 * x)
    BY SMT
  <2> QED
    BY <1>1, <1>3, <2>1, Zenon
<1>6. /\ w >= 0 /\ d > 0 => e >= 0
      /\ w >= 0 /\ d < 0 => e <= 0
      /\ w > 0 /\ d > 0 => e > 0
      /\ w > 0 /\ d < 0 => e < 0
      /\ w > 0 => d # 0
  <2>1. /\ d * e >= 0 /\ d > 0 => e >= 0
        /\ d * e >= 0 /\ d < 0 => e <= 0
        /\ d * e > 0 /\ d > 0 => e > 0
        /\ d * e > 0 /\ d < 0 => e < 0
        /\ d * e > 0 => d # 0
    BY <1>2, SMT
  <2> QED
    BY <1>3, <2>1
<1>7. /\ s <= t => (a < b => 2 * x <= a + b) /\ (b < a => 2 * x >= a + b)
      /\ s < t => a # b /\ (a < b => 2 * x < a + b) /\ (b < a => 2 * x > a + b)
  BY <1>1, <1>2, <1>4, <1>5, <1>6
<1> QED
  BY <1>3, <1>7

\* The distance of point x and centroid c.
LEMMA DistanceIs ==
  ASSUME NEW x, NEW c
  PROVE  KM!Distance(x, c) = (x * Unit - c) * (x * Unit - c)
BY DEF KM!Distance

\* If every point is nearest to one centroid, it is the mean of every cluster.
LEMMA MeansMeet ==
  ASSUME NEW A, IsFiniteSet(A), A # {}, NEW p, \A i \in A : p[i] \in Int,
         Unit \in Int, NEW q \in Int, Unit = Cardinality(A) * q,
         NEW b, b = SumOver(A, p) * q,
         NEW z \in Int, \A i \in A : KM!Distance(p[i], z) <= KM!Distance(p[i], b)
  PROVE  b = z
<1>1. PICK u : u = Unit
  OBVIOUS
<1>2. u \in Int /\ u = Cardinality(A) * q
  BY <1>1
<1>3. /\ b \in Int /\ \A i \in A : p[i] * u \in Int
      /\ \E i \in A : p[i] * u <= b
      /\ \E i \in A : p[i] * u >= b
  BY <1>2, MeanAmong, SMTT(60)
<1>4. ASSUME NEW i \in A
      PROVE  (z < b => 2 * (p[i] * u) <= z + b) /\ (b < z => 2 * (p[i] * u) >= z + b)
  <2>1. PICK x : x = p[i] * u
    OBVIOUS
  <2>2. x \in Int
    BY <1>3, <2>1
  <2>3. KM!Distance(p[i], z) = (x - z) * (x - z) /\ KM!Distance(p[i], b) = (x - b) * (x - b)
    BY <1>1, <2>1, DistanceIs
  <2>4. (x - z) * (x - z) <= (x - b) * (x - b)
    BY <2>3
  <2>5. (z < b => 2 * x <= z + b) /\ (b < z => 2 * x >= z + b)
    BY <1>3, <2>2, <2>4, NearerSide
  <2> QED
    BY <2>1, <2>5
<1>5. PICK r : r = [i \in A |-> p[i] * u]
  OBVIOUS
<1>6. \A i \in A : /\ r[i] \in Int
                   /\ z < b => 2 * r[i] <= z + b
                   /\ b < z => 2 * r[i] >= z + b
  BY <1>3, <1>4, <1>5
<1>7. (\E i \in A : r[i] <= b) /\ (\E i \in A : r[i] >= b)
  BY <1>3, <1>5
<1> QED
  BY <1>3, <1>6, <1>7

\* A cluster with rows: their number divides Unit, and their mean is among them.
LEMMA ClusterMean ==
  ASSUME KM!KMeansAssumption, config \in Inputs, Sampled, Centers(centroids, config.k),
         NEW f, Reseeded(f), NEW c \in KM!K, c \notin NoRows,
         NEW b, b = Moved(f)[c]
  PROVE  /\ \A i \in Clus(c) : points[i] * Unit \in Int
         /\ \E i \in Clus(c) : points[i] * Unit <= b
         /\ \E i \in Clus(c) : points[i] * Unit >= b
         /\ (\A i \in Clus(c) : points[i] * Unit <= b) => \A i \in Clus(c) : points[i] * Unit = b
         /\ (\A i \in Clus(c) : points[i] * Unit >= b) => \A i \in Clus(c) : points[i] * Unit = b
         /\ b \in Int
         /\ \A z \in Int :
              (\A i \in Clus(c) : KM!Distance(points[i], z) <= KM!Distance(points[i], b)) => b = z
<1>1. PICK A, u, q, p : /\ A = Clus(c) /\ u = Unit /\ p = points
                        /\ q = Unit \div Cardinality(Clus(c))
  OBVIOUS
<1>2. /\ IsFiniteSet(A) /\ A # {} /\ A \subseteq DOMAIN points
      /\ \A i \in A : p[i] \in Int
  BY <1>1, ClusFacts, NearType DEF NoRows
<1>3. u \in Int /\ q \in Int /\ u = Cardinality(A) * q
  <2>1. q \in Int /\ u = Cardinality(A) * q
    BY <1>1, UnitDivides
  <2>2. u \in Int
    BY <1>1, ConfigFacts
  <2> QED
    BY <2>1, <2>2
<1>4. b = SumOver(A, p) * q
  <2>1. Moved(f)[c] = SumOver(Clus(c), points) * (Unit \div Cardinality(Clus(c)))
    BY DEF Moved
  <2> QED
    BY <1>1, <2>1
<1>5. /\ b \in Int /\ \A i \in A : p[i] * u \in Int
      /\ \E i \in A : p[i] * u <= b
      /\ \E i \in A : p[i] * u >= b
      /\ (\A i \in A : p[i] * u <= b) => \A i \in A : p[i] * u = b
      /\ (\A i \in A : p[i] * u >= b) => \A i \in A : p[i] * u = b
  BY ONLY <1>2, <1>3, <1>4, MeanAmong, SMTT(60)
<1>6. ASSUME NEW z \in Int, \A i \in A : KM!Distance(p[i], z) <= KM!Distance(p[i], b)
      PROVE  b = z
  <2>1. Unit \in Int /\ Unit = Cardinality(A) * q
    BY <1>1, <1>3
  <2> QED
    BY <1>2, <1>3, <1>4, <1>6, <2>1, MeansMeet
<1> QED
  BY <1>1, <1>5, <1>6

\* Rows of one cluster and of another are on different sides, so their means differ.
LEMMA MeansDiffer ==
  ASSUME KM!KMeansAssumption, config \in Inputs, Sampled, Centers(centroids, config.k),
         NEW f, Reseeded(f), NEW c \in KM!K \ NoRows, NEW d \in KM!K \ NoRows, c < d
  PROVE  Moved(f)[c] # Moved(f)[d]
<1>1. PICK z, a, e, u, k, y :
        /\ z = Moved(f)[c] /\ a = centroids[c] /\ e = centroids[d] /\ u = Unit
        /\ k = config.k /\ y = centroids
  OBVIOUS
<1>2. KM!K = 0..k - 1 /\ Centers(y, k) /\ u \in Int /\ Unit \in Int /\ a \in Int /\ e \in Int
  <2>1. u \in Int
    BY <1>1, ConfigFacts
  <2>2. KM!K = 0..k - 1 /\ Centers(y, k)
    BY <1>1 DEF KM!K
  <2> QED
    BY <1>1, <2>1, <2>2 DEF Centers
<1> SUFFICES ASSUME Moved(f)[d] = z PROVE FALSE
  BY <1>1
<1>3. /\ \A i \in Clus(c) : points[i] * u \in Int
      /\ \E i \in Clus(c) : points[i] * u <= z
      /\ \E i \in Clus(c) : points[i] * u >= z
      /\ z \in Int
  BY <1>1, ClusterMean
<1>4. /\ \A i \in Clus(d) : points[i] * u \in Int
      /\ \E i \in Clus(d) : points[i] * u <= z
      /\ \E i \in Clus(d) : points[i] * u >= z
  BY <1>1, ClusterMean
<1>5. ASSUME NEW i \in Clus(c)
      PROVE  (a < e => 2 * (points[i] * u) <= a + e) /\ (e < a => 2 * (points[i] * u) >= a + e)
  <2>1. PICK x, w : x = points[i] /\ w = points[i] * u
    OBVIOUS
  <2>2. x \in Int /\ w \in Int /\ KM!Nearest(x, y) = c
    BY <1>1, <1>3, <2>1, NearType DEF Clus, KM!Near
  <2>3. KM!Distance(x, y[c]) < KM!Distance(x, y[d]) \/ KM!Distance(x, y[c]) = KM!Distance(x, y[d])
    BY <1>2, <2>2, NearestFacts
  <2>4. KM!Distance(x, y[c]) = (w - a) * (w - a) /\ KM!Distance(x, y[d]) = (w - e) * (w - e)
    BY <1>1, <2>1, DistanceIs
  <2>5. (w - a) * (w - a) \in Int /\ (w - e) * (w - e) \in Int
    BY <1>2, <2>2, SMT
  <2>6. (w - a) * (w - a) <= (w - e) * (w - e)
    BY <2>3, <2>4, <2>5
  <2>7. (a < e => 2 * w <= a + e) /\ (e < a => 2 * w >= a + e)
    BY <1>2, <2>2, <2>6, NearerSide
  <2> QED
    BY <2>1, <2>7
<1>6. ASSUME NEW i \in Clus(d)
      PROVE  /\ e # a
             /\ (e < a => 2 * (points[i] * u) < e + a) /\ (a < e => 2 * (points[i] * u) > e + a)
  <2>1. PICK x, w : x = points[i] /\ w = points[i] * u
    OBVIOUS
  <2>2. x \in Int /\ w \in Int /\ KM!Nearest(x, y) = d
    BY <1>1, <1>4, <2>1, NearType DEF Clus, KM!Near
  <2>3. KM!Distance(x, y[d]) < KM!Distance(x, y[c]) \/ d <= c
    BY <1>2, <2>2, NearestFacts
  <2>4. ~(d <= c)
    BY <1>2
  <2>5. KM!Distance(x, y[c]) = (w - a) * (w - a) /\ KM!Distance(x, y[d]) = (w - e) * (w - e)
    BY <1>1, <2>1, DistanceIs
  <2>6. (w - e) * (w - e) < (w - a) * (w - a)
    BY <2>3, <2>4, <2>5
  <2>7. e # a /\ (e < a => 2 * w < e + a) /\ (a < e => 2 * w > e + a)
    BY <1>2, <2>2, <2>6, NearerSide
  <2> QED
    BY <2>1, <2>7
<1>7. PICK r : r = [i \in DOMAIN points |-> points[i] * u]
  OBVIOUS
<1>8. Clus(c) \subseteq DOMAIN points /\ Clus(d) \subseteq DOMAIN points
  BY ClusFacts
<1>9. /\ \A i \in Clus(c) : r[i] \in Int /\ (a < e => 2 * r[i] <= a + e) /\ (e < a => 2 * r[i] >= a + e)
      /\ \A i \in Clus(d) : r[i] \in Int /\ e # a /\ (e < a => 2 * r[i] < e + a) /\ (a < e => 2 * r[i] > e + a)
      /\ \E i \in Clus(c) : r[i] <= z
      /\ \E i \in Clus(c) : r[i] >= z
      /\ \E i \in Clus(d) : r[i] <= z
      /\ \E i \in Clus(d) : r[i] >= z
  BY <1>3, <1>4, <1>5, <1>6, <1>7, <1>8
<1>10. CASE a < e
  <2>1. PICK i \in Clus(c) : r[i] >= z
    BY <1>9
  <2>2. PICK j \in Clus(d) : r[j] <= z
    BY <1>9
  <2>3. 2 * r[i] <= a + e /\ 2 * r[j] > e + a /\ r[i] \in Int /\ r[j] \in Int
    BY <1>9, <1>10
  <2> QED
    BY ONLY <1>2, <1>3, <2>1, <2>2, <2>3
<1>11. CASE e < a
  <2>1. PICK i \in Clus(c) : r[i] <= z
    BY <1>9
  <2>2. PICK j \in Clus(d) : r[j] >= z
    BY <1>9
  <2>3. 2 * r[i] >= a + e /\ 2 * r[j] < e + a /\ r[i] \in Int /\ r[j] \in Int
    BY <1>9, <1>11
  <2> QED
    BY ONLY <1>2, <1>3, <2>1, <2>2, <2>3
<1>12. e # a
  BY <1>9
<1> QED
  BY <1>2, <1>10, <1>11, <1>12

\* After an update no centroid is nearest to all points, unless all are equal:
\* it would be the mean of all, and the farthest of them, which was reseeded.
LEMMA UpdateSeparates ==
  ASSUME KM!KMeansAssumption, config \in Inputs, Sampled, Centers(centroids, config.k),
         NEW f, Reseeded(f), config.k >= 2,
         NEW x \in DOMAIN points, NEW y \in DOMAIN points, points[x] # points[y], NEW b
  PROVE  \E i \in DOMAIN points : KM!Nearest(points[i], Moved(f)) # b
<1> SUFFICES ASSUME \A i \in DOMAIN points : KM!Nearest(points[i], Moved(f)) = b PROVE FALSE
  OBVIOUS
<1>1. PICK z, k, u, old : z = Moved(f) /\ k = config.k /\ u = Unit /\ old = centroids
  OBVIOUS
<1>2. /\ KM!K = 0..k - 1 /\ k \in Nat /\ k >= 2
      /\ Centers(z, k) /\ Centers(old, k) /\ u \in Nat \ {0} /\ Unit \in Int
      /\ \A i \in DOMAIN points : points[i] \in Int
  <2>1. KM!K = 0..k - 1 /\ Centers(old, k)
    BY <1>1 DEF KM!K
  <2>2. z \in [KM!K -> Int]
    BY <1>1, MovedInt
  <2>3. Centers(z, k) /\ k \in Nat /\ k >= 2
    BY <1>1, <2>1, <2>2 DEF Centers
  <2>4. u \in Nat \ {0}
    BY <1>1, ConfigFacts
  <2>5. \A i \in DOMAIN points : points[i] \in Int
    BY NearType
  <2> QED
    BY <1>1, <2>1, <2>3, <2>4, <2>5
<1>3. b \in KM!K /\ z[b] \in Int /\ \A d \in KM!K : z[d] \in Int
  <2>1. KM!Nearest(points[x], z) = b
    BY <1>1
  <2>2. PICK v : v = points[x] /\ v \in Int
    BY <1>2
  <2>3. KM!Nearest(v, z) \in 0..k - 1
    BY <1>2, <2>2, NearestFacts
  <2> QED
    BY <1>2, <2>1, <2>2, <2>3 DEF Centers
<1>4. ASSUME NEW i \in DOMAIN points, NEW d \in KM!K
      PROVE  KM!Distance(points[i], z[b]) <= KM!Distance(points[i], z[d])
  <2>1. PICK v : v = points[i] /\ v \in Int
    BY <1>2
  <2>2. KM!Nearest(v, z) = b
    BY <1>1, <2>1
  <2>3. \/ KM!Distance(v, z[b]) < KM!Distance(v, z[d])
        \/ KM!Distance(v, z[b]) = KM!Distance(v, z[d])
    <3>1. /\ Unit \in Int /\ Centers(z, k) /\ v \in Int /\ d \in 0..k - 1
      BY <1>2, <2>1
    <3>2. \/ KM!Distance(v, z[KM!Nearest(v, z)]) < KM!Distance(v, z[d])
          \/ KM!Distance(v, z[KM!Nearest(v, z)]) = KM!Distance(v, z[d])
      BY ONLY <3>1, NearestFacts, SMTT(30)
    <3> QED
      BY ONLY <2>2, <3>2, Zenon
  <2>4. KM!Distance(v, z[b]) \in Int /\ KM!Distance(v, z[d]) \in Int
    BY <1>2, <1>3, <2>1, DistanceInt
  <2> QED
    BY <2>1, <2>3, <2>4
<1>5. ASSUME NEW c \in KM!K \ NoRows PROVE z[c] = z[b]
  <2>1. PICK w : w = z[c] /\ w = Moved(f)[c]
    BY <1>1
  <2>2. \A v \in Int :
          (\A i \in Clus(c) : KM!Distance(points[i], v) <= KM!Distance(points[i], w)) => w = v
    BY <2>1, ClusterMean
  <2>3. Clus(c) \subseteq DOMAIN points
    BY ClusFacts
  <2>4. \A i \in Clus(c) : KM!Distance(points[i], z[b]) <= KM!Distance(points[i], w)
    BY <1>4, <2>1, <2>3
  <2> QED
    BY <1>3, <2>1, <2>2, <2>4
<1>6. ASSUME NEW c \in KM!K \ NoRows, NEW d \in KM!K \ NoRows PROVE c = d
  <2>1. c \in Int /\ d \in Int
    BY <1>2
  <2>2. CASE c < d
    <3>1. Moved(f)[c] # Moved(f)[d]
      BY <2>2, MeansDiffer
    <3> QED
      BY <1>1, <1>5, <3>1
  <2>3. CASE d < c
    <3>1. Moved(f)[d] # Moved(f)[c]
      BY <2>3, MeansDiffer
    <3> QED
      BY <1>1, <1>5, <3>1
  <2> QED
    BY <2>1, <2>2, <2>3
<1>7. PICK c : c = KM!Near(x)
  OBVIOUS
<1>8. c \in KM!K \ NoRows /\ \A i \in DOMAIN points : KM!Near(i) = c
  <2>1. \A i \in DOMAIN points : KM!Near(i) \in KM!K \ NoRows
    <3>1. \A i \in DOMAIN points : KM!Near(i) \in KM!K
      BY NearType
    <3>2. \A i \in DOMAIN points : i \in Clus(KM!Near(i))
      BY DEF Clus
    <3> QED
      BY <3>1, <3>2 DEF NoRows
  <2> QED
    BY <1>6, <1>7, <2>1
<1>9. NoRows # {}
  <2>1. PICK d : d \in KM!K /\ d # c
    <3>1. 0 \in KM!K /\ 1 \in KM!K
      BY <1>2
    <3> QED
      BY <3>1
  <2>2. d \in NoRows
    BY <1>6, <1>8, <2>1
  <2> QED
    BY <2>2
<1>10. PICK e \in NoRows : \A i \in DOMAIN points : Reach[i] <= Reach[f[e]]
  BY <1>9 DEF Reseeded
<1>11. PICK j, w : j = f[e] /\ w = points[j] * u
  OBVIOUS
<1>12. j \in DOMAIN points /\ w \in Int /\ e \in KM!K /\ z[e] = w
  <2>1. j \in DOMAIN points /\ e \in KM!K
    BY <1>11 DEF Reseeded, NoRows
  <2>2. points[j] \in Int
    BY <1>2, <2>1
  <2>3. z[e] = Unit * points[j]
    BY <1>1, <1>11, <2>1 DEF Moved
  <2>4. PICK v : v = points[j] /\ v \in Int
    BY <2>2
  <2>5. v * u \in Int /\ u * v = v * u
    BY <1>2, <2>4, SMT
  <2> QED
    BY <1>1, <1>11, <2>1, <2>3, <2>4, <2>5
<1>13. z[b] = w
  <2>1. KM!Distance(points[j], z[b]) <= KM!Distance(points[j], z[e])
    BY <1>4, <1>12
  <2>2. PICK v : v = z[b] /\ v \in Int
    BY <1>3
  <2>3. (w - v) * (w - v) <= (w - w) * (w - w)
    BY <1>1, <1>11, <1>12, <2>1, <2>2, DistanceIs
  <2>4. PICK d : d = w - v /\ d \in Int
    BY <1>12, <2>2
  <2>5. d * d <= 0
    <3>1. (w - w) * (w - w) = 0
      BY <1>12
    <3> QED
      BY <2>3, <2>4, <3>1
  <2>6. d = 0
    BY <2>4, <2>5, SMT
  <2> QED
    BY <1>12, <2>2, <2>4, <2>6
<1>14. PICK r, C : r = [i \in DOMAIN points |-> points[i] * u] /\ C = old[c]
  OBVIOUS
<1>15. C \in Int /\ (\A i \in DOMAIN points : r[i] \in Int /\ r[i] = points[i] * u) /\ r[j] = w
  <2>1. C \in Int
    BY <1>2, <1>8, <1>14 DEF Centers
  <2>2. \A i \in DOMAIN points : points[i] * u \in Int
    <3> SUFFICES ASSUME NEW i \in DOMAIN points PROVE points[i] * u \in Int
      OBVIOUS
    <3>1. PICK v : v = points[i] /\ v \in Int
      BY <1>2
    <3>2. v * u \in Int
      BY <1>2, <3>1, SMT
    <3> QED
      BY <3>1, <3>2
  <2> QED
    BY <1>11, <1>12, <1>14, <2>1, <2>2
<1>16. ASSUME NEW i \in DOMAIN points PROVE Reach[i] = (C - r[i]) * (C - r[i])
  <2>1. PICK v : v = points[i] /\ v \in Int
    BY <1>2
  <2>2. KM!Nearest(v, old) = c
    BY <1>1, <1>8, <2>1 DEF KM!Near
  <2>3. KM!Far(v, old) = KM!Distance(v, old[c])
    BY <1>2, <2>1, <2>2, NearestFacts
  <2>4. PICK t : t = r[i] /\ t \in Int
    BY <1>15
  <2>5. KM!Distance(v, C) = (t - C) * (t - C)
    BY <1>1, <1>14, <2>1, <2>4, DistanceIs
  <2>6. (t - C) * (t - C) = (C - t) * (C - t)
    BY <1>15, <2>4, SMT
  <2>7. Reach[i] = KM!Far(points[i], centroids)
    BY DEF Reach, KM!Distant
  <2> QED
    BY <1>1, <1>14, <2>1, <2>3, <2>4, <2>5, <2>6, <2>7
<1>17. ASSUME NEW i \in DOMAIN points
       PROVE  (w >= C => r[i] <= w) /\ (w < C => r[i] >= w)
  <2>1. PICK t : t = r[i] /\ t \in Int
    BY <1>15
  <2>2. (C - t) * (C - t) <= (C - w) * (C - w)
    BY <1>10, <1>11, <1>12, <1>15, <1>16, <2>1
  <2>3. (t < w => 2 * C <= t + w) /\ (w < t => 2 * C >= t + w)
    BY <1>12, <1>15, <2>1, <2>2, NearerSide
  <2> QED
    BY ONLY <1>12, <1>15, <2>1, <2>3
<1>18. \A i \in DOMAIN points : r[i] = w
  <2>1. Clus(c) = DOMAIN points
    BY <1>8 DEF Clus
  <2>2. PICK v : v = z[c] /\ v = Moved(f)[c]
    BY <1>1
  <2>3. /\ (\A i \in Clus(c) : points[i] * Unit <= v) => \A i \in Clus(c) : points[i] * Unit = v
        /\ (\A i \in Clus(c) : points[i] * Unit >= v) => \A i \in Clus(c) : points[i] * Unit = v
    BY <1>8, <2>2, ClusterMean
  <2>4. v = w
    BY <1>5, <1>8, <1>13, <2>2
  <2>5. /\ (\A i \in DOMAIN points : r[i] <= w) => \A i \in DOMAIN points : r[i] = w
        /\ (\A i \in DOMAIN points : r[i] >= w) => \A i \in DOMAIN points : r[i] = w
    BY <1>1, <1>15, <2>1, <2>3, <2>4
  <2>6. w >= C \/ w < C
    BY <1>12, <1>15
  <2> QED
    BY <1>17, <2>5, <2>6
<1>19. PICK s, t : s = points[x] /\ t = points[y]
  OBVIOUS
<1>20. s \in Int /\ t \in Int /\ s * u = t * u
  BY <1>2, <1>15, <1>18, <1>19
<1>21. s = t
  BY <1>2, <1>20, SMT
<1> QED
  BY <1>19, <1>21

Unequal == \E x, y \in DOMAIN points : points[x] # points[y]

\* The calls that Separates speaks of.
Promising == ~config.spherical /\ config.k >= 2 /\ Unequal

\* The centroids of the last iteration, and those of the best result, are not all
\* nearest to one.
SeparateInv ==
  /\ Promising /\ stage = "full" =>
       \A c : \E r \in KM!Rows : KM!Nearest(config.data[r], centroids) # c
  /\ Promising /\ result # <<>> =>
       \A c : \E r \in KM!Rows : result[1].assignments[r] # c
  /\ stage = "call" => result = <<>>
  /\ stage = "done" => result # <<>>

LEMMA SeparateStep ==
  ASSUME KM!KMeansAssumption, TrainInv, SeparateInv, [KM!Next]_(KM!vars)
  PROVE  SeparateInv'
<1>1. CASE KM!Call
  <2>1. stage = "call" /\ stage' \in {"redo", "panic"} /\ result' = result
    BY <1>1 DEF KM!Call
  <2> QED
    BY <2>1 DEF SeparateInv
<1>2. CASE KM!Update
  <2>1. PICK f : /\ Reseeded(f)
                 /\ centroids' = IF config.spherical THEN KM!Normalized(Moved(f)) ELSE Moved(f)
    BY <1>2, UpdateMoves
  <2>2. /\ config \in Inputs /\ Sampled /\ Centers(centroids, config.k)
        /\ config' = config /\ points' = points /\ result' = result
        /\ stage' \in {"full", "fold"}
    BY <1>2, UpdateMoves
  <2>3. Promising' = Promising
    BY <2>2 DEF Promising, Unequal, KM!Trained, KM!Rows
  <2>4. KM!Rows' = KM!Rows
    BY <2>2 DEF KM!Rows
  <2>5. ASSUME Promising, NEW c
        PROVE  \E r \in KM!Rows : KM!Nearest(config.data[r], centroids') # c
    <3>1. PICK n, z : n = Cardinality(DOMAIN points) /\ z = Moved(f)
      OBVIOUS
    <3>2. /\ DOMAIN points = 0..n - 1
          /\ \A i \in 0..n - 1 : \E r \in KM!Rows : points[i] = config.data[r]
      BY <2>2, <3>1, SampleFacts
    <3>3. config.k >= 2 /\ ~config.spherical
      BY <2>5 DEF Promising
    <3>4. PICK x \in DOMAIN points, y \in DOMAIN points : points[x] # points[y]
      BY <2>5 DEF Promising, Unequal
    <3>5. centroids' = z
      BY <2>1, <3>1, <3>3
    <3>6. PICK i \in DOMAIN points : KM!Nearest(points[i], Moved(f)) # c
      BY <2>1, <2>2, <3>3, <3>4, UpdateSeparates
    <3>7. PICK r \in KM!Rows : points[i] = config.data[r]
      BY <3>2, <3>6
    <3>8. KM!Nearest(config.data[r], z) # c
      BY <3>1, <3>6, <3>7
    <3> QED
      BY <3>5, <3>8
  <2>6. ASSUME Promising
        PROVE  \A c : \E r \in KM!Rows : KM!Nearest(config.data[r], centroids') # c
    BY <2>5, <2>6
  <2> QED
    BY <2>2, <2>3, <2>4, <2>6 DEF SeparateInv
<1>3. CASE KM!AssignFull
  <2>1. /\ stage = "full" /\ stage' = "redo" /\ config' = config /\ points' = points
        /\ result' = <<KM!Result>> \/ (result' = result /\ result # <<>>)
    BY <1>3 DEF KM!AssignFull
  <2>2. Promising' = Promising /\ KM!Rows' = KM!Rows
    BY <2>1 DEF Promising, Unequal, KM!Trained, KM!Rows
  <2>3. ASSUME Promising PROVE \A c : \E r \in KM!Rows : result'[1].assignments[r] # c
    <3>1. CASE result' = result /\ result # <<>>
      BY <2>3, <3>1 DEF SeparateInv
    <3>2. CASE result' = <<KM!Result>>
      <4>1. PICK g : g = KM!Result /\ result'[1] = g
        BY <3>2
      <4>2. g.assignments = [r \in KM!Rows |-> KM!Nearest(config.data[r], centroids)]
        BY <4>1 DEF KM!Result
      <4>3. \A c : \E r \in KM!Rows : g.assignments[r] # c
        <5>1. \A c : \E r \in KM!Rows : KM!Nearest(config.data[r], centroids) # c
          BY <2>1, <2>3 DEF SeparateInv
        <5> QED
          BY <4>2, <5>1
      <4> QED
        BY <4>1, <4>3
    <3> QED
      BY <2>1, <3>1, <3>2
  <2> QED
    BY <2>1, <2>2, <2>3 DEF SeparateInv
<1>4. CASE ~(KM!Call \/ KM!Update \/ KM!AssignFull)
  <2>1. /\ config' = config /\ points' = points /\ result' = result
        /\ (stage' = stage /\ centroids' = centroids) \/ stage' \in {"fold", "panic"}
           \/ (stage' = "done" /\ result # <<>>)
    BY <1>4 DEF KM!Next, KM!vars, KM!Forgy, KM!Split, KM!Fold, KM!Merge, KM!Return
  <2>2. Promising' = Promising /\ KM!Rows' = KM!Rows
    BY <2>1 DEF Promising, Unequal, KM!Trained, KM!Rows
  <2> QED
    BY <2>1, <2>2 DEF SeparateInv
<1> QED
  BY <1>1, <1>2, <1>3, <1>4

\* Two names make a set of two.
LEMMA TwoNames ==
  ASSUME NEW S, IsFiniteSet(S), NEW c \in S, NEW d \in S, c # d
  PROVE  Cardinality(S) >= 2
<1>1. {c, d} \subseteq S /\ IsFiniteSet({c, d}) /\ Cardinality({c, d}) = 2
  <2>1. IsFiniteSet({c}) /\ Cardinality({c}) = 1 /\ d \notin {c}
    BY FS_Singleton
  <2>2. Cardinality({c} \cup {d}) = Cardinality({c}) + 1 /\ IsFiniteSet({c} \cup {d})
    BY <2>1, FS_AddElement
  <2>3. {c, d} = {c} \cup {d}
    OBVIOUS
  <2> QED
    BY <2>1, <2>2, <2>3
<1>2. Cardinality({c, d}) <= Cardinality(S) /\ Cardinality(S) \in Nat
  BY <1>1, FS_Subset, FS_CardinalityType
<1> QED
  BY <1>1, <1>2

LEMMA SeparateHolds ==
  ASSUME KM!KMeansAssumption, TrainInv, SeparateInv
  PROVE  Separates
<1> SUFFICES ASSUME stage = "done", ~config.spherical, config.k >= 2,
                    KM!Cardinality({points[i] : i \in KM!Trained}) >= 2
             PROVE  KM!Cardinality({result[1].assignments[r] : r \in KM!Rows}) >= 2
  BY DEF Separates, KM!Separates
<1>1. config \in Inputs
  BY DEF TrainInv
<1>2. IsFiniteSet(KM!Rows) /\ Cardinality({points[i] : i \in DOMAIN points}) >= 2
  BY <1>1, ConfigFacts, SameSets DEF KM!Trained
<1>3. Unequal
  <2> SUFFICES ASSUME \A x, y \in DOMAIN points : points[x] = points[y] PROVE FALSE
    BY DEF Unequal
  <2>1. PICK D : D = {points[i] : i \in DOMAIN points}
    OBVIOUS
  <2>6. Cardinality(D) >= 2
    BY <1>2, <2>1
  <2>2. D # {}
    <3>1. Cardinality({}) = 0
      BY FS_EmptySet
    <3> QED
      BY <2>6, <3>1
  <2>3. PICK v : v \in D
    BY <2>2
  <2>4. D = {v}
    BY <2>1, <2>3
  <2>5. Cardinality(D) = 1
    BY <2>4, FS_Singleton
  <2> QED
    BY <2>5, <2>6
<1>4. Promising /\ result # <<>>
  BY <1>3 DEF Promising, SeparateInv
<1>5. \A c : \E r \in KM!Rows : result[1].assignments[r] # c
  BY <1>4 DEF SeparateInv
<1>6. PICK S, g : /\ S = {result[1].assignments[r] : r \in KM!Rows}
                  /\ g = [r \in KM!Rows |-> result[1].assignments[r]]
  OBVIOUS
<1>7. PICK q \in KM!Rows : TRUE
  BY <1>5
<1>8. PICK r \in KM!Rows : g[r] # g[q]
  BY <1>5, <1>6, <1>7
<1>9. IsFiniteSet(S) /\ g[q] \in S /\ g[r] \in S
  <2>1. S = {g[x] : x \in KM!Rows}
    BY <1>6
  <2>2. g \in Surjection(KM!Rows, S)
    <3>1. g \in [KM!Rows -> S] /\ \A y \in S : \E x \in KM!Rows : g[x] = y
      BY <1>6, <2>1
    <3> QED
      BY <3>1 DEF Surjection
  <2>3. IsFiniteSet(S)
    BY <1>2, <2>2, FS_Surjection
  <2> QED
    BY <1>7, <1>8, <2>1, <2>3
<1>10. Cardinality(S) >= 2
  BY <1>8, <1>9, TwoNames
<1> QED
  BY <1>6, <1>10, SameSets

\* Data never all come back in one group when the rows trained on differ: the loop
\* of the clustering gets on (run_lloyd_iterations, update_centroids).
THEOREM UnequalRowsSeparate ==
  ASSUME Fits
  PROVE  Trains => []Separates
<1>1. KM!Init => SeparateInv
  BY DEF KM!Init, SeparateInv
<1>2. TrainInv /\ SeparateInv /\ [KM!Next]_(KM!vars) => SeparateInv'
  BY SeparateStep, TrainingAssumption
<1>3. KM!Spec => []TrainInv
  BY TrainInvariance, TrainingAssumption
<1>4. TrainInv /\ SeparateInv => Separates
  BY SeparateHolds, TrainingAssumption
<1> QED
  BY <1>1, <1>2, <1>3, <1>4, PTL DEF Trains, KM!Spec
=============================================================================
