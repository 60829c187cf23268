-------------------------- MODULE MstgIndexProofs --------------------------
(***************************************************************************)
(* From data to an answer, for every data set, query and constant: the     *)
(* clusters partition the data, each vector is in the lists the closure    *)
(* names, and a search finds a vector it is asked for and is not crowded   *)
(* out of its answer by replicas.                                          *)
(***************************************************************************)
EXTENDS MstgIndex, FiniteSetTheorems, SequenceTheorems, TLAPS

\* What is proved of a search alone, for the searches of this index.
Proved == INSTANCE MstgSearchProofs WITH
  Ids <- Nat, Inputs <- {}, phase <- searching

-----------------------------------------------------------------------------
(* The inductive invariant.                                                *)

\* Sets of rows in sequences: no two of one share a row, no two of different
\* ones, row r is in one of them, each holds something.
Alone(s) == \A i, j \in DOMAIN s : i # j => s[i] \cap s[j] = {}
Apart(s, t) == \A i \in DOMAIN s, j \in DOMAIN t : s[i] \cap t[j] = {}
In(r, s) == \E i \in DOMAIN s : r \in s[i]
Full(s) == \A i \in DOMAIN s : s[i] # {}

ShapeOK ==
  /\ Value \in Data
  /\ active \in Seq(SUBSET Rows) /\ groups \in Seq(SUBSET Rows) /\ final \in Seq(SUBSET Rows)
  /\ moves \in 0..MoveLimit /\ clustering \in Clustering!Phases
  /\ clustering # "balance" => groups = <<>>
  /\ clustering = "balance" => groups # <<>>
  /\ clustering = "done" => active = <<>>

PartsOK ==
  /\ Alone(active) /\ Alone(groups) /\ Alone(final)
  /\ Apart(active, groups) /\ Apart(active, final) /\ Apart(groups, final)
  /\ \A r \in Rows : In(r, active) \/ In(r, groups) \/ In(r, final)
  /\ Full(active) /\ Full(final)
  /\ \A i \in DOMAIN final : Cardinality(final[i]) <= MaxSize

\* Two groups are filled, by k-means or by a row that was moved.
TwoGroups ==
  clustering = "balance" /\ Branching # 1
    /\ (moves > 0 \/ ~Clustering!SampleOfOne(Clustering!Dealt))
    => \E i, j \in DOMAIN groups : i # j /\ groups[i] # {} /\ groups[j] # {}

Distances == [v \in Rows |-> [c \in DOMAIN final |-> Away(Value[v], c)]]

BuildOK ==
  IF list = <<>>
  THEN /\ dist = <<>> /\ assigned = <<>> /\ vectorsDone = {} /\ clustersDone = {}
  ELSE /\ clustering = "done"
       /\ dist = Distances
       /\ DOMAIN list = DOMAIN final
       /\ DOMAIN assigned = Rows
       /\ vectorsDone \subseteq Rows /\ clustersDone \subseteq DOMAIN final
       /\ \A v \in vectorsDone : assigned[v] = Builder!Closure(v)
       /\ clustersDone # {} => vectorsDone = Rows
       /\ \A c \in clustersDone : list[c] = Builder!Sorted(Builder!Members(c))

\* A search is of one query, given the centroids found for it.
QueryOK ==
  IF searching = "idle"
  THEN input = Idle /\ global = {} /\ todo = {} /\ merged = {}
  ELSE /\ Builder!Built
       /\ \E q \in Queries[Value] :
            query = <<q>> /\ \E found \in Found(q.at, q.ef) : input = Asked(q, found)
       /\ Proved!IInv

ClusterInv == ShapeOK /\ PartsOK /\ TwoGroups
IInv == ClusterInv /\ BuildOK /\ QueryOK

-----------------------------------------------------------------------------
(* Counting and adding up.                                                 *)

\* The parts count alike.
LEMMA SameCount ==
  ASSUME NEW S
  PROVE  /\ Clustering!Cardinality(S) = Cardinality(S)
         /\ Builder!Cardinality(S) = Cardinality(S)
         /\ Search!Cardinality(S) = Cardinality(S)
         /\ Proved!Cardinality(S) = Cardinality(S)
         /\ Proved!IsFiniteSet(S) = IsFiniteSet(S)
BY DEF Clustering!Cardinality, Builder!Cardinality, Search!Cardinality, Proved!Cardinality,
       Cardinality, Proved!IsFiniteSet, IsFiniteSet

\* Induction over numbers, for a set: what has 0 and with n also n + 1.
LEMMA SetInduction ==
  ASSUME NEW T, T \subseteq Nat, 0 \in T, \A n \in T : n + 1 \in T
  PROVE  T = Nat
<1> SUFFICES ASSUME NEW m \in Nat, m \notin T PROVE FALSE
  OBVIOUS
<1> DEFINE f == [n \in 0..m |-> IF n \in T THEN n + 1 ELSE n]
<1>1. f \in Injection(0..m, 0..m)
  <2>1. f \in [0..m -> 0..m]
    OBVIOUS
  <2>2. \A x, y \in 0..m : f[x] = f[y] => x = y
    OBVIOUS
  <2> QED
    BY <2>1, <2>2 DEF Injection, IsInjective
<1>2. f \in Surjection(0..m, 0..m)
  BY <1>1, FS_Interval, FS_Injection
<1>3. \E n \in 0..m : f[n] = 0
  <2> HIDE DEF f
  <2>1. 0 \in 0..m
    OBVIOUS
  <2> QED
    BY <1>2, <2>1 DEF Surjection
<1> QED
  BY <1>3

Some(s) == CHOOSE x \in s : TRUE
\* One turn of the recursion of a sum over the sets of D.
Sums(D, f, g) == [s \in D |-> IF s = {} THEN 0 ELSE f[Some(s)] + g[s \ {Some(s)}]]

SumOver(S, f) == (CHOOSE g : g = Sums(SUBSET S, f, g))[S]

\* There is a function that adds up so.
LEMMA SumExists ==
  ASSUME NEW S, IsFiniteSet(S), NEW f
  PROVE  \E g : g = Sums(SUBSET S, f, g)
<1> DEFINE Upto(n) == {s \in SUBSET S : Cardinality(s) <= n}
           T == {n \in Nat : \E g : g = Sums(Upto(n), f, g)}
<1>0. \A s \in SUBSET S : IsFiniteSet(s) /\ Cardinality(s) \in Nat
  BY FS_Subset, FS_CardinalityType
<1>1. \A s \in SUBSET S : s # {} => /\ Some(s) \in s
                                   /\ s \ {Some(s)} \in SUBSET S
                                   /\ Cardinality(s \ {Some(s)}) = Cardinality(s) - 1
  BY <1>0, FS_RemoveElement DEF Some
<1>2. 0 \in T
  <2>1. \A s \in Upto(0) : s = {}
    BY <1>0, FS_EmptySet
  <2> DEFINE g == [s \in Upto(0) |-> 0]
  <2>2. g = Sums(Upto(0), f, g)
    BY <2>1 DEF Sums
  <2> QED
    BY <2>2
<1>3. ASSUME NEW n \in T PROVE n + 1 \in T
  <2>1. PICK g : g = Sums(Upto(n), f, g)
    OBVIOUS
  <2> DEFINE h == Sums(Upto(n + 1), f, g)
  <2> HIDE DEF Upto
  <2>2. Upto(n) \subseteq Upto(n + 1)
    BY <1>0 DEF Upto
  <2>3. \A s \in Upto(n) : h[s] = g[s]
    <3>1. \A s \in Upto(n) : g[s] = IF s = {} THEN 0 ELSE f[Some(s)] + g[s \ {Some(s)}]
      BY <2>1 DEF Sums
    <3> QED
      BY <2>2, <3>1 DEF Sums
  <2>4. \A s \in Upto(n + 1) : s # {} => s \ {Some(s)} \in Upto(n)
    BY <1>0, <1>1 DEF Upto
  <2>5. h = Sums(Upto(n + 1), f, h)
    <3>1. \A s \in Upto(n + 1) : s # {} => h[s \ {Some(s)}] = g[s \ {Some(s)}]
      BY <2>3, <2>4
    <3> QED
      BY <3>1 DEF Sums
  <2>6. \E k : k = Sums(Upto(n + 1), f, k)
    <3> HIDE DEF h
    <3> QED BY <2>5
  <2> QED
    BY <2>6
<1>4. T = Nat
  <2> HIDE DEF T
  <2>1. T \subseteq Nat
    BY DEF T
  <2> QED
    BY <1>2, <1>3, <2>1, SetInduction
<1>5. Upto(Cardinality(S)) = SUBSET S
  BY FS_Subset, FS_CardinalityType
<1>6. Cardinality(S) \in Nat
  BY FS_CardinalityType
<1> QED
  BY <1>4, <1>5, <1>6

\* A sum of integers is one.
LEMMA SumInt ==
  ASSUME NEW S, IsFiniteSet(S), NEW f, \A x \in S : f[x] \in Int
  PROVE  SumOver(S, f) \in Int
<1> DEFINE g == CHOOSE g : g = Sums(SUBSET S, f, g)
           T == {n \in Nat : \A s \in SUBSET S : Cardinality(s) = n => g[s] \in Int}
<1>1. g = Sums(SUBSET S, f, g)
  BY SumExists
<1>2. SumOver(S, f) = g[S]
  BY DEF SumOver
<1> HIDE DEF g
<1>3. \A s \in SUBSET S : g[s] = IF s = {} THEN 0 ELSE f[Some(s)] + g[s \ {Some(s)}]
  BY <1>1 DEF Sums
<1>4. \A s \in SUBSET S : IsFiniteSet(s) /\ Cardinality(s) \in Nat
  BY FS_Subset, FS_CardinalityType
<1>5. 0 \in T
  <2>1. \A s \in SUBSET S : Cardinality(s) = 0 => s = {}
    BY <1>4, FS_EmptySet
  <2>2. \A s \in SUBSET S : Cardinality(s) = 0 => g[s] = 0
    BY <1>3, <2>1
  <2> QED
    BY <2>2
<1>6. ASSUME NEW n \in T PROVE n + 1 \in T
  <2> SUFFICES ASSUME NEW s \in SUBSET S, Cardinality(s) = n + 1
               PROVE  g[s] \in Int
    OBVIOUS
  <2>1. s # {}
    BY FS_EmptySet
  <2>2. Some(s) \in s
    BY <2>1 DEF Some
  <2>3. Cardinality(s \ {Some(s)}) = n
    BY <1>4, <2>2, FS_RemoveElement
  <2>4. g[s \ {Some(s)}] \in Int /\ f[Some(s)] \in Int
    BY <2>2, <2>3
  <2>5. g[s] = f[Some(s)] + g[s \ {Some(s)}]
    BY <1>3, <2>1
  <2> QED
    BY <2>4, <2>5
<1>7. T = Nat
  <2> HIDE DEF T
  <2>1. T \subseteq Nat
    BY DEF T
  <2> QED
    BY <1>5, <1>6, <2>1, SetInduction
<1> QED
  BY <1>2, <1>4, <1>7

-----------------------------------------------------------------------------
(* Ranks: the elements of a finite set in a strict total order.            *)

\* How many come before x.
RankIn(S, R, x) == Cardinality({y \in S : <<y, x>> \in R})

Orders(R, S) ==
  /\ \A x \in S : <<x, x>> \notin R
  /\ \A x, y, z \in S : <<x, y>> \in R /\ <<y, z>> \in R => <<x, z>> \in R
  /\ \A x, y \in S : x # y => <<x, y>> \in R \/ <<y, x>> \in R

\* What comes later has more before it.
LEMMA RankGrows ==
  ASSUME NEW S, IsFiniteSet(S), NEW R, Orders(R, S),
         NEW x \in S, NEW y \in S, <<x, y>> \in R
  PROVE  RankIn(S, R, x) < RankIn(S, R, y)
<1> DEFINE X == {z \in S : <<z, x>> \in R}
           Y == {z \in S : <<z, y>> \in R}
<1>1. X \cup {x} \subseteq Y /\ x \notin X
  BY DEF Orders
<1>2. IsFiniteSet(X) /\ IsFiniteSet(Y)
  <2>1. X \subseteq S /\ Y \subseteq S
    OBVIOUS
  <2> HIDE DEF X, Y
  <2> QED
    BY <2>1, FS_Subset
<1> HIDE DEF X, Y
<1>3. IsFiniteSet(X \cup {x}) /\ Cardinality(X \cup {x}) = Cardinality(X) + 1
  BY <1>1, <1>2, FS_AddElement
<1>4. Cardinality(X \cup {x}) <= Cardinality(Y)
  BY <1>1, <1>2, FS_Subset
<1>5. Cardinality(X) \in Nat /\ Cardinality(Y) \in Nat
  BY <1>2, FS_CardinalityType
<1> QED
  BY <1>3, <1>4, <1>5 DEF RankIn, X, Y

\* Ranks tell elements apart, and each of 0 .. n - 1 is the rank of one.
LEMMA Ranks ==
  ASSUME NEW S, IsFiniteSet(S), NEW R, Orders(R, S)
  PROVE  /\ Cardinality(S) \in Nat
         /\ \A x \in S : RankIn(S, R, x) \in 0 .. Cardinality(S) - 1
         /\ \A x, y \in S : RankIn(S, R, x) = RankIn(S, R, y) => x = y
         /\ \A n \in 0 .. Cardinality(S) - 1 : \E x \in S : RankIn(S, R, x) = n
<1> DEFINE k == Cardinality(S)
           rank == [x \in S |-> RankIn(S, R, x)]
<1>1. k \in Nat
  BY FS_CardinalityType
<1>2. ASSUME NEW x \in S PROVE RankIn(S, R, x) \in 0 .. k - 1
  <2> DEFINE X == {z \in S : <<z, x>> \in R}
  <2>1. X \subseteq S \ {x}
    BY DEF Orders
  <2>2. IsFiniteSet(S \ {x}) /\ Cardinality(S \ {x}) = k - 1
    BY FS_RemoveElement
  <2> HIDE DEF X
  <2>3. IsFiniteSet(X) /\ Cardinality(X) \in Nat /\ Cardinality(X) <= k - 1
    BY <2>1, <2>2, FS_Subset, FS_CardinalityType
  <2> QED
    BY <1>1, <2>3 DEF RankIn, X
<1>3. ASSUME NEW x \in S, NEW y \in S, x # y
      PROVE  RankIn(S, R, x) # RankIn(S, R, y)
  <2>1. RankIn(S, R, x) \in Int /\ RankIn(S, R, y) \in Int
    BY <1>1, <1>2
  <2>2. RankIn(S, R, x) < RankIn(S, R, y) \/ RankIn(S, R, y) < RankIn(S, R, x)
    BY <1>3, RankGrows DEF Orders
  <2> QED
    BY <2>1, <2>2
<1>4. rank \in Injection(S, 0 .. k - 1)
  <2>1. rank \in [S -> 0 .. k - 1]
    BY <1>2
  <2>2. \A x, y \in S : rank[x] = rank[y] => x = y
    BY <1>3
  <2> QED
    BY <2>1, <2>2 DEF Injection, IsInjective
<1>5. rank \in Surjection(S, 0 .. k - 1)
  <2>1. IsFiniteSet(0 .. k - 1) /\ Cardinality(0 .. k - 1) = k
    BY <1>1, FS_Interval
  <2> HIDE DEF rank
  <2> QED
    BY <1>4, <2>1, FS_Injection
<1>6. ASSUME NEW n \in 0 .. k - 1
      PROVE  \E x \in S : RankIn(S, R, x) = n
  <2>1. \E x \in S : rank[x] = n
    <3> HIDE DEF rank
    <3> QED
      BY <1>5 DEF Surjection
  <2> QED
    BY <2>1
<1> QED
  BY <1>1, <1>2, <1>3, <1>6

\* The n-th of some numbers, counting how many are less.
Less(S, x) == Cardinality({y \in S : y < x})
Nth(S, n) == CHOOSE x \in S : Less(S, x) = n - 1

\* Each of them is the n-th for one n.
LEMMA NthFacts ==
  ASSUME NEW S, IsFiniteSet(S), S \subseteq Int
  PROVE  /\ Cardinality(S) \in Nat
         /\ \A n \in 1 .. Cardinality(S) : Nth(S, n) \in S /\ Less(S, Nth(S, n)) = n - 1
         /\ \A x \in S : \E n \in 1 .. Cardinality(S) : Nth(S, n) = x
<1>0. PICK R : R = {p \in S \X S : p[1] < p[2]}
  OBVIOUS
<1>1. Orders(R, S)
  BY <1>0 DEF Orders
<1>2. \A x \in S : RankIn(S, R, x) = Less(S, x)
  <2> SUFFICES ASSUME NEW x \in S
               PROVE  RankIn(S, R, x) = Less(S, x)
    OBVIOUS
  <2>1. {y \in S : <<y, x>> \in R} = {y \in S : y < x}
    BY <1>0
  <2> QED
    BY <2>1 DEF RankIn, Less
<1>3. /\ Cardinality(S) \in Nat
      /\ \A x \in S : RankIn(S, R, x) \in 0 .. Cardinality(S) - 1
      /\ \A x, y \in S : RankIn(S, R, x) = RankIn(S, R, y) => x = y
      /\ \A n \in 0 .. Cardinality(S) - 1 : \E x \in S : RankIn(S, R, x) = n
  BY <1>1, Ranks
<1>4. /\ \A x \in S : Less(S, x) \in 0 .. Cardinality(S) - 1
      /\ \A x, y \in S : Less(S, x) = Less(S, y) => x = y
      /\ \A n \in 0 .. Cardinality(S) - 1 : \E x \in S : Less(S, x) = n
  BY <1>2, <1>3
<1>5. ASSUME NEW n \in 1 .. Cardinality(S)
      PROVE  Nth(S, n) \in S /\ Less(S, Nth(S, n)) = n - 1
  <2>1. n - 1 \in 0 .. Cardinality(S) - 1
    BY <1>3
  <2>2. \E x \in S : Less(S, x) = n - 1
    BY <1>4, <2>1
  <2> QED
    BY <2>2 DEF Nth
<1>6. ASSUME NEW x \in S
      PROVE  \E n \in 1 .. Cardinality(S) : Nth(S, n) = x
  <2> DEFINE n == Less(S, x) + 1
  <2>1. n \in 1 .. Cardinality(S) /\ n - 1 = Less(S, x)
    BY <1>3, <1>4
  <2>2. Nth(S, n) \in S /\ Less(S, Nth(S, n)) = Less(S, x)
    BY <1>5, <2>1
  <2>3. Nth(S, n) = x
    BY <1>4, <2>2
  <2> QED
    BY <2>1, <2>3
<1> QED
  BY <1>3, <1>5, <1>6

-----------------------------------------------------------------------------
(* Clustering.                                                             *)

\* Rows are 1 .. n, and what they hold integers.
LEMMA RowFacts ==
  ASSUME Value \in Data
  PROVE  /\ Value \in Seq(Int) /\ Len(Value) \in Nat
         /\ Rows = 1 .. Len(Value)
         /\ \A r \in Rows : Value[r] \in Int
         /\ IsFiniteSet(Rows) /\ Cardinality(Rows) = Len(Value)
<1>1. Value \in Seq(Int)
  BY IndexAssumption
<1>2. Len(Value) \in Nat /\ Value \in [1 .. Len(Value) -> Int]
  BY <1>1
<1>3. Rows = 1 .. Len(Value)
  BY <1>2 DEF Rows
<1>4. IsFiniteSet(Rows) /\ Cardinality(Rows) = Len(Value)
  BY <1>2, <1>3, FS_Interval
<1> QED
  BY <1>1, <1>2, <1>3, <1>4

\* The first of some positions is one of them.
LEMMA FirstFacts ==
  ASSUME NEW ps, IsFiniteSet(ps), ps \subseteq Nat, ps # {}
  PROVE  Clustering!First(ps) \in ps
<1>0. Cardinality(ps) \in Nat /\ Cardinality(ps) # 0
  BY FS_CardinalityType, FS_EmptySet
<1>1. PICK p \in ps : Less(ps, p) = 0
  <2>1. 1 \in 1 .. Cardinality(ps) /\ 1 - 1 = 0
    BY <1>0
  <2>2. ps \subseteq Int
    OBVIOUS
  <2>3. \A n \in 1 .. Cardinality(ps) : Nth(ps, n) \in ps /\ Less(ps, Nth(ps, n)) = n - 1
    BY <2>2, NthFacts
  <2> QED
    BY <2>1, <2>3
<1>2. {q \in ps : q < p} = {}
  <2> DEFINE Q == {q \in ps : q < p}
  <2>1. Q \subseteq ps
    OBVIOUS
  <2>2. Cardinality(Q) = 0
    BY <1>1 DEF Less
  <2> HIDE DEF Q
  <2>3. IsFiniteSet(Q)
    BY <2>1, FS_Subset
  <2>4. Q = {}
    BY <2>2, <2>3, FS_EmptySet
  <2> QED
    BY <2>4 DEF Q
<1>3. \A q \in ps : p <= q
  BY <1>2
<1> QED
  BY <1>3 DEF Clustering!First

\* The groups at some positions, by counting.
LEMMA AtNth ==
  ASSUME NEW s, NEW ps
  PROVE  Clustering!At(s, ps) = [n \in 1 .. Cardinality(ps) |-> s[Nth(ps, n)]]
BY Zenon DEF Clustering!At, Clustering!Cardinality, Cardinality, Nth, Less

\* What is kept of a sequence of sets: those that hold something, each once, in
\* the places at.
KeptAs(s, n, at) ==
  /\ at \in [1 .. n -> DOMAIN s]
  /\ Clustering!Kept(s) = [i \in 1 .. n |-> s[at[i]]]
  /\ \A i \in 1 .. n : s[at[i]] # {}
  /\ \A i, j \in 1 .. n : i # j => at[i] # at[j]
  /\ \A p \in DOMAIN s : s[p] # {} => \E i \in 1 .. n : at[i] = p

LEMMA KeptFacts ==
  ASSUME NEW S, NEW s \in Seq(S)
  PROVE  \E n \in Nat : \E at : KeptAs(s, n, at)
<1>0. PICK ps : ps = {i \in DOMAIN s : s[i] # {}}
  OBVIOUS
<1> DEFINE n == Cardinality(ps)
<1>1. IsFiniteSet(ps) /\ ps \subseteq DOMAIN s /\ ps \subseteq Int
  <2>1. ps \subseteq 1 .. Len(s) /\ Len(s) \in Nat /\ DOMAIN s = 1 .. Len(s)
    BY <1>0
  <2>2. IsFiniteSet(1 .. Len(s))
    BY <2>1, FS_Interval
  <2>3. IsFiniteSet(ps)
    BY <2>1, <2>2, FS_Subset
  <2> QED
    BY <2>1, <2>3
<1>2. /\ n \in Nat
      /\ \A i \in 1 .. n : Nth(ps, i) \in ps /\ Less(ps, Nth(ps, i)) = i - 1
      /\ \A p \in ps : \E i \in 1 .. n : Nth(ps, i) = p
  BY <1>1, NthFacts
<1>3. PICK at : at = [i \in 1 .. n |-> Nth(ps, i)]
  OBVIOUS
<1>4. Clustering!Kept(s) = [i \in 1 .. n |-> s[at[i]]]
  <2>1. Clustering!Kept(s) = [i \in 1 .. n |-> s[Nth(ps, i)]]
    BY <1>0, AtNth DEF Clustering!Kept
  <2> QED
    BY <1>3, <2>1
<1>5. at \in [1 .. n -> DOMAIN s]
  BY <1>1, <1>2, <1>3
<1>6. \A i \in 1 .. n : s[at[i]] # {}
  BY <1>0, <1>2, <1>3
<1>7. ASSUME NEW i \in 1 .. n, NEW j \in 1 .. n, i # j
      PROVE  at[i] # at[j]
  <2>1. Less(ps, at[i]) = i - 1 /\ Less(ps, at[j]) = j - 1
    BY <1>2, <1>3
  <2>2. i - 1 # j - 1
    BY <1>2, <1>7
  <2> QED
    BY <2>1, <2>2
<1>8. ASSUME NEW p \in DOMAIN s, s[p] # {}
      PROVE  \E i \in 1 .. n : at[i] = p
  <2>1. p \in ps
    BY <1>0, <1>8
  <2> QED
    BY <1>2, <1>3, <2>1
<1>9. KeptAs(s, n, at)
  BY <1>4, <1>5, <1>6, <1>7, <1>8 DEF KeptAs
<1> QED
  BY <1>2, <1>9

\* The sizes of groups add up to an integer, and so does their target.
LEMMA TargetInt ==
  ASSUME ShapeOK, groups # <<>>
  PROVE  /\ Clustering!Target \in Int
         /\ \A i \in DOMAIN groups : Clustering!Cardinality(groups[i]) \in Nat
<1>0. /\ IsFiniteSet(Rows) /\ Len(groups) \in Nat \ {0}
      /\ DOMAIN groups = 1 .. Len(groups) /\ IsFiniteSet(DOMAIN groups)
  <2>1. groups \in Seq(SUBSET Rows) /\ Value \in Data
    BY DEF ShapeOK
  <2>2. Len(groups) \in Nat \ {0} /\ DOMAIN groups = 1 .. Len(groups)
    BY <2>1, EmptySeq, LenProperties
  <2> QED
    BY <2>1, <2>2, RowFacts, FS_Interval
<1>1. \A i \in DOMAIN groups : Clustering!Cardinality(groups[i]) \in Nat
  <2> SUFFICES ASSUME NEW i \in DOMAIN groups
               PROVE  Clustering!Cardinality(groups[i]) \in Nat
    OBVIOUS
  <2>1. groups[i] \subseteq Rows
    BY <1>0, ElementOfSeq DEF ShapeOK
  <2>2. IsFiniteSet(groups[i])
    BY <1>0, <2>1, FS_Subset
  <2> QED
    BY <2>2, FS_CardinalityType, SameCount
<1> DEFINE f == Clustering!Sizes(groups)
<1>2. DOMAIN f = DOMAIN groups /\ \A i \in DOMAIN groups : f[i] \in Int
  BY <1>1 DEF Clustering!Sizes
<1> HIDE DEF f
<1>3. SumOver(DOMAIN f, f) \in Int
  BY <1>0, <1>2, SumInt
<1>4. Clustering!FoldFunction(LAMBDA x, y : x + y, 0, f) = SumOver(DOMAIN f, f)
  BY Zenon DEF Clustering!FoldFunction, Clustering!FoldFunctionOnSet,
               Clustering!MapThenFoldSet, SumOver, Sums, Some
<1>5. Clustering!Target
        = Clustering!FoldFunction(LAMBDA x, y : x + y, 0, f) \div Len(groups)
  BY DEF Clustering!Target, f
<1>6. Clustering!Target = SumOver(DOMAIN f, f) \div Len(groups)
  BY <1>4, <1>5, Zenon
<1> QED
  BY <1>0, <1>1, <1>3, <1>6

\* When groups are evened out, the one that gives has rows to spare.
LEMMA GiveAndTake ==
  ASSUME ShapeOK, clustering = "balance", Clustering!Unbalanced
  PROVE  LET from == Clustering!First(Clustering!Over)
             to == Clustering!First(Clustering!Under)
         IN  /\ from \in DOMAIN groups /\ to \in DOMAIN groups /\ from # to
             /\ moves < MoveLimit
             /\ \A r : groups[from] \ {r} # {}
<1> DEFINE from == Clustering!First(Clustering!Over)
           to == Clustering!First(Clustering!Under)
<1>0. /\ groups # <<>> /\ groups \in Seq(SUBSET Rows) /\ Value \in Data
      /\ Clustering!Over # {} /\ Clustering!Under # {}
      /\ Weight > 0 /\ moves < MoveLimit /\ Weight \in Nat
  BY IndexAssumption DEF ShapeOK, Clustering!Unbalanced, Clustering!ClusteringAssumption
<1>1. /\ Clustering!Target \in Int
      /\ \A i \in DOMAIN groups : Clustering!Cardinality(groups[i]) \in Nat
  BY <1>0, TargetInt
<1>2. /\ Clustering!Over \subseteq DOMAIN groups /\ Clustering!Under \subseteq DOMAIN groups
      /\ IsFiniteSet(DOMAIN groups) /\ DOMAIN groups \subseteq Nat
  <2>1. Len(groups) \in Nat /\ DOMAIN groups = 1 .. Len(groups)
    BY <1>0
  <2> QED
    BY <2>1, FS_Interval DEF Clustering!Over, Clustering!Under
<1>3. from \in Clustering!Over /\ to \in Clustering!Under
  <2>1. IsFiniteSet(Clustering!Over) /\ IsFiniteSet(Clustering!Under)
    BY <1>2, FS_Subset
  <2>2. Clustering!Over \subseteq Nat /\ Clustering!Under \subseteq Nat
    BY <1>2
  <2> QED
    BY <1>0, <2>1, <2>2, FirstFacts
<1> HIDE DEF from, to
<1>4. /\ from \in DOMAIN groups /\ to \in DOMAIN groups
      /\ Clustering!Cardinality(groups[to]) < Clustering!Target
      /\ Clustering!Cardinality(groups[from]) > Clustering!Allowed
  BY <1>3 DEF Clustering!Over, Clustering!Under
<1>5. Clustering!Target >= 1
  BY <1>1, <1>4
<1>6. Clustering!Allowed >= Clustering!Target /\ Clustering!Allowed >= 2
      /\ Clustering!Allowed \in Int
  <2>1. \A t, w \in Nat : t >= 1 /\ w >= 1 => t * (1 + w) >= t /\ t * (1 + w) >= 2 /\ t * (1 + w) \in Int
    <3> SUFFICES ASSUME NEW t \in Nat, NEW w \in Nat, t >= 1, w >= 1
                 PROVE  t * (1 + w) >= t /\ t * (1 + w) >= 2 /\ t * (1 + w) \in Int
      OBVIOUS
    <3>1. t * (1 + w) = t + t * w /\ t * w \in Nat
      OBVIOUS
    <3>2. t * w >= 1
      OBVIOUS
    <3> QED
      BY <3>1, <3>2
  <2>2. Clustering!Target \in Nat /\ Weight >= 1
    BY <1>0, <1>1, <1>5
  <2> QED
    BY <1>5, <2>1, <2>2, <1>0 DEF Clustering!Allowed
<1>7. from # to
  BY <1>1, <1>4, <1>6
<1>8. ASSUME NEW r
      PROVE  groups[from] \ {r} # {}
  <2>1. IsFiniteSet(groups[from])
    <3>1. groups[from] \subseteq Rows
      BY <1>0, <1>4, ElementOfSeq, LenProperties
    <3> QED
      BY <1>0, <3>1, RowFacts, FS_Subset
  <2>2. Cardinality(groups[from]) > 2 /\ Cardinality(groups[from]) \in Nat
    BY <1>1, <1>4, <1>6, SameCount
  <2>3. Cardinality(groups[from] \ {r})
          = IF r \in groups[from] THEN Cardinality(groups[from]) - 1 ELSE Cardinality(groups[from])
    BY <2>1, FS_RemoveElement
  <2>4. Cardinality(groups[from] \ {r}) # 0
    BY <2>2, <2>3
  <2> QED
    BY <2>4, FS_EmptySet
<1> QED
  BY <1>0, <1>4, <1>7, <1>8 DEF from, to

\* The stack, the groups and the clusters accepted are sequences of sets of rows.
LEMMA Shapes ==
  ASSUME ShapeOK
  PROVE  /\ Len(active) \in Nat /\ DOMAIN active = 1 .. Len(active)
         /\ Len(groups) \in Nat /\ DOMAIN groups = 1 .. Len(groups)
         /\ Len(final) \in Nat /\ DOMAIN final = 1 .. Len(final)
         /\ \A i \in DOMAIN active : active[i] \subseteq Rows
         /\ \A i \in DOMAIN groups : groups[i] \subseteq Rows
         /\ \A i \in DOMAIN final : final[i] \subseteq Rows
         /\ active # <<>> => Len(active) \in DOMAIN active
<1>1. /\ active \in Seq(SUBSET Rows) /\ groups \in Seq(SUBSET Rows)
      /\ final \in Seq(SUBSET Rows)
  BY DEF ShapeOK
<1>2. ASSUME NEW s \in Seq(SUBSET Rows)
      PROVE  /\ Len(s) \in Nat /\ DOMAIN s = 1 .. Len(s)
             /\ \A i \in DOMAIN s : s[i] \subseteq Rows
             /\ s # <<>> => Len(s) \in DOMAIN s
  <2>1. Len(s) \in Nat /\ DOMAIN s = 1 .. Len(s) /\ (s # <<>> => Len(s) # 0)
    BY EmptySeq, LenProperties
  <2> QED
    BY <2>1, ElementOfSeq
<1> QED
  BY <1>1, <1>2

LEMMA FunctionSeq ==
  ASSUME NEW S, NEW n \in Nat, NEW s \in [1 .. n -> S]
  PROVE  s \in Seq(S) /\ Len(s) = n
OBVIOUS

\* A sequence without its last element.
LEMMA AllButLast ==
  ASSUME NEW S, NEW s \in Seq(S), s # <<>>
  PROVE  LET below == SubSeq(s, 1, Len(s) - 1)
         IN  /\ below \in Seq(S) /\ DOMAIN below = 1 .. Len(s) - 1
             /\ \A i \in 1 .. Len(s) - 1 : below[i] = s[i]
<1> DEFINE n == Len(s) - 1
           below == SubSeq(s, 1, n)
<1>1. Len(s) \in Nat \ {0}
  BY EmptySeq, LenProperties
<1>2. n \in Nat /\ \A i \in 1 .. n : s[i] \in S
  BY <1>1, ElementOfSeq
<1> HIDE DEF n
<1>3. /\ below \in Seq(S)
      /\ Len(below) = IF 1 <= n THEN n - 1 + 1 ELSE 0
      /\ \A i \in 1 .. n - 1 + 1 : below[i] = s[1 + i - 1]
  BY <1>2, SubSeqProperties
<1> HIDE DEF below
<1>4. DOMAIN below = 1 .. n
  BY <1>2, <1>3
<1>5. \A i \in 1 .. n : below[i] = s[i]
  BY <1>2, <1>3
<1> QED
  BY <1>3, <1>4, <1>5 DEF below, n

\* The whole data set is the first cluster.
LEMMA InitClusterInv == Clustering!Init => ClusterInv
<1> SUFFICES ASSUME Clustering!Init PROVE ClusterInv
  OBVIOUS
<1>1. /\ Value \in Data /\ groups = <<>> /\ moves = 0 /\ final = <<>> /\ clustering = "loop"
      /\ active = IF Rows = {} THEN <<>> ELSE <<Rows>>
  BY DEF Clustering!Init, Clustering!Rows, Rows
<1>2. DOMAIN groups = {} /\ DOMAIN final = {}
  BY <1>1
<1>3. ShapeOK
  <2>1. active \in Seq(SUBSET Rows) /\ groups \in Seq(SUBSET Rows) /\ final \in Seq(SUBSET Rows)
    <3>1. Rows \in SUBSET Rows
      OBVIOUS
    <3> HIDE DEF Rows
    <3>2. <<>> \in Seq(SUBSET Rows) /\ <<Rows>> \in Seq(SUBSET Rows)
      BY <3>1
    <3> QED
      BY <1>1, <3>2
  <2> QED
    BY <1>1, <2>1, IndexAssumption DEF ShapeOK, Clustering!Phases, Clustering!ClusteringAssumption
<1>4. /\ \A i \in DOMAIN active : i = 1 /\ active[i] = Rows /\ Rows # {}
      /\ Rows # {} => 1 \in DOMAIN active
  BY <1>1
<1>5. PartsOK
  BY <1>2, <1>4 DEF PartsOK, Alone, Apart, In, Full
<1>6. TwoGroups
  BY <1>1 DEF TwoGroups
<1> QED
  BY <1>3, <1>5, <1>6 DEF ClusterInv

\* A cluster small enough passes from the stack to those accepted.
LEMMA AcceptInv == ClusterInv /\ Clustering!Accept => ClusterInv'
<1> SUFFICES ASSUME ClusterInv, Clustering!Accept PROVE ClusterInv'
  OBVIOUS
<1> DEFINE n == Len(active)
           top == active[n]
<1>1. /\ clustering = "loop" /\ active # <<>> /\ Cardinality(top) <= MaxSize
      /\ final' = Append(final, top) /\ active' = SubSeq(active, 1, n - 1)
      /\ Value' = Value /\ groups' = groups /\ moves' = moves /\ clustering' = clustering
  BY SameCount DEF Clustering!Accept, Clustering!SmallEnough, Clustering!Top, Clustering!Below
<1>2. ShapeOK /\ PartsOK /\ groups = <<>>
  BY <1>1 DEF ClusterInv, ShapeOK
<1>3. /\ Len(active) \in Nat /\ DOMAIN active = 1 .. Len(active)
      /\ Len(final) \in Nat /\ DOMAIN final = 1 .. Len(final)
      /\ \A i \in DOMAIN active : active[i] \subseteq Rows
      /\ n \in DOMAIN active /\ n \in Nat \ {0} /\ top \subseteq Rows
  BY <1>1, <1>2, Shapes
<1>4. /\ active' \in Seq(SUBSET Rows) /\ DOMAIN active' = 1 .. n - 1
      /\ \A i \in 1 .. n - 1 : active'[i] = active[i]
  <2>1. active \in Seq(SUBSET Rows)
    BY <1>2 DEF ShapeOK
  <2> QED
    BY <1>1, <2>1, AllButLast
<1>5. /\ final' \in Seq(SUBSET Rows) /\ DOMAIN final' = 1 .. Len(final) + 1
      /\ \A i \in 1 .. Len(final) : final'[i] = final[i]
      /\ final'[Len(final) + 1] = top
  <2>1. final \in Seq(SUBSET Rows) /\ top \in SUBSET Rows
    BY <1>2, <1>3 DEF ShapeOK
  <2> HIDE DEF top
  <2> QED
    BY <1>1, <2>1
<1> HIDE DEF n
<1>6. ShapeOK'
  BY <1>1, <1>2, <1>4, <1>5 DEF ShapeOK, Rows
<1>7. /\ DOMAIN groups = {} /\ DOMAIN groups' = {}
  BY <1>1, <1>2
<1>8. /\ \A i \in DOMAIN active' : i \in DOMAIN active /\ i # n /\ active'[i] = active[i]
      /\ \A i \in DOMAIN active : i = n \/ (i \in DOMAIN active' /\ active'[i] = active[i])
      /\ \A i \in DOMAIN final' : \/ i \in DOMAIN final /\ final'[i] = final[i]
                                  \/ i = Len(final) + 1 /\ i \notin DOMAIN final /\ final'[i] = active[n]
      /\ \A i \in DOMAIN final : i \in DOMAIN final' /\ final'[i] = final[i]
      /\ Len(final) + 1 \in DOMAIN final'
  BY <1>3, <1>4, <1>5 DEF n
<1>9. PartsOK'
  <2>1. Alone(active)' /\ Full(active)'
    BY <1>2, <1>8 DEF PartsOK, Alone, Full
  <2>2. Alone(final)'
    BY <1>2, <1>3, <1>8 DEF PartsOK, Alone, Apart
  <2>3. Apart(active, final)'
    BY <1>2, <1>3, <1>8 DEF PartsOK, Alone, Apart
  <2>4. Full(final)'
    BY <1>2, <1>3, <1>8 DEF PartsOK, Full
  <2>5. \A i \in DOMAIN final' : Cardinality(final'[i]) <= MaxSize
    BY <1>1, <1>2, <1>3, <1>8 DEF PartsOK
  <2>6. \A r \in Rows : In(r, active)' \/ In(r, final)'
    <3> SUFFICES ASSUME NEW r \in Rows PROVE In(r, active)' \/ In(r, final)'
      OBVIOUS
    <3>1. In(r, active) \/ In(r, final)
      BY <1>2, <1>7 DEF PartsOK, In
    <3>2. CASE In(r, final)
      BY <1>8, <3>2 DEF In
    <3>3. CASE In(r, active)
      <4>1. PICK i \in DOMAIN active : r \in active[i]
        BY <3>3 DEF In
      <4> QED
        BY <1>3, <1>5, <1>8, <4>1 DEF In, n
    <3> QED
      BY <3>1, <3>2, <3>3
  <2> QED
    BY <1>1, <1>7, <2>1, <2>2, <2>3, <2>4, <2>5, <2>6 DEF PartsOK, Alone, Apart, Rows
<1>10. TwoGroups'
  BY <1>1 DEF TwoGroups
<1> QED
  BY <1>6, <1>9, <1>10 DEF ClusterInv

\* A split that is refused and the end of the loop leave the clusters alone.
LEMMA StopInv ==
  ClusterInv /\ (Clustering!Finish \/ Clustering!SplitPanics) => ClusterInv'
<1> SUFFICES ASSUME ClusterInv, Clustering!Finish \/ Clustering!SplitPanics
             PROVE  ClusterInv'
  OBVIOUS
<1>1. /\ clustering = "loop" /\ clustering' \in {"done", "panicked"}
      /\ clustering' = "done" => active = <<>>
      /\ Value' = Value /\ active' = active /\ groups' = groups
      /\ moves' = moves /\ final' = final
  BY DEF Clustering!Finish, Clustering!SplitPanics
<1>2. ShapeOK'
  BY <1>1 DEF ClusterInv, ShapeOK, Rows, Clustering!Phases
<1>3. PartsOK' /\ TwoGroups'
  BY <1>1 DEF ClusterInv, PartsOK, TwoGroups, Alone, Apart, In, Full, Rows
<1> QED
  BY <1>2, <1>3 DEF ClusterInv

\* A sample of one value is of a value that fills one.
LEMMA TwoSampled ==
  ASSUME Value \in Data, NEW c, c \subseteq Rows, c # {}, ~Clustering!SampleOfOne(c),
         NEW s \in Clustering!Samples(c)
  PROVE  \E p, q \in s : Value[p] # Value[q]
<1> SUFFICES ASSUME \A p, q \in s : Value[p] = Value[q] PROVE FALSE
  OBVIOUS
<1>1. s \subseteq c /\ Clustering!Cardinality(s) = Clustering!SampleSize(c)
  BY DEF Clustering!Samples
<1>2. PICK q \in c : s # {} => q \in s
  BY <1>1
<1>3. PICK like : like = {r \in c : Value[r] = Value[q]}
  OBVIOUS
<1>4. s \subseteq like /\ like \subseteq c
  BY <1>1, <1>2, <1>3
<1>5. IsFiniteSet(like)
  BY <1>4, RowFacts, FS_Subset
<1>6. Cardinality(s) <= Cardinality(like)
  BY <1>4, <1>5, FS_Subset
<1>7. Clustering!Cardinality(like) >= Clustering!SampleSize(c)
  <2>1. Cardinality(s) \in Nat /\ Cardinality(like) \in Nat
    BY <1>4, <1>5, FS_Subset, FS_CardinalityType
  <2> QED
    BY <1>1, <1>6, <2>1, SameCount
<1> QED
  BY <1>3, <1>7 DEF Clustering!SampleOfOne

\* k-means deals the rows of a cluster to its groups.
LEMMA SplitInv == ClusterInv /\ Clustering!Split => ClusterInv'
<1> SUFFICES ASSUME ClusterInv, Clustering!Split PROVE ClusterInv'
  OBVIOUS
<1> DEFINE n == Len(active)
<1>0. PICK top : top = active[n]
  OBVIOUS
<1>1. /\ clustering = "loop" /\ active # <<>> /\ Branching > 0
      /\ groups' \in Clustering!KMeansGroups(top) /\ active' = SubSeq(active, 1, n - 1)
      /\ moves' = 0 /\ clustering' = "balance" /\ Value' = Value /\ final' = final
  BY <1>0 DEF Clustering!Split, Clustering!Top, Clustering!Below, Clustering!KMeansAccepts
<1>2. ShapeOK /\ PartsOK /\ groups = <<>> /\ Value \in Data
  BY <1>1 DEF ClusterInv, ShapeOK
<1>3. /\ n \in Nat /\ DOMAIN active = 1 .. n
      /\ \A i \in DOMAIN active : active[i] \subseteq Rows
      /\ n \in DOMAIN active /\ top \subseteq Rows
  BY <1>0, <1>1, <1>2, Shapes
<1>4. /\ active' \in Seq(SUBSET Rows) /\ DOMAIN active' = 1 .. n - 1
      /\ \A i \in 1 .. n - 1 : active'[i] = active[i]
  <2>1. active \in Seq(SUBSET Rows)
    BY <1>2 DEF ShapeOK
  <2> QED
    BY <1>1, <2>1, AllButLast
<1> HIDE DEF n
<1>5. PICK held : held = {Value[r] : r \in top}
  OBVIOUS
<1>6. PICK f \in [held -> 1 .. Branching] :
        /\ groups' = [i \in 1 .. Branching |-> {r \in top : f[Value[r]] = i}]
        /\ \E s \in Clustering!Samples(top) : Clustering!TrainedOn(s, f)
  BY <1>1, <1>5 DEF Clustering!KMeansGroups, Clustering!GroupsBy
<1>7. Branching \in Nat \ {0} /\ MoveLimit \in Nat
  BY <1>1, IndexAssumption DEF Clustering!ClusteringAssumption
<1>8. /\ DOMAIN groups' = 1 .. Branching
      /\ \A i \in 1 .. Branching : \A r : r \in groups'[i] <=> r \in top /\ f[Value[r]] = i
      /\ \A r \in top : Value[r] \in held /\ f[Value[r]] \in 1 .. Branching
      /\ \A v \in held : \E r \in top : v = Value[r]
  BY <1>5, <1>6
<1>9. ShapeOK'
  <2>1. groups' \in Seq(SUBSET Rows)
    <3>1. groups' \in [1 .. Branching -> SUBSET Rows]
      BY <1>3, <1>6
    <3> QED
      BY <1>7, <3>1
  <2>2. groups' # <<>>
    BY <1>7, <1>8
  <2> QED
    BY <1>1, <1>2, <1>4, <1>7, <2>1, <2>2 DEF ShapeOK, Rows, Clustering!Phases
<1>10. /\ \A i \in DOMAIN active' : i \in DOMAIN active /\ i # n /\ active'[i] = active[i]
       /\ \A i \in DOMAIN active : i = n \/ (i \in DOMAIN active' /\ active'[i] = active[i])
  BY <1>3, <1>4
<1>11. PartsOK'
  <2>1. Alone(active)' /\ Full(active)' /\ Apart(active, final)'
    BY <1>1, <1>2, <1>10 DEF PartsOK, Alone, Full, Apart
  <2>2. Alone(groups)'
    <3> SUFFICES ASSUME NEW i \in DOMAIN groups', NEW j \in DOMAIN groups', i # j,
                        NEW r, r \in groups'[i], r \in groups'[j]
                 PROVE  FALSE
      BY DEF Alone
    <3> QED
      BY <1>8
  <2>3. Apart(active, groups)'
    <3> SUFFICES ASSUME NEW i \in DOMAIN active', NEW j \in DOMAIN groups',
                        NEW r, r \in active'[i], r \in groups'[j]
                 PROVE  FALSE
      BY DEF Apart
    <3>1. r \in top /\ r \in active[i] /\ i # n /\ i \in DOMAIN active
      BY <1>8, <1>10
    <3> QED
      BY <1>0, <1>2, <1>3, <3>1 DEF PartsOK, Alone
  <2>4. Apart(groups, final)'
    <3> SUFFICES ASSUME NEW i \in DOMAIN groups', NEW j \in DOMAIN final,
                        NEW r, r \in groups'[i], r \in final[j]
                 PROVE  FALSE
      BY <1>1 DEF Apart
    <3>1. r \in top
      BY <1>8
    <3> QED
      BY <1>0, <1>2, <1>3, <3>1 DEF PartsOK, Apart
  <2>5. \A r \in Rows : In(r, active)' \/ In(r, groups)' \/ In(r, final)'
    <3> SUFFICES ASSUME NEW r \in Rows
                 PROVE  In(r, active)' \/ In(r, groups)' \/ In(r, final)'
      OBVIOUS
    <3>1. In(r, active) \/ In(r, final)
      BY <1>2 DEF PartsOK, In
    <3>2. CASE In(r, final)
      BY <1>1, <3>2 DEF In
    <3>3. CASE In(r, active)
      <4>1. PICK i \in DOMAIN active : r \in active[i]
        BY <3>3 DEF In
      <4>2. CASE i = n
        <5>1. f[Value[r]] \in DOMAIN groups' /\ r \in groups'[f[Value[r]]]
          BY <1>0, <1>8, <4>1, <4>2
        <5> QED
          BY <5>1 DEF In
      <4>3. CASE i # n
        BY <1>10, <4>1, <4>3 DEF In
      <4> QED
        BY <4>2, <4>3
    <3> QED
      BY <3>1, <3>2, <3>3
  <2> QED
    BY <1>1, <1>2, <2>1, <2>2, <2>3, <2>4, <2>5, ZenonT(60) DEF PartsOK, Alone, Full, Apart, Rows
<1>12. TwoGroups'
  <2> SUFFICES ASSUME Branching # 1, ~Clustering!SampleOfOne(Clustering!Dealt)'
               PROVE  \E i, j \in DOMAIN groups' : i # j /\ groups'[i] # {} /\ groups'[j] # {}
    BY <1>1 DEF TwoGroups
  <2>1. Clustering!Dealt' = top
    <3>1. \A r \in top : f[Value[r]] \in 1 .. Branching /\ r \in groups'[f[Value[r]]]
      BY <1>8
    <3>2. \A r : r \in UNION {groups'[i] : i \in 1 .. Branching} <=> r \in top
      BY <1>8, <3>1
    <3> QED
      BY <1>8, <3>2 DEF Clustering!Dealt
  <2>2. ~Clustering!SampleOfOne(top)
    BY <1>1, <2>1 DEF Clustering!SampleOfOne, Clustering!SampleSize
  <2>3. PICK s \in Clustering!Samples(top) : Clustering!TrainedOn(s, f)
    BY <1>6
  <2>4. PICK p \in s, q \in s : Value[p] # Value[q]
    <3>1. top # {}
      BY <1>0, <1>2, <1>3 DEF PartsOK, Full
    <3> QED
      BY <1>2, <1>3, <2>2, <2>3, <3>1, TwoSampled
  <2>5. PICK x \in s, y \in s : f[Value[x]] # f[Value[y]]
    BY <2>3, <2>4 DEF Clustering!TrainedOn
  <2>6. x \in top /\ y \in top
    BY <2>3 DEF Clustering!Samples
  <2>7. /\ f[Value[x]] \in DOMAIN groups' /\ f[Value[y]] \in DOMAIN groups'
        /\ x \in groups'[f[Value[x]]] /\ y \in groups'[f[Value[y]]]
    BY <1>8, <2>6
  <2> QED
    BY <2>5, <2>7
<1> QED
  BY <1>9, <1>11, <1>12 DEF ClusterInv

\* A row moves from a group that keeps some to another.
LEMMA MoveInv == ClusterInv /\ Clustering!Move => ClusterInv'
<1> SUFFICES ASSUME ClusterInv, Clustering!Move PROVE ClusterInv'
  OBVIOUS
<1>0. PICK from, to : /\ from = Clustering!First(Clustering!Over)
                      /\ to = Clustering!First(Clustering!Under)
  OBVIOUS
<1>1. /\ clustering = "balance" /\ Clustering!Unbalanced
      /\ Value' = Value /\ active' = active /\ final' = final
      /\ clustering' = clustering /\ moves' = moves + 1
  BY DEF Clustering!Move
<1>2. PICK r \in groups[from] : groups' = [groups EXCEPT ![from] = @ \ {r}, ![to] = @ \cup {r}]
  BY <1>0 DEF Clustering!Move, Clustering!Moved
<1>3. /\ from \in DOMAIN groups /\ to \in DOMAIN groups /\ from # to
      /\ moves < MoveLimit /\ groups[from] \ {r} # {}
  BY <1>0, <1>1, GiveAndTake DEF ClusterInv
<1>4. ShapeOK /\ PartsOK /\ MoveLimit \in Nat
  BY IndexAssumption DEF ClusterInv, Clustering!ClusteringAssumption
<1>5. /\ Len(groups) \in Nat /\ DOMAIN groups = 1 .. Len(groups)
      /\ \A i \in DOMAIN groups : groups[i] \subseteq Rows
  BY <1>4, Shapes
<1>6. /\ DOMAIN groups' = DOMAIN groups
      /\ groups'[from] = groups[from] \ {r} /\ groups'[to] = groups[to] \cup {r}
      /\ \A i \in DOMAIN groups : i # from /\ i # to => groups'[i] = groups[i]
  BY <1>2, <1>3
<1>7. ShapeOK'
  <2>1. groups' \in Seq(SUBSET Rows)
    <3>1. \A i \in DOMAIN groups : groups'[i] \subseteq Rows
      BY <1>3, <1>5, <1>6
    <3>2. groups' \in [1 .. Len(groups) -> SUBSET Rows]
      BY <1>2, <1>5, <1>6, <3>1
    <3> QED
      BY <1>5, <3>2
  <2>2. groups' # <<>>
    BY <1>3, <1>6
  <2> QED
    BY <1>1, <1>3, <1>4, <2>1, <2>2 DEF ShapeOK, Rows
<1>8. \A i \in DOMAIN groups : \A x :
        x \in groups'[i] <=> IF x = r THEN i = to ELSE x \in groups[i]
  <2>1. \A i \in DOMAIN groups : r \in groups[i] => i = from
    BY <1>3, <1>4 DEF PartsOK, Alone
  <2> QED
    BY <1>3, <1>6, <2>1
<1>9. PartsOK'
  <2>1. Alone(groups)'
    <3> SUFFICES ASSUME NEW i \in DOMAIN groups, NEW j \in DOMAIN groups, i # j,
                        NEW x, x \in groups'[i], x \in groups'[j]
                 PROVE  FALSE
      BY <1>6 DEF Alone
    <3> QED
      BY <1>4, <1>8 DEF PartsOK, Alone
  <2>2. Apart(active, groups)' /\ Apart(groups, final)'
    BY <1>1, <1>2, <1>3, <1>4, <1>6, <1>8 DEF PartsOK, Apart
  <2>3. \A x : In(x, groups) => In(x, groups)'
    BY <1>3, <1>6, <1>8 DEF In
  <2> QED
    BY <1>1, <1>4, <2>1, <2>2, <2>3 DEF PartsOK, Alone, Apart, In, Full, Rows
<1>10. TwoGroups'
  BY <1>3, <1>6 DEF TwoGroups
<1> QED
  BY <1>7, <1>9, <1>10 DEF ClusterInv

\* The groups that hold something are stacked.
LEMMA PushInv == ClusterInv /\ Clustering!Push => ClusterInv'
<1> SUFFICES ASSUME ClusterInv, Clustering!Push PROVE ClusterInv'
  OBVIOUS
<1>1. /\ clustering = "balance" /\ clustering' = "loop" /\ groups' = <<>> /\ moves' = 0
      /\ active' = active \o Clustering!Kept(groups)
      /\ Value' = Value /\ final' = final
  BY DEF Clustering!Push
<1>2. /\ ShapeOK /\ PartsOK /\ active \in Seq(SUBSET Rows) /\ groups \in Seq(SUBSET Rows)
      /\ MoveLimit \in Nat
  BY IndexAssumption DEF ClusterInv, ShapeOK, Clustering!ClusteringAssumption
<1>0. PICK n \in Nat : \E at : KeptAs(groups, n, at)
  BY <1>2, KeptFacts
<1>3. PICK at \in [1 .. n -> DOMAIN groups] :
        /\ Clustering!Kept(groups) = [i \in 1 .. n |-> groups[at[i]]]
        /\ \A i \in 1 .. n : groups[at[i]] # {}
        /\ \A i, j \in 1 .. n : i # j => at[i] # at[j]
        /\ \A p \in DOMAIN groups : groups[p] # {} => \E i \in 1 .. n : at[i] = p
  BY <1>0 DEF KeptAs
<1>4. /\ Len(active) \in Nat /\ DOMAIN active = 1 .. Len(active)
      /\ Len(groups) \in Nat /\ DOMAIN groups = 1 .. Len(groups)
      /\ \A i \in DOMAIN groups : groups[i] \subseteq Rows
  BY <1>2, Shapes
<1>5. PICK kept : kept = Clustering!Kept(groups)
  OBVIOUS
<1>6. /\ kept \in Seq(SUBSET Rows) /\ Len(kept) = n
      /\ \A i \in 1 .. n : kept[i] = groups[at[i]] /\ at[i] \in DOMAIN groups
  <2>1. kept \in [1 .. n -> SUBSET Rows] /\ \A i \in 1 .. n : kept[i] = groups[at[i]]
    BY <1>3, <1>4, <1>5
  <2> QED
    BY <1>3, <2>1
<1>7. /\ active' \in Seq(SUBSET Rows) /\ Len(active') = Len(active) + n
      /\ \A i \in 1 .. Len(active) + n :
           active'[i] = IF i <= Len(active) THEN active[i] ELSE kept[i - Len(active)]
  BY <1>1, <1>2, <1>5, <1>6, ConcatProperties
<1>8. /\ DOMAIN active' = 1 .. Len(active) + n
      /\ \A i \in DOMAIN active : i \in DOMAIN active' /\ active'[i] = active[i]
      /\ \A i \in DOMAIN active' : i \notin DOMAIN active =>
           i - Len(active) \in 1 .. n /\ active'[i] = groups[at[i - Len(active)]]
      /\ \A i \in 1 .. n : Len(active) + i \in DOMAIN active' /\ active'[Len(active) + i] = groups[at[i]]
  <2>1. DOMAIN active' = 1 .. Len(active) + n
    BY <1>3, <1>4, <1>7
  <2>2. \A i \in DOMAIN active : i \in DOMAIN active' /\ active'[i] = active[i]
    BY <1>3, <1>4, <1>7, <2>1
  <2>3. ASSUME NEW i \in DOMAIN active', i \notin DOMAIN active
        PROVE  i - Len(active) \in 1 .. n /\ active'[i] = groups[at[i - Len(active)]]
    <3>1. i \in 1 .. Len(active) + n /\ ~ (i <= Len(active)) /\ i - Len(active) \in 1 .. n
      BY <1>3, <1>4, <2>1, <2>3
    <3>2. active'[i] = kept[i - Len(active)]
      BY <1>7, <3>1
    <3> QED
      BY <1>6, <3>1, <3>2
  <2>4. ASSUME NEW i \in 1 .. n
        PROVE  Len(active) + i \in DOMAIN active' /\ active'[Len(active) + i] = groups[at[i]]
    <3>1. /\ Len(active) + i \in 1 .. Len(active) + n /\ ~ (Len(active) + i <= Len(active))
          /\ Len(active) + i - Len(active) = i
      BY <1>3, <1>4
    <3>2. active'[Len(active) + i] = kept[i]
      BY <1>7, <3>1
    <3> QED
      BY <1>6, <2>1, <3>1, <3>2
  <2> QED
    BY <2>1, <2>2, <2>3, <2>4
<1>9. ShapeOK'
  <2>1. <<>> \in Seq(SUBSET Rows)
    OBVIOUS
  <2> QED
    BY <1>1, <1>2, <1>7, <2>1 DEF ShapeOK, Rows, Clustering!Phases
<1>10. \A i \in DOMAIN active' :
         \/ i \in DOMAIN active /\ active'[i] = active[i]
         \/ /\ i \notin DOMAIN active /\ i - Len(active) \in 1 .. n
            /\ at[i - Len(active)] \in DOMAIN groups
            /\ active'[i] = groups[at[i - Len(active)]]
  BY <1>6, <1>8
<1>11. PartsOK'
  <2>1. Alone(active)'
    <3> SUFFICES ASSUME NEW i \in DOMAIN active', NEW j \in DOMAIN active', i # j,
                        NEW x, x \in active'[i], x \in active'[j]
                 PROVE  FALSE
      BY DEF Alone
    <3>1. CASE i \in DOMAIN active /\ j \in DOMAIN active
      BY <1>2, <1>8, <3>1 DEF PartsOK, Alone
    <3>2. CASE i \notin DOMAIN active /\ j \notin DOMAIN active
      <4>1. i - Len(active) # j - Len(active)
        BY <1>3, <1>4, <1>8
      <4>2. at[i - Len(active)] # at[j - Len(active)]
        BY <1>3, <1>10, <3>2, <4>1
      <4> QED
        BY <1>2, <1>10, <3>2, <4>2 DEF PartsOK, Alone
    <3>3. CASE i \in DOMAIN active /\ j \notin DOMAIN active
      BY <1>2, <1>10, <3>3 DEF PartsOK, Apart
    <3>4. CASE i \notin DOMAIN active /\ j \in DOMAIN active
      BY <1>2, <1>10, <3>4 DEF PartsOK, Apart
    <3> QED
      BY <3>1, <3>2, <3>3, <3>4
  <2>2. Apart(active, final)'
    BY <1>1, <1>2, <1>10 DEF PartsOK, Apart
  <2>3. Full(active)'
    BY <1>2, <1>3, <1>10 DEF PartsOK, Full
  <2>4. \A x \in Rows : In(x, active)' \/ In(x, final)'
    <3> SUFFICES ASSUME NEW x \in Rows
                 PROVE  In(x, active)' \/ In(x, final)'
      OBVIOUS
    <3>1. CASE In(x, groups)
      <4>1. PICK p \in DOMAIN groups : x \in groups[p]
        BY <3>1 DEF In
      <4>2. PICK i \in 1 .. n : at[i] = p
        BY <1>3, <4>1
      <4>3. Len(active) + i \in DOMAIN active' /\ x \in active'[Len(active) + i]
        BY <1>8, <4>1, <4>2
      <4> QED
        BY <4>3 DEF In
    <3>2. CASE In(x, active)
      BY <1>8, <3>2 DEF In
    <3>3. CASE In(x, final)
      BY <1>1, <3>3 DEF In
    <3> QED
      BY <1>2, <3>1, <3>2, <3>3 DEF PartsOK
  <2>5. DOMAIN groups' = {}
    BY <1>1
  <2>6. Full(final)' /\ Alone(final)' /\ \A i \in DOMAIN final' : Cardinality(final'[i]) <= MaxSize
    BY <1>1, <1>2 DEF PartsOK, Full, Alone
  <2> QED
    BY <1>1, <2>1, <2>2, <2>3, <2>4, <2>5, <2>6 DEF PartsOK, Alone, Apart, Rows
<1>12. TwoGroups'
  <2>1. clustering' # "balance"
    BY <1>1
  <2> QED
    BY <2>1 DEF TwoGroups
<1> QED
  BY <1>9, <1>11, <1>12 DEF ClusterInv

LEMMA ClusterStepInv == ClusterInv /\ Clustering!Next => ClusterInv'
BY AcceptInv, StopInv, SplitInv, MoveInv, PushInv DEF Clustering!Next

LEMMA ClusterSame == ClusterInv /\ UNCHANGED clusterVars => ClusterInv'
<1> SUFFICES ASSUME ClusterInv, UNCHANGED clusterVars PROVE ClusterInv'
  OBVIOUS
<1>1. /\ Value' = Value /\ active' = active /\ groups' = groups /\ moves' = moves
      /\ final' = final /\ clustering' = clustering
  BY DEF clusterVars
<1>2. ShapeOK' /\ PartsOK'
  BY <1>1 DEF ClusterInv, ShapeOK, PartsOK, Alone, Apart, In, Full, Rows
<1>3. Clustering!SampleOfOne(Clustering!Dealt)' = Clustering!SampleOfOne(Clustering!Dealt)
  BY <1>1 DEF Clustering!SampleOfOne, Clustering!SampleSize, Clustering!Dealt
<1>4. TwoGroups'
  BY <1>1, <1>3, Zenon DEF ClusterInv, TwoGroups
<1> QED
  BY <1>2, <1>4 DEF ClusterInv

-----------------------------------------------------------------------------
(* Building.                                                               *)

\* What the closure rule says depends on the distances and the clusters alone.
LEMMA ClosureSame ==
  ASSUME dist' = dist, DOMAIN list' = DOMAIN list
  PROVE  \A v : Builder!Closure(v)' = Builder!Closure(v)
<1>1. Builder!Clusters' = Builder!Clusters
  BY DEF Builder!Clusters
<1>2. \A v, c, d : Builder!Nearer(v, c, d)' <=> Builder!Nearer(v, c, d)
  BY DEF Builder!Nearer
<1>3. \A v, c : Builder!Rank(v, c)' = Builder!Rank(v, c)
  BY <1>1, <1>2 DEF Builder!Rank
<1>4. \A v : Builder!Closest(v)' = Builder!Closest(v)
  BY <1>1, <1>3 DEF Builder!Closest
<1>5. \A v, c : Builder!Within(v, c, Builder!Closest(v))'
                  <=> Builder!Within(v, c, Builder!Closest(v))
  BY <1>4 DEF Builder!Within
<1> QED
  BY <1>1, <1>3, <1>5 DEF Builder!Closure

\* A centroid adds up the values of its rows.
CentroidSums ==
  \A c : Centroid(c) = SumOver(final[c], Value) * (Unit \div Cardinality(final[c]))

LEMMA CentroidSum == CentroidSums
<1> SUFFICES ASSUME NEW c
             PROVE  Centroid(c) = SumOver(final[c], Value) * (Unit \div Cardinality(final[c]))
  BY DEF CentroidSums
<1>1. MapThenSumSet(LAMBDA r : Value[r], final[c]) = SumOver(final[c], Value)
  BY Zenon DEF MapThenSumSet, MapThenFoldSet, SumOver, Sums, Some
<1>2. Centroid(c) = MapThenSumSet(LAMBDA r : Value[r], final[c]) * (Unit \div Cardinality(final[c]))
  BY DEF Centroid
<1> QED
  BY <1>1, <1>2, Zenon

LEMMA AwaySame == UNCHANGED <<Value, final>> => \A x, c : Away(x, c)' = Away(x, c)
<1> SUFFICES ASSUME UNCHANGED <<Value, final>>, NEW x, NEW c
             PROVE  Away(x, c)' = Away(x, c)
  OBVIOUS
<1>1. CentroidSums /\ CentroidSums'
  BY CentroidSum, PTL
<1>2. Centroid(c)' = Centroid(c)
  BY <1>1 DEF CentroidSums
<1> QED
  BY <1>2 DEF Away

LEMMA DistancesSame == UNCHANGED <<Value, final>> => Distances' = Distances
BY AwaySame DEF Distances, Rows

\* No clustering once it is done.
LEMMA ClusteringEnds == clustering = "done" => ~ Clustering!Next
BY DEF Clustering!Next, Clustering!Accept, Clustering!Finish, Clustering!SplitPanics,
       Clustering!Split, Clustering!Move, Clustering!Push

\* A posting list is begun for each cluster.
LEMMA BeginInv == ClusterInv /\ BuildOK /\ Begin => BuildOK'
<1> SUFFICES ASSUME ClusterInv, BuildOK, Begin PROVE BuildOK'
  OBVIOUS
<1>1. /\ clustering = "done" /\ list = <<>>
      /\ dist' = Distances
      /\ assigned' = [v \in DOMAIN Distances |-> {}]
      /\ list' = [c \in 1 .. Len(final) |-> <<>>]
      /\ vectorsDone' = vectorsDone /\ clustersDone' = clustersDone
      /\ UNCHANGED clusterVars
  BY DEF Begin, Builder!Begin, Distances
<1>2. vectorsDone = {} /\ clustersDone = {}
  BY <1>1 DEF BuildOK
<1>3. /\ Distances' = Distances /\ DOMAIN Distances = Rows /\ Rows' = Rows
      /\ clustering' = "done" /\ final' = final
  <2>1. UNCHANGED <<Value, final>> /\ clustering' = clustering
    BY <1>1 DEF clusterVars
  <2> QED
    BY <1>1, <2>1, DistancesSame DEF Distances, Rows
<1>4. Len(final) \in Nat /\ DOMAIN final = 1 .. Len(final)
  BY Shapes DEF ClusterInv
<1>5. CASE Len(final) = 0
  <2>1. Rows = {}
    <3>1. active = <<>> /\ groups = <<>> /\ DOMAIN final = {}
      BY <1>1, <1>4, <1>5 DEF ClusterInv, ShapeOK
    <3> QED
      BY <3>1 DEF ClusterInv, PartsOK, In
  <2>2. dist' = <<>> /\ assigned' = <<>> /\ list' = <<>>
    BY <1>1, <1>3, <1>5, <2>1 DEF Distances
  <2> QED
    BY <1>1, <1>2, <2>2 DEF BuildOK
<1>6. CASE Len(final) # 0
  <2>1. 1 \in DOMAIN list' /\ DOMAIN list' = DOMAIN final
    BY <1>1, <1>4, <1>6
  <2>2. list' # <<>>
    BY <2>1
  <2>3. DOMAIN assigned' = Rows
    BY <1>1, <1>3
  <2> QED
    BY <1>1, <1>2, <1>3, <2>1, <2>2, <2>3 DEF BuildOK
<1> QED
  BY <1>5, <1>6

\* A vector is assigned, or a cluster collects its list.
LEMMA BuildStepInv == BuildOK /\ Build => BuildOK'
<1> SUFFICES ASSUME BuildOK, Build PROVE BuildOK'
  OBVIOUS
<1>1. /\ UNCHANGED clusterVars
      /\ \/ \E v \in Builder!Vectors : Builder!Assign(v)
         \/ \E c \in Builder!Clusters : Builder!Collect(c)
  BY DEF Build, Builder!Next
<1>2. /\ Distances' = Distances /\ Rows' = Rows /\ clustering' = clustering /\ final' = final
  <2>1. UNCHANGED <<Value, final>> /\ clustering' = clustering
    BY <1>1 DEF clusterVars
  <2> QED
    BY <2>1, DistancesSame DEF Rows
<1>3. list # <<>> /\ dist' = dist
  BY <1>1 DEF Builder!Assign, Builder!Collect, Builder!Clusters
<1>4. /\ clustering = "done" /\ dist = Distances /\ DOMAIN list = DOMAIN final
      /\ DOMAIN assigned = Rows
      /\ vectorsDone \subseteq Rows /\ clustersDone \subseteq DOMAIN final
      /\ \A v \in vectorsDone : assigned[v] = Builder!Closure(v)
      /\ clustersDone # {} => vectorsDone = Rows
      /\ \A c \in clustersDone : list[c] = Builder!Sorted(Builder!Members(c))
  BY <1>3 DEF BuildOK
<1>5. Builder!Vectors = Rows /\ Builder!Clusters = DOMAIN final
  BY <1>4 DEF Builder!Vectors, Builder!Clusters, Distances
<1>6. ASSUME NEW v \in Rows, Builder!Assign(v)
      PROVE  BuildOK'
  <2>1. /\ v \notin vectorsDone /\ list' = list /\ clustersDone' = clustersDone
        /\ assigned' = [assigned EXCEPT ![v] = Builder!Closure(v)]
        /\ vectorsDone' = vectorsDone \cup {v}
    BY <1>6 DEF Builder!Assign
  <2>2. clustersDone = {}
    BY <1>4, <2>1
  <2>3. \A w : Builder!Closure(w)' = Builder!Closure(w)
    BY <1>3, <2>1, ClosureSame
  <2>4. DOMAIN assigned' = Rows /\ \A w \in vectorsDone' : assigned'[w] = Builder!Closure(w)
    BY <1>4, <2>1
  <2> QED
    BY <1>2, <1>3, <1>4, <2>1, <2>2, <2>3, <2>4 DEF BuildOK
<1>7. ASSUME NEW c \in DOMAIN final, Builder!Collect(c)
      PROVE  BuildOK'
  <2>1. /\ vectorsDone = Rows /\ c \notin clustersDone
        /\ list' = [list EXCEPT ![c] = Builder!Sorted(Builder!Members(c))]
        /\ clustersDone' = clustersDone \cup {c}
        /\ assigned' = assigned /\ vectorsDone' = vectorsDone
    BY <1>5, <1>7 DEF Builder!Collect
  <2>2. DOMAIN list' = DOMAIN list /\ list' # <<>>
    BY <1>4, <1>7, <2>1
  <2>3. \A w : Builder!Closure(w)' = Builder!Closure(w)
    BY <1>3, <2>2, ClosureSame
  <2>4. \A d : Builder!Sorted(Builder!Members(d))' = Builder!Sorted(Builder!Members(d))
    BY <1>3, <2>1 DEF Builder!Members, Builder!Vectors, Builder!Sorted
  <2>5. \A d \in clustersDone' : list'[d] = Builder!Sorted(Builder!Members(d))
    BY <1>4, <1>7, <2>1
  <2> QED
    BY <1>2, <1>3, <1>4, <2>1, <2>2, <2>3, <2>4, <2>5 DEF BuildOK
<1> QED
  BY <1>1, <1>5, <1>6, <1>7

LEMMA BuildSame == BuildOK /\ UNCHANGED <<clusterVars, buildVars>> => BuildOK'
<1> SUFFICES ASSUME BuildOK, UNCHANGED <<clusterVars, buildVars>> PROVE BuildOK'
  OBVIOUS
<1>1. /\ UNCHANGED <<Value, final, clustering>>
      /\ dist' = dist /\ assigned' = assigned /\ list' = list
      /\ vectorsDone' = vectorsDone /\ clustersDone' = clustersDone
  BY DEF clusterVars, buildVars
<1>2. \A w : Builder!Closure(w)' = Builder!Closure(w)
  BY <1>1, ClosureSame
<1>3. \A d : Builder!Sorted(Builder!Members(d))' = Builder!Sorted(Builder!Members(d))
  BY <1>1 DEF Builder!Members, Builder!Vectors, Builder!Sorted
<1>4. Distances' = Distances /\ Rows' = Rows
  BY <1>1, DistancesSame DEF Rows
<1> QED
  BY <1>1, <1>2, <1>3, <1>4 DEF BuildOK

-----------------------------------------------------------------------------
(* Searching.                                                              *)

\* What MstgSearch assumes of its constants.
LEMMA SearchConstants == Proved!SearchAssumption /\ Proved!InfAssumption
BY IndexAssumption DEF Proved!SearchAssumption, Proved!InfAssumption

LEMMA FreshSearch == Proved!Fresh => Proved!IInv
BY SearchConstants, Proved!FreshIInv DEF Proved!SearchAssumption, Proved!InfAssumption

LEMMA SearchStepInv == Proved!IInv /\ [Proved!Next]_(Proved!vars) => Proved!IInv'
BY SearchConstants, Proved!StepIInv DEF Proved!SearchAssumption, Proved!InfAssumption

\* What a step reads and does is the same for the search that is proved.
LEMMA SameHeaps ==
  ASSUME NEW H, NEW k, NEW d
  PROVE  /\ Search!Distk(H, k, d) = Proved!Distk(H, k, d)
         /\ Search!Push(H, d, k) = Proved!Push(H, d, k)
<1>1. Search!Tops(H) = Proved!Tops(H) /\ Search!Cardinality(H) = Proved!Cardinality(H)
  BY SameCount DEF Search!Tops, Proved!Tops
<1>2. \A m, n : Search!MinF(m, n) = Proved!MinF(m, n)
  BY DEF Search!MinF, Proved!MinF
<1>3. Search!Tops(H \cup {d}) = Proved!Tops(H \cup {d})
      /\ Search!Cardinality(H \cup {d}) = Proved!Cardinality(H \cup {d})
  BY SameCount DEF Search!Tops, Proved!Tops
<1> QED
  BY <1>1, <1>2, <1>3 DEF Search!Distk, Proved!Distk, Search!Push, Proved!Push

LEMMA SameReads ==
  /\ Search!Lists = Proved!Lists /\ Search!Selected = Proved!Selected
  /\ Search!Bootstrap = Proved!Bootstrap
  /\ \A j : Search!Slots(j) = Proved!Slots(j)
  /\ \A j : Search!Exhausted(j) <=> Proved!Exhausted(j)
  /\ \A j : Search!Current(j) <=> Proved!Current(j)
  /\ \A j, i : Search!LowerBound(j, i) = Proved!LowerBound(j, i)
  /\ \A j, i : Search!Distance(j, i) = Proved!Distance(j, i)
  /\ \A j, i : Search!Candidate(j, i) = Proved!Candidate(j, i)
<1>1. Search!Lists = Proved!Lists /\ Search!Selected = Proved!Selected
  BY DEF Search!Lists, Proved!Lists, Search!Selected, Proved!Selected
<1>2. \A S : Search!Cardinality(S) = Proved!Cardinality(S)
  BY SameCount
<1>3. Search!Bootstrap = Proved!Bootstrap
  BY <1>1, <1>2 DEF Search!Bootstrap, Proved!Bootstrap
<1>4. \A j : Search!Slots(j) = Proved!Slots(j)
  BY DEF Search!Slots, Proved!Slots
<1>5. /\ \A j : Search!Exhausted(j) <=> Proved!Exhausted(j)
      /\ \A j : Search!Current(j) <=> Proved!Current(j)
  BY <1>4 DEF Search!Exhausted, Proved!Exhausted, Search!Current, Proved!Current
<1>6. \A j, i : Search!Distance(j, i) = Proved!Distance(j, i)
  BY <1>4 DEF Search!Distance, Proved!Distance
<1>7. \A j, i : Search!LowerBound(j, i) = Proved!LowerBound(j, i)
  BY <1>4 DEF Search!LowerBound, Proved!LowerBound, Search!Sanitize, Proved!Sanitize
<1>8. \A j, i : Search!Candidate(j, i) = Proved!Candidate(j, i)
  BY <1>4, <1>6, <1>7 DEF Search!Candidate, Proved!Candidate
<1> QED
  BY <1>1, <1>3, <1>4, <1>5, <1>6, <1>7, <1>8

\* The steps are those of the search that is proved.
LEMMA SameSteps == SearchStep => Proved!Next
<1>1. Search!Start => Proved!Start
  BY SameReads DEF Search!Start, Proved!Start
<1>2. Search!Join => Proved!Join
  BY SameReads DEF Search!Join, Proved!Join
<1>3. Search!Finish => Proved!Finish
  BY DEF Search!Finish, Proved!Finish
<1>4. ASSUME NEW j, Search!Scan(j)
      PROVE  Proved!Scan(j)
  BY <1>4, SameReads, SameHeaps
     DEF Search!Scan, Proved!Scan, Search!Scanning, Proved!Scanning, Search!AtLeast, Proved!AtLeast
<1>5. ASSUME NEW j, Search!Merge(j)
      PROVE  Proved!Merge(j)
  BY <1>5, SameReads, SameHeaps DEF Search!Merge, Proved!Merge
<1>6. ASSUME NEW j, Search!Retire(j)
      PROVE  Proved!Retire(j)
  BY <1>6, SameReads, SameHeaps DEF Search!Retire, Proved!Retire
<1> QED
  BY <1>1, <1>2, <1>3, <1>4, <1>5, <1>6, SameReads DEF SearchStep, Proved!Next

-----------------------------------------------------------------------------
(* What has been built when the queries come.                              *)

\* A square is a natural number, of what has a size, and grows with it.
LEMMA Squares ==
  /\ \A a \in Int : a * a \in Nat /\ Size(a) \in Nat
  /\ \A a, b \in Int : a * a <= b * b => Size(a) <= Size(b)
<1>1. ASSUME NEW a \in Int
      PROVE  a * a \in Nat /\ Size(a) \in Nat /\ a * a = Size(a) * Size(a)
  BY DEF Size
<1>2. ASSUME NEW a \in Nat, NEW b \in Nat, b < a
      PROVE  b * b < a * a
  <2>1. PICK d \in Nat : a = b + d /\ d > 0
    <3>1. a - b \in Nat /\ a = b + (a - b) /\ a - b > 0
      BY <1>2
    <3> QED
      BY <3>1
  <2>2. a * a = b * b + 2 * (b * d) + d * d /\ b * d \in Nat
    BY <2>1
  <2>3. d * d > 0 /\ d * d \in Int /\ b * b \in Int
    BY <2>1
  <2> QED
    BY <2>2, <2>3
<1>3. ASSUME NEW a \in Int, NEW b \in Int, a * a <= b * b
      PROVE  Size(a) <= Size(b)
  <2>1. Size(a) \in Nat /\ Size(b) \in Nat /\ a * a = Size(a) * Size(a) /\ b * b = Size(b) * Size(b)
    BY <1>1
  <2>2. Size(b) < Size(a) => Size(b) * Size(b) < Size(a) * Size(a)
    BY <1>2, <2>1
  <2>3. a * a \in Int /\ b * b \in Int
    BY <1>3
  <2> QED
    BY <1>3, <2>1, <2>2, <2>3
<1> QED
  BY <1>1, <1>3

\* Distances to the centroids are natural numbers.
LEMMA AwayTypes ==
  ASSUME ClusterInv, NEW c \in DOMAIN final, NEW x \in Int
  PROVE  Away(x, c) \in Nat
<1>1. /\ Value \in Data /\ final[c] \subseteq Rows /\ final[c] # {} /\ Unit \in Nat
  BY Shapes, IndexAssumption DEF ClusterInv, ShapeOK, PartsOK, Full
<1>2. IsFiniteSet(final[c]) /\ \A r \in final[c] : Value[r] \in Int
  BY <1>1, RowFacts, FS_Subset
<1>3. SumOver(final[c], Value) \in Int
  BY <1>2, SumInt
<1>4. Cardinality(final[c]) \in Nat /\ Cardinality(final[c]) # 0
  BY <1>1, <1>2, FS_CardinalityType, FS_EmptySet
<1>5. Unit \div Cardinality(final[c]) \in Int
  BY <1>1, <1>4
<1>6. Centroid(c) \in Int
  <2>1. Centroid(c) = SumOver(final[c], Value) * (Unit \div Cardinality(final[c]))
    BY CentroidSum DEF CentroidSums
  <2> QED
    BY <1>3, <1>5, <2>1
<1> QED
  <2>1. PICK d \in Int : d = Unit * x - Centroid(c)
    BY <1>1, <1>6
  <2> QED
    BY <2>1, Squares DEF Away

\* There are no more clusters than rows, for each has one of its own.
LEMMA ClustersFew ==
  ASSUME ClusterInv
  PROVE  DOMAIN final \subseteq Rows /\ DOMAIN final \subseteq Cids
<1>1. /\ Value \in Data /\ \A c \in DOMAIN final : final[c] \subseteq Rows /\ final[c] # {}
      /\ Len(final) \in Nat /\ DOMAIN final = 1 .. Len(final)
      /\ \A c, d \in DOMAIN final : c # d => final[c] \cap final[d] = {}
  BY Shapes DEF ClusterInv, ShapeOK, PartsOK, Full, Alone
<1>2. PICK row : row = [c \in DOMAIN final |-> CHOOSE r \in final[c] : TRUE]
  OBVIOUS
<1>3. \A c \in DOMAIN final : row[c] \in final[c] /\ row[c] \in Rows
  BY <1>1, <1>2
<1>4. row \in Injection(DOMAIN final, Rows)
  <2>1. row \in [DOMAIN final -> Rows]
    BY <1>2, <1>3
  <2>2. \A c, d \in DOMAIN final : row[c] = row[d] => c = d
    BY <1>1, <1>3
  <2> QED
    BY <2>1, <2>2 DEF Injection, IsInjective
<1>5. Len(final) <= Len(Value) /\ Rows = 1 .. Len(Value) /\ Len(Value) \in Nat
  <2>1. /\ Rows = 1 .. Len(Value) /\ Len(Value) \in Nat
        /\ IsFiniteSet(Rows) /\ Cardinality(Rows) = Len(Value)
    BY <1>1, RowFacts
  <2>2. Cardinality(DOMAIN final) <= Cardinality(Rows)
    BY <1>4, <2>1, FS_Injection
  <2>3. Cardinality(DOMAIN final) = Len(final)
    BY <1>1, FS_Interval
  <2> QED
    BY <2>1, <2>2, <2>3
<1>6. DOMAIN final \subseteq Rows
  BY <1>1, <1>5
<1>7. Rows \subseteq Cids
  BY <1>1 DEF Cids, Rows
<1> QED
  BY <1>6, <1>7

LEMMA SortedNth ==
  ASSUME NEW S
  PROVE  Builder!Sorted(S) = [n \in 1 .. Cardinality(S) |-> Nth(S, n)]
BY Zenon DEF Builder!Sorted, Builder!Cardinality, Cardinality, Nth, Less

\* The list of each cluster holds the vectors whose closure names it, once each.
LEMMA BuiltFacts ==
  ASSUME ClusterInv, BuildOK, Builder!Built
  PROVE  /\ clustering = "done" /\ Value \in Data /\ dist = Distances
         /\ Builder!Vectors = Rows /\ Builder!Clusters = DOMAIN final
         /\ clustersDone = DOMAIN final /\ DOMAIN list = DOMAIN final
         /\ \A c \in DOMAIN final :
              /\ list[c] \in Seq(Rows)
              /\ \A v : (\E n \in DOMAIN list[c] : list[c][n] = v)
                          <=> v \in Rows /\ c \in Builder!Closure(v)
              /\ \A m, n \in DOMAIN list[c] : list[c][m] = list[c][n] => m = n
<1>1. list # <<>> /\ clustersDone = DOMAIN list
  BY DEF Builder!Built, Builder!Clusters
<1>2. /\ clustering = "done" /\ Value \in Data /\ dist = Distances
      /\ DOMAIN list = DOMAIN final
      /\ vectorsDone \subseteq Rows
      /\ \A v \in vectorsDone : assigned[v] = Builder!Closure(v)
      /\ clustersDone # {} => vectorsDone = Rows
      /\ \A c \in clustersDone : list[c] = Builder!Sorted(Builder!Members(c))
  BY <1>1 DEF BuildOK, ClusterInv, ShapeOK
<1>3. Builder!Vectors = Rows /\ Builder!Clusters = DOMAIN final
  BY <1>2 DEF Builder!Vectors, Builder!Clusters, Distances
<1>4. ASSUME NEW c \in DOMAIN final
      PROVE  /\ list[c] \in Seq(Rows)
             /\ \A v : (\E n \in DOMAIN list[c] : list[c][n] = v)
                         <=> v \in Rows /\ c \in Builder!Closure(v)
             /\ \A m, n \in DOMAIN list[c] : list[c][m] = list[c][n] => m = n
  <2>1. PICK S : S = Builder!Members(c)
    OBVIOUS
  <2>2. \A v : v \in S <=> v \in Rows /\ c \in Builder!Closure(v)
    BY <1>1, <1>2, <1>3, <2>1 DEF Builder!Members
  <2>3. S \subseteq Rows /\ S \subseteq Int /\ IsFiniteSet(S)
    BY <1>2, <2>2, RowFacts, FS_Subset
  <2>4. /\ Cardinality(S) \in Nat
        /\ \A n \in 1 .. Cardinality(S) : Nth(S, n) \in S /\ Less(S, Nth(S, n)) = n - 1
        /\ \A x \in S : \E n \in 1 .. Cardinality(S) : Nth(S, n) = x
    BY <2>3, NthFacts
  <2>5. list[c] = [n \in 1 .. Cardinality(S) |-> Nth(S, n)]
    BY <1>1, <1>2, <2>1, SortedNth
  <2>6. DOMAIN list[c] = 1 .. Cardinality(S) /\ \A n \in 1 .. Cardinality(S) : list[c][n] = Nth(S, n)
    BY <2>5
  <2>7. list[c] \in Seq(Rows)
    <3>1. list[c] \in [1 .. Cardinality(S) -> Rows]
      BY <2>3, <2>4, <2>5
    <3> QED
      BY <2>4, <3>1, FunctionSeq
  <2>8. ASSUME NEW m \in DOMAIN list[c], NEW n \in DOMAIN list[c], list[c][m] = list[c][n]
        PROVE  m = n
    <3>1. m - 1 = n - 1
      BY <2>4, <2>6, <2>8
    <3> QED
      BY <2>4, <2>6, <3>1
  <2> QED
    BY <2>2, <2>4, <2>6, <2>7, <2>8
<1> QED
  BY <1>1, <1>2, <1>3, <1>4

\* What is asked is a query of the search that is proved.
LEMMA AskedInput ==
  ASSUME ClusterInv, BuildOK, Builder!Built,
         NEW q \in Queries[Value], NEW found \in Found(q.at, q.ef)
  PROVE  Asked(q, found) \in Proved!Input
<1>0. /\ Value \in Data /\ q.at \in Int /\ q.k \in Nat /\ q.ef \in Nat
  BY IndexAssumption DEF ClusterInv, ShapeOK
<1>1. \E n \in Nat : found \in [1 .. n -> DOMAIN final]
  <2>1. Len(final) \in Nat
    BY Shapes DEF ClusterInv
  <2> QED
    BY <1>0, <2>1 DEF Found
<1>2. PICK n \in Nat : found \in [1 .. n -> DOMAIN final]
  BY <1>1
<1>3. PICK a : a = Asked(q, found)
  OBVIOUS
<1>4. /\ a = [metric |-> a.metric, k |-> a.k, centroids |-> a.centroids,
             floor |-> a.floor, slots |-> a.slots]
      /\ a.metric = "L2" /\ a.k = q.k
      /\ a.centroids = [m \in 1 .. n |-> [cid |-> found[m], dist |-> Away(q.at, found[m])]]
      /\ a.floor = [c \in Cids |-> 0]
      /\ a.slots = [c \in Cids |-> Listed(q, c)]
  BY <1>2, <1>3 DEF Asked
<1>5. a.centroids \in Seq([cid : Cids, dist : Nat])
  <2>1. \A m \in 1 .. n : found[m] \in Cids /\ Away(q.at, found[m]) \in Nat
    BY <1>0, <1>2, AwayTypes, ClustersFew
  <2>2. a.centroids \in [1 .. n -> [cid : Cids, dist : Nat]]
    BY <1>4, <2>1
  <2> QED
    BY <1>2, <2>2, FunctionSeq
<1>6. ASSUME NEW c \in Cids
      PROVE  Listed(q, c) \in Seq(Proved!Slot)
  <2>1. CASE c \in Builder!Clusters
    <3>1. list[c] \in Seq(Rows)
      BY <2>1, BuiltFacts
    <3>2. Len(list[c]) \in Nat /\ DOMAIN list[c] = 1 .. Len(list[c])
          /\ \A m \in 1 .. Len(list[c]) : list[c][m] \in Rows
      BY <3>1, LenProperties, ElementOfSeq
    <3>3. ASSUME NEW v \in Rows
          PROVE  Slot(q, v) \in Proved!Slot
      <4>1. v \in Nat /\ Value[v] \in Int
        BY <1>0, RowFacts
      <4>2. (Value[v] - q.at) * (Value[v] - q.at) \in Int
        BY <1>0, <4>1
      <4> QED
        BY <4>1, <4>2 DEF Slot, Proved!Slot
    <3>4. Listed(q, c) = [m \in 1 .. Len(list[c]) |-> Slot(q, list[c][m])]
      BY <2>1, <3>2 DEF Listed
    <3>5. Listed(q, c) \in [1 .. Len(list[c]) -> Proved!Slot]
      BY <3>2, <3>3, <3>4
    <3> QED
      BY <3>2, <3>5, FunctionSeq
  <2>2. CASE c \notin Builder!Clusters
    BY <2>2, EmptySeq DEF Listed
  <2> QED
    BY <2>1, <2>2
<1>7. a.floor \in [Cids -> Int] /\ a.slots \in [Cids -> Seq(Proved!Slot)]
  BY <1>4, <1>6
<1> QED
  BY <1>0, <1>3, <1>4, <1>5, <1>7 DEF Proved!Input, Proved!Metrics

-----------------------------------------------------------------------------
(* The invariant.                                                          *)

LEMMA AskedSame ==
  UNCHANGED <<Value, final, list>> =>
    /\ \A q, found : Asked(q, found)' = Asked(q, found)
    /\ \A x, ef : Found(x, ef)' = Found(x, ef)
<1> SUFFICES ASSUME UNCHANGED <<Value, final, list>>
             PROVE  /\ \A q, found : Asked(q, found)' = Asked(q, found)
                    /\ \A x, ef : Found(x, ef)' = Found(x, ef)
  OBVIOUS
<1>1. \A x, c : Away(x, c)' = Away(x, c)
  BY AwaySame
<1>2. \A q, c : Listed(q, c)' = Listed(q, c)
  BY DEF Listed, Slot, Builder!Clusters
<1>3. ASSUME NEW q, NEW found
      PROVE  Asked(q, found)' = Asked(q, found)
  BY <1>1, <1>2 DEF Asked
<1>4. ASSUME NEW x, NEW ef
      PROVE  Found(x, ef)' = Found(x, ef)
  BY <1>1 DEF Found
<1> QED
  BY <1>3, <1>4

\* Nothing is clustered, begun or built any more once the index is.
LEMMA BuiltEnds ==
  ASSUME ClusterInv, BuildOK, Builder!Built
  PROVE  ~ Cluster /\ ~ Begin /\ ~ Build
<1>1. /\ clustering = "done" /\ list # <<>> /\ clustersDone = DOMAIN final
      /\ Builder!Vectors = Rows /\ Builder!Clusters = DOMAIN final /\ DOMAIN list = DOMAIN final
  BY BuiltFacts DEF Builder!Built
<1>2. DOMAIN final = {} => Rows = {}
  <2>1. active = <<>> /\ groups = <<>>
    BY <1>1 DEF ClusterInv, ShapeOK
  <2> QED
    BY <2>1 DEF ClusterInv, PartsOK, In
<1>3. Rows \subseteq vectorsDone
  BY <1>1, <1>2 DEF BuildOK
<1>4. ~ Cluster
  BY <1>1, ClusteringEnds DEF Cluster
<1>5. ~ Begin
  BY <1>1 DEF Begin, Builder!Begin
<1>6. ~ Build
  BY <1>1, <1>3 DEF Build, Builder!Next, Builder!Assign, Builder!Collect
<1> QED
  BY <1>4, <1>5, <1>6

\* A query is asked of the finished index.
LEMMA AskInv ==
  ASSUME ClusterInv, BuildOK, QueryOK, NEW q \in Queries[Value], Ask(q)
  PROVE  QueryOK'
<1>1. /\ Builder!Built /\ searching = "idle" /\ searching' = "start" /\ query' = <<q>>
      /\ UNCHANGED clusterVars /\ UNCHANGED buildVars
      /\ todo' = todo /\ merged' = merged /\ global' = global
  BY DEF Ask
<1>2. PICK found \in Found(q.at, q.ef) :
        /\ input' = Asked(q, found)
        /\ pos' = [j \in DOMAIN found |-> 1]
        /\ local' = [j \in DOMAIN found |-> {}]
        /\ seed' = [j \in DOMAIN found |-> Inf]
  BY DEF Ask
<1>3. todo = {} /\ merged = {} /\ global = {}
  BY <1>1 DEF QueryOK
<1>4. /\ UNCHANGED <<Value, final, list>> /\ Value' = Value
      /\ Asked(q, found)' = Asked(q, found) /\ Found(q.at, q.ef)' = Found(q.at, q.ef)
  <2>1. UNCHANGED <<Value, final, list>>
    BY <1>1 DEF clusterVars, buildVars
  <2> QED
    BY <2>1, AskedSame
<1>5. Builder!Built'
  BY <1>1 DEF buildVars, Builder!Built, Builder!Clusters
<1>6. Proved!Fresh'
  <2>1. input' \in Proved!Input
    BY <1>1, <1>2, AskedInput
  <2>2. Proved!Lists' = DOMAIN found
    BY <1>2 DEF Proved!Lists, Asked
  <2> QED
    BY <1>1, <1>2, <1>3, <2>1, <2>2 DEF Proved!Fresh, Proved!Input, Proved!Slot, Proved!Metrics
<1>7. Proved!IInv'
  BY <1>6, FreshSearch, PTL
<1> QED
  BY <1>1, <1>2, <1>4, <1>5, <1>7 DEF QueryOK

\* The search goes on.
LEMMA AnswerInv == QueryOK /\ Answer => QueryOK'
<1> SUFFICES ASSUME QueryOK, Answer PROVE QueryOK'
  OBVIOUS
<1>1. SearchStep /\ UNCHANGED <<clusterVars, buildVars, query>>
  BY DEF Answer
<1>2. searching # "idle" /\ input' = input
  BY <1>1 DEF SearchStep, Search!Start, Search!Join, Search!Finish, Search!Scan,
              Search!Scanning, Search!Merge, Search!Retire
<1>3. /\ Builder!Built /\ Proved!IInv
      /\ \E q \in Queries[Value] :
           query = <<q>> /\ \E found \in Found(q.at, q.ef) : input = Asked(q, found)
  BY <1>2 DEF QueryOK
<1>4. Proved!IInv'
  BY <1>1, <1>3, SameSteps, SearchStepInv
<1>5. searching' # "idle"
  BY <1>4 DEF Proved!IInv, Proved!TypeOK
<1>6. UNCHANGED <<Value, final, list>> /\ Value' = Value /\ query' = query
  BY <1>1 DEF clusterVars, buildVars
<1>7. Builder!Built'
  BY <1>1, <1>3 DEF buildVars, Builder!Built, Builder!Clusters
<1>8. \E q \in Queries[Value'] :
        query' = <<q>> /\ \E found \in Found(q.at, q.ef)' : input' = Asked(q, found)'
  BY <1>2, <1>3, <1>6, AskedSame
<1> QED
  BY <1>4, <1>5, <1>7, <1>8 DEF QueryOK

LEMMA QuerySame == QueryOK /\ UNCHANGED vars => QueryOK'
<1> SUFFICES ASSUME QueryOK, UNCHANGED vars PROVE QueryOK'
  OBVIOUS
<1>1. /\ UNCHANGED <<Value, final, list>> /\ UNCHANGED searchVars /\ UNCHANGED buildVars
      /\ query' = query /\ Value' = Value
  BY DEF vars, clusterVars, buildVars
<1>2. CASE searching = "idle"
  BY <1>1, <1>2 DEF QueryOK, searchVars
<1>3. CASE searching # "idle"
  <2>1. /\ Builder!Built /\ Proved!IInv
        /\ \E q \in Queries[Value] :
             query = <<q>> /\ \E found \in Found(q.at, q.ef) : input = Asked(q, found)
    BY <1>3 DEF QueryOK
  <2>2. Proved!IInv'
    BY <1>1, <2>1, SearchStepInv DEF searchVars, Proved!vars
  <2>3. Builder!Built'
    BY <1>1, <2>1 DEF buildVars, Builder!Built, Builder!Clusters
  <2>4. \E q \in Queries[Value'] :
          query' = <<q>> /\ \E found \in Found(q.at, q.ef)' : input' = Asked(q, found)'
    BY <1>1, <2>1, AskedSame DEF searchVars
  <2>5. searching' # "idle"
    BY <1>1, <1>3 DEF searchVars
  <2> QED
    BY <2>2, <2>3, <2>4, <2>5 DEF QueryOK
<1> QED
  BY <1>2, <1>3

LEMMA InitIInv == Init => IInv
<1> SUFFICES ASSUME Init PROVE IInv
  OBVIOUS
<1>1. ClusterInv
  BY InitClusterInv DEF Init
<1>2. BuildOK
  BY DEF Init, Builder!Init, BuildOK
<1>3. QueryOK
  BY DEF Init, QueryOK
<1> QED
  BY <1>1, <1>2, <1>3 DEF IInv

LEMMA StepIInv == IInv /\ [Next \/ Ended]_vars => IInv'
<1> SUFFICES ASSUME IInv, [Next \/ Ended]_vars PROVE IInv'
  OBVIOUS
<1>0. ClusterInv /\ BuildOK /\ QueryOK
  BY DEF IInv
<1>1. CASE Cluster
  <2>1. Clustering!Next /\ UNCHANGED buildVars /\ UNCHANGED searchVars
    BY <1>1 DEF Cluster
  <2>2. ClusterInv'
    BY <1>0, <2>1, ClusterStepInv
  <2>3. list = <<>>
    <3>1. clustering # "done"
      BY <2>1, ClusteringEnds
    <3> QED
      BY <1>0, <3>1 DEF BuildOK
  <2>4. BuildOK'
    BY <1>0, <2>1, <2>3 DEF BuildOK, buildVars
  <2>5. searching = "idle"
    BY <1>0, <2>3 DEF QueryOK, Builder!Built
  <2>6. QueryOK'
    BY <1>0, <2>1, <2>5 DEF QueryOK, searchVars
  <2> QED
    BY <2>2, <2>4, <2>6 DEF IInv
<1>2. CASE Begin \/ Build
  <2>1. UNCHANGED clusterVars /\ UNCHANGED searchVars
    BY <1>2 DEF Begin, Build
  <2>2. ClusterInv' /\ BuildOK'
    BY <1>0, <1>2, <2>1, ClusterSame, BeginInv, BuildStepInv
  <2>3. searching = "idle"
    BY <1>0, <1>2, BuiltEnds DEF QueryOK
  <2>4. QueryOK'
    BY <1>0, <2>1, <2>3 DEF QueryOK, searchVars
  <2> QED
    BY <2>2, <2>4 DEF IInv
<1>3. ASSUME NEW q \in Queries[Value], Ask(q)
      PROVE  IInv'
  <2>1. UNCHANGED <<clusterVars, buildVars>>
    BY <1>3 DEF Ask
  <2> QED
    BY <1>0, <1>3, <2>1, ClusterSame, BuildSame, AskInv DEF IInv
<1>4. CASE Answer
  <2>1. UNCHANGED <<clusterVars, buildVars>>
    BY <1>4 DEF Answer
  <2> QED
    BY <1>0, <1>4, <2>1, ClusterSame, BuildSame, AnswerInv DEF IInv
<1>5. CASE UNCHANGED vars
  <2>1. UNCHANGED <<clusterVars, buildVars>>
    BY <1>5 DEF vars
  <2> QED
    BY <1>0, <1>5, <2>1, ClusterSame, BuildSame, QuerySame DEF IInv
<1> QED
  BY <1>1, <1>2, <1>3, <1>4, <1>5 DEF Next, Ended

\* The clusters are a partition under way, the index what the data and the
\* closure make it, and the search one of it, for every data set and query.
THEOREM Invariance == Spec => []IInv
BY InitIInv, StepIInv, PTL DEF Spec

-----------------------------------------------------------------------------
(* What a query sees.                                                      *)

\* A search is of query q, with the centroids found for it.
SearchOf(q, found) ==
  /\ q \in Queries[Value] /\ found \in Found(q.at, q.ef)
  /\ query = <<q>> /\ input = Asked(q, found) /\ input.k = q.k
  /\ q.at \in Int /\ q.k \in Nat /\ q.ef \in Nat
  /\ Proved!Lists = DOMAIN found /\ DOMAIN found \subseteq Nat
  /\ \A j \in Proved!Lists :
       /\ found[j] \in DOMAIN final
       /\ input.centroids[j].cid = found[j]
       /\ input.centroids[j].dist = Away(q.at, found[j])

LEMMA QueryFacts ==
  ASSUME IInv, searching # "idle"
  PROVE  \E q, found : SearchOf(q, found)
<1>0. ClusterInv /\ Value \in Data
  BY DEF IInv, ClusterInv, ShapeOK
<1>1. PICK q \in Queries[Value] :
        query = <<q>> /\ \E found \in Found(q.at, q.ef) : input = Asked(q, found)
  BY DEF IInv, QueryOK
<1>2. PICK found \in Found(q.at, q.ef) : input = Asked(q, found)
  BY <1>1
<1>3. q.at \in Int /\ q.k \in Nat /\ q.ef \in Nat
  BY <1>0, IndexAssumption
<1>4. /\ input.k = q.k
      /\ input.centroids = [n \in DOMAIN found |-> [cid |-> found[n], dist |-> Away(q.at, found[n])]]
  BY <1>2 DEF Asked
<1>5. /\ Proved!Lists = DOMAIN found /\ DOMAIN found \subseteq Nat
      /\ \A j \in DOMAIN found : found[j] \in DOMAIN final
  <2>1. Len(final) \in Nat
    BY <1>0, Shapes DEF ClusterInv
  <2>2. DOMAIN found \subseteq Nat /\ \A j \in DOMAIN found : found[j] \in DOMAIN final
    BY <1>3, <2>1 DEF Found
  <2> QED
    BY <1>4, <2>2 DEF Proved!Lists
<1>6. SearchOf(q, found)
  BY <1>1, <1>2, <1>3, <1>4, <1>5 DEF SearchOf
<1> QED
  BY <1>6

\* The slots of a list, as a search reads them.
LEMMA SlotFacts ==
  ASSUME IInv, searching # "idle", NEW q, NEW found, SearchOf(q, found),
         NEW j \in Proved!Lists
  PROVE  /\ DOMAIN Proved!Slots(j) = DOMAIN list[found[j]]
         /\ \A i \in DOMAIN list[found[j]] :
              /\ list[found[j]][i] \in Rows
              /\ found[j] \in Builder!Closure(list[found[j]][i])
              /\ Proved!Slots(j)[i] = Slot(q, list[found[j]][i])
<1>0. ClusterInv /\ BuildOK /\ Builder!Built
  BY DEF IInv, QueryOK
<1>1. PICK c \in DOMAIN final : c = found[j]
  BY DEF SearchOf
<1>2. c \in Cids /\ c \in Builder!Clusters
  BY <1>0, ClustersFew, BuiltFacts
<1>3. input.centroids[j].cid = c /\ input.slots = [d \in Cids |-> Listed(q, d)]
  BY <1>1 DEF SearchOf, Asked
<1>4. Proved!Slots(j) = [n \in DOMAIN list[c] |-> Slot(q, list[c][n])]
  BY <1>2, <1>3 DEF Proved!Slots, Listed
<1>5. \A i \in DOMAIN list[c] : list[c][i] \in Rows /\ c \in Builder!Closure(list[c][i])
  BY <1>0, BuiltFacts
<1> QED
  BY <1>1, <1>4, <1>5

\* The candidate of a slot is its vector, at its distance; no bound is wrong.
LEMMA CandidateFacts ==
  ASSUME IInv, searching # "idle", NEW q, NEW found, SearchOf(q, found),
         NEW j \in Proved!Lists, NEW i \in DOMAIN list[found[j]],
         NEW v, v = list[found[j]][i], NEW e, e = Proved!Candidate(j, i)
  PROVE  /\ v \in Rows /\ found[j] \in Builder!Closure(v)
         /\ e.id = v /\ e.sound /\ Proved!Slots(j)[i].dist # Inf
         /\ e.dist = (Value[v] - q.at) * (Value[v] - q.at) /\ e.dist \in Nat
<1>0. Value \in Data /\ Inf \notin Int /\ q.at \in Int
  BY IndexAssumption DEF IInv, ClusterInv, ShapeOK, SearchOf
<1>1. v \in Rows /\ found[j] \in Builder!Closure(v) /\ Proved!Slots(j)[i] = Slot(q, v)
  BY SlotFacts
<1>2. PICK d : d = (Value[v] - q.at) * (Value[v] - q.at)
  OBVIOUS
<1>3. d \in Nat /\ d # Inf
  <2>1. Value[v] - q.at \in Int
    BY <1>0, <1>1, RowFacts
  <2> QED
    BY <1>0, <1>2, <2>1, Squares
<1>4. Proved!Slots(j)[i] = [id |-> v, lb |-> IF q.bounds THEN d ELSE Inf, dist |-> d]
  BY <1>1, <1>2 DEF Slot
<1>5. input.metric = "L2"
  BY DEF SearchOf, Asked
<1>6. Proved!Distance(j, i) = d
  BY <1>3, <1>4 DEF Proved!Distance
<1>7. Proved!LowerBound(j, i) <= d
  BY <1>3, <1>4, <1>5 DEF Proved!LowerBound, Proved!Sanitize
<1>8. e.id = v /\ e.dist = d
  BY <1>4, <1>6 DEF Proved!Candidate
<1>9. e.sound
  <2>1. Proved!LowerBound(j, i) <= Proved!Distance(j, i)
    BY <1>6, <1>7
  <2>2. e.sound = (Proved!LowerBound(j, i) <= Proved!Distance(j, i))
    BY Zenon DEF Proved!Candidate
  <2> QED
    BY <2>1, <2>2, Zenon
<1> QED
  BY <1>1, <1>2, <1>3, <1>4, <1>8, <1>9

\* The candidates offered are those of the slots of the lists selected.
LEMMA OfferFacts ==
  ASSUME IInv, searching # "idle", NEW q, NEW found, SearchOf(q, found)
  PROVE  /\ Proved!Selected \subseteq Proved!Lists
         /\ \A j \in Proved!Selected : \A i \in DOMAIN list[found[j]] :
              Proved!Candidate(j, i) \in Proved!Offered
         /\ \A e \in Proved!Offered :
              \E j \in Proved!Selected : \E i \in DOMAIN list[found[j]] :
                e = Proved!Candidate(j, i)
<1>1. input \in Proved!Input
  BY DEF IInv, QueryOK, Proved!IInv, Proved!TypeOK
<1>2. /\ \A j \in Proved!Selected : \A i \in DOMAIN Proved!Slots(j) :
           Proved!Slots(j)[i].dist # Inf => Proved!Candidate(j, i) \in Proved!Offered
      /\ \A c \in Proved!Offered :
           \E j \in Proved!Selected : \E i \in DOMAIN Proved!Slots(j) :
             Proved!Slots(j)[i].dist # Inf /\ c = Proved!Candidate(j, i)
  BY <1>1, SearchConstants, Proved!OfferedData DEF Proved!SearchAssumption, Proved!InfAssumption
<1>3. Proved!Selected \subseteq Proved!Lists
  BY DEF Proved!Selected
<1>4. \A j \in Proved!Selected : DOMAIN Proved!Slots(j) = DOMAIN list[found[j]]
  BY <1>3, SlotFacts
<1>5. \A j \in Proved!Selected : \A i \in DOMAIN list[found[j]] : Proved!Slots(j)[i].dist # Inf
  BY <1>3, CandidateFacts
<1> QED
  BY <1>2, <1>3, <1>4, <1>5

-----------------------------------------------------------------------------
(* The properties.                                                         *)

\* One sequence of sets after another.
LEMMA ConcatParts ==
  ASSUME NEW S, NEW s \in Seq(SUBSET S), NEW t \in Seq(SUBSET S),
         Alone(s), Alone(t), Apart(s, t)
  PROVE  /\ s \o t \in Seq(SUBSET S) /\ Alone(s \o t)
         /\ \A r : In(r, s \o t) <=> In(r, s) \/ In(r, t)
<1>0. /\ Len(s) \in Nat /\ Len(t) \in Nat
      /\ DOMAIN s = 1 .. Len(s) /\ DOMAIN t = 1 .. Len(t)
  BY LenProperties
<1>1. PICK m, n, e : m = Len(s) /\ n = Len(t) /\ e = s \o t
  OBVIOUS
<1>2. /\ e \in Seq(SUBSET S) /\ Len(e) = m + n
      /\ \A i \in 1 .. m + n : e[i] = IF i <= m THEN s[i] ELSE t[i - m]
  BY <1>1, ConcatProperties
<1>3. DOMAIN e = 1 .. m + n /\ m \in Nat /\ n \in Nat
  BY <1>0, <1>1, <1>2, LenProperties
<1>4. ASSUME NEW i \in DOMAIN e
      PROVE  \/ i <= m /\ i \in DOMAIN s /\ e[i] = s[i]
             \/ ~ (i <= m) /\ i - m \in DOMAIN t /\ e[i] = t[i - m]
  <2>1. i \in 1 .. m + n
    BY <1>3
  <2>2. e[i] = IF i <= m THEN s[i] ELSE t[i - m]
    BY <1>2, <2>1
  <2>3. i <= m => i \in DOMAIN s
    BY <1>0, <1>1, <1>3, <2>1
  <2>4. ~ (i <= m) => i - m \in DOMAIN t
    BY <1>0, <1>1, <1>3, <2>1
  <2> QED
    BY <2>2, <2>3, <2>4
<1>5. ASSUME NEW i \in DOMAIN s
      PROVE  i \in DOMAIN e /\ e[i] = s[i]
  <2>1. i \in 1 .. m + n /\ i <= m
    BY <1>0, <1>1, <1>3
  <2> QED
    BY <1>2, <1>3, <2>1
<1>6. ASSUME NEW i \in DOMAIN t
      PROVE  m + i \in DOMAIN e /\ e[m + i] = t[i]
  <2>0. PICK k : k = m + i
    OBVIOUS
  <2>1. k \in 1 .. m + n /\ ~ (k <= m) /\ k - m = i
    BY <1>0, <1>1, <1>3, <2>0
  <2>2. e[k] = t[k - m]
    BY <1>2, <2>1
  <2> QED
    BY <1>3, <2>0, <2>1, <2>2
<1>7. Alone(e)
  <2> SUFFICES ASSUME NEW i \in DOMAIN e, NEW j \in DOMAIN e, i # j
               PROVE  e[i] \cap e[j] = {}
    BY DEF Alone
  <2>1. i \in Int /\ j \in Int /\ i - m # j - m
    BY <1>3
  <2>2. CASE i <= m /\ j <= m
    BY <1>4, <2>2 DEF Alone
  <2>3. CASE i <= m /\ ~ (j <= m)
    BY <1>4, <2>3 DEF Apart
  <2>4. CASE ~ (i <= m) /\ j <= m
    BY <1>4, <2>4 DEF Apart
  <2>5. CASE ~ (i <= m) /\ ~ (j <= m)
    <3>1. /\ i - m \in DOMAIN t /\ e[i] = t[i - m]
          /\ j - m \in DOMAIN t /\ e[j] = t[j - m]
      BY <1>4, <2>5
    <3> QED
      BY <2>1, <3>1 DEF Alone
  <2> QED
    BY <2>2, <2>3, <2>4, <2>5
<1>8. ASSUME NEW r
      PROVE  In(r, e) <=> In(r, s) \/ In(r, t)
  BY <1>4, <1>5, <1>6 DEF In
<1> QED
  BY <1>1, <1>2, <1>7, <1>8

LEMMA PartitionHolds == IInv => Partition
<1> SUFFICES ASSUME IInv PROVE Partition
  OBVIOUS
<1>0. ShapeOK /\ PartsOK /\ Clustering!Rows = Rows
  BY DEF IInv, ClusterInv, Clustering!Rows, Rows
<1>1. TypeOK
  <2>1. Clustering!TypeOK
    BY <1>0, Shapes DEF ShapeOK, Clustering!TypeOK
  <2>2. CASE searching = "idle"
    <3>1. global = {} /\ input.k = 0
      BY <2>2 DEF IInv, QueryOK, Idle
    <3> QED
      BY <2>1, <2>2, <3>1, FS_EmptySet DEF TypeOK
  <2>3. CASE searching # "idle"
    <3>1. PICK q, found : SearchOf(q, found)
      BY <2>3, QueryFacts
    <3>2. global \subseteq Proved!Offered /\ Proved!Cardinality(global) <= input.k
      BY <2>3 DEF IInv, QueryOK, Proved!IInv, Proved!TypeOK
    <3>3. ASSUME NEW e \in global
          PROVE  e.id \in Rows
      <4>1. PICK j \in Proved!Selected : \E i \in DOMAIN list[found[j]] : e = Proved!Candidate(j, i)
        BY <2>3, <3>1, <3>2, OfferFacts
      <4>2. PICK i \in DOMAIN list[found[j]] : e = Proved!Candidate(j, i)
        BY <4>1
      <4>3. j \in Proved!Lists
        BY <2>3, <3>1, OfferFacts
      <4> QED
        BY <2>3, <3>1, <4>2, <4>3, CandidateFacts
    <3> QED
      BY <2>1, <3>2, <3>3, SameCount DEF TypeOK
  <2> QED
    BY <2>2, <2>3
<1>2. Clustering!Partition
  <2>1. active \in Seq(SUBSET Rows) /\ groups \in Seq(SUBSET Rows) /\ final \in Seq(SUBSET Rows)
    BY <1>0 DEF ShapeOK
  <2>2. PICK e : e = active \o groups
    OBVIOUS
  <2>3. /\ e \in Seq(SUBSET Rows) /\ Alone(e)
        /\ \A r : In(r, e) <=> In(r, active) \/ In(r, groups)
    BY <1>0, <2>1, <2>2, ConcatParts DEF PartsOK
  <2>4. Apart(e, final)
    <3>1. \A r : ~ (In(r, active) /\ In(r, final)) /\ ~ (In(r, groups) /\ In(r, final))
      BY <1>0 DEF PartsOK, Apart, In
    <3>2. \A r : ~ (In(r, e) /\ In(r, final))
      BY <2>3, <3>1
    <3> QED
      BY <3>2 DEF Apart, In
  <2>5. PICK f : f = e \o final
    OBVIOUS
  <2>6. /\ f \in Seq(SUBSET Rows) /\ Alone(f)
        /\ \A r : In(r, f) <=> In(r, e) \/ In(r, final)
    BY <1>0, <2>1, <2>3, <2>4, <2>5, ConcatParts DEF PartsOK
  <2>7. f = Clustering!Everything
    BY <2>2, <2>5 DEF Clustering!Everything
  <2>8. UNION {f[i] : i \in DOMAIN f} = Rows
    <3>1. \A i \in DOMAIN f : f[i] \subseteq Rows
      BY <2>6, LenProperties, ElementOfSeq
    <3>2. \A r \in Rows : In(r, f)
      BY <1>0, <2>3, <2>6 DEF PartsOK
    <3> QED
      BY <3>1, <3>2 DEF In
  <2> QED
    BY <1>0, <2>6, <2>7, <2>8 DEF Clustering!Partition, Alone
<1>3. Clustering!Bounded
  BY <1>0, SameCount DEF PartsOK, Full, Clustering!Bounded
<1> QED
  BY <1>1, <1>2, <1>3 DEF Partition

LEMMA NeverWholeHolds == Branching # 1 /\ IInv => NeverWhole
<1> SUFFICES ASSUME Branching # 1, IInv PROVE NeverWhole
  OBVIOUS
<1>0. PartsOK /\ TwoGroups /\ ShapeOK
  BY DEF IInv, ClusterInv
<1>1. PICK cluster : cluster = UNION {groups[i] : i \in DOMAIN groups}
  OBVIOUS
<1>2. ASSUME clustering = "balance", moves > 0 \/ ~Clustering!SampleOfOne(cluster),
             NEW k \in DOMAIN groups, groups[k] = cluster
      PROVE  FALSE
  <2>3. PICK i \in DOMAIN groups, j \in DOMAIN groups : i # j /\ groups[i] # {} /\ groups[j] # {}
    BY <1>0, <1>1, <1>2 DEF TwoGroups, Clustering!Dealt
  <2>4. groups[i] \subseteq groups[k] /\ groups[j] \subseteq groups[k]
    BY <1>1, <1>2
  <2> QED
    BY <1>0, <2>3, <2>4 DEF PartsOK, Alone
<1> QED
  BY <1>1, <1>2 DEF NeverWhole, Clustering!NeverWhole, Clustering!Dealt

\* What is multiplied stays in order.
LEMMA Times ==
  /\ \A a, b, f \in Nat : a <= b => a * f <= b * f
  /\ \A a, f \in Nat : f >= 1 => a <= a * f
  /\ \A a, f \in Nat : a * f \in Nat
<1>1. ASSUME NEW a \in Nat, NEW b \in Nat, NEW f \in Nat, a <= b
      PROVE  a * f <= b * f
  <2>1. PICK d \in Nat : b = a + d
    <3>1. b - a \in Nat /\ b = a + (b - a)
      BY <1>1
    <3> QED
      BY <3>1
  <2>2. b * f = a * f + d * f /\ d * f \in Nat /\ a * f \in Nat
    BY <2>1
  <2> QED
    BY <2>2
<1>2. ASSUME NEW a \in Nat, NEW f \in Nat, f >= 1
      PROVE  a <= a * f
  <2>1. PICK d \in Nat : f = 1 + d
    <3>1. f - 1 \in Nat /\ f = 1 + (f - 1)
      BY <1>2
    <3> QED
      BY <3>1
  <2>2. a * f = a + a * d /\ a * d \in Nat
    BY <2>1
  <2> QED
    BY <2>2
<1>3. \A a, f \in Nat : a * f \in Nat
  OBVIOUS
<1> QED
  BY <1>1, <1>2, <1>3

\* The clusters of the index, from a vector: how far, ranked, and the closest.
LEMMA RankFacts ==
  ASSUME ClusterInv, BuildOK, Builder!Built, NEW v \in Rows
  PROVE  /\ \A c \in DOMAIN final : /\ dist[v][c] = Away(Value[v], c)
                                    /\ dist[v][c] \in Nat /\ Away(Value[v], c) \in Nat
         /\ \A c \in DOMAIN final : Builder!Rank(v, c) \in Nat
         /\ \A c, d \in DOMAIN final : Builder!Rank(v, c) = Builder!Rank(v, d) => c = d
         /\ Builder!Closest(v) \in DOMAIN final /\ Builder!Rank(v, Builder!Closest(v)) = 0
         /\ \A d \in DOMAIN final : dist[v][Builder!Closest(v)] <= dist[v][d]
<1>0. /\ Value \in Data /\ Value[v] \in Int /\ dist = Distances /\ Builder!Clusters = DOMAIN final
      /\ Len(final) \in Nat /\ DOMAIN final = 1 .. Len(final)
  BY BuiltFacts, RowFacts, Shapes DEF ClusterInv
<1>1. \A c \in DOMAIN final : /\ dist[v][c] = Away(Value[v], c)
                              /\ dist[v][c] \in Nat /\ Away(Value[v], c) \in Nat
  <2> SUFFICES ASSUME NEW c \in DOMAIN final
               PROVE  /\ dist[v][c] = Away(Value[v], c)
                      /\ dist[v][c] \in Nat /\ Away(Value[v], c) \in Nat
    OBVIOUS
  <2>1. Away(Value[v], c) \in Nat
    BY <1>0, AwayTypes
  <2>2. dist[v][c] = Away(Value[v], c)
    BY <1>0 DEF Distances
  <2> QED
    BY <2>1, <2>2
<1>2. DOMAIN final # {}
  <2>1. DOMAIN final = {} => Rows = {}
    <3>1. clustering = "done" /\ active = <<>> /\ groups = <<>>
      BY BuiltFacts DEF ClusterInv, ShapeOK
    <3> QED
      BY <3>1 DEF ClusterInv, PartsOK, In
  <2> QED
    BY <2>1
<1>3. PICK C : C = DOMAIN final
  OBVIOUS
<1>4. PICK R : R = {p \in C \X C : Builder!Nearer(v, p[1], p[2])}
  OBVIOUS
<1>5. \A c, d \in C : <<c, d>> \in R <=> dist[v][c] < dist[v][d] \/ (dist[v][c] = dist[v][d] /\ c < d)
  BY <1>4 DEF Builder!Nearer
<1>6. Orders(R, C)
  <2>1. \A c \in C : dist[v][c] \in Int /\ c \in Int
    BY <1>0, <1>1, <1>3
  <2> QED
    BY <1>5, <2>1 DEF Orders
<1>7. IsFiniteSet(C) /\ Cardinality(C) \in Nat /\ Cardinality(C) # 0
  BY <1>0, <1>2, <1>3, FS_Interval, FS_CardinalityType, FS_EmptySet
<1>8. \A c \in C : Builder!Rank(v, c) = RankIn(C, R, c)
  <2> SUFFICES ASSUME NEW c \in C
               PROVE  Builder!Rank(v, c) = RankIn(C, R, c)
    OBVIOUS
  <2>1. PICK N : N = {d \in C : Builder!Nearer(v, d, c)}
    OBVIOUS
  <2>2. N = {d \in C : <<d, c>> \in R}
    BY <1>4, <2>1
  <2>3. Builder!Rank(v, c) = Builder!Cardinality(N)
    BY <1>0, <1>3, <2>1 DEF Builder!Rank
  <2> QED
    BY <2>2, <2>3, SameCount DEF RankIn
<1>9. /\ \A c \in C : RankIn(C, R, c) \in 0 .. Cardinality(C) - 1
      /\ \A c, d \in C : RankIn(C, R, c) = RankIn(C, R, d) => c = d
      /\ \A n \in 0 .. Cardinality(C) - 1 : \E c \in C : RankIn(C, R, c) = n
  BY <1>6, <1>7, Ranks
<1>10. /\ \A c \in DOMAIN final : Builder!Rank(v, c) \in Nat
       /\ \A c, d \in DOMAIN final : Builder!Rank(v, c) = Builder!Rank(v, d) => c = d
  BY <1>3, <1>7, <1>8, <1>9
<1>11. PICK near : near = Builder!Closest(v)
  OBVIOUS
<1>12. near \in DOMAIN final /\ Builder!Rank(v, near) = 0
  <2>1. 0 \in 0 .. Cardinality(C) - 1
    BY <1>7
  <2>2. \E c \in Builder!Clusters : Builder!Rank(v, c) = 0
    BY <1>0, <1>3, <1>8, <1>9, <2>1
  <2> QED
    BY <1>0, <1>11, <2>2 DEF Builder!Closest
<1>13. ASSUME NEW d \in DOMAIN final
       PROVE  dist[v][near] <= dist[v][d]
  <2>1. CASE <<d, near>> \in R
    <3>1. RankIn(C, R, d) < RankIn(C, R, near)
      BY <1>3, <1>6, <1>7, <1>12, <2>1, RankGrows
    <3> QED
      BY <1>3, <1>8, <1>10, <1>12, <3>1
  <2>2. CASE <<d, near>> \notin R
    <3>1. ~ (dist[v][d] < dist[v][near])
      BY <1>3, <1>5, <1>12, <2>2
    <3> QED
      BY <1>1, <1>12, <3>1
  <2> QED
    BY <2>1, <2>2
<1> QED
  BY <1>1, <1>10, <1>11, <1>12, <1>13

LEMMA ReplicasExactHolds == IInv => ReplicasExact
<1> SUFFICES ASSUME IInv, Builder!Built, NEW v \in Rows
             PROVE  Builder!ListsOf(v)
                      = {c \in Builder!Near(v) :
                           Builder!Cardinality({d \in Builder!Near(v) : Builder!Nearer(v, d, c)}) < MaxReplicas}
  <2>1. IInv /\ Builder!Built => Builder!Vectors = Rows
    BY BuiltFacts DEF IInv
  <2> QED
    BY <2>1 DEF ReplicasExact, Builder!ReplicasExact
<1>0. ClusterInv /\ BuildOK
  BY DEF IInv
<1>1. /\ Builder!Clusters = DOMAIN final /\ clustersDone = DOMAIN final
      /\ \A c \in DOMAIN final : (\E n \in DOMAIN list[c] : list[c][n] = v) <=> c \in Builder!Closure(v)
  BY <1>0, BuiltFacts
<1>2. PICK near, far : near = Builder!Closest(v) /\ far = [c \in DOMAIN final |-> dist[v][c]]
  OBVIOUS
<1>3. /\ near \in DOMAIN final
      /\ \A c \in DOMAIN final : far[c] \in Nat /\ far[c] = dist[v][c] /\ far[near] <= far[c]
  BY <1>0, <1>2, RankFacts
<1>4. FactorNum \in Nat /\ FactorDen \in Nat
  BY IndexAssumption DEF Builder!BuildAssumption
<1>5. ASSUME NEW c \in DOMAIN final
      PROVE  c \in Builder!Near(v) <=> far[c] * FactorDen <= far[near] * FactorNum
  <2>1. c \in Builder!Near(v) <=>
          \A d \in DOMAIN final : far[c] * FactorDen <= far[d] * FactorNum
    BY <1>1, <1>3 DEF Builder!Near, Builder!Within
  <2>2. \A d \in DOMAIN final : far[near] * FactorNum <= far[d] * FactorNum
    BY <1>3, <1>4, Times
  <2>3. \A d \in DOMAIN final : far[d] * FactorNum \in Nat /\ far[d] * FactorDen \in Nat
    BY <1>3, <1>4, Times
  <2> QED
    BY <1>3, <2>1, <2>2, <2>3
<1>6. Builder!Near(v) \subseteq DOMAIN final
  BY <1>1 DEF Builder!Near
<1>7. ASSUME NEW c \in Builder!Near(v)
      PROVE  Builder!Cardinality({d \in Builder!Near(v) : Builder!Nearer(v, d, c)}) = Builder!Rank(v, c)
  <2>1. \A d \in DOMAIN final : Builder!Nearer(v, d, c) => d \in Builder!Near(v)
    <3> SUFFICES ASSUME NEW d \in DOMAIN final, Builder!Nearer(v, d, c)
                 PROVE  d \in Builder!Near(v)
      OBVIOUS
    <3>1. far[d] <= far[c] /\ far[c] * FactorDen <= far[near] * FactorNum
      BY <1>3, <1>5, <1>6 DEF Builder!Nearer
    <3>2. /\ far[near] * FactorNum \in Nat /\ far[d] * FactorDen <= far[c] * FactorDen
          /\ far[d] * FactorDen \in Nat /\ far[c] * FactorDen \in Nat
      BY <1>3, <1>4, <1>6, <3>1, Times
    <3> QED
      BY <1>5, <3>1, <3>2
  <2>2. {d \in Builder!Near(v) : Builder!Nearer(v, d, c)} = {d \in DOMAIN final : Builder!Nearer(v, d, c)}
    BY <1>6, <2>1
  <2> QED
    BY <1>1, <2>2 DEF Builder!Rank
<1>8. \A c \in DOMAIN final :
        c \in Builder!Closure(v) <=> /\ Builder!Rank(v, c) < MaxReplicas
                                     /\ far[c] * FactorDen <= far[near] * FactorNum
  BY <1>1, <1>2, <1>3 DEF Builder!Closure, Builder!Within
<1>9. Builder!ListsOf(v) = {c \in DOMAIN final : c \in Builder!Closure(v)}
  BY <1>1 DEF Builder!ListsOf
<1> QED
  BY <1>5, <1>6, <1>7, <1>8, <1>9

\* What a search that is done has promised: its answer is what it was offered, or
\* full of vectors no further than any it leaves out.
LEMMA DoneFacts ==
  ASSUME IInv, searching = "done", NEW q, NEW found, SearchOf(q, found)
  PROVE  /\ global \subseteq Proved!Offered /\ IsFiniteSet(global)
         /\ Cardinality(global) <= q.k
         /\ global = Proved!Offered \/ Cardinality(global) = q.k
         /\ \A c \in Proved!Offered \ global : c.sound => \A e \in global : e.dist <= c.dist
<1>1. Proved!IInv /\ input.k = q.k
  BY DEF IInv, QueryOK, SearchOf
<1>2. global \subseteq Proved!Offered /\ Proved!Abstract!Promise(global, Proved!Offered, input.k)
  BY <1>1, SearchConstants, Proved!ReturnedAnswer DEF Proved!SearchAssumption, Proved!InfAssumption
<1>3. IsFiniteSet(global)
  BY <1>1, SameCount DEF Proved!IInv, Proved!HeapsOK, Proved!IsHeap
<1>4. Proved!Abstract!Cardinality(global) = Cardinality(global)
  BY DEF Proved!Abstract!Cardinality, Cardinality
<1> QED
  BY <1>1, <1>2, <1>3, <1>4 DEF Proved!Abstract!Promise

LEMMA FindsItselfHolds == MaxReplicas > 0 /\ IInv => FindsItself
<1> SUFFICES ASSUME MaxReplicas > 0, IInv, searching = "done", NEW v \in Rows,
                    Value[v] = query[1].at, query[1].k > 0,
                    Nearest(Value[v]) \subseteq {input.centroids[n].cid : n \in DOMAIN input.centroids}
             PROVE  \E e \in global : e.dist = 0
  BY DEF FindsItself
<1>0. ClusterInv /\ BuildOK /\ Builder!Built /\ searching # "idle"
  BY DEF IInv, QueryOK
<1>1. PICK q, found : SearchOf(q, found)
  BY <1>0, QueryFacts
<1>2. query[1] = q /\ Value[v] = q.at /\ q.k > 0 /\ q.k \in Nat /\ q.at \in Int
  BY <1>1 DEF SearchOf
<1>3. PICK near : near = Builder!Closest(v)
  OBVIOUS
<1>4. /\ near \in DOMAIN final /\ Builder!Rank(v, near) = 0
      /\ \A c \in DOMAIN final : /\ dist[v][c] = Away(Value[v], c)
                                 /\ dist[v][c] \in Nat /\ Away(Value[v], c) \in Nat
                                 /\ dist[v][near] <= dist[v][c]
  BY <1>0, <1>3, RankFacts
\* The cluster closest to v is one of those nearest the query, and has v.
<1>5. \A c \in DOMAIN final : Away(Value[v], near) <= Away(Value[v], c)
  BY <1>4
<1>6. near \in Builder!Closure(v)
  <2>1. Builder!Clusters = DOMAIN final
    BY <1>0, BuiltFacts
  <2>2. dist[v][near] * FactorDen <= dist[v][near] * FactorNum
    <3>1. FactorNum \in Nat /\ FactorDen \in Nat /\ FactorDen <= FactorNum
      BY IndexAssumption DEF Builder!BuildAssumption
    <3>2. PICK d \in Nat : d = dist[v][near]
      BY <1>4
    <3>3. FactorDen * d <= FactorNum * d
      BY <3>1, <3>2, Times
    <3>4. d * FactorDen <= d * FactorNum
      BY <3>1, <3>2, <3>3
    <3> QED
      BY <3>2, <3>4
  <2>3. Builder!Rank(v, near) < MaxReplicas
    BY <1>4
  <2> QED
    BY <1>3, <1>4, <2>1, <2>2, <2>3 DEF Builder!Closure, Builder!Within
<1>7. PICK i \in DOMAIN list[near] : list[near][i] = v
  BY <1>0, <1>4, <1>6, BuiltFacts
<1>8. near \in Nearest(Value[v])
  BY <1>4, <1>5 DEF Nearest
<1>9. PICK j \in Proved!Lists : found[j] = near
  <2>1. PICK n \in DOMAIN input.centroids : input.centroids[n].cid = near
    BY <1>8
  <2>2. n \in Proved!Lists
    BY DEF Proved!Lists
  <2>3. found[n] = near
    BY <1>1, <2>1, <2>2 DEF SearchOf
  <2> QED
    BY <2>2, <2>3
\* Its list is selected, so v is offered.
<1>10. j \in Proved!Selected
  <2>1. 1 \in Proved!Lists
    <3>1. PICK n \in Int : DOMAIN found = 1 .. n
      <4>1. Len(final) \in Nat
        BY <1>0, Shapes DEF ClusterInv
      <4> QED
        BY <1>1, <4>1 DEF SearchOf, Found
    <3> QED
      BY <1>1, <3>1 DEF SearchOf
  <2>2. PICK a, b : a = input.centroids[j].dist /\ b = input.centroids[1].dist
    OBVIOUS
  <2>3. a \in Nat /\ b \in Nat /\ a <= b
    <3>1. \A m \in Proved!Lists :
            /\ found[m] \in DOMAIN final
            /\ input.centroids[m].dist = Away(q.at, found[m])
      BY <1>1 DEF SearchOf
    <3>2. a = Away(q.at, found[j]) /\ b = Away(q.at, found[1])
          /\ found[j] = near /\ found[1] \in DOMAIN final
      BY <1>9, <2>1, <2>2, <3>1
    <3> QED
      BY <1>2, <1>4, <1>5, <3>2
  <2>4. EpsDen \in Nat /\ EpsNum \in Nat
    BY IndexAssumption
  <2>5. a * EpsDen <= b * (EpsDen + EpsNum)
    <3>1. a * EpsDen <= b * EpsDen
      BY <2>3, <2>4, Times
    <3>2. b * (EpsDen + EpsNum) = b * EpsDen + b * EpsNum /\ b * EpsNum \in Nat
          /\ a * EpsDen \in Nat /\ b * EpsDen \in Nat
      BY <2>3, <2>4
    <3> QED
      BY <3>1, <3>2
  <2> QED
    BY <2>2, <2>5 DEF Proved!Selected
<1>11. PICK e : e = Proved!Candidate(j, i)
  OBVIOUS
<1>12. e \in Proved!Offered /\ e.sound /\ e.dist = 0
  <2>1. e \in Proved!Offered
    BY <1>0, <1>1, <1>7, <1>9, <1>10, <1>11, OfferFacts
  <2>2. e.sound /\ e.dist = (Value[v] - q.at) * (Value[v] - q.at)
    BY <1>0, <1>1, <1>7, <1>9, <1>11, CandidateFacts
  <2>3. (Value[v] - q.at) * (Value[v] - q.at) = 0
    BY <1>2
  <2> QED
    BY <2>1, <2>2, <2>3
<1>13. CASE e \in global
  BY <1>12, <1>13
<1>14. CASE e \notin global
  <2>1. /\ IsFiniteSet(global) /\ Cardinality(global) = q.k /\ global \subseteq Proved!Offered
        /\ \A x \in global : x.dist <= 0
    BY <1>1, <1>12, <1>14, DoneFacts
  <2>2. PICK x \in global : TRUE
    BY <1>2, <2>1, FS_EmptySet
  <2>3. x.dist \in Nat
    <3>1. PICK m \in Proved!Selected : \E n \in DOMAIN list[found[m]] : x = Proved!Candidate(m, n)
      BY <1>0, <1>1, <2>1, OfferFacts
    <3>2. PICK n \in DOMAIN list[found[m]] : x = Proved!Candidate(m, n)
      BY <3>1
    <3>3. m \in Proved!Lists
      BY <1>0, <1>1, OfferFacts
    <3> QED
      BY <1>0, <1>1, <3>2, <3>3, CandidateFacts
  <2> QED
    BY <2>1, <2>2, <2>3
<1> QED
  BY <1>13, <1>14

\* A vector of the answer takes one of max_replicas places: its list's rank.
LEMMA PlacesFew ==
  ASSUME IInv, searching # "idle", NEW q, NEW found, SearchOf(q, found),
         NEW G, G \subseteq Proved!Offered,
         NEW ids, IsFiniteSet(ids), \A e \in G : e.id \in ids
  PROVE  Cardinality(G) <= Cardinality(ids) * MaxReplicas /\ IsFiniteSet(G)
<1>0. ClusterInv /\ BuildOK /\ Builder!Built /\ MaxReplicas \in Nat
  BY IndexAssumption DEF IInv, QueryOK, Builder!BuildAssumption
<1>1. \A e \in G : \E j \in Proved!Lists : \E i \in DOMAIN list[found[j]] : e = Proved!Candidate(j, i)
  BY OfferFacts
<1>2. PICK listOf : listOf = [e \in G |-> CHOOSE j \in Proved!Lists :
                               \E i \in DOMAIN list[found[j]] : e = Proved!Candidate(j, i)]
  OBVIOUS
<1>3. \A e \in G : /\ listOf[e] \in Proved!Lists
                   /\ \E i \in DOMAIN list[found[listOf[e]]] : e = Proved!Candidate(listOf[e], i)
  BY <1>1, <1>2
<1>4. PICK place : place = [e \in G |-> <<e.id, Builder!Rank(e.id, found[listOf[e]])>>]
  OBVIOUS
<1>5. PICK ranks : ranks = 0 .. MaxReplicas - 1
  OBVIOUS
<1>6. ASSUME NEW e \in G
      PROVE  /\ e.id \in Rows /\ found[listOf[e]] \in DOMAIN final
             /\ Builder!Rank(e.id, found[listOf[e]]) \in ranks
  <2>1. PICK i \in DOMAIN list[found[listOf[e]]] : e = Proved!Candidate(listOf[e], i)
    BY <1>3
  <2>2. e.id = list[found[listOf[e]]][i] /\ e.id \in Rows /\ found[listOf[e]] \in Builder!Closure(e.id)
    BY <1>3, <2>1, CandidateFacts
  <2>3. found[listOf[e]] \in DOMAIN final
    BY <1>3 DEF SearchOf
  <2>4. Builder!Rank(e.id, found[listOf[e]]) < MaxReplicas
    BY <2>2 DEF Builder!Closure
  <2>5. Builder!Rank(e.id, found[listOf[e]]) \in Nat
    BY <1>0, <2>2, <2>3, RankFacts
  <2> QED
    BY <1>0, <1>5, <2>2, <2>3, <2>4, <2>5
<1>7. ASSUME NEW e \in G, NEW f \in G, place[e] = place[f]
      PROVE  e = f
  <2>1. e.id = f.id /\ Builder!Rank(e.id, found[listOf[e]]) = Builder!Rank(e.id, found[listOf[f]])
    BY <1>4, <1>7
  <2>2. found[listOf[e]] = found[listOf[f]]
    BY <1>0, <1>6, <2>1, RankFacts
  <2>3. listOf[e] = listOf[f]
    <3>1. \A m, n \in DOMAIN found : m < n => found[m] # found[n]
      BY DEF SearchOf, Found
    <3>2. listOf[e] \in DOMAIN found /\ listOf[f] \in DOMAIN found /\ DOMAIN found \subseteq Nat
      BY <1>3 DEF SearchOf
    <3> QED
      BY <2>2, <3>1, <3>2
  <2>4. PICK i \in DOMAIN list[found[listOf[e]]] : e = Proved!Candidate(listOf[e], i)
    BY <1>3
  <2>5. PICK k \in DOMAIN list[found[listOf[e]]] : f = Proved!Candidate(listOf[e], k)
    BY <1>3, <2>3
  <2>6. e.id = list[found[listOf[e]]][i] /\ f.id = list[found[listOf[e]]][k]
    BY <1>3, <2>4, <2>5, CandidateFacts
  <2>7. i = k
    <3>1. PICK c \in DOMAIN final : c = found[listOf[e]]
      BY <1>6
    <3>2. \A m, n \in DOMAIN list[c] : list[c][m] = list[c][n] => m = n
      BY <1>0, BuiltFacts
    <3>3. i \in DOMAIN list[c] /\ k \in DOMAIN list[c] /\ list[c][i] = list[c][k]
      BY <2>1, <2>6, <3>1
    <3> QED
      BY <3>2, <3>3
  <2> QED
    BY <2>4, <2>5, <2>7
<1>8. place \in Injection(G, ids \X ranks)
  <2>1. place \in [G -> ids \X ranks]
    BY <1>4, <1>6
  <2> QED
    BY <1>7, <2>1 DEF Injection, IsInjective
<1>9. IsFiniteSet(ranks) /\ Cardinality(ranks) = MaxReplicas
  BY <1>0, <1>5, FS_Interval
<1>10. IsFiniteSet(ids \X ranks) /\ Cardinality(ids \X ranks) = Cardinality(ids) * MaxReplicas
  BY <1>9, FS_Product
<1> QED
  BY <1>8, <1>10, FS_Injection

LEMMA NotCrowdedOutHolds == IInv => NotCrowdedOut
<1> SUFFICES ASSUME IInv, searching = "done", NEW v \in Rows,
                    NEW asNear,
                    asNear = {w \in Rows : Size(Value[w] - query[1].at) <= Size(Value[v] - query[1].at)},
                    MaxReplicas * Cardinality(asNear) <= query[1].k,
                    NEW j \in Search!Selected, NEW i \in DOMAIN Search!Slots(j),
                    Search!Slots(j)[i].id = v,
                    \A e \in global : e.id # v
             PROVE  FALSE
  BY DEF NotCrowdedOut
<1>0. /\ ClusterInv /\ BuildOK /\ Builder!Built /\ searching # "idle" /\ MaxReplicas \in Nat
      /\ Value \in Data
  BY IndexAssumption DEF IInv, QueryOK, Builder!BuildAssumption, ClusterInv, ShapeOK
<1>1. PICK q, found : SearchOf(q, found)
  BY <1>0, QueryFacts
<1>2. query[1] = q /\ q.k \in Nat /\ q.at \in Int
  BY <1>1 DEF SearchOf
<1>3. j \in Proved!Selected /\ j \in Proved!Lists /\ i \in DOMAIN list[found[j]]
      /\ list[found[j]][i] = v
  <2>1. j \in Proved!Selected /\ Proved!Slots(j) = Search!Slots(j)
    BY SameReads
  <2>2. j \in Proved!Lists
    BY <2>1 DEF Proved!Selected
  <2>3. i \in DOMAIN list[found[j]] /\ Proved!Slots(j)[i] = Slot(q, list[found[j]][i])
    BY <1>0, <1>1, <2>1, <2>2, SlotFacts
  <2>4. list[found[j]][i] = v
    BY <2>1, <2>3 DEF Slot
  <2> QED
    BY <2>1, <2>2, <2>3, <2>4
<1>4. PICK c : c = Proved!Candidate(j, i)
  OBVIOUS
<1>5. /\ c \in Proved!Offered /\ c.id = v /\ c.sound /\ found[j] \in Builder!Closure(v)
      /\ c.dist = (Value[v] - q.at) * (Value[v] - q.at)
  BY <1>0, <1>1, <1>3, <1>4, OfferFacts, CandidateFacts
\* The answer is full, of other vectors no further than v.
<1>6. /\ global \subseteq Proved!Offered /\ Cardinality(global) = q.k
      /\ \A e \in global : e.dist <= c.dist
  BY <1>1, <1>5, DoneFacts
<1>7. IsFiniteSet(asNear) /\ v \in asNear
  <2>1. asNear \subseteq Rows /\ IsFiniteSet(Rows)
    BY <1>0, RowFacts
  <2>2. Size(Value[v] - q.at) \in Int
    <3>1. Value[v] - q.at \in Int
      BY <1>0, <1>2, RowFacts
    <3> QED
      BY <3>1, Squares
  <2> QED
    BY <1>2, <2>1, <2>2, FS_Subset
<1>8. ASSUME NEW e \in global
      PROVE  e.id \in asNear \ {v}
  <2>1. PICK m \in Proved!Selected : \E n \in DOMAIN list[found[m]] : e = Proved!Candidate(m, n)
    BY <1>0, <1>1, <1>6, OfferFacts
  <2>2. PICK n \in DOMAIN list[found[m]] : e = Proved!Candidate(m, n)
    BY <2>1
  <2>3. m \in Proved!Lists
    BY <1>0, <1>1, OfferFacts
  <2>4. e.id \in Rows /\ e.dist = (Value[e.id] - q.at) * (Value[e.id] - q.at)
    BY <1>0, <1>1, <2>2, <2>3, CandidateFacts
  <2>5. Value[e.id] - q.at \in Int /\ Value[v] - q.at \in Int
    BY <1>0, <1>2, <2>4, RowFacts
  <2>6. Size(Value[e.id] - q.at) <= Size(Value[v] - q.at)
    BY <1>5, <1>6, <2>4, <2>5, Squares
  <2> QED
    BY <1>2, <2>4, <2>6
<1>9. PICK n : n = Cardinality(asNear)
  OBVIOUS
<1>10. IsFiniteSet(asNear \ {v}) /\ Cardinality(asNear \ {v}) = n - 1 /\ n \in Nat /\ n >= 1
  <2>1. IsFiniteSet(asNear \ {v}) /\ Cardinality(asNear \ {v}) = n - 1 /\ n \in Nat
    <3>1. Cardinality(asNear) \in Nat
      BY <1>7, FS_CardinalityType
    <3>2. /\ IsFiniteSet(asNear \ {v})
          /\ Cardinality(asNear \ {v}) = IF v \in asNear THEN Cardinality(asNear) - 1
                                         ELSE Cardinality(asNear)
      BY <1>7, FS_RemoveElement
    <3> QED
      BY <1>7, <1>9, <3>1, <3>2
  <2>2. n # 0
    BY <1>7, <1>9, FS_EmptySet
  <2> QED
    BY <2>1, <2>2
<1>11. q.k <= (n - 1) * MaxReplicas
  BY <1>0, <1>1, <1>6, <1>8, <1>10, PlacesFew
<1>12. MaxReplicas >= 1
  <2>1. found[j] \in DOMAIN final
    BY <1>1, <1>3 DEF SearchOf
  <2>2. Builder!Rank(v, found[j]) \in Nat
    BY <1>0, <2>1, RankFacts
  <2>3. Builder!Rank(v, found[j]) < MaxReplicas
    BY <1>5 DEF Builder!Closure
  <2> QED
    BY <1>0, <2>2, <2>3
<1>13. MaxReplicas * n <= q.k
  BY <1>2, <1>9
<1>14. MaxReplicas * n = (n - 1) * MaxReplicas + MaxReplicas /\ (n - 1) * MaxReplicas \in Nat
  <2>1. PICK m \in Nat : n = m + 1
    <3>1. n - 1 \in Nat /\ n = n - 1 + 1
      BY <1>10
    <3> QED
      BY <3>1
  <2>2. n - 1 = m
    BY <2>1
  <2>3. MaxReplicas * (m + 1) = m * MaxReplicas + MaxReplicas /\ m * MaxReplicas \in Nat
    BY <1>0
  <2> QED
    BY <2>1, <2>2, <2>3
<1> QED
  BY <1>0, <1>2, <1>11, <1>12, <1>13, <1>14

-----------------------------------------------------------------------------
\* Splitting, evening out and stacking neither lose a row nor put one in two
\* clusters, and the builder is given clusters that hold something, and no more
\* than max_cluster_size of it.
THEOREM ClustersPartition == Spec => []Partition
BY Invariance, PartitionHolds, PTL

\* A split makes progress, if it is a split at all, unless one value fills a sample
\* k-means may train on and the evening out moves nothing.
THEOREM SplitsProgress == Branching # 1 => (Spec => []NeverWhole)
<1>1. ASSUME Branching # 1
      PROVE  Spec => []NeverWhole
  <2>1. IInv => NeverWhole
    BY <1>1, NeverWholeHolds
  <2> QED
    BY <2>1, Invariance, PTL
<1> QED
  BY <1>1

\* Each vector is in the lists the closure rule names, and in no other.
THEOREM ListsExact == Spec => []ReplicasExact
BY Invariance, ReplicasExactHolds, PTL

\* The k / max_replicas nearest of the vectors in the lists searched are found.
THEOREM RoomForReplicas == Spec => []NotCrowdedOut
BY Invariance, NotCrowdedOutHolds, PTL

\* Every vector is its own nearest neighbour: when the graph finds the centroids
\* nearest it, a query for it is answered at distance 0, whatever the pruning
\* threshold, if the builder may assign a vector to a list at all.
THEOREM FindsItselfAlways == MaxReplicas > 0 => (Spec => []FindsItself)
<1>1. ASSUME MaxReplicas > 0
      PROVE  Spec => []FindsItself
  <2>1. IInv => FindsItself
    BY <1>1, FindsItselfHolds
  <2> QED
    BY <2>1, Invariance, PTL
<1> QED
  BY <1>1
=============================================================================
