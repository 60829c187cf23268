------------------------- MODULE IndexSearchProofs -------------------------
(***************************************************************************)
(* One query to an index of either kind, whatever its size: what the heap  *)
(* has lost is beaten, the best clusters are probed, the answer is a top k *)
(* of the vectors the filter accepts.                                      *)
(***************************************************************************)
EXTENDS IndexSearch, FiniteSetTheorems, TLAPS

-----------------------------------------------------------------------------
(* Bounded heaps: what a push preserves, for every heap and entry. *)

\* Heaps of entries with finite distances.
IsHeap(H, k) ==
  /\ IsFiniteSet(H)
  /\ Cardinality(H) <= k
  /\ \A x \in H : x.dist \in Int

\* H is full, and with entries no further than d.
FullWithin(H, k, d) == Cardinality(H) = k /\ \A x \in H : x.dist <= d

\* A push into a heap that has room keeps everything; into a full one, it
\* keeps all but one entry, and that one is the furthest.  Either way it
\* gives a heap, and what is not kept is beaten by k entries.
LEMMA PushOutcome ==
  ASSUME NEW k \in Nat, NEW H, IsHeap(H, k),
         NEW e, e.dist \in Int, NEW G \in Push(H, e, k)
  PROVE  /\ IsHeap(G, k)
         /\ G \subseteq H \cup {e}
         /\ \A x \in H \cup {e} : x \in G \/ FullWithin(G, k, x.dist)
         /\ \A d \in Int : FullWithin(H, k, d) => FullWithin(G, k, d)
         /\ Cardinality(H) = k => Cardinality(G) = k
<1> DEFINE U == H \cup {e}
<1>1. /\ IsFiniteSet(U) /\ Cardinality(U) \in Nat /\ Cardinality(H) \in Nat
      /\ Cardinality(U) = IF e \in H THEN Cardinality(H) ELSE Cardinality(H) + 1
      /\ \A x \in U : x.dist \in Int
  BY FS_AddElement, FS_CardinalityType DEF IsHeap
<1>2. CASE Cardinality(U) <= k
  <2>1. G = U
    BY <1>1, <1>2 DEF Push
  <2>2. ASSUME NEW d \in Int, FullWithin(H, k, d)
        PROVE  FullWithin(G, k, d)
    <3>1. e \in H
      BY <1>1, <1>2, <2>2 DEF FullWithin
    <3>2. G = H
      BY <2>1, <3>1
    <3> QED
      BY <2>2, <3>2
  <2>3. Cardinality(H) = k => Cardinality(G) = k
    BY <1>1, <1>2, <2>1 DEF IsHeap
  <2> QED
    BY <1>1, <1>2, <2>1, <2>2, <2>3 DEF IsHeap
<1>3. CASE Cardinality(U) > k
  <2>1. PICK m \in U : G = U \ {m} /\ \A x \in U : x.dist <= m.dist
    BY <1>3 DEF Push, Tops
  <2>2. Cardinality(H) = k /\ e \notin H /\ Cardinality(U) = k + 1
    BY <1>1, <1>3 DEF IsHeap
  <2>3. IsFiniteSet(G) /\ Cardinality(G) = k
    <3> HIDE DEF U
    <3>1. IsFiniteSet(U \ {m}) /\ Cardinality(U \ {m}) = Cardinality(U) - 1
      BY <1>1, FS_RemoveElement
    <3> QED
      BY <2>1, <2>2, <3>1
  <2>4. IsHeap(G, k)
    BY <1>1, <2>1, <2>3 DEF IsHeap
  <2>5. \A x \in U : x \in G \/ FullWithin(G, k, x.dist)
    BY <1>1, <2>1, <2>3 DEF FullWithin
  <2>6. ASSUME NEW d \in Int, FullWithin(H, k, d)
        PROVE  FullWithin(G, k, d)
    <3>1. \A x \in H : x.dist <= d
      BY <2>6 DEF FullWithin
    <3>2. CASE m = e
      BY <2>1, <2>3, <3>1, <3>2 DEF FullWithin
    <3>3. CASE m # e
      <4>1. e.dist <= m.dist /\ m.dist <= d
        BY <2>1, <3>1, <3>3
      <4>2. e.dist <= d
        BY <4>1, <1>1
      <4> QED
        BY <2>1, <2>3, <3>1, <4>2 DEF FullWithin
    <3> QED
      BY <3>2, <3>3
  <2> QED
    BY <2>1, <2>3, <2>4, <2>5, <2>6
<1> QED
  BY <1>1, <1>2, <1>3

\* Without a fallback, a finite k-th distance means the heap is full within it.
LEMMA DistkUnseeded ==
  ASSUME NEW k \in Nat, NEW H, IsHeap(H, k), NEW d \in Distk(H, k, Inf)
  PROVE  /\ d \in Int \cup {Inf}
         /\ d # Inf => FullWithin(H, k, d)
<1>1. CASE Cardinality(H) < k \/ H = {}
  <2>1. d = Inf
    BY <1>1 DEF Distk
  <2> QED
    BY <2>1
<1>2. CASE ~(Cardinality(H) < k \/ H = {})
  <2>1. PICK m \in H : d = MinF(m.dist, Inf) /\ \A x \in H : x.dist <= m.dist
    BY <1>2 DEF Distk, Tops
  <2>2. m.dist \in Int /\ Cardinality(H) = k
    BY <1>2, FS_CardinalityType DEF IsHeap
  <2>3. d = m.dist
    BY <2>1, <2>2, InfAssumption DEF MinF
  <2> QED
    BY <2>1, <2>2, <2>3 DEF FullWithin
<1> QED
  BY <1>1, <1>2

-----------------------------------------------------------------------------
USE SearchAssumption, InfAssumption

\* What a heap has not lost: it holds it, or k others that are no further.
Covered(c, H, k) ==
  c \in H \/ (Cardinality(H) = k /\ (c.sound => \A x \in H : x.dist <= c.dist))

IvfInv ==
  /\ input \in IvfInputs
  /\ Ivf!TypeOK /\ IsHeap(heap, input.k)
  /\ phase = "start" => heap = {} /\ probed = {} /\ pos = 1
  /\ phase = "error" => heap = {}
  /\ phase = "probe" => input.k > 0
  /\ Ivf!NothingLost
  /\ phase = "done" => \A c \in Ivf!Offered : Covered(c, heap, input.k)
  /\ \A c \in probed : \A b \in Ivf!Clusters \ probed : Ivf!Before(c, b)
  /\ phase = "done" /\ input.k > 0 => probed = Ivf!Probes

FlatInv ==
  /\ input \in FlatInputs
  /\ Flat!TypeOK /\ IsHeap(heap, input.k)
  /\ heap \subseteq Flat!Offered
  /\ phase = "start" => heap = {} /\ pos = 1
  /\ phase = "error" => heap = {}
  /\ phase = "scan" => input.k > 0
  /\ phase \in {"scan", "done"} =>
       \A c \in Flat!Offered :
         phase = "done" \/ c.at < pos => Covered(c, heap, input.k)

(* The inductive invariant, for the kind the query goes to. *)
IInv == (kind = "Ivf" /\ IvfInv) \/ (kind = "BruteForce" /\ FlatInv)

-----------------------------------------------------------------------------
\* The two searches and this module count and push alike.
LEMMA SameHeap ==
  ASSUME NEW S, NEW e, NEW k, NEW f
  PROVE  /\ Ivf!Cardinality(S) = Cardinality(S)
         /\ Flat!Cardinality(S) = Cardinality(S)
         /\ Ivf!Push(S, e, k) = Push(S, e, k)
         /\ Flat!Push(S, e, k) = Push(S, e, k)
         /\ Ivf!Distk(S, k, f) = Distk(S, k, f)
<1>1. /\ Ivf!Cardinality(S) = Cardinality(S)
      /\ Flat!Cardinality(S) = Cardinality(S)
  BY DEF Ivf!Cardinality, Flat!Cardinality, Cardinality
<1>2. /\ Ivf!Cardinality(S \cup {e}) = Cardinality(S \cup {e})
      /\ Flat!Cardinality(S \cup {e}) = Cardinality(S \cup {e})
  BY DEF Ivf!Cardinality, Flat!Cardinality, Cardinality
<1> QED
  BY <1>1, <1>2 DEF Ivf!Push, Flat!Push, Push, Ivf!Distk, Distk, Ivf!Tops, Flat!Tops,
                    Tops, Ivf!MinF, MinF

\* A candidate that is held or beaten stays so when another is pushed, and so is
\* the one that is pushed.
LEMMA CoverKept ==
  ASSUME NEW k \in Nat, NEW H, IsHeap(H, k), NEW e, e.dist \in Int,
         NEW G \in Push(H, e, k), NEW c, c.dist \in Int, c = e \/ Covered(c, H, k)
  PROVE  Covered(c, G, k)
<1>1. /\ \A x \in H \cup {e} : x \in G \/ FullWithin(G, k, x.dist)
      /\ FullWithin(H, k, c.dist) => FullWithin(G, k, c.dist)
      /\ Cardinality(H) = k => Cardinality(G) = k
  BY PushOutcome
<1>2. CASE c \in H \cup {e}
  BY <1>1, <1>2 DEF Covered, FullWithin
<1>3. CASE c \notin H \cup {e}
  BY <1>1, <1>3 DEF Covered, FullWithin
<1> QED
  BY <1>2, <1>3

-----------------------------------------------------------------------------
(* The data an IVF query reads.                                            *)

\* Clusters, their lists and the bounds have the types the code gives them.
LEMMA IvfData ==
  ASSUME input \in IvfInputs
  PROVE  /\ input.k \in Nat /\ input.nprobe \in Nat
         /\ Len(input.clusters) \in Nat
         /\ Ivf!Clusters = 1..Len(input.clusters)
         /\ \A c \in Ivf!Clusters :
              /\ input.clusters[c].score \in Int
              /\ Len(Ivf!Slots(c)) \in Nat
              /\ DOMAIN Ivf!Slots(c) = 1..Len(Ivf!Slots(c))
              /\ \A i \in DOMAIN Ivf!Slots(c) :
                   /\ Ivf!LowerBound(c, i) \in Int
                   /\ Ivf!Slots(c)[i].dist \in Int \cup {Inf}
<1>1. input \in Ivf!Input
  BY DEF Ivf!IvfAssumption
<1>2. /\ input.k \in Nat /\ input.nprobe \in Nat /\ input.metric \in Ivf!Metrics
      /\ input.clusters \in Seq(Ivf!Cluster)
  BY <1>1 DEF Ivf!Input
<1>3. /\ Len(input.clusters) \in Nat /\ Ivf!Clusters = 1..Len(input.clusters)
  BY <1>2 DEF Ivf!Clusters
<1>4. ASSUME NEW c \in Ivf!Clusters
      PROVE  /\ input.clusters[c].score \in Int /\ input.clusters[c].floor \in Int
             /\ Ivf!Slots(c) \in Seq(Ivf!Slot)
  <2>1. input.clusters[c] \in Ivf!Cluster
    BY <1>2, <1>3
  <2> QED
    BY <2>1 DEF Ivf!Cluster, Ivf!Slots
<1>5. ASSUME NEW c \in Ivf!Clusters, NEW i \in DOMAIN Ivf!Slots(c)
      PROVE  /\ Ivf!LowerBound(c, i) \in Int
             /\ Ivf!Slots(c)[i].dist \in Int \cup {Inf}
  <2>1. Ivf!Slots(c)[i] \in Ivf!Slot
    BY <1>4
  <2>2. Ivf!Slots(c)[i].lb \in Int \cup {Inf} /\ Ivf!Slots(c)[i].dist \in Int \cup {Inf}
    BY <2>1 DEF Ivf!Slot
  <2>3. Ivf!LowerBound(c, i) \in Int
    BY <1>2, <1>4, <2>2 DEF Ivf!LowerBound, Ivf!Sanitize, Ivf!Metrics
  <2> QED
    BY <2>2, <2>3
<1> QED
  BY <1>2, <1>3, <1>4, <1>5

\* The candidates of a query are the accepted slots with a distance.
LEMMA IvfOffered ==
  ASSUME input \in IvfInputs
  PROVE  /\ \A c \in Ivf!Probes : \A i \in DOMAIN Ivf!Slots(c) :
              Ivf!Accepts(Ivf!Slots(c)[i].id) /\ Ivf!Slots(c)[i].dist # Inf
                => Ivf!Candidate(c, i) \in Ivf!Offered
         /\ \A x \in Ivf!Offered :
              /\ x.dist \in Int
              /\ x.at[1] \in Ivf!Probes /\ x.at[2] \in DOMAIN Ivf!Slots(x.at[1])
              /\ Ivf!Accepts(Ivf!Slots(x.at[1])[x.at[2]].id)
              /\ Ivf!Slots(x.at[1])[x.at[2]].dist # Inf
              /\ x = Ivf!Candidate(x.at[1], x.at[2])
<1>1. ASSUME NEW x \in Ivf!Offered
      PROVE  \E c \in Ivf!Probes : \E i \in DOMAIN Ivf!Slots(c) :
               /\ Ivf!Accepts(Ivf!Slots(c)[i].id) /\ Ivf!Slots(c)[i].dist # Inf
               /\ x = Ivf!Candidate(c, i)
  BY <1>1 DEF Ivf!Offered
<1>2. ASSUME NEW c \in Ivf!Probes, NEW i \in DOMAIN Ivf!Slots(c),
             Ivf!Accepts(Ivf!Slots(c)[i].id), Ivf!Slots(c)[i].dist # Inf
      PROVE  /\ Ivf!Candidate(c, i) \in Ivf!Offered
             /\ Ivf!Candidate(c, i).dist \in Int
             /\ Ivf!Candidate(c, i).at[1] = c /\ Ivf!Candidate(c, i).at[2] = i
  <2>1. Ivf!Candidate(c, i) \in Ivf!Offered
    BY <1>2 DEF Ivf!Offered
  <2>2. Ivf!Slots(c)[i].dist \in Int
    BY <1>2, IvfData DEF Ivf!Probes
  <2> QED
    BY <2>1, <2>2 DEF Ivf!Candidate
<1> QED
  BY <1>1, <1>2

\* Nothing a query reads changes while it runs.
LEMMA IvfSame ==
  ASSUME input' = input
  PROVE  /\ Ivf!Clusters' = Ivf!Clusters /\ Ivf!Probes' = Ivf!Probes
         /\ Ivf!Offered' = Ivf!Offered
         /\ \A a, b : Ivf!Before(a, b)' <=> Ivf!Before(a, b)
         /\ \A c : Ivf!Slots(c)' = Ivf!Slots(c)
         /\ Ivf!NProbe' = Ivf!NProbe
BY DEF Ivf!Clusters, Ivf!Probes, Ivf!Offered, Ivf!Before, Ivf!Slots, Ivf!NProbe,
       Ivf!Rank, Ivf!Candidate, Ivf!LowerBound, Ivf!Sanitize, Ivf!Accepts

-----------------------------------------------------------------------------
(* The clusters an IVF query probes.                                       *)

\* The sort key orders the clusters, ties or not.
LEMMA BeforeOrder ==
  ASSUME input \in IvfInputs,
         NEW a \in Ivf!Clusters, NEW b \in Ivf!Clusters, NEW c \in Ivf!Clusters
  PROVE  /\ ~Ivf!Before(a, a)
         /\ a = b \/ Ivf!Before(a, b) \/ Ivf!Before(b, a)
         /\ Ivf!Before(a, b) /\ Ivf!Before(b, c) => Ivf!Before(a, c)
<1>1. /\ a \in Int /\ b \in Int /\ c \in Int
      /\ input.clusters[a].score \in Int /\ input.clusters[b].score \in Int
      /\ input.clusters[c].score \in Int
  BY IvfData
<1> QED
  BY <1>1 DEF Ivf!Before

\* What comes before a cluster, of which there are Rank - 1.
Ahead(c) == {b \in Ivf!Clusters : Ivf!Before(b, c)}

LEMMA AheadFinite ==
  ASSUME input \in IvfInputs, NEW c \in Ivf!Clusters
  PROVE  /\ IsFiniteSet(Ivf!Clusters) /\ Cardinality(Ivf!Clusters) = Len(input.clusters)
         /\ IsFiniteSet(Ahead(c)) /\ Cardinality(Ahead(c)) \in Nat
         /\ Ivf!Rank(c) = 1 + Cardinality(Ahead(c))
         /\ Ivf!Rank(c) \in 1..Len(input.clusters)
<1>1. IsFiniteSet(Ivf!Clusters) /\ Cardinality(Ivf!Clusters) = Len(input.clusters)
  <2>1. Ivf!Clusters = 1..Len(input.clusters) /\ Len(input.clusters) \in Nat
    BY IvfData
  <2>2. /\ IsFiniteSet(1..Len(input.clusters))
        /\ Cardinality(1..Len(input.clusters))
             = IF 1 > Len(input.clusters) THEN 0 ELSE Len(input.clusters) - 1 + 1
    BY <2>1, FS_Interval
  <2> QED
    BY <2>1, <2>2
<1>2. Ahead(c) \subseteq Ivf!Clusters \ {c}
  BY BeforeOrder DEF Ahead
<1>3. /\ IsFiniteSet(Ivf!Clusters \ {c})
      /\ Cardinality(Ivf!Clusters \ {c}) = Len(input.clusters) - 1
  BY <1>1, FS_RemoveElement
<1>4. /\ IsFiniteSet(Ahead(c)) /\ Cardinality(Ahead(c)) \in Nat
      /\ Cardinality(Ahead(c)) <= Len(input.clusters) - 1
  BY <1>2, <1>3, FS_Subset, FS_CardinalityType
<1>5. Ivf!Rank(c) = 1 + Cardinality(Ahead(c))
  BY SameHeap DEF Ivf!Rank, Ahead
<1> QED
  BY <1>1, <1>4, <1>5, IvfData

\* A cluster that comes before another has a lower rank.
LEMMA RankMonotone ==
  ASSUME input \in IvfInputs,
         NEW a \in Ivf!Clusters, NEW b \in Ivf!Clusters, Ivf!Before(a, b)
  PROVE  Ivf!Rank(a) < Ivf!Rank(b)
<1>1. Ahead(a) \subseteq Ahead(b) /\ a \in Ahead(b) /\ a \notin Ahead(a)
  BY BeforeOrder DEF Ahead
<1>2. /\ IsFiniteSet(Ahead(a)) /\ Cardinality(Ahead(a)) \in Nat
      /\ IsFiniteSet(Ahead(b)) /\ Cardinality(Ahead(b)) \in Nat
      /\ Ivf!Rank(a) = 1 + Cardinality(Ahead(a))
      /\ Ivf!Rank(b) = 1 + Cardinality(Ahead(b))
  BY AheadFinite
<1>3. /\ Cardinality(Ahead(a)) <= Cardinality(Ahead(b))
      /\ Cardinality(Ahead(a)) = Cardinality(Ahead(b)) => Ahead(a) = Ahead(b)
  BY <1>1, <1>2, FS_Subset
<1> QED
  BY <1>1, <1>2, <1>3

\* Clusters that are probed come before those that are not.
LEMMA ProbedBefore ==
  ASSUME input \in IvfInputs, NEW c \in Ivf!Probes, NEW b \in Ivf!Clusters \ Ivf!Probes
  PROVE  Ivf!Before(c, b)
<1>1. c \in Ivf!Clusters /\ b \in Ivf!Clusters /\ b # c
  BY DEF Ivf!Probes
<1>2. Ivf!Rank(c) <= Ivf!NProbe /\ ~(Ivf!Rank(b) <= Ivf!NProbe)
  BY DEF Ivf!Probes
<1>3. ~Ivf!Before(b, c)
  <2> SUFFICES ASSUME Ivf!Before(b, c) PROVE FALSE
    OBVIOUS
  <2>1. Ivf!Rank(b) < Ivf!Rank(c)
    BY <1>1, RankMonotone
  <2>2. Ivf!Rank(b) \in Int /\ Ivf!Rank(c) \in Int /\ Ivf!NProbe \in Int
    BY <1>1, AheadFinite, IvfData DEF Ivf!NProbe
  <2> QED
    BY <1>2, <2>1, <2>2
<1> QED
  BY <1>1, <1>3, BeforeOrder

\* Exactly min(max(nprobe, 1), nlist) clusters are probed, whatever is tied:
\* ranks number the clusters from 1 on, each once.
LEMMA ProbesCount ==
  ASSUME input \in IvfInputs
  PROVE  IsFiniteSet(Ivf!Probes) /\ Cardinality(Ivf!Probes) = Ivf!NProbe
<1> DEFINE n == Len(input.clusters)
           rank == [c \in Ivf!Clusters |-> Ivf!Rank(c)]
           part == [c \in Ivf!Probes |-> Ivf!Rank(c)]
<1>1. /\ n \in Nat /\ Ivf!Clusters = 1..n /\ Ivf!NProbe \in 0..n
  BY IvfData DEF Ivf!NProbe
<1>2. \A c \in Ivf!Clusters : Ivf!Rank(c) \in 1..n
  BY AheadFinite
<1>3. \A a, b \in Ivf!Clusters : Ivf!Rank(a) = Ivf!Rank(b) => a = b
  <2> SUFFICES ASSUME NEW a \in Ivf!Clusters, NEW b \in Ivf!Clusters, a # b
               PROVE  Ivf!Rank(a) # Ivf!Rank(b)
    OBVIOUS
  <2>1. Ivf!Rank(a) \in Int /\ Ivf!Rank(b) \in Int
    BY <1>2
  <2>2. Ivf!Before(a, b) \/ Ivf!Before(b, a)
    BY BeforeOrder
  <2>3. Ivf!Rank(a) < Ivf!Rank(b) \/ Ivf!Rank(b) < Ivf!Rank(a)
    BY <2>2, RankMonotone
  <2> QED
    BY <2>1, <2>3
<1>4. IsFiniteSet(1..n)
  BY <1>1, FS_Interval
<1>5. rank \in Surjection(1..n, 1..n)
  <2>1. rank \in Injection(1..n, 1..n)
    BY <1>1, <1>2, <1>3 DEF Injection, IsInjective
  <2> QED
    BY <1>4, <2>1, FS_Injection
<1>6. part \in Bijection(Ivf!Probes, 1..Ivf!NProbe)
  <2>1. part \in [Ivf!Probes -> 1..Ivf!NProbe]
    BY <1>1, <1>2 DEF Ivf!Probes
  <2>2. \A a, b \in Ivf!Probes : part[a] = part[b] => a = b
    BY <1>3 DEF Ivf!Probes
  <2>3. \A r \in 1..Ivf!NProbe : \E c \in Ivf!Probes : part[c] = r
    <3> SUFFICES ASSUME NEW r \in 1..Ivf!NProbe
                 PROVE  \E c \in Ivf!Probes : part[c] = r
      OBVIOUS
    <3>1. r \in 1..n
      BY <1>1
    <3>2. PICK c \in 1..n : rank[c] = r
      BY <1>5, <3>1 DEF Surjection
    <3>3. c \in Ivf!Probes
      BY <1>1, <3>2 DEF Ivf!Probes
    <3> QED
      BY <1>1, <3>2, <3>3
  <2> QED
    BY <2>1, <2>2, <2>3 DEF Bijection, Injection, Surjection, IsInjective
<1>7. Cardinality(1..Ivf!NProbe) = Ivf!NProbe
  BY <1>1, FS_Interval
<1>8. /\ IsFiniteSet(Ivf!Probes)
      /\ Cardinality(1..Ivf!NProbe) = Cardinality(Ivf!Probes)
  <2>1. IsFiniteSet(Ivf!Probes)
    BY <1>1, <1>4, FS_Subset DEF Ivf!Probes
  <2>2. ExistsBijection(Ivf!Probes, 1..Ivf!NProbe)
    BY <1>6 DEF ExistsBijection
  <2> QED
    BY <2>1, <2>2, FS_Bijection
<1> QED
  BY <1>7, <1>8

-----------------------------------------------------------------------------
(* An IVF query keeps IvfInv: one lemma per action.                        *)

LEMMA IvfInitInv == Ivf!Init => IvfInv
<1> SUFFICES ASSUME Ivf!Init PROVE IvfInv
  OBVIOUS
<1>1. /\ input \in IvfInputs /\ phase = "start" /\ probed = {} /\ pos = 1 /\ heap = {}
      /\ input.k \in Nat
  BY IvfData DEF Ivf!Init
<1>2. IsFiniteSet({}) /\ Cardinality({}) = 0 /\ Ivf!Cardinality({}) = 0
  BY FS_EmptySet, SameHeap
<1>3. IsHeap(heap, input.k) /\ Ivf!TypeOK
  BY <1>1, <1>2 DEF IsHeap, Ivf!TypeOK
<1> QED
  BY <1>1, <1>3 DEF IvfInv, Ivf!NothingLost

\* The error and the empty answer, or the first cluster.
LEMMA IvfStartInv ==
  ASSUME IvfInv, Ivf!Reject \/ Ivf!Start
  PROVE  IvfInv'
<1>1. /\ input' = input /\ probed' = probed /\ pos' = pos /\ heap' = heap
      /\ phase = "start" /\ phase' \in {"error", "done", "probe"}
      /\ phase' = "done" => input.k = 0
      /\ phase' = "probe" => input.k # 0
  BY DEF Ivf!Reject, Ivf!Start
<1>2. /\ input \in IvfInputs /\ input.k \in Nat
      /\ heap = {} /\ probed = {} /\ pos = 1 /\ IsHeap(heap, input.k) /\ Ivf!TypeOK
  BY <1>1, IvfData DEF IvfInv
<1>3. /\ Ivf!Clusters' = Ivf!Clusters /\ Ivf!Probes' = Ivf!Probes
      /\ Ivf!Offered' = Ivf!Offered
  BY <1>1, IvfSame
<1>4. Ivf!TypeOK' /\ IsHeap(heap, input.k)'
  BY <1>1, <1>2, <1>3 DEF Ivf!TypeOK, IsHeap
<1>5. phase' = "done" => \A c \in Ivf!Offered : Covered(c, heap', input'.k)
  BY <1>1, <1>2, FS_EmptySet DEF Covered
<1>6. Ivf!NothingLost'
  <2>1. \A c \in Ivf!Offered' : c.at[2] \in Nat \ {0}
    BY <1>2, <1>3, IvfOffered, IvfData DEF Ivf!Probes
  <2> QED
    BY <1>1, <1>2, <1>3, <2>1 DEF Ivf!NothingLost
<1> QED
  BY <1>1, <1>2, <1>3, <1>4, <1>5, <1>6 DEF IvfInv

\* What is said of lost candidates is said with Covered.
Seen(x) == x.at[1] \in probed \/ (Ivf!Current(x.at[1]) /\ x.at[2] < pos)
LEMMA IvfLost ==
  Ivf!NothingLost <=>
    (phase = "probe" => \A x \in Ivf!Offered : Seen(x) => Covered(x, heap, input.k))
BY SameHeap DEF Ivf!NothingLost, Seen, Covered

\* Only one cluster is current.
LEMMA IvfCurrentUnique ==
  ASSUME input \in IvfInputs, NEW a, NEW b, Ivf!Current(a), Ivf!Current(b)
  PROVE  a = b
<1>1. a \in Ivf!Clusters /\ b \in Ivf!Clusters
  BY DEF Ivf!Current, Ivf!Probes
<1>2. a = b \/ (Ivf!Before(a, b) /\ Ivf!Before(b, a))
  BY DEF Ivf!Current
<1> QED
  BY <1>1, <1>2, BeforeOrder

\* What a step of the scan does to the heap: nothing it held or was offered is
\* lost, whether the slot is dropped, because the filter, the bound or the
\* distance says so, or pushed.
LEMMA IvfScanHeap ==
  ASSUME IvfInv, NEW c \in Ivf!Clusters, Ivf!Scan(c)
  PROVE  /\ IsHeap(heap', input.k) /\ heap' \subseteq Ivf!Offered
         /\ \A x \in Ivf!Offered :
              Covered(x, heap, input.k) \/ x = Ivf!Candidate(c, pos)
                => Covered(x, heap', input.k)
<1> DEFINE k == input.k
           new == Ivf!Candidate(c, pos)
           slot == Ivf!Slots(c)[pos]
<1>1. /\ input \in IvfInputs /\ k \in Nat /\ IsHeap(heap, k)
      /\ heap \subseteq Ivf!Offered
      /\ c \in Ivf!Probes /\ pos \in DOMAIN Ivf!Slots(c)
  BY IvfData DEF IvfInv, Ivf!Scan, Ivf!Current, Ivf!TypeOK
<1>2. /\ Ivf!LowerBound(c, pos) \in Int /\ slot.dist \in Int \cup {Inf}
      /\ new.dist = slot.dist /\ (new.sound => Ivf!LowerBound(c, pos) <= slot.dist)
      /\ new.at[1] = c /\ new.at[2] = pos
  BY <1>1, IvfData DEF Ivf!Candidate
<1>3. \A x \in Ivf!Offered : x.dist \in Int
  BY <1>1, IvfOffered
<1>4. PICK distk \in Distk(heap, k, Inf) :
        IF \/ ~Ivf!Accepts(slot.id)
           \/ Ivf!AtLeast(Ivf!LowerBound(c, pos), distk)
           \/ slot.dist = Inf
        THEN heap' = heap
        ELSE heap' \in Push(heap, new, k)
  BY SameHeap DEF Ivf!Scan
<1>5. CASE ~Ivf!Accepts(slot.id) \/ slot.dist = Inf
  <2>1. new \notin Ivf!Offered
    BY <1>1, <1>2, <1>5, IvfOffered
  <2> QED
    BY <1>1, <1>4, <1>5, <2>1
<1>6. CASE /\ ~(~Ivf!Accepts(slot.id) \/ slot.dist = Inf)
           /\ Ivf!AtLeast(Ivf!LowerBound(c, pos), distk)
  <2>1. heap' = heap
    BY <1>4, <1>6
  <2>2. distk \in Int /\ Ivf!LowerBound(c, pos) >= distk /\ FullWithin(heap, k, distk)
    BY <1>1, <1>6, DistkUnseeded DEF Ivf!AtLeast
  <2>3. new.sound => distk <= new.dist
    BY <1>2, <1>6, <2>2
  <2>4. \A x \in heap : x.dist \in Int
    BY <1>1 DEF IsHeap
  <2>5. Covered(new, heap, k)
    BY <1>2, <1>6, <2>2, <2>3, <2>4 DEF Covered, FullWithin
  <2> QED
    BY <1>1, <2>1, <2>5
<1>7. CASE /\ ~(~Ivf!Accepts(slot.id) \/ slot.dist = Inf)
           /\ ~Ivf!AtLeast(Ivf!LowerBound(c, pos), distk)
  <2>1. heap' \in Push(heap, new, k)
    BY <1>4, <1>7
  <2>2. new \in Ivf!Offered /\ new.dist \in Int
    BY <1>1, <1>2, <1>7, IvfOffered
  <2>3. IsHeap(heap', k) /\ heap' \subseteq heap \cup {new}
    BY <1>1, <2>1, <2>2, PushOutcome
  <2>4. ASSUME NEW x \in Ivf!Offered, Covered(x, heap, k) \/ x = new
        PROVE  Covered(x, heap', k)
    BY <1>1, <1>3, <2>1, <2>2, <2>4, CoverKept
  <2> QED
    BY <1>1, <2>2, <2>3, <2>4
<1> QED
  BY <1>5, <1>6, <1>7

LEMMA IvfScanInv ==
  ASSUME IvfInv, NEW c \in Ivf!Clusters, Ivf!Scan(c)
  PROVE  IvfInv'
<1>1. /\ input \in IvfInputs /\ input.k > 0 /\ phase = "probe"
      /\ Ivf!TypeOK /\ Ivf!NothingLost
      /\ Ivf!Current(c) /\ pos \in Nat
      /\ input' = input /\ phase' = phase /\ probed' = probed /\ pos' = pos + 1
  BY DEF IvfInv, Ivf!Scan, Ivf!Current, Ivf!TypeOK
<1>2. /\ Ivf!Clusters' = Ivf!Clusters /\ Ivf!Probes' = Ivf!Probes
      /\ Ivf!Offered' = Ivf!Offered
      /\ \A a, b : Ivf!Before(a, b)' <=> Ivf!Before(a, b)
  BY <1>1, IvfSame
<1>3. /\ IsHeap(heap', input.k) /\ heap' \subseteq Ivf!Offered
      /\ \A x \in Ivf!Offered :
           Covered(x, heap, input.k) \/ x = Ivf!Candidate(c, pos)
             => Covered(x, heap', input.k)
  BY IvfScanHeap
<1>4. Ivf!TypeOK'
  BY <1>1, <1>2, <1>3, SameHeap DEF Ivf!TypeOK, IsHeap
<1>5. Ivf!NothingLost'
  <2>1. SUFFICES ASSUME NEW x \in Ivf!Offered, Seen(x)'
                 PROVE  Covered(x, heap', input.k)
    BY <1>1, <1>2, SameHeap DEF Ivf!NothingLost, Seen, Covered
  <2>2. x.at[1] \in Ivf!Probes /\ x.at[2] \in Nat
        /\ x = Ivf!Candidate(x.at[1], x.at[2])
    BY <1>1, IvfOffered, IvfData DEF Ivf!Probes
  <2>3. Ivf!Current(x.at[1])' <=> Ivf!Current(x.at[1])
    BY <1>1, <1>2 DEF Ivf!Current
  <2>4. CASE Seen(x)
    BY <1>1, <1>3, <2>4, IvfLost
  <2>5. CASE ~Seen(x)
    <3>1. Ivf!Current(x.at[1]) /\ x.at[2] = pos
      BY <1>1, <2>1, <2>2, <2>3, <2>5 DEF Seen
    <3>2. x.at[1] = c
      BY <1>1, <3>1, IvfCurrentUnique
    <3> QED
      BY <1>3, <2>2, <3>1, <3>2
  <2> QED
    BY <2>4, <2>5
<1> QED
  BY <1>1, <1>2, <1>3, <1>4, <1>5 DEF IvfInv

\* A cluster that has been scanned to its end is done with: all its candidates
\* have been seen, and it comes before all clusters that are not.
LEMMA IvfNextClusterInv ==
  ASSUME IvfInv, NEW c \in Ivf!Clusters, Ivf!NextCluster(c)
  PROVE  IvfInv'
<1>1. /\ input \in IvfInputs /\ input.k > 0 /\ phase = "probe"
      /\ Ivf!TypeOK /\ IsHeap(heap, input.k) /\ Ivf!NothingLost
      /\ Ivf!Current(c) /\ c \in Ivf!Probes /\ pos > Len(Ivf!Slots(c))
      /\ input' = input /\ phase' = phase /\ heap' = heap
      /\ probed' = probed \cup {c} /\ pos' = 1
      /\ \A a \in probed : \A b \in Ivf!Clusters \ probed : Ivf!Before(a, b)
  BY DEF IvfInv, Ivf!NextCluster, Ivf!Current
<1>2. /\ Ivf!Clusters' = Ivf!Clusters /\ Ivf!Probes' = Ivf!Probes
      /\ Ivf!Offered' = Ivf!Offered
      /\ \A a, b : Ivf!Before(a, b)' <=> Ivf!Before(a, b)
  BY <1>1, IvfSame
<1>3. Ivf!TypeOK' /\ IsHeap(heap, input.k)'
  BY <1>1, <1>2 DEF Ivf!TypeOK, IsHeap
<1>4. Ivf!NothingLost'
  <2>1. SUFFICES ASSUME NEW x \in Ivf!Offered, Seen(x)'
                 PROVE  Covered(x, heap, input.k)
    BY <1>1, <1>2, SameHeap DEF Ivf!NothingLost, Seen, Covered
  <2>2. /\ x.at[1] \in Ivf!Clusters /\ x.at[2] \in 1..Len(Ivf!Slots(x.at[1]))
        /\ Len(Ivf!Slots(x.at[1])) \in Nat
    BY <1>1, IvfOffered, IvfData DEF Ivf!Probes
  <2>3. x.at[1] \in probed \cup {c}
    BY <1>1, <2>1, <2>2 DEF Seen
  <2>4. pos \in Nat
    BY <1>1 DEF Ivf!TypeOK
  <2>5. Seen(x)
    BY <1>1, <2>2, <2>3, <2>4 DEF Seen
  <2> QED
    BY <1>1, <2>5, IvfLost
<1>5. ASSUME NEW a \in probed', NEW b \in Ivf!Clusters \ probed'
      PROVE  Ivf!Before(a, b)
  <2>1. CASE a \in probed
    BY <1>1, <1>5, <2>1
  <2>2. CASE a = c /\ b \in Ivf!Probes
    BY <1>1, <1>5, <2>2 DEF Ivf!Current
  <2>3. CASE a = c /\ b \notin Ivf!Probes
    BY <1>1, <1>5, <2>3, ProbedBefore
  <2> QED
    BY <1>1, <1>5, <2>1, <2>2, <2>3
<1> QED
  BY <1>1, <1>2, <1>3, <1>4, <1>5 DEF IvfInv

\* All clusters to probe have been, so all candidates have been seen.
LEMMA IvfFinishInv ==
  ASSUME IvfInv, Ivf!Finish
  PROVE  IvfInv'
<1>1. /\ input \in IvfInputs /\ phase = "probe" /\ probed = Ivf!Probes
      /\ Ivf!TypeOK /\ IsHeap(heap, input.k) /\ Ivf!NothingLost
      /\ input' = input /\ phase' = "done" /\ heap' = heap
      /\ probed' = probed /\ pos' = pos
      /\ \A a \in probed : \A b \in Ivf!Clusters \ probed : Ivf!Before(a, b)
  BY DEF IvfInv, Ivf!Finish
<1>2. /\ Ivf!Clusters' = Ivf!Clusters /\ Ivf!Probes' = Ivf!Probes
      /\ Ivf!Offered' = Ivf!Offered
      /\ \A a, b : Ivf!Before(a, b)' <=> Ivf!Before(a, b)
  BY <1>1, IvfSame
<1>3. Ivf!TypeOK' /\ IsHeap(heap, input.k)' /\ Ivf!NothingLost'
  BY <1>1, <1>2 DEF Ivf!TypeOK, IsHeap, Ivf!NothingLost
<1>4. \A x \in Ivf!Offered : Covered(x, heap, input.k)
  BY <1>1, IvfLost, IvfOffered DEF Seen
<1> QED
  BY <1>1, <1>2, <1>3, <1>4 DEF IvfInv

LEMMA IvfStutter ==
  ASSUME IvfInv, UNCHANGED <<input, phase, probed, pos, heap>>
  PROVE  IvfInv'
<1>1. /\ input' = input /\ phase' = phase /\ probed' = probed /\ pos' = pos
      /\ heap' = heap
  OBVIOUS
<1>2. /\ Ivf!Clusters' = Ivf!Clusters /\ Ivf!Probes' = Ivf!Probes
      /\ Ivf!Offered' = Ivf!Offered
      /\ \A a, b : Ivf!Before(a, b)' <=> Ivf!Before(a, b)
  BY <1>1, IvfSame
<1>3. /\ Ivf!TypeOK => Ivf!TypeOK'
      /\ IsHeap(heap, input.k) => IsHeap(heap, input.k)'
      /\ Ivf!NothingLost => Ivf!NothingLost'
  BY <1>1, <1>2 DEF Ivf!TypeOK, IsHeap, Ivf!NothingLost, Ivf!Current
<1> QED
  BY <1>1, <1>2, <1>3 DEF IvfInv

LEMMA IvfStep == IvfInv /\ Ivf!Next => IvfInv'
<1> SUFFICES ASSUME IvfInv, Ivf!Next PROVE IvfInv'
  OBVIOUS
<1>1. CASE Ivf!Reject \/ Ivf!Start
  BY <1>1, IvfStartInv
<1>2. CASE \E c \in Ivf!Clusters : Ivf!Scan(c) \/ Ivf!NextCluster(c)
  BY <1>2, IvfScanInv, IvfNextClusterInv
<1>3. CASE Ivf!Finish
  BY <1>3, IvfFinishInv
<1>4. CASE Ivf!Terminated
  BY <1>4, IvfStutter DEF Ivf!Terminated, Ivf!vars
<1> QED
  BY <1>1, <1>2, <1>3, <1>4 DEF Ivf!Next

-----------------------------------------------------------------------------
(* A brute-force query keeps FlatInv.                                      *)

\* Distances have the types the code gives them, and the id a filter is asked
\* with is the one it holds: no index has more vectors than 32 bits can tell.
LEMMA FlatData ==
  ASSUME input \in FlatInputs
  PROVE  /\ input.k \in Nat /\ Len(input.dists) \in Nat
         /\ Flat!Vectors = 1..Len(input.dists)
         /\ \A n \in Flat!Vectors :
              /\ input.dists[n] \in Int \cup {Inf}
              /\ Flat!Accepts(n) <=> (input.filtered => n - 1 \in input.filter)
<1>1. /\ input \in Flat!Input /\ Len(input.dists) <= IdSpan /\ IdSpan \in Nat \ {0}
  BY DEF Flat!FlatAssumption
<1>2. /\ input.k \in Nat /\ input.dists \in Seq(Int \cup {Inf})
  BY <1>1 DEF Flat!Input
<1>3. /\ Len(input.dists) \in Nat /\ Flat!Vectors = 1..Len(input.dists)
      /\ \A n \in Flat!Vectors : input.dists[n] \in Int \cup {Inf}
  BY <1>2 DEF Flat!Vectors
<1>4. ASSUME NEW n \in Flat!Vectors
      PROVE  (n - 1) % IdSpan = n - 1
  <2>1. n - 1 \in 0..IdSpan - 1
    BY <1>1, <1>3
  <2> QED
    BY <1>1, <2>1
<1> QED
  BY <1>2, <1>3, <1>4 DEF Flat!Accepts

\* The candidates of a query are the accepted vectors with a distance.
LEMMA FlatOffered ==
  ASSUME input \in FlatInputs
  PROVE  /\ \A n \in Flat!Vectors :
              Flat!Candidate(n) \in Flat!Offered
                <=> Flat!Accepts(n) /\ input.dists[n] # Inf
         /\ \A x \in Flat!Offered :
              x.dist \in Int /\ x.at \in Flat!Vectors /\ x = Flat!Candidate(x.at)
<1>1. \A n : Flat!Candidate(n).at = n /\ Flat!Candidate(n).dist = input.dists[n]
  BY DEF Flat!Candidate
<1>2. ASSUME NEW x \in Flat!Offered
      PROVE  \E n \in Flat!Vectors :
               /\ x = Flat!Candidate(n) /\ input.dists[n] # Inf
               /\ input.filtered => n - 1 \in input.filter
  BY <1>2 DEF Flat!Offered
<1>3. ASSUME NEW n \in Flat!Vectors, Flat!Accepts(n), input.dists[n] # Inf
      PROVE  Flat!Candidate(n) \in Flat!Offered
  BY <1>3, FlatData DEF Flat!Offered
<1>4. ASSUME NEW n \in Flat!Vectors, Flat!Candidate(n) \in Flat!Offered
      PROVE  Flat!Accepts(n) /\ input.dists[n] # Inf
  BY <1>1, <1>2, <1>4, FlatData
<1> QED
  BY <1>1, <1>2, <1>3, <1>4, FlatData

LEMMA FlatSame ==
  ASSUME input' = input
  PROVE  Flat!Vectors' = Flat!Vectors /\ Flat!Offered' = Flat!Offered
         /\ \A n : Flat!Candidate(n)' = Flat!Candidate(n)
BY DEF Flat!Vectors, Flat!Offered, Flat!Candidate

LEMMA FlatInitInv == Flat!Init => FlatInv
<1> SUFFICES ASSUME Flat!Init PROVE FlatInv
  OBVIOUS
<1>1. /\ input \in FlatInputs /\ phase = "start" /\ pos = 1 /\ heap = {}
      /\ input.k \in Nat
  BY FlatData DEF Flat!Init
<1>2. IsFiniteSet({}) /\ Cardinality({}) = 0 /\ Flat!Cardinality({}) = 0
  BY FS_EmptySet, SameHeap
<1> QED
  BY <1>1, <1>2 DEF IsHeap, Flat!TypeOK, FlatInv

LEMMA FlatStartInv ==
  ASSUME FlatInv, Flat!Reject \/ Flat!Start
  PROVE  FlatInv'
<1>1. /\ input' = input /\ pos' = pos /\ heap' = heap /\ phase = "start"
      /\ phase' \in {"error", "done", "scan"}
      /\ phase' = "done" => input.k = 0
      /\ phase' = "scan" => input.k # 0
  BY DEF Flat!Reject, Flat!Start
<1>2. /\ input \in FlatInputs /\ input.k \in Nat /\ heap = {} /\ pos = 1
      /\ IsHeap(heap, input.k) /\ Flat!TypeOK
  BY <1>1, FlatData DEF FlatInv
<1>3. /\ Flat!Vectors' = Flat!Vectors /\ Flat!Offered' = Flat!Offered
  BY <1>1, FlatSame
<1>4. Flat!TypeOK' /\ IsHeap(heap, input.k)'
  BY <1>1, <1>2, <1>3, FlatSame DEF Flat!TypeOK, IsHeap
<1>5. phase' = "done" => \A c \in Flat!Offered : Covered(c, heap', input'.k)
  BY <1>1, <1>2, FS_EmptySet DEF Covered
<1>6. \A c \in Flat!Offered : c.at \in Nat \ {0}
  BY <1>2, FlatOffered, FlatData
<1> QED
  BY <1>1, <1>2, <1>3, <1>4, <1>5, <1>6 DEF FlatInv

\* A vector is refused, or has no distance, or is pushed.
LEMMA FlatScanInv ==
  ASSUME FlatInv, Flat!Scan
  PROVE  FlatInv'
<1> DEFINE k == input.k
           new == Flat!Candidate(pos)
<1>1. /\ input \in FlatInputs /\ k \in Nat /\ k > 0 /\ phase = "scan"
      /\ Flat!TypeOK /\ IsHeap(heap, k) /\ heap \subseteq Flat!Offered
      /\ pos \in Flat!Vectors /\ pos \in Nat
      /\ input' = input /\ phase' = phase /\ pos' = pos + 1
      /\ \A c \in Flat!Offered : c.at < pos => Covered(c, heap, k)
  BY FlatData DEF FlatInv, Flat!Scan, Flat!TypeOK
<1>2. /\ Flat!Vectors' = Flat!Vectors /\ Flat!Offered' = Flat!Offered
  BY <1>1, FlatSame
<1>3. /\ IsHeap(heap', k) /\ heap' \subseteq Flat!Offered
      /\ \A c \in Flat!Offered :
           Covered(c, heap, k) \/ c = new => Covered(c, heap', k)
  <2>1. CASE ~Flat!Accepts(pos) \/ input.dists[pos] = Inf
    <3>1. heap' = heap /\ new \notin Flat!Offered
      BY <1>1, <2>1, FlatOffered DEF Flat!Scan
    <3> QED
      BY <1>1, <3>1
  <2>2. CASE ~(~Flat!Accepts(pos) \/ input.dists[pos] = Inf)
    <3>1. heap' \in Push(heap, new, k)
      BY <2>2, SameHeap DEF Flat!Scan
    <3>2. new \in Flat!Offered /\ new.dist \in Int
      BY <1>1, <2>2, FlatOffered
    <3>3. IsHeap(heap', k) /\ heap' \subseteq heap \cup {new}
      BY <1>1, <3>1, <3>2, PushOutcome
    <3>4. ASSUME NEW c \in Flat!Offered, Covered(c, heap, k) \/ c = new
          PROVE  Covered(c, heap', k)
      BY <1>1, <3>1, <3>2, <3>4, CoverKept, FlatOffered
    <3> QED
      BY <1>1, <3>2, <3>3, <3>4
  <2> QED
    BY <2>1, <2>2
<1>4. Flat!TypeOK'
  BY <1>1, <1>2, <1>3, SameHeap, FlatOffered, FlatSame DEF Flat!TypeOK, IsHeap
<1>5. ASSUME NEW c \in Flat!Offered, c.at < pos'
      PROVE  Covered(c, heap', k)
  <2>1. c.at \in Nat /\ c = Flat!Candidate(c.at)
    BY <1>1, FlatOffered, FlatData
  <2>2. c.at < pos \/ c = new
    BY <1>1, <1>5, <2>1
  <2> QED
    BY <1>1, <1>3, <2>2
<1> QED
  BY <1>1, <1>2, <1>3, <1>4, <1>5 DEF FlatInv

LEMMA FlatFinishInv ==
  ASSUME FlatInv, Flat!Finish
  PROVE  FlatInv'
<1>1. /\ input \in FlatInputs /\ phase = "scan" /\ pos \notin Flat!Vectors
      /\ Flat!TypeOK /\ IsHeap(heap, input.k) /\ heap \subseteq Flat!Offered
      /\ input' = input /\ phase' = "done" /\ heap' = heap /\ pos' = pos
      /\ \A c \in Flat!Offered : c.at < pos => Covered(c, heap, input.k)
  BY DEF FlatInv, Flat!Finish
<1>2. /\ Flat!Vectors' = Flat!Vectors /\ Flat!Offered' = Flat!Offered
  BY <1>1, FlatSame
<1>3. Flat!TypeOK' /\ IsHeap(heap, input.k)'
  BY <1>1, <1>2, FlatSame DEF Flat!TypeOK, IsHeap
<1>4. \A c \in Flat!Offered : c.at < pos
  BY <1>1, FlatOffered, FlatData DEF Flat!TypeOK
<1> QED
  BY <1>1, <1>2, <1>3, <1>4 DEF FlatInv

LEMMA FlatStutter ==
  ASSUME FlatInv, UNCHANGED <<input, phase, pos, heap>>
  PROVE  FlatInv'
<1>1. input' = input /\ phase' = phase /\ pos' = pos /\ heap' = heap
  OBVIOUS
<1>2. /\ Flat!Vectors' = Flat!Vectors /\ Flat!Offered' = Flat!Offered
  BY <1>1, FlatSame
<1>3. /\ Flat!TypeOK => Flat!TypeOK'
      /\ IsHeap(heap, input.k) => IsHeap(heap, input.k)'
  BY <1>1, <1>2, FlatSame DEF Flat!TypeOK, IsHeap
<1> QED
  BY <1>1, <1>2, <1>3 DEF FlatInv

LEMMA FlatStep == FlatInv /\ Flat!Next => FlatInv'
<1> SUFFICES ASSUME FlatInv, Flat!Next PROVE FlatInv'
  OBVIOUS
<1>1. CASE Flat!Terminated
  BY <1>1, FlatStutter DEF Flat!Terminated, Flat!vars
<1> QED
  BY <1>1, FlatStartInv, FlatScanInv, FlatFinishInv DEF Flat!Next

-----------------------------------------------------------------------------
(* The invariant, and what follows from it for either kind of index.       *)

LEMMA StepIInv == IInv /\ [Next]_vars => IInv'
<1> SUFFICES ASSUME IInv, [Next]_vars PROVE IInv'
  OBVIOUS
<1>1. CASE kind = "Ivf" /\ Ivf!Next /\ UNCHANGED kind
  BY <1>1, IvfStep DEF IInv
<1>2. CASE kind = "BruteForce" /\ Flat!Next /\ UNCHANGED <<kind, probed>>
  BY <1>2, FlatStep DEF IInv
<1>3. CASE UNCHANGED vars
  BY <1>3, IvfStutter, FlatStutter DEF IInv, vars
<1> QED
  BY <1>1, <1>2, <1>3 DEF Next

\* IInv holds in every state of every query.
THEOREM Invariance == Spec => []IInv
<1>1. Init => IInv
  BY IvfInitInv, FlatInitInv DEF Init, IInv
<1> QED
  BY <1>1, StepIInv, PTL DEF Spec

\* Whatever the index, the query, nprobe and the filter: the heap of neither
\* search holds more than top_k, and of the clusters an IVF query has been
\* through no accepted vector with a right bound is lost to a worse one.
THEOREM NoLoss == Spec => []NothingLost
<1>1. IInv => NothingLost
  BY DEF IInv, IvfInv, FlatInv, NothingLost, TypeOK
<1> QED
  BY <1>1, Invariance, PTL

\* An IVF query takes its clusters best first, and when it returns it has
\* searched exactly min(max(nprobe, 1), nlist) of them: the tie-break on the
\* cluster id leaves select_nth_unstable no choice.
THEOREM BestProbes == Spec => []ProbesBest
<1>1. IInv => ProbesBest
  <2> SUFFICES ASSUME IInv, kind = "Ivf" PROVE Ivf!ProbesBest
    BY DEF ProbesBest
  <2>1. IvfInv
    BY DEF IInv
  <2> QED
    BY <2>1, ProbesCount, SameHeap DEF IvfInv, Ivf!ProbesBest
<1> QED
  BY <1>1, Invariance, PTL

\* What the caller is offered, whatever the kind, and the heap at the end.
Choice == IF kind = "Ivf" THEN Ivf!Offered ELSE Flat!Offered

LEMMA ReturnedAnswer ==
  IInv /\ phase = "done" =>
    heap \subseteq Choice /\ Abstract!Promise(heap, Choice, input.k)
<1> SUFFICES ASSUME IInv, phase = "done"
             PROVE  heap \subseteq Choice /\ Abstract!Promise(heap, Choice, input.k)
  OBVIOUS
<1>1. /\ heap \subseteq Choice /\ IsHeap(heap, input.k) /\ input.k \in Nat
      /\ \A c \in Choice : Covered(c, heap, input.k)
  <2>1. CASE kind = "Ivf" /\ IvfInv
    BY <2>1, IvfData DEF IvfInv, Ivf!TypeOK, Choice
  <2>2. CASE kind = "BruteForce" /\ FlatInv
    BY <2>2, FlatData DEF FlatInv, Choice
  <2> QED
    BY <2>1, <2>2 DEF IInv
<1>2. /\ Abstract!Cardinality(heap) = Cardinality(heap)
  BY DEF Abstract!Cardinality, Cardinality
<1> QED
  BY <1>1, <1>2 DEF Abstract!Promise, IsHeap, Covered

\* Every answer of either index is a top k of the vectors the filter accepts.
THEOREM Refinement == Spec => Implements
<1>1. Init => Abstract!Init
  BY DEF Init, Ivf!Init, Flat!Init, Abstract!Init
<1>2. ASSUME IInv, [Next]_vars
      PROVE  [Abstract!Next]_(Abstract!vars)
  <2>1. input' = input /\ kind' = kind
    BY <1>2 DEF Next, vars, Ivf!Next, Ivf!vars, Ivf!Reject, Ivf!Start, Ivf!Scan,
                Ivf!NextCluster, Ivf!Finish, Ivf!Terminated, Flat!Next, Flat!vars,
                Flat!Reject, Flat!Start, Flat!Scan, Flat!Finish, Flat!Terminated
  <2>2. Ivf!Offered' = Ivf!Offered /\ Flat!Offered' = Flat!Offered
    BY <2>1, IvfSame, FlatSame
  <2>3. CASE phase = "done"
    <3>1. phase' = phase /\ heap' = heap
      BY <1>2, <2>3
         DEF Next, vars, Ivf!Next, Ivf!vars, Ivf!Reject, Ivf!Start, Ivf!Scan,
             Ivf!Current, Ivf!NextCluster, Ivf!Finish, Ivf!Terminated, Flat!Next,
             Flat!vars, Flat!Reject, Flat!Start, Flat!Scan, Flat!Finish, Flat!Terminated
    <3> QED
      BY <2>1, <2>2, <2>3, <3>1 DEF Abstract!vars
  <2>4. CASE phase # "done" /\ phase' # "done"
    BY <2>1, <2>2, <2>4 DEF Abstract!vars
  <2>5. CASE phase # "done" /\ phase' = "done"
    <3>1. (IInv /\ phase = "done")'
      BY <1>2, <2>5, StepIInv
    <3>2. (heap \subseteq Choice /\ Abstract!Promise(heap, Choice, input.k))'
      BY <3>1, ReturnedAnswer, PTL
    <3> QED
      BY <2>1, <2>2, <2>5, <3>2 DEF Abstract!Next, Abstract!Return, Choice
  <2> QED
    BY <2>3, <2>4, <2>5
<1> QED
  BY <1>1, <1>2, Invariance, PTL DEF Spec, Implements, Abstract!Spec
=============================================================================
