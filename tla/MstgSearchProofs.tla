-------------------------- MODULE MstgSearchProofs --------------------------
(***************************************************************************)
(* For every query, every posting list data, every top_k and every         *)
(* interleaving of the workers, MstgSearch keeps the promise of TopK.      *)
(*                                                                         *)
(* The argument is the inductive invariant IInv.  Pruning with a stale     *)
(* seed is safe because the heap the seed was read from stays full within  *)
(* it (StaleSeedSafe); a candidate that a local heap drops or skips is     *)
(* covered by that heap, and merging hands the cover over to the global    *)
(* heap (NothingLost, MergeOK).                                            *)
(***************************************************************************)
EXTENDS MstgSearch, FiniteSetTheorems, TLAPS

-----------------------------------------------------------------------------
(* Bounded heaps: what a push preserves, for every heap and entry. *)

\* Heaps of entries with finite distances.
IsHeap(H, k) ==
  /\ IsFiniteSet(H)
  /\ Cardinality(H) <= k
  /\ \A x \in H : x.dist \in Int

\* H is full, and with entries no further than d.
FullWithin(H, k, d) == Cardinality(H) = k /\ \A x \in H : x.dist <= d

\* A push into a heap that has room keeps everything; into a full one, it
\* keeps all but one entry, and that one is the furthest.  Either way it
\* gives a heap, and what is not kept is beaten by k entries.
LEMMA PushOutcome ==
  ASSUME NEW k \in Nat, NEW H, IsHeap(H, k),
         NEW e, e.dist \in Int, NEW G \in Push(H, e, k)
  PROVE  /\ IsHeap(G, k)
         /\ G \subseteq H \cup {e}
         /\ \A x \in H \cup {e} : x \in G \/ FullWithin(G, k, x.dist)
         /\ \A d \in Int : FullWithin(H, k, d) => FullWithin(G, k, d)
         /\ Cardinality(H) = k => Cardinality(G) = k
<1> DEFINE U == H \cup {e}
<1>1. /\ IsFiniteSet(U) /\ Cardinality(U) \in Nat /\ Cardinality(H) \in Nat
      /\ Cardinality(U) = IF e \in H THEN Cardinality(H) ELSE Cardinality(H) + 1
      /\ \A x \in U : x.dist \in Int
  BY FS_AddElement, FS_CardinalityType DEF IsHeap
<1>2. CASE Cardinality(U) <= k
  <2>1. G = U
    BY <1>1, <1>2 DEF Push
  <2>2. ASSUME NEW d \in Int, FullWithin(H, k, d)
        PROVE  FullWithin(G, k, d)
    <3>1. e \in H
      BY <1>1, <1>2, <2>2 DEF FullWithin
    <3>2. G = H
      BY <2>1, <3>1
    <3> QED
      BY <2>2, <3>2
  <2>3. Cardinality(H) = k => Cardinality(G) = k
    BY <1>1, <1>2, <2>1 DEF IsHeap
  <2> QED
    BY <1>1, <1>2, <2>1, <2>2, <2>3 DEF IsHeap
<1>3. CASE Cardinality(U) > k
  <2>1. PICK m \in U : G = U \ {m} /\ \A x \in U : x.dist <= m.dist
    BY <1>3 DEF Push, Tops
  <2>2. Cardinality(H) = k /\ e \notin H /\ Cardinality(U) = k + 1
    BY <1>1, <1>3 DEF IsHeap
  <2>3. IsFiniteSet(G) /\ Cardinality(G) = k
    <3> HIDE DEF U
    <3>1. IsFiniteSet(U \ {m}) /\ Cardinality(U \ {m}) = Cardinality(U) - 1
      BY <1>1, FS_RemoveElement
    <3> QED
      BY <2>1, <2>2, <3>1
  <2>4. IsHeap(G, k)
    BY <1>1, <2>1, <2>3 DEF IsHeap
  <2>5. \A x \in U : x \in G \/ FullWithin(G, k, x.dist)
    BY <1>1, <2>1, <2>3 DEF FullWithin
  <2>6. ASSUME NEW d \in Int, FullWithin(H, k, d)
        PROVE  FullWithin(G, k, d)
    <3>1. \A x \in H : x.dist <= d
      BY <2>6 DEF FullWithin
    <3>2. CASE m = e
      BY <2>1, <2>3, <3>1, <3>2 DEF FullWithin
    <3>3. CASE m # e
      <4>1. e.dist <= m.dist /\ m.dist <= d
        BY <2>1, <3>1, <3>3
      <4>2. e.dist <= d
        BY <4>1, <1>1
      <4> QED
        BY <2>1, <2>3, <3>1, <4>2 DEF FullWithin
    <3> QED
      BY <3>2, <3>3
  <2> QED
    BY <2>1, <2>3, <2>4, <2>5, <2>6
<1> QED
  BY <1>1, <1>2, <1>3

\* A finite k-th distance is the fallback, or the heap is full within it.
LEMMA DistkOutcome ==
  ASSUME NEW k \in Nat, NEW H, IsHeap(H, k),
         NEW f \in Int \cup {Inf}, NEW d \in Distk(H, k, f)
  PROVE  /\ d \in Int \cup {Inf}
         /\ d # Inf => d = f \/ FullWithin(H, k, d)
<1>1. Cardinality(H) \in Nat
  BY FS_CardinalityType DEF IsHeap
<1>2. CASE Cardinality(H) < k \/ H = {}
  BY <1>2, InfAssumption DEF Distk
<1>3. CASE ~(Cardinality(H) < k \/ H = {})
  <2>1. PICK m \in H : d = MinF(m.dist, f) /\ \A x \in H : x.dist <= m.dist
    BY <1>3 DEF Distk, Tops
  <2>2. Cardinality(H) = k /\ m.dist \in Int
    BY <1>1, <1>3 DEF IsHeap
  <2> QED
    BY <2>1, <2>2, InfAssumption DEF MinF, FullWithin
<1> QED
  BY <1>2, <1>3

\* Without a fallback, a finite k-th distance means the heap is full within it.
LEMMA DistkUnseeded ==
  ASSUME NEW k \in Nat, NEW H, IsHeap(H, k), NEW d \in Distk(H, k, Inf)
  PROVE  /\ d \in Int \cup {Inf}
         /\ d # Inf => FullWithin(H, k, d)
<1>1. CASE Cardinality(H) < k \/ H = {}
  <2>1. d = Inf
    BY <1>1 DEF Distk
  <2> QED
    BY <2>1
<1>2. CASE ~(Cardinality(H) < k \/ H = {})
  <2>1. PICK m \in H : d = MinF(m.dist, Inf) /\ \A x \in H : x.dist <= m.dist
    BY <1>2 DEF Distk, Tops
  <2>2. m.dist \in Int /\ Cardinality(H) = k
    BY <1>2, FS_CardinalityType DEF IsHeap
  <2>3. d = m.dist
    BY <2>1, <2>2, InfAssumption DEF MinF
  <2> QED
    BY <2>1, <2>2, <2>3 DEF FullWithin
<1> QED
  BY <1>1, <1>2

-----------------------------------------------------------------------------
USE SearchAssumption, InfAssumption

\* The heaps are finite, of finite distances and bounded by top_k.
HeapsOK ==
  /\ IsHeap(global, input.k)
  /\ \A j \in Lists : IsHeap(local[j], input.k)

\* What is left to do, phase by phase.
ControlOK ==
  /\ todo \subseteq Selected
  /\ phase = "start" => /\ \A j \in Lists : /\ pos[j] = 1
                                            /\ local[j] = {}
                                            /\ seed[j] = Inf
                        /\ global = {} /\ merged = {} /\ todo = {}
  /\ phase \in {"parallel", "done"} => merged = {}
  /\ phase = "merge" => \A j \in todo : Exhausted(j)
  /\ phase = "done" => todo = {}
  /\ phase \notin {"start", "done"} => input.k > 0
  /\ phase # "start" => \A j \in Selected \ todo :
                          Exhausted(j) \/ input.k = 0

\* Candidates already merged belong to the list being merged, which has been
\* scanned to its end, and the global heap holds them or is full within them.
MergeOK ==
  \A e \in merged :
    /\ \E j \in todo : Current(j) /\ Exhausted(j) /\ merged \subseteq local[j]
    /\ e \in global \/ FullWithin(global, input.k, e.dist)

IInv == TypeOK /\ HeapsOK /\ ControlOK /\ MergeOK /\ StaleSeedSafe /\ NothingLost
-----------------------------------------------------------------------------
(* The data a query reads.                                                 *)

\* Posting lists, bounds and distances have the types the code gives them.
LEMMA DataTypes ==
  ASSUME input \in Input
  PROVE  /\ input.k \in Nat /\ Lists \subseteq Nat
         /\ \A j \in Lists :
              /\ Slots(j) \in Seq(Slot)
              /\ \A i \in DOMAIN Slots(j) :
                   /\ LowerBound(j, i) \in Int
                   /\ Distance(j, i) \in Int \cup {Inf}
                   /\ Distance(j, i) = Inf <=> Slots(j)[i].dist = Inf
<1>1. /\ input.k \in Nat /\ input.metric \in Metrics
      /\ input.centroids \in Seq([cid : Cids, dist : Nat])
      /\ input.floor \in [Cids -> Int] /\ input.slots \in [Cids -> Seq(Slot)]
  BY DEF Input
<1>2. Lists \subseteq Nat
  BY <1>1 DEF Lists
<1>3. ASSUME NEW j \in Lists
      PROVE  /\ input.centroids[j].cid \in Cids /\ Slots(j) \in Seq(Slot)
  <2> DEFINE Centroid == [cid : Cids, dist : Nat]
  <2>1. input.centroids[j] \in Centroid
    <3>1. input.centroids \in Seq(Centroid) /\ j \in DOMAIN input.centroids
      BY <1>1 DEF Lists
    <3> HIDE DEF Centroid
    <3> QED
      BY <3>1
  <2>2. input.centroids[j].cid \in Cids
    BY <2>1
  <2> QED
    BY <1>1, <2>2, Zenon DEF Slots
<1>4. ASSUME NEW j \in Lists, NEW i \in DOMAIN Slots(j)
      PROVE  /\ LowerBound(j, i) \in Int
             /\ Distance(j, i) \in Int \cup {Inf}
             /\ Distance(j, i) = Inf <=> Slots(j)[i].dist = Inf
  <2>1. Slots(j)[i] \in Slot
    BY <1>3, <1>4
  <2>2. /\ Slots(j)[i].lb \in Int \cup {Inf} /\ Slots(j)[i].dist \in Int \cup {Inf}
        /\ input.floor[input.centroids[j].cid] \in Int
    BY <2>1, <1>1, <1>3 DEF Slot
  <2>3. LowerBound(j, i) \in Int
    BY <2>2, <1>1, SMTT(60) DEF LowerBound, Sanitize, Metrics
  <2> QED
    BY <2>2, <2>3 DEF Distance
<1> QED
  BY <1>1, <1>2, <1>3, <1>4

\* The candidates offered are the slots with a distance.
LEMMA OfferedData ==
  ASSUME input \in Input
  PROVE  /\ \A j \in Selected : \A i \in DOMAIN Slots(j) :
              Slots(j)[i].dist # Inf => Candidate(j, i) \in Offered
         /\ \A c \in Offered :
              /\ c.dist \in Int
              /\ \E j \in Selected : \E i \in DOMAIN Slots(j) :
                   Slots(j)[i].dist # Inf /\ c = Candidate(j, i)
<1>1. ASSUME NEW c \in Offered
      PROVE  \E j \in Selected : \E i \in DOMAIN Slots(j) :
               Slots(j)[i].dist # Inf /\ c = Candidate(j, i)
  BY <1>1 DEF Offered
<1>2. ASSUME NEW j \in Selected, NEW i \in DOMAIN Slots(j), Slots(j)[i].dist # Inf
      PROVE  Candidate(j, i) \in Offered /\ Candidate(j, i).dist \in Int
  <2>1. Candidate(j, i) \in Offered
    BY <1>2 DEF Offered
  <2>2. Distance(j, i) \in Int
    BY <1>2, DataTypes DEF Selected
  <2> QED
    BY <2>1, <2>2 DEF Candidate
<1> QED
  BY <1>1, <1>2

\* Nothing a query reads changes while it runs.
LEMMA SameData ==
  ASSUME input' = input
  PROVE  /\ Lists' = Lists /\ Selected' = Selected /\ Bootstrap' = Bootstrap
         /\ Offered' = Offered
         /\ \A j : Slots(j)' = Slots(j)
         /\ \A j, i : Candidate(j, i)' = Candidate(j, i)
BY DEF Lists, Selected, Bootstrap, Offered, Slots, Candidate, Distance,
       LowerBound, Sanitize
-----------------------------------------------------------------------------
(* Covers survive pushes, and are handed over by a merge.                  *)

LEMMA CoverKept ==
  ASSUME input.k \in Nat, NEW H, IsHeap(H, input.k),
         NEW e, e.dist \in Int, NEW G \in Push(H, e, input.k),
         NEW c, c.dist \in Int, Covered(c, H)
  PROVE  Covered(c, G)
<1>1. /\ \A x \in H \cup {e} : x \in G \/ FullWithin(G, input.k, x.dist)
      /\ FullWithin(H, input.k, c.dist) => FullWithin(G, input.k, c.dist)
      /\ Cardinality(H) = input.k => Cardinality(G) = input.k
  BY PushOutcome
<1>2. CASE c \in H
  BY <1>1, <1>2 DEF Covered, FullWithin
<1>3. CASE c \notin H
  BY <1>1, <1>3 DEF Covered, FullWithin
<1> QED
  BY <1>2, <1>3

\* The scan of a list with its local heap L full, or c in it, says the same
\* of the global heap once every entry of L has been pushed there.
LEMMA CoverMerged ==
  ASSUME input.k \in Nat, NEW L, IsHeap(L, input.k), IsHeap(global, input.k),
         \A e \in L : e \in global \/ FullWithin(global, input.k, e.dist),
         NEW c, c.dist \in Int, Covered(c, L)
  PROVE  Covered(c, global)
<1>1. CASE c \in L
  BY <1>1 DEF Covered, FullWithin
<1>2. CASE c \notin L
  <2>1. /\ Cardinality(L) = input.k
        /\ c.sound => \A x \in L : x.dist <= c.dist
    BY <1>2 DEF Covered
  <2>2. CASE L \subseteq global
    <3>1. Cardinality(L) <= Cardinality(global)
      BY <2>2, FS_Subset DEF IsHeap
    <3>2. Cardinality(global) = input.k
      BY <2>1, <3>1, FS_CardinalityType DEF IsHeap
    <3>3. L = global
      BY <2>1, <2>2, <3>2, FS_Subset DEF IsHeap
    <3> QED
      BY <2>1, <3>3 DEF Covered
  <2>3. CASE ~(L \subseteq global)
    <3>1. PICK e \in L : FullWithin(global, input.k, e.dist)
      BY <2>3
    <3>2. e.dist \in Int /\ \A x \in global : x.dist \in Int
      BY <3>1 DEF IsHeap
    <3> QED
      BY <2>1, <3>1, <3>2 DEF Covered, FullWithin
  <2> QED
    BY <2>2, <2>3
<1> QED
  BY <1>1, <1>2

\* Only one list can be current.
LEMMA CurrentUnique ==
  ASSUME Lists \subseteq Nat, todo \subseteq Lists,
         NEW i, NEW j, Current(i), Current(j)
  PROVE  i = j
BY DEF Current

-----------------------------------------------------------------------------
(* The invariant is inductive: one lemma per action.                       *)

\* A search that is yet to begin, of whatever query.
Fresh ==
  /\ input \in Input /\ phase = "start"
  /\ pos = [j \in Lists |-> 1]
  /\ local = [j \in Lists |-> {}]
  /\ seed = [j \in Lists |-> Inf]
  /\ todo = {} /\ merged = {} /\ global = {}

LEMMA FreshIInv == Fresh => IInv
<1> SUFFICES ASSUME Fresh PROVE IInv
  OBVIOUS
<1>1. input \in Input
  BY DEF Fresh
<1>2. /\ input.k \in Nat /\ Lists \subseteq Nat
      /\ \A j \in Lists : Len(Slots(j)) \in Nat
  BY <1>1, DataTypes
<1>3. IsHeap({}, input.k)
  BY <1>2, FS_EmptySet DEF IsHeap
<1>4. TypeOK
  BY <1>1, <1>2, <1>3, FS_EmptySet DEF TypeOK, Fresh
<1>5. HeapsOK
  BY <1>3 DEF HeapsOK, Fresh
<1>6. ControlOK /\ MergeOK /\ StaleSeedSafe /\ NothingLost
  BY DEF ControlOK, MergeOK, StaleSeedSafe, NothingLost, Fresh
<1> QED
  BY <1>4, <1>5, <1>6 DEF IInv

LEMMA InitIInv == Init => IInv
BY FreshIInv DEF Init, Fresh

LEMMA StartIInv == IInv /\ Start => IInv'
<1> SUFFICES ASSUME IInv, Start PROVE IInv'
  OBVIOUS
<1>1. /\ input' = input /\ pos' = pos /\ local' = local /\ seed' = seed
      /\ merged' = merged /\ global' = global /\ phase = "start"
      /\ input \in Input
  BY DEF Start, IInv, TypeOK
<1>2. /\ \A j \in Lists : pos[j] = 1 /\ local[j] = {} /\ seed[j] = Inf
      /\ global = {} /\ merged = {} /\ todo = {}
  BY <1>1 DEF IInv, ControlOK
<1>3. \/ phase' = "done" /\ todo' = {} /\ (input.k = 0 \/ Selected = {})
      \/ phase' = "bootstrap" /\ todo' = Selected /\ input.k # 0
  BY <1>2 DEF Start
<1>4. /\ Lists' = Lists /\ Selected' = Selected /\ Offered' = Offered
      /\ \A j : Slots(j)' = Slots(j)
  BY <1>1, SameData
<1>5. input.k \in Nat /\ Lists \subseteq Nat /\ Selected \subseteq Lists
  BY <1>1, DataTypes DEF Selected
<1>6. TypeOK'
  BY <1>1, <1>3, <1>4, <1>5 DEF IInv, TypeOK
<1>7. HeapsOK'
  BY <1>1, <1>4 DEF IInv, HeapsOK
<1>8. ControlOK'
  BY <1>1, <1>2, <1>3, <1>4, <1>5 DEF ControlOK
<1>9. MergeOK' /\ StaleSeedSafe'
  BY <1>1, <1>2, <1>3, <1>5 DEF MergeOK, StaleSeedSafe
<1>10. NothingLost'
  BY <1>1, <1>2, <1>4, <1>5, DataTypes DEF NothingLost
<1> QED
  BY <1>6, <1>7, <1>8, <1>9, <1>10 DEF IInv

LEMMA ScanIInv ==
  ASSUME IInv, NEW j \in Lists, Scan(j)
  PROVE  IInv'
<1> DEFINE i == pos[j]
           c == Candidate(j, i)
<1>1. /\ input' = input /\ phase' = phase /\ todo' = todo /\ seed' = seed
      /\ merged' = merged /\ global' = global
      /\ pos' = [pos EXCEPT ![j] = @ + 1] /\ j \in todo
      /\ \/ phase = "bootstrap" /\ Current(j)
         \/ phase = "parallel"
      /\ input \in Input
  BY DEF Scan, Scanning, IInv, TypeOK
<1>2. /\ Lists' = Lists /\ Selected' = Selected /\ Offered' = Offered
      /\ \A m : Slots(m)' = Slots(m)
      /\ \A m, n : Candidate(m, n)' = Candidate(m, n)
  BY <1>1, SameData
<1>3. /\ input.k \in Nat /\ Lists \subseteq Nat
      /\ \A m \in Lists : Slots(m) \in Seq(Slot)
      /\ \A m \in Lists : \A n \in DOMAIN Slots(m) :
           LowerBound(m, n) \in Int /\ Distance(m, n) \in Int \cup {Inf}
      /\ j \in Selected /\ Selected \subseteq Lists
  BY <1>1, DataTypes DEF Selected, IInv, ControlOK
<1>4. /\ i \in DOMAIN Slots(j) /\ i \in Nat
      /\ pos \in [Lists -> Nat] /\ local \in [Lists -> SUBSET Offered]
  BY <1>1, <1>3 DEF IInv, TypeOK, Scan, Scanning, Exhausted
<1>5. /\ IsHeap(local[j], input.k) /\ IsHeap(global, input.k)
      /\ \A m \in Lists : IsHeap(local[m], input.k)
      /\ seed[j] \in Int \cup {Inf}
  BY DEF IInv, HeapsOK, TypeOK
<1>6. PICK distk \in Distk(local[j], input.k, seed[j]) :
        IF AtLeast(LowerBound(j, i), distk) \/ Distance(j, i) = Inf
        THEN local' = local
        ELSE \E H \in Push(local[j], c, input.k) :
               local' = [local EXCEPT ![j] = H]
  BY DEF Scan
<1>7. merged = {}
  <2> SUFFICES ASSUME NEW e \in merged PROVE FALSE
    OBVIOUS
  <2>1. PICK m \in todo : Current(m) /\ Exhausted(m)
    BY DEF IInv, MergeOK
  <2>2. phase = "bootstrap" /\ Current(j)
    BY <1>1 DEF IInv, ControlOK
  <2>3. m = j
    BY <2>1, <2>2, <1>3, CurrentUnique DEF IInv, TypeOK
  <2> QED
    BY <2>1, <2>3 DEF Scan, Scanning
<1>8. ControlOK' /\ MergeOK' /\ StaleSeedSafe'
  <2>1. \A m \in Lists : m # j => (Exhausted(m)' <=> Exhausted(m))
    BY <1>1, <1>2, <1>4 DEF Exhausted
  <2>2. ControlOK'
    BY <1>1, <1>2, <1>3, <2>1 DEF IInv, ControlOK
  <2> QED
    BY <2>2, <1>1, <1>7 DEF IInv, MergeOK, StaleSeedSafe
<1>9. /\ \A m \in Lists : m # j => local'[m] = local[m]
      /\ local' \in [Lists -> SUBSET Offered]
      /\ IsHeap(local'[j], input.k)
      /\ \A x : x.dist \in Int /\ Covered(x, local[j]) => Covered(x, local'[j])
      /\ c.dist \in Int =>
           Covered(c, local'[j]) \/ Covered(c, global)
  <2>1. Distance(j, i) = c.dist /\ (c.sound <=> LowerBound(j, i) <= c.dist)
    BY DEF Candidate
  <2>2. CASE AtLeast(LowerBound(j, i), distk) \/ Distance(j, i) = Inf
    <3>1. local' = local
      BY <1>6, <2>2
    <3>2. ASSUME c.dist \in Int
          PROVE  Covered(c, local[j]) \/ Covered(c, global)
      <4>1. distk # Inf /\ LowerBound(j, i) >= distk
        BY <2>1, <2>2, <3>2 DEF AtLeast
      <4>2. distk \in Int /\ (distk = seed[j] \/ FullWithin(local[j], input.k, distk))
        BY <4>1, <1>3, <1>5, <1>6, DistkOutcome
      <4>3. FullWithin(global, input.k, distk) \/ FullWithin(local[j], input.k, distk)
        BY <4>1, <4>2, <1>1 DEF IInv, StaleSeedSafe, FullWithin
      <4>4. ASSUME NEW H, IsHeap(H, input.k), FullWithin(H, input.k, distk)
            PROVE  Covered(c, H)
        <5>1. c.sound => \A x \in H : x.dist <= c.dist
          BY <4>4, <4>1, <4>2, <3>2, <2>1, <1>3, <1>4 DEF FullWithin, IsHeap
        <5> QED
          BY <4>4, <5>1 DEF Covered, FullWithin
      <4> QED
        BY <4>3, <4>4, <1>5
    <3> QED
      BY <3>1, <3>2, <1>4, <1>5
  <2>3. CASE ~(AtLeast(LowerBound(j, i), distk) \/ Distance(j, i) = Inf)
    <3>1. PICK H \in Push(local[j], c, input.k) : local' = [local EXCEPT ![j] = H]
      BY <1>6, <2>3
    <3>2. c.dist \in Int /\ c \in Offered
      <4>1. c.dist \in Int
        BY <2>1, <2>3, <1>3, <1>4
      <4>2. Slots(j)[i].dist # Inf
        BY <4>1, <2>1, <1>1, <1>4, DataTypes
      <4> QED
        BY <4>1, <4>2, <1>1, <1>3, <1>4, OfferedData
    <3>3. /\ IsHeap(H, input.k) /\ H \subseteq local[j] \cup {c}
          /\ c \in H \/ FullWithin(H, input.k, c.dist)
      BY <3>1, <3>2, <1>3, <1>5, PushOutcome
    <3>4. Covered(c, H)
      BY <3>3 DEF Covered, FullWithin
    <3>5. \A x : x.dist \in Int /\ Covered(x, local[j]) => Covered(x, H)
      BY <3>1, <3>2, <1>3, <1>5, CoverKept
    <3>6. local'[j] = H /\ \A m \in Lists : m # j => local'[m] = local[m]
      BY <3>1, <1>4
    <3>7. local' \in [Lists -> SUBSET Offered]
      BY <3>1, <3>2, <3>3, <1>4
    <3> QED
      BY <3>3, <3>4, <3>5, <3>6, <3>7
  <2> QED
    BY <2>2, <2>3
<1>10. HeapsOK'
  BY <1>1, <1>2, <1>5, <1>9 DEF HeapsOK
<1>11. TypeOK'
  <2>1. /\ pos' \in [Lists -> Nat]
        /\ \A m \in Lists : pos'[m] \in 1 .. Len(Slots(m)) + 1
    BY <1>1, <1>3, <1>4 DEF IInv, TypeOK
  <2>2. \A m \in Lists : Cardinality(local'[m]) <= input.k
    BY <1>5, <1>9 DEF IsHeap
  <2> QED
    BY <1>1, <1>2, <1>9, <2>1, <2>2 DEF IInv, TypeOK
<1>12. NothingLost'
  <2> SUFFICES ASSUME phase # "start", input.k > 0,
                      NEW m \in Selected, NEW n \in DOMAIN Slots(m),
                      n < pos'[m], Slots(m)[n].dist # Inf
               PROVE  \/ Covered(Candidate(m, n), global)
                      \/ m \in todo /\ Covered(Candidate(m, n), local'[m])
    BY <1>1, <1>2 DEF NothingLost, Covered
  <2>1. Candidate(m, n).dist \in Int
    BY <1>1, OfferedData
  <2>2. CASE m = j /\ n = i
    BY <2>1, <2>2, <1>1, <1>9
  <2>3. CASE ~(m = j /\ n = i)
    <3>1. n < pos[m]
      BY <2>3, <1>1, <1>3, <1>4
    <3>2. \/ Covered(Candidate(m, n), global)
          \/ m \in todo /\ Covered(Candidate(m, n), local[m])
      BY <3>1 DEF IInv, NothingLost
    <3> QED
      BY <3>2, <2>1, <1>3, <1>9
  <2> QED
    BY <2>2, <2>3
<1> QED
  BY <1>8, <1>10, <1>11, <1>12 DEF IInv
LEMMA MergeIInv ==
  ASSUME IInv, NEW j \in Lists, Merge(j)
  PROVE  IInv'
<1>1. /\ input' = input /\ phase' = phase /\ todo' = todo /\ seed' = seed
      /\ pos' = pos /\ local' = local
      /\ Current(j) /\ Exhausted(j) /\ phase \in {"bootstrap", "merge"}
      /\ input \in Input
  BY DEF Merge, IInv, TypeOK
<1>2. /\ Lists' = Lists /\ Selected' = Selected /\ Offered' = Offered
      /\ \A m : Slots(m)' = Slots(m)
      /\ \A m, n : Candidate(m, n)' = Candidate(m, n)
  BY <1>1, SameData
<1>3. PICK e \in local[j] \ merged :
        merged' = merged \cup {e} /\ global' \in Push(global, e, input.k)
  BY DEF Merge
<1>4. /\ input.k \in Nat /\ Lists \subseteq Nat
      /\ IsHeap(global, input.k) /\ IsHeap(local[j], input.k)
      /\ e \in Offered /\ e.dist \in Int
      /\ \A m \in Lists : IsHeap(local[m], input.k)
      /\ \A x \in Offered : x.dist \in Int
  BY <1>1, <1>3, DataTypes, OfferedData DEF IInv, HeapsOK, TypeOK
<1>5. /\ IsHeap(global', input.k)
      /\ global' \subseteq global \cup {e}
      /\ \A x \in global \cup {e} :
           x \in global' \/ FullWithin(global', input.k, x.dist)
      /\ \A d \in Int : FullWithin(global, input.k, d)
                          => FullWithin(global', input.k, d)
  BY <1>3, <1>4, PushOutcome
<1>6. \A x : x.dist \in Int /\ Covered(x, global) => Covered(x, global')
  BY <1>3, <1>4, CoverKept
<1>7. TypeOK'
  <2>1. merged' \subseteq Offered /\ global' \subseteq Offered
    BY <1>3, <1>4, <1>5 DEF IInv, TypeOK
  <2>2. Cardinality(global') <= input.k
    BY <1>5 DEF IsHeap
  <2> QED
    BY <1>1, <1>2, <2>1, <2>2 DEF IInv, TypeOK
<1>8. HeapsOK'
  BY <1>1, <1>2, <1>4, <1>5 DEF HeapsOK
<1>9. ControlOK'
  <2>1. \A m : Exhausted(m)' <=> Exhausted(m)
    BY <1>1, <1>2 DEF Exhausted
  <2> QED
    BY <1>1, <1>2, <2>1 DEF IInv, ControlOK
<1>10. MergeOK'
  <2>1. merged \subseteq local[j]
    <3> SUFFICES ASSUME NEW x \in merged PROVE x \in local[j]
      OBVIOUS
    <3>1. PICK m \in todo : Current(m) /\ merged \subseteq local[m]
      BY DEF IInv, MergeOK
    <3>2. m = j
      BY <3>1, <1>1, <1>4, CurrentUnique DEF IInv, TypeOK
    <3> QED
      BY <3>1, <3>2
  <2>2. j \in todo /\ Current(j)' /\ Exhausted(j)' /\ merged' \subseteq local'[j]
    BY <1>1, <1>2, <1>3, <2>1 DEF Current, Exhausted
  <2>3. ASSUME NEW x \in merged
        PROVE  x \in global' \/ FullWithin(global', input.k, x.dist)
    BY <2>3, <1>4, <1>5 DEF IInv, MergeOK, TypeOK
  <2> QED
    BY <1>1, <1>3, <1>5, <2>2, <2>3 DEF MergeOK
<1>11. StaleSeedSafe'
  <2> SUFFICES ASSUME NEW m \in todo, seed[m] # Inf
               PROVE  FullWithin(global', input.k, seed[m])
    BY <1>1 DEF StaleSeedSafe, FullWithin
  <2>1. seed[m] \in Int /\ FullWithin(global, input.k, seed[m])
    BY DEF IInv, StaleSeedSafe, TypeOK, FullWithin
  <2> QED
    BY <2>1, <1>5
<1>12. NothingLost'
  <2> SUFFICES ASSUME phase # "start", input.k > 0,
                      NEW m \in Selected, NEW n \in DOMAIN Slots(m),
                      n < pos[m], Slots(m)[n].dist # Inf
               PROVE  \/ Covered(Candidate(m, n), global')
                      \/ m \in todo /\ Covered(Candidate(m, n), local[m])
    BY <1>1, <1>2 DEF NothingLost, Covered
  <2>1. Candidate(m, n).dist \in Int
    BY <1>1, OfferedData
  <2> QED
    BY <2>1, <1>6 DEF IInv, NothingLost
<1> QED
  BY <1>7, <1>8, <1>9, <1>10, <1>11, <1>12 DEF IInv

LEMMA RetireIInv ==
  ASSUME IInv, NEW j \in Lists, Retire(j)
  PROVE  IInv'
<1>1. /\ input' = input /\ pos' = pos /\ local' = local /\ global' = global
      /\ todo' = todo \ {j} /\ merged' = {}
      /\ Current(j) /\ Exhausted(j) /\ phase \in {"bootstrap", "merge"}
      /\ phase' \in {phase, "parallel"} /\ merged = local[j]
      /\ phase = "merge" => phase' = "merge" /\ seed' = seed
      /\ input \in Input
  BY DEF Retire, IInv, TypeOK
<1>2. /\ Lists' = Lists /\ Selected' = Selected /\ Offered' = Offered
      /\ \A m : Slots(m)' = Slots(m)
      /\ \A m, n : Candidate(m, n)' = Candidate(m, n)
  BY <1>1, SameData
<1>3. /\ input.k \in Nat /\ Lists \subseteq Nat /\ Selected \subseteq Lists
      /\ IsHeap(global, input.k)
      /\ \A m \in Lists : IsHeap(local[m], input.k)
      /\ seed \in [Lists -> Int \cup {Inf}] /\ todo \subseteq Lists
  BY <1>1, DataTypes DEF IInv, HeapsOK, TypeOK, Selected
<1>4. /\ seed' \in [Lists -> Int \cup {Inf}]
      /\ \A m \in todo' : seed'[m] # Inf => FullWithin(global, input.k, seed'[m])
  <2>1. CASE phase = "bootstrap"
    <3>1. PICK distk \in Distk(global, input.k, Inf) :
            seed' = [m \in Lists |-> IF m \in todo' THEN distk ELSE seed[m]]
      BY <2>1 DEF Retire
    <3>2. /\ distk \in Int \cup {Inf}
          /\ distk # Inf => FullWithin(global, input.k, distk)
      BY <1>3, <3>1, DistkUnseeded
    <3> QED
      BY <3>1, <3>2, <1>1, <1>3
  <2>2. CASE phase = "merge"
    BY <2>2, <1>1, <1>3 DEF IInv, StaleSeedSafe, FullWithin
  <2> QED
    BY <2>1, <2>2, <1>1
<1>5. TypeOK'
  BY <1>1, <1>2, <1>4 DEF IInv, TypeOK
<1>6. HeapsOK'
  BY <1>1, <1>2, <1>3 DEF HeapsOK
<1>7. ControlOK'
  <2>1. \A m : Exhausted(m)' <=> Exhausted(m)
    BY <1>1, <1>2 DEF Exhausted
  <2> QED
    BY <1>1, <1>2, <2>1 DEF IInv, ControlOK
<1>8. MergeOK' /\ StaleSeedSafe'
  BY <1>1, <1>4 DEF MergeOK, StaleSeedSafe, FullWithin
<1>9. NothingLost'
  <2> SUFFICES ASSUME phase # "start", input.k > 0,
                      NEW m \in Selected, NEW n \in DOMAIN Slots(m),
                      n < pos[m], Slots(m)[n].dist # Inf
               PROVE  \/ Covered(Candidate(m, n), global)
                      \/ m \in todo \ {j} /\ Covered(Candidate(m, n), local[m])
    BY <1>1, <1>2 DEF NothingLost, Covered
  <2>1. Candidate(m, n).dist \in Int
    BY <1>1, OfferedData
  <2>2. \/ Covered(Candidate(m, n), global)
        \/ m \in todo /\ Covered(Candidate(m, n), local[m])
    BY DEF IInv, NothingLost
  <2>3. CASE m = j /\ Covered(Candidate(m, n), local[m])
    <3>1. \A e \in local[j] : e \in global \/ FullWithin(global, input.k, e.dist)
      BY <1>1 DEF IInv, MergeOK
    <3> QED
      BY <2>1, <2>3, <3>1, <1>3, CoverMerged
  <2> QED
    BY <2>2, <2>3
<1> QED
  BY <1>5, <1>6, <1>7, <1>8, <1>9 DEF IInv

LEMMA JoinIInv == IInv /\ (Join \/ Finish) => IInv'
<1> SUFFICES ASSUME IInv, Join \/ Finish PROVE IInv'
  OBVIOUS
<1>1. /\ input' = input /\ pos' = pos /\ local' = local /\ global' = global
      /\ todo' = todo /\ merged' = merged /\ seed' = seed
      /\ \/ phase = "parallel" /\ phase' = "merge" /\ \A j \in todo : Exhausted(j)
         \/ phase = "merge" /\ phase' = "done" /\ todo = {}
  BY DEF Join, Finish
<1>2. /\ Lists' = Lists /\ Selected' = Selected /\ Offered' = Offered
      /\ \A m : Slots(m)' = Slots(m)
      /\ \A m, n : Candidate(m, n)' = Candidate(m, n)
  BY <1>1, SameData
<1>3. TypeOK' /\ HeapsOK'
  BY <1>1, <1>2 DEF IInv, TypeOK, HeapsOK
<1>4. \A m : (Exhausted(m)' <=> Exhausted(m)) /\ (Current(m)' <=> Current(m))
  BY <1>1, <1>2 DEF Exhausted, Current
<1>5. MergeOK' /\ StaleSeedSafe'
  BY <1>1, <1>4 DEF IInv, MergeOK, StaleSeedSafe
<1>6. ControlOK'
  BY <1>1, <1>2, <1>4 DEF IInv, ControlOK, MergeOK
<1>7. NothingLost'
  BY <1>1, <1>2 DEF IInv, NothingLost, Covered
<1> QED
  BY <1>3, <1>5, <1>6, <1>7 DEF IInv

LEMMA StutterIInv == IInv /\ UNCHANGED vars => IInv'
<1> SUFFICES ASSUME IInv, UNCHANGED vars PROVE IInv'
  OBVIOUS
<1>1. /\ input' = input /\ pos' = pos /\ local' = local /\ global' = global
      /\ todo' = todo /\ merged' = merged /\ seed' = seed /\ phase' = phase
  BY DEF vars
<1>2. /\ Lists' = Lists /\ Selected' = Selected /\ Offered' = Offered
      /\ \A m : Slots(m)' = Slots(m)
      /\ \A m, n : Candidate(m, n)' = Candidate(m, n)
  BY <1>1, SameData
<1>3. \A m : (Exhausted(m)' <=> Exhausted(m)) /\ (Current(m)' <=> Current(m))
  BY <1>1, <1>2 DEF Exhausted, Current
<1>4. TypeOK' /\ HeapsOK' /\ ControlOK'
  BY <1>1, <1>2, <1>3 DEF IInv, TypeOK, HeapsOK, ControlOK
<1>5. MergeOK' /\ StaleSeedSafe' /\ NothingLost'
  BY <1>1, <1>2, <1>3 DEF IInv, MergeOK, StaleSeedSafe, NothingLost, Covered
<1> QED
  BY <1>4, <1>5 DEF IInv

LEMMA StepIInv == IInv /\ [Next]_vars => IInv'
<1> SUFFICES ASSUME IInv, [Next]_vars PROVE IInv'
  OBVIOUS
<1>1. CASE \E j \in Lists : Scan(j) \/ Merge(j) \/ Retire(j)
  BY <1>1, ScanIInv, MergeIInv, RetireIInv
<1> QED
  BY <1>1, StartIInv, JoinIInv, StutterIInv DEF Next, Terminated

-----------------------------------------------------------------------------
(* The invariant, for every query and data: types and heap bounds, stale   *)
(* seeds safe, nothing lost.                                               *)
THEOREM Invariance == Spec => []IInv
BY InitIInv, StepIInv, PTL DEF Spec
\* Types are kept and no heap ever holds more than top_k candidates.
THEOREM TypeCorrect == Spec => []TypeOK
BY Invariance, PTL DEF IInv

\* A seed read before the workers were forked stays safe to prune with.
THEOREM StaleSeeds == Spec => []StaleSeedSafe
BY Invariance, PTL DEF IInv

\* No candidate looked at is lost between a local heap and the answer.
THEOREM NoLoss == Spec => []NothingLost
BY Invariance, PTL DEF IInv

\* The k-th distance of the global heap never grows.
THEOREM KthNeverGrows == Spec => DistkMonotone
<1>1. ASSUME IInv, [Next]_vars PROVE KthShrinks
  <2> SUFFICES ASSUME NEW d \in Distk(global, input.k, Inf),
                      NEW e \in Distk(global', input.k, Inf)
               PROVE  MinF(d, e) = e
    BY DEF KthShrinks
  <2>1. /\ input.k \in Nat /\ IsHeap(global, input.k)
        /\ \A x \in Offered : x.dist \in Int
    BY <1>1, DataTypes, OfferedData DEF IInv, TypeOK, HeapsOK
  <2>2. IsHeap(global', input.k)
    <3>1. input' = input
      BY <1>1 DEF Next, vars, Start, Scan, Merge, Retire, Join, Finish, Terminated
    <3> QED
      BY <1>1, <3>1, StepIInv DEF IInv, HeapsOK
  <2>3. CASE Cardinality(global) < input.k \/ global = {}
    BY <2>3 DEF Distk, MinF
  <2>4. CASE ~(Cardinality(global) < input.k \/ global = {})
    <3>1. PICK m \in global : d = MinF(m.dist, Inf) /\ \A x \in global : x.dist <= m.dist
      BY <2>4 DEF Distk, Tops
    <3>2. m.dist \in Int /\ d = m.dist
      BY <3>1, <2>1 DEF IsHeap, MinF
    <3>3. /\ Cardinality(global) = input.k
          /\ FullWithin(global, input.k, d)
      BY <2>1, <2>4, <3>1, <3>2, FS_CardinalityType DEF IsHeap, FullWithin
    <3>4. FullWithin(global', input.k, d)
      <4>1. CASE global' = global
        BY <3>3, <4>1
      <4>2. CASE \E j \in Lists : Merge(j)
        <5>1. PICK x \in Offered : global' \in Push(global, x, input.k)
          BY <1>1, <4>2 DEF Merge, IInv, TypeOK
        <5>2. FullWithin(global, input.k, d) => FullWithin(global', input.k, d)
          BY <5>1, <2>1, <3>2, PushOutcome
        <5> QED
          BY <3>3, <5>2
      <4> QED
        BY <1>1, <4>1, <4>2
           DEF Next, vars, Start, Scan, Retire, Join, Finish, Terminated
    <3>5. global' # {}
      BY <2>1, <2>4, <3>3, <3>4, FS_EmptySet DEF IsHeap, FullWithin
    <3>6. PICK n \in global' : e = MinF(n.dist, Inf)
      BY <2>1, <3>4, <3>5 DEF Distk, Tops, FullWithin
    <3>7. n.dist \in Int /\ e = n.dist /\ n.dist <= d
      BY <2>2, <3>4, <3>6 DEF IsHeap, MinF, FullWithin
    <3> QED
      BY <3>2, <3>7 DEF MinF
  <2> QED
    BY <2>3, <2>4
<1>2. Spec => [][IInv /\ [Next]_vars]_vars
  BY Invariance, PTL DEF Spec
<1> QED
  BY <1>1, <1>2, PTL DEF DistkMonotone

-----------------------------------------------------------------------------
(* MstgSearch implements TopK: a step is the abstract Return, or nothing.  *)

\* The abstract specification counts as this one does.
LEMMA SameCardinality ==
  ASSUME NEW S
  PROVE  Abstract!Cardinality(S) = Cardinality(S)
BY DEF Abstract!Cardinality, Cardinality

\* What the global heap is when the search returns is what TopK promises.
LEMMA ReturnedAnswer ==
  IInv /\ phase = "done" =>
    /\ global \subseteq Offered
    /\ Abstract!Promise(global, Offered, input.k)
<1> SUFFICES ASSUME IInv, phase = "done"
             PROVE  /\ global \subseteq Offered
                    /\ Abstract!Promise(global, Offered, input.k)
  OBVIOUS
<1>1. /\ input \in Input /\ input.k \in Nat /\ global \subseteq Offered
      /\ IsHeap(global, input.k) /\ Cardinality(global) \in Nat
      /\ Cardinality(global) = 0 <=> global = {}
  BY DataTypes, FS_CardinalityType, FS_EmptySet DEF IInv, TypeOK, HeapsOK, IsHeap
<1>2. CASE input.k = 0
  BY <1>1, <1>2, SameCardinality DEF Abstract!Promise, IsHeap
<1>3. CASE input.k > 0
  <2>1. ASSUME NEW c \in Offered
        PROVE  Covered(c, global)
    <3>1. PICK j \in Selected : \E i \in DOMAIN Slots(j) :
            Slots(j)[i].dist # Inf /\ c = Candidate(j, i)
      BY <1>1, OfferedData
    <3>2. PICK i \in DOMAIN Slots(j) : Slots(j)[i].dist # Inf /\ c = Candidate(j, i)
      BY <3>1
    <3>3. Exhausted(j) /\ todo = {} /\ j \in Lists
      BY <1>3 DEF IInv, ControlOK, Selected
    <3>4. i < pos[j]
      BY <1>1, <3>3, DataTypes DEF Exhausted, IInv, TypeOK
    <3> QED
      BY <1>3, <3>2, <3>3, <3>4 DEF IInv, NothingLost
  <2> QED
    BY <1>1, <2>1, SameCardinality DEF Covered, Abstract!Promise, IsHeap
<1> QED
  BY <1>1, <1>2, <1>3

\* Every answer is the promised one, for every query, data and interleaving.
THEOREM Refinement == Spec => Implements
<1>1. Init => Abstract!Init
  BY DEF Init, Abstract!Init
<1>2. ASSUME IInv, [Next]_vars
      PROVE  [Abstract!Next]_(Abstract!vars)
  <2>1. input' = input
    BY <1>2 DEF Next, vars, Start, Scan, Merge, Retire, Join, Finish, Terminated
  <2>2. Offered' = Offered
    BY <2>1, SameData
  <2>3. CASE phase = "done"
    <3>1. UNCHANGED vars
      BY <1>2, <2>3 DEF Next, vars, Start, Scan, Scanning, Merge, Retire, Join,
                         Finish, Terminated
    <3> QED
      BY <3>1, <2>2, <2>3 DEF vars, Abstract!vars
  <2>4. CASE phase # "done" /\ phase' # "done"
    BY <2>1, <2>2, <2>4 DEF Abstract!vars
  <2>5. CASE phase # "done" /\ phase' = "done"
    <3>1. (IInv /\ phase = "done")'
      BY <1>2, <2>5, StepIInv
    <3>2. (/\ global \subseteq Offered
           /\ Abstract!Promise(global, Offered, input.k))'
      BY <3>1, ReturnedAnswer, PTL
    <3> QED
      BY <2>1, <2>2, <2>5, <3>2 DEF Abstract!Next, Abstract!Return
  <2> QED
    BY <2>3, <2>4, <2>5
<1> QED
  BY <1>1, <1>2, Invariance, PTL DEF Spec, Implements, Abstract!Spec
=============================================================================
