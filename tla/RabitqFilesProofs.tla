------------------------- MODULE RabitqFilesProofs -------------------------
(***************************************************************************)
(* IVF and brute-force indexes on disk, for requests of any number and     *)
(* size and any number of saves and faults: what a save returned Ok for    *)
(* loads, and what loads is one whole index, as it was saved.              *)
(***************************************************************************)
EXTENDS RabitqFiles, FunctionTheorems, FiniteSetTheorems, SequenceTheorems, TLAPS

-----------------------------------------------------------------------------
(* Sequences of parts, one after the other.                                *)

\* Induction over numbers, for a set: what has 0 and with n also n + 1.
LEMMA SetInduction ==
  ASSUME NEW T, T \subseteq Nat, 0 \in T, \A n \in T : n + 1 \in T
  PROVE  T = Nat
<1> SUFFICES ASSUME NEW m \in Nat, m \notin T PROVE FALSE
  OBVIOUS
<1> DEFINE f == [n \in 0..m |-> IF n \in T THEN n + 1 ELSE n]
<1>1. f \in Injection(0..m, 0..m)
  <2>1. f \in [0..m -> 0..m]
    OBVIOUS
  <2>2. \A x, y \in 0..m : f[x] = f[y] => x = y
    OBVIOUS
  <2> QED
    BY <2>1, <2>2 DEF Injection, IsInjective
<1>2. f \in Surjection(0..m, 0..m)
  BY <1>1, FS_Interval, FS_Injection
<1>3. \E n \in 0..m : f[n] = 0
  <2> HIDE DEF f
  <2>1. 0 \in 0..m
    OBVIOUS
  <2> QED
    BY <1>2, <2>1 DEF Surjection
<1> QED
  BY <1>3

\* g[n] is the first n of m sequences in a row.
Turn(seqs, m, g) ==
  g = [i \in 1..m |-> IF i = 1 THEN seqs[i] ELSE g[i - 1] \o seqs[i]]

LEMMA TurnExists ==
  ASSUME NEW seqs, NEW m \in Nat
  PROVE  \E g : Turn(seqs, m, g)
<1> DEFINE T == {n \in Nat : \E g : Turn(seqs, n, g)}
<1>1. 0 \in T
  <2>1. Turn(seqs, 0, [n \in 1..0 |-> 0])
    BY DEF Turn
  <2> QED
    BY <2>1
<1>2. ASSUME NEW n \in T PROVE n + 1 \in T
  <2>1. n \in Nat
    OBVIOUS
  <2>2. PICK g : Turn(seqs, n, g)
    OBVIOUS
  <2>3. PICK s : s = IF n = 0 THEN seqs[1] ELSE g[n] \o seqs[n + 1]
    OBVIOUS
  <2>4. PICK h : h = [i \in 1 .. n + 1 |-> IF i = n + 1 THEN s ELSE g[i]]
    OBVIOUS
  <2>5. ASSUME NEW i \in 1 .. n + 1
        PROVE  h[i] = IF i = 1 THEN seqs[i] ELSE h[i - 1] \o seqs[i]
    <3>1. CASE i = n + 1 /\ n = 0
      BY <2>3, <2>4, <3>1
    <3>2. CASE i = n + 1 /\ n # 0
      <4>1. i - 1 = n /\ n \in 1 .. n + 1 /\ n # n + 1 /\ i # 1
        BY <2>1, <3>2
      <4>2. h[i - 1] = g[n] /\ h[i] = g[n] \o seqs[n + 1]
        BY <2>3, <2>4, <3>2, <4>1
      <4> QED
        BY <3>2, <4>1, <4>2
    <3>3. CASE i # n + 1
      <4>1. i \in 1 .. n
        BY <2>1, <3>3
      <4>2. g[i] = IF i = 1 THEN seqs[i] ELSE g[i - 1] \o seqs[i]
        BY <2>2, <4>1 DEF Turn
      <4>3. i # 1 => i - 1 \in 1 .. n + 1 /\ i - 1 # n + 1
        BY <2>1, <4>1
      <4> QED
        BY <2>4, <3>3, <4>2, <4>3
    <3> QED
      BY <3>1, <3>2, <3>3
  <2>6. Turn(seqs, n + 1, h)
    <3>1. h = [i \in 1 .. n + 1 |-> h[i]]
      BY <2>4
    <3> QED
      BY <2>5, <3>1 DEF Turn
  <2> QED
    BY <2>1, <2>6
<1>3. T = Nat
  <2> HIDE DEF T
  <2>1. T \subseteq Nat
    BY DEF T
  <2> QED
    BY <1>1, <1>2, <2>1, SetInduction
<1>4. m \in T
  <2> HIDE DEF T
  <2> QED
    BY <1>3
<1> QED
  BY <1>4

\* m sequences of members of S.
Row(S, m, seqs) == seqs \in [1..m -> Seq(S)]

\* What FlattenSeq of them is.
LEMMA Flattened ==
  ASSUME NEW S, NEW m \in Nat, NEW seqs, Row(S, m, seqs)
  PROVE  \/ m = 0 /\ FlattenSeq(seqs) = <<>>
         \/ m > 0 /\ \E g : Turn(seqs, m, g) /\ FlattenSeq(seqs) = g[m]
<1>1. Len(seqs) = m
  <2>1. \A i \in 1..m : seqs[i] \in Seq(S)
    BY DEF Row
  <2>2. [i \in 1..m |-> seqs[i]] = seqs
    BY DEF Row
  <2>3. seqs \in Seq(Seq(S)) /\ DOMAIN seqs = 1..m
    BY <2>1, <2>2, IsASeq
  <2> QED
    BY <2>3, LenProperties
<1>2. CASE m = 0
  <2>1. seqs = <<>>
    BY <1>2 DEF Row
  <2> QED
    BY <1>1, <1>2, <2>1 DEF FlattenSeq
<1>3. CASE m > 0
  <2> DEFINE f == CHOOSE f : f = [i \in 1 .. Len(seqs) |->
                                    IF i = 1 THEN seqs[i] ELSE f[i - 1] \o seqs[i]]
  <2>1. FlattenSeq(seqs) = IF Len(seqs) = 0 THEN seqs ELSE f[Len(seqs)]
    BY Zenon DEF FlattenSeq
  <2>2. f = [i \in 1 .. Len(seqs) |-> IF i = 1 THEN seqs[i] ELSE f[i - 1] \o seqs[i]]
    BY <1>1, TurnExists DEF Turn
  <2>3. PICK g : g = f
    OBVIOUS
  <2> HIDE DEF f
  <2>4. g = [i \in 1..m |-> IF i = 1 THEN seqs[i] ELSE g[i - 1] \o seqs[i]]
    BY <1>1, <2>2, <2>3
  <2>5. FlattenSeq(seqs) = g[m]
    BY <1>1, <1>3, <2>1, <2>3
  <2> QED
    BY <1>3, <2>4, <2>5 DEF Turn
<1> QED
  BY <1>2, <1>3

LEMMA TurnStep ==
  ASSUME NEW m \in Nat, NEW seqs, NEW g, Turn(seqs, m, g), NEW n \in 1..m
  PROVE  g[n] = IF n = 1 THEN seqs[n] ELSE g[n - 1] \o seqs[n]
BY DEF Turn

\* Two rows of sequences, each as long as its counterpart, are as long.
LEMMA FlattenFacts ==
  ASSUME NEW S, NEW m \in Nat, NEW a, NEW b, Row(S, m, a), Row(S, m, b),
         \A i \in 1..m : Len(a[i]) = Len(b[i])
  PROVE  /\ FlattenSeq(a) \in Seq(S) /\ FlattenSeq(b) \in Seq(S)
         /\ Len(FlattenSeq(a)) = Len(FlattenSeq(b))
<1>1. CASE m = 0
  <2>1. FlattenSeq(a) = <<>> /\ FlattenSeq(b) = <<>>
    BY <1>1, Flattened
  <2> QED
    BY <2>1, EmptySeq
<1>2. CASE m > 0
  <2>1. PICK g : Turn(a, m, g) /\ FlattenSeq(a) = g[m]
    BY <1>2, Flattened
  <2>2. PICK h : Turn(b, m, h) /\ FlattenSeq(b) = h[m]
    BY <1>2, Flattened
  <2> DEFINE T == {n \in Nat : n + 1 <= m =>
                     /\ g[n + 1] \in Seq(S) /\ h[n + 1] \in Seq(S)
                     /\ Len(g[n + 1]) = Len(h[n + 1])}
  <2>3. 0 \in T
    <3>1. 1 \in 1..m /\ g[1] = a[1] /\ h[1] = b[1]
      BY <1>2, <2>1, <2>2, TurnStep
    <3>2. a[1] \in Seq(S) /\ b[1] \in Seq(S) /\ Len(a[1]) = Len(b[1])
      BY <3>1 DEF Row
    <3> QED
      BY <3>1, <3>2
  <2>4. ASSUME NEW n \in T PROVE n + 1 \in T
    <3>1. n \in Nat
      OBVIOUS
    <3> SUFFICES ASSUME n + 2 <= m
                 PROVE  /\ g[n + 2] \in Seq(S) /\ h[n + 2] \in Seq(S)
                        /\ Len(g[n + 2]) = Len(h[n + 2])
      BY <3>1
    <3>2. PICK k \in 1..m : k = n + 2 /\ k # 1 /\ k - 1 = n + 1
      BY <3>1
    <3>3. PICK x, y : x = g[n + 1] /\ y = h[n + 1]
      OBVIOUS
    <3>4. x \in Seq(S) /\ y \in Seq(S) /\ Len(x) = Len(y)
      BY <3>1, <3>3
    <3> HIDE DEF T
    <3>5. g[k] = x \o a[k] /\ h[k] = y \o b[k]
      <4>1. g[k] = IF k = 1 THEN a[k] ELSE g[k - 1] \o a[k]
        BY <2>1, TurnStep
      <4>2. h[k] = IF k = 1 THEN b[k] ELSE h[k - 1] \o b[k]
        BY <2>2, TurnStep
      <4> QED
        BY <3>2, <3>3, <4>1, <4>2
    <3>6. a[k] \in Seq(S) /\ b[k] \in Seq(S) /\ Len(a[k]) = Len(b[k])
      BY DEF Row
    <3>7. x \o a[k] \in Seq(S) /\ Len(x \o a[k]) = Len(x) + Len(a[k])
      BY <3>4, <3>6, ConcatProperties
    <3>8. y \o b[k] \in Seq(S) /\ Len(y \o b[k]) = Len(y) + Len(b[k])
      BY <3>4, <3>6, ConcatProperties
    <3> QED
      BY <3>2, <3>4, <3>5, <3>6, <3>7, <3>8
  <2>5. T = Nat
    <3> HIDE DEF T
    <3>1. T \subseteq Nat
      BY DEF T
    <3> QED
      BY <2>3, <2>4, <3>1, SetInduction
  <2>6. PICK n \in T : n + 1 = m
    <3> HIDE DEF T
    <3>1. m - 1 \in Nat /\ m - 1 + 1 = m
      BY <1>2
    <3> QED
      BY <2>5, <3>1
  <2>7. g[m] \in Seq(S) /\ h[m] \in Seq(S) /\ Len(g[m]) = Len(h[m])
    BY <2>6
  <2> QED
    BY <2>1, <2>2, <2>7
<1> QED
  BY <1>1, <1>2

-----------------------------------------------------------------------------
(* The indexes there are, and the sizes of their parts.                    *)

\* An index that training returned.
Fit(i) ==
  \E r \in Requests : /\ ~Refused(r) /\ ~Panics(r)
                      /\ \E shape \in Shapes(r) : i = Trained(r, shape)

\* What training guarantees, and the layout rests on.
LEMMA FitFacts ==
  ASSUME NEW i, Fit(i)
  PROVE  /\ i \in Indexes /\ i # NoIndex
         /\ i.kind \in {"ivf", "brute"} /\ i.rotator \in {"matrix", "fht"}
         /\ Padded(i) \in Nat /\ ExBits(i) \in 0..8
         /\ ExBits(i) \in {1, 2, 6} => Padded(i) % 16 = 0
         /\ i.kind = "ivf" => /\ ExBits(i) \in ExFunctions
                              /\ \E m \in Nat : i.sizes \in [1..m -> Nat]
         /\ i.kind = "brute" => i.sizes[1] \in Nat
<1>0. PICK r \in Requests : /\ ~Refused(r) /\ ~Panics(r)
                           /\ \E shape \in Shapes(r) : i = Trained(r, shape)
  BY DEF Fit
<1>1. PICK shape \in Shapes(r) : ~Refused(r) /\ ~Panics(r) /\ i = Trained(r, shape)
  BY <1>0
<1>2. r \in Request
  BY FilesAssumption
<1>3. /\ r.kind \in {"ivf", "brute"} /\ r.rotator \in {"matrix", "fht"}
      /\ r.dim \in Nat /\ r.bits \in 1..9 /\ r.rows \in Nat /\ r.nlist \in Nat
  BY <1>1, <1>2 DEF Request, Refused
<1>4. /\ i.kind = r.kind /\ i.rotator = r.rotator /\ i.dim = r.dim /\ i.bits = r.bits
      /\ i.sizes = shape
  BY <1>1 DEF Trained
<1>5. ExBits(i) = ExBits(r) /\ Padded(i) = Padded(r) /\ ExBits(r) \in 0..8
  BY <1>3, <1>4 DEF ExBits, Padded
<1>6. Padded(r) \in Nat
  BY <1>3 DEF Padded, Up
<1>7. ExBits(r) \in {1, 2, 6} => Padded(r) % 16 = 0
  BY <1>1 DEF Panics
<1>8. r.kind = "ivf" => ExBits(r) \in ExFunctions
  BY <1>1 DEF Panics
<1>9. r.kind = "ivf" => shape \in [1 .. r.nlist -> Nat]
  <2> SUFFICES ASSUME r.kind = "ivf" PROVE shape \in [1 .. r.nlist -> Nat]
    OBVIOUS
  <2>1. shape \in [1 .. r.nlist -> 0 .. r.rows]
    BY DEF Shapes
  <2> QED
    BY <1>3, <2>1
<1>10. r.kind = "brute" => shape[1] \in Nat
  <2> SUFFICES ASSUME r.kind = "brute" PROVE shape[1] \in Nat
    OBVIOUS
  <2>1. PICK n \in Nat : n = r.rows
    BY <1>3
  <2>2. shape = <<n>>
    BY <2>1 DEF Shapes
  <2> QED
    BY <2>2
<1>11. i \in Indexes
  BY <1>1 DEF Indexes
<1>12. i # NoIndex
  BY <1>3, <1>4 DEF NoIndex
<1>13. i.kind = "ivf" => \E m \in Nat : i.sizes \in [1..m -> Nat]
  BY <1>3, <1>4, <1>9
<1> QED
  BY <1>3, <1>4, <1>5, <1>6, <1>7, <1>8, <1>10, <1>11, <1>12, <1>13

\* Quantizer and loaders work out the same sizes, of codes ...
LEMMA CodeSizes ==
  ASSUME NEW i, Fit(i)
  PROVE  /\ i.kind = "ivf" => IvfCodeBytes(i) = LoadedIvfCodeBytes(i)
         /\ i.kind = "brute" /\ i.bits # 1 => ExCodeBytes(i) = LoadedCodeBytes(i)
<1>1. PICK p \in Nat, e \in 0..8 : p = Padded(i) /\ e = ExBits(i)
  BY FitFacts
<1>2. e \in {1, 2, 6} => p % 16 = 0
  BY <1>1, FitFacts
<1>3. ASSUME i.kind = "ivf" PROVE IvfCodeBytes(i) = LoadedIvfCodeBytes(i)
  <2>1. e \in {0, 2, 6}
    BY <1>1, <1>3, FitFacts DEF ExFunctions
  <2>2. CASE e = 0
    BY <1>1, <2>2 DEF IvfCodeBytes, LoadedIvfCodeBytes
  <2>3. CASE e = 2
    <3>1. 4 * (p \div 16) = (p * 2) \div 8
      BY <1>2, <2>3
    <3>2. IvfCodeBytes(i) = 4 * (p \div 16)
      BY <1>1, <2>3 DEF IvfCodeBytes, ExCodeBytes
    <3>3. LoadedIvfCodeBytes(i) = (p * 2) \div 8
      BY <1>1, <2>3 DEF LoadedIvfCodeBytes
    <3> QED
      BY <3>1, <3>2, <3>3
  <2>4. CASE e = 6
    <3>1. 12 * (p \div 16) = (p * 6) \div 8
      BY <1>2, <2>4
    <3>2. IvfCodeBytes(i) = 12 * (p \div 16)
      BY <1>1, <2>4 DEF IvfCodeBytes, ExCodeBytes
    <3>3. LoadedIvfCodeBytes(i) = (p * 6) \div 8
      BY <1>1, <2>4 DEF LoadedIvfCodeBytes
    <3> QED
      BY <3>1, <3>2, <3>3
  <2> QED
    BY <2>1, <2>2, <2>3, <2>4
<1>4. ASSUME i.kind = "brute", i.bits # 1 PROVE ExCodeBytes(i) = LoadedCodeBytes(i)
  <2>1. e # 0
    <3>1. i.bits - 1 = e
      BY <1>1 DEF ExBits
    <3>2. i.bits \in Int
      BY FitFacts, FilesAssumption DEF Fit, Request, Trained
    <3> QED
      BY <1>4, <3>1, <3>2
  <2>2. LoadedCodeBytes(i) = (p * e + 7) \div 8
    <3>1. LoadedCodeBytes(i) = Up(p * e, 8)
      BY <1>1, <2>1 DEF LoadedCodeBytes
    <3>2. PICK q \in Nat : q = p * e
      OBVIOUS
    <3>3. Up(q, 8) = (q + 7) \div 8
      BY DEF Up
    <3> QED
      BY <3>1, <3>2, <3>3
  <2>3. CASE e = 1
    <3>1. 2 * (p \div 16) = (p * 1 + 7) \div 8
      BY <1>2, <2>3
    <3>2. ExCodeBytes(i) = 2 * (p \div 16)
      BY <1>1, <2>3 DEF ExCodeBytes
    <3> QED
      BY <2>2, <2>3, <3>1, <3>2
  <2>4. CASE e = 2
    <3>1. 4 * (p \div 16) = (p * 2 + 7) \div 8
      BY <1>2, <2>4
    <3>2. ExCodeBytes(i) = 4 * (p \div 16)
      BY <1>1, <2>4 DEF ExCodeBytes
    <3> QED
      BY <2>2, <2>4, <3>1, <3>2
  <2>5. CASE e = 6
    <3>1. 12 * (p \div 16) = (p * 6 + 7) \div 8
      BY <1>2, <2>5
    <3>2. ExCodeBytes(i) = 12 * (p \div 16)
      BY <1>1, <2>5 DEF ExCodeBytes
    <3> QED
      BY <2>2, <2>5, <3>1, <3>2
  <2>6. CASE e \notin {0, 1, 2, 6}
    <3>1. ExCodeBytes(i) = Up(p * e, 8)
      BY <1>1, <2>6 DEF ExCodeBytes
    <3>2. LoadedCodeBytes(i) = Up(p * e, 8)
      BY <1>1, <2>1 DEF LoadedCodeBytes
    <3> QED
      BY <3>1, <3>2
  <2> QED
    BY <2>1, <2>3, <2>4, <2>5, <2>6
<1> QED
  BY <1>3, <1>4

\* ... and of batches, full or not.
LEMMA BatchSizes ==
  ASSUME NEW i, NEW n \in Nat
  PROVE  BatchBytes(i, n) = LoadedBatchBytes(i, n)
<1>1. Up(n, 32) = n \div 32 + IF n % 32 > 0 THEN 1 ELSE 0
  <2>1. Up(n, 32) = (n + 31) \div 32
    BY DEF Up
  <2>2. (n + 31) \div 32 = n \div 32 + IF n % 32 > 0 THEN 1 ELSE 0
    OBVIOUS
  <2> QED
    BY <2>1, <2>2
<1> QED
  BY <1>1 DEF BatchBytes, LoadedBatchBytes

LEMMA SizesAreNumbers ==
  ASSUME NEW i, Fit(i)
  PROVE  /\ IvfCodeBytes(i) \in Int /\ LoadedIvfCodeBytes(i) \in Int
         /\ ExCodeBytes(i) \in Int /\ LoadedCodeBytes(i) \in Int
         /\ RotatorBytes(i) \in Int
         /\ \A n \in Nat : BatchBytes(i, n) \in Int /\ LoadedBatchBytes(i, n) \in Int
<1>1. PICK p \in Nat, e \in 0..8 : p = Padded(i) /\ e = ExBits(i)
  BY FitFacts
<1>2. PICK q \in Nat : q = p * e
  OBVIOUS
<1>3. Up(q, 8) \in Int
  BY DEF Up
<1>4. ExCodeBytes(i) \in Int
  BY <1>1, <1>2, <1>3 DEF ExCodeBytes
<1>5. LoadedCodeBytes(i) \in Int
  BY <1>1, <1>2, <1>3 DEF LoadedCodeBytes
<1>6. IvfCodeBytes(i) \in Int
  BY <1>4 DEF IvfCodeBytes
<1>7. LoadedIvfCodeBytes(i) \in Int
  BY <1>1, <1>2 DEF LoadedIvfCodeBytes
<1>8. RotatorBytes(i) \in Int
  <2>1. PICK sq \in Nat : sq = p * p
    OBVIOUS
  <2>2. (4 * p) \div 8 \in Int /\ sq * 4 \in Int
    BY <2>1
  <2>3. RotatorBytes(i) = IF i.rotator = "fht" THEN (4 * p) \div 8 ELSE sq * 4
    BY <1>1, <2>1 DEF RotatorBytes
  <2> QED
    BY <2>2, <2>3
<1>9. ASSUME NEW n \in Nat PROVE BatchBytes(i, n) \in Int /\ LoadedBatchBytes(i, n) \in Int
  <2>1. PICK stride \in Int : stride = BatchStride(i)
    BY <1>1 DEF BatchStride
  <2>2. PICK up \in Int : up = Up(n, 32)
    BY DEF Up
  <2>3. LoadedBatchBytes(i, n) = stride * up
    BY <2>1, <2>2 DEF LoadedBatchBytes
  <2>4. stride * up \in Int
    OBVIOUS
  <2> QED
    BY <2>3, <2>4, BatchSizes
<1> QED
  BY <1>4, <1>5, <1>6, <1>7, <1>8, <1>9

-----------------------------------------------------------------------------
(* What a save writes, and what a load expects.                            *)

Names == {"magic", "fields", "rotator", "rows", "batches", "codes", "factors", "checksum"}
PartsOf(i) == [of : {i}, name : Names, size : Int]

\* Parts of i, so many of them.
Stretch(s, i, len) == s \in Seq(PartsOf(i)) /\ Len(s) = len

LEMMA Stretches ==
  ASSUME NEW i, Fit(i)
  PROVE  /\ Stretch(Preamble(i), i, 3) /\ Stretch(Footer(i), i, 1)
         /\ \A n \in Nat, batches, code \in Int : Stretch(Cluster(i, n, batches, code), i, 4)
         /\ \A code \in Int : Stretch(Vector(i, code), i, 2)
<1>1. PICK p \in Nat : p = Padded(i)
  BY FitFacts
<1>2. RotatorBytes(i) \in Int
  BY SizesAreNumbers
<1>3. Stretch(Preamble(i), i, 3)
  <2>1. PICK a, b, c : /\ a = Part(i, "magic", 8) /\ c = Part(i, "rotator", RotatorBytes(i))
                       /\ b = Part(i, "fields", IF i.kind = "ivf" THEN 36 ELSE 28)
    OBVIOUS
  <2>2. a \in PartsOf(i) /\ b \in PartsOf(i) /\ c \in PartsOf(i)
    BY <1>2, <2>1 DEF Part, PartsOf, Names
  <2>3. Preamble(i) = <<a, b, c>>
    BY <2>1 DEF Preamble
  <2> QED
    BY <2>2, <2>3 DEF Stretch
<1>4. Stretch(Footer(i), i, 1)
  <2>1. Part(i, "checksum", 4) \in PartsOf(i)
    BY DEF Part, PartsOf, Names
  <2> QED
    BY <2>1 DEF Footer, Stretch
<1>5. ASSUME NEW n \in Nat, NEW batches \in Int, NEW code \in Int
      PROVE  Stretch(Cluster(i, n, batches, code), i, 4)
  <2>1. PICK u, v, w, x : /\ u = 4 * Padded(i) + 8 + 8 * n /\ v = 8 + batches
                          /\ w = n * (8 + code) /\ x = 16 * n
    OBVIOUS
  <2>2. u \in Int /\ v \in Int /\ w \in Int /\ x \in Int
    BY <1>1, <2>1
  <2>3. PICK a, b, c, d : /\ a = Part(i, "rows", u) /\ b = Part(i, "batches", v)
                          /\ c = Part(i, "codes", w) /\ d = Part(i, "factors", x)
    OBVIOUS
  <2>4. a \in PartsOf(i) /\ b \in PartsOf(i) /\ c \in PartsOf(i) /\ d \in PartsOf(i)
    BY <2>2, <2>3 DEF Part, PartsOf, Names
  <2>5. Cluster(i, n, batches, code) = <<a, b, c, d>>
    BY <2>1, <2>3 DEF Cluster
  <2> QED
    BY <2>4, <2>5 DEF Stretch
<1>6. ASSUME NEW code \in Int PROVE Stretch(Vector(i, code), i, 2)
  <2>1. PICK up \in Int : up = Up(Padded(i), 8)
    BY <1>1 DEF Up
  <2>2. PICK a, b : a = Part(i, "codes", up + code) /\ b = Part(i, "factors", 32)
    OBVIOUS
  <2>3. a \in PartsOf(i) /\ b \in PartsOf(i)
    BY <2>1, <2>2 DEF Part, PartsOf, Names
  <2>4. Vector(i, code) = <<a, b>>
    BY <2>1, <2>2 DEF Vector
  <2> QED
    BY <2>3, <2>4 DEF Stretch
<1> QED
  BY <1>3, <1>4, <1>5, <1>6

\* What differs between two files in the middle, but not in length.
LEMMA Between ==
  ASSUME NEW S, NEW a \in Seq(S), NEW b \in Seq(S), NEW c \in Seq(S), NEW d \in Seq(S),
         Len(b) = Len(c)
  PROVE  /\ a \o b \o d \in Seq(S) /\ a \o c \o d \in Seq(S)
         /\ Len(a \o b \o d) = Len(a \o c \o d) /\ Len(a \o b \o d) >= Len(a)
<1>1. a \o b \in Seq(S) /\ Len(a \o b) = Len(a) + Len(b)
  BY ConcatProperties
<1>2. a \o c \in Seq(S) /\ Len(a \o c) = Len(a) + Len(c)
  BY ConcatProperties
<1>3. (a \o b) \o d \in Seq(S) /\ Len((a \o b) \o d) = Len(a \o b) + Len(d)
  BY <1>1, ConcatProperties
<1>4. (a \o c) \o d \in Seq(S) /\ Len((a \o c) \o d) = Len(a \o c) + Len(d)
  BY <1>2, ConcatProperties
<1>5. Len(a) \in Nat /\ Len(b) \in Nat /\ Len(d) \in Nat
  BY LenProperties
<1> QED
  BY <1>1, <1>2, <1>3, <1>4, <1>5

\* The clusters, or the vectors, of an index: as saved and as loaded.
LEMMA Middles ==
  ASSUME NEW i, Fit(i)
  PROVE  \E a, b, m : /\ m \in Nat /\ Row(PartsOf(i), m, a) /\ Row(PartsOf(i), m, b)
                      /\ \A n \in 1..m : Len(a[n]) = Len(b[n])
                      /\ Image(i) = Preamble(i) \o FlattenSeq(a) \o Footer(i)
                      /\ Expected(i) = Preamble(i) \o FlattenSeq(b) \o Footer(i)
                      /\ ~OneBitBruteForce(i) => a = b
<1>1. CASE i.kind = "ivf"
  <2>1. PICK m \in Nat : i.sizes \in [1..m -> Nat]
    BY <1>1, FitFacts
  <2>2. PICK a : a = [c \in DOMAIN i.sizes |->
            Cluster(i, i.sizes[c], BatchBytes(i, i.sizes[c]), IvfCodeBytes(i))]
    OBVIOUS
  <2>3. PICK b : b = [c \in DOMAIN i.sizes |->
            Cluster(i, i.sizes[c], LoadedBatchBytes(i, i.sizes[c]), LoadedIvfCodeBytes(i))]
    OBVIOUS
  <2>4. ASSUME NEW c \in 1..m
        PROVE  a[c] = b[c] /\ Stretch(a[c], i, 4)
    <3>1. PICK n \in Nat : n = i.sizes[c] /\ c \in DOMAIN i.sizes
      BY <2>1
    <3>2. a[c] = Cluster(i, n, BatchBytes(i, n), IvfCodeBytes(i))
      BY <2>2, <3>1
    <3>3. b[c] = Cluster(i, n, LoadedBatchBytes(i, n), LoadedIvfCodeBytes(i))
      BY <2>3, <3>1
    <3>4. BatchBytes(i, n) = LoadedBatchBytes(i, n) /\ IvfCodeBytes(i) = LoadedIvfCodeBytes(i)
      BY <1>1, BatchSizes, CodeSizes
    <3>5. BatchBytes(i, n) \in Int /\ IvfCodeBytes(i) \in Int
      BY SizesAreNumbers
    <3>6. Stretch(a[c], i, 4)
      BY <3>2, <3>5, Stretches
    <3> QED
      BY <3>2, <3>3, <3>4, <3>6
  <2>5. a = b /\ Row(PartsOf(i), m, a)
    <3>1. a = [c \in 1..m |-> a[c]] /\ b = [c \in 1..m |-> b[c]]
      BY <2>1, <2>2, <2>3
    <3>2. \A c \in 1..m : a[c] = b[c] /\ a[c] \in Seq(PartsOf(i))
      BY <2>4 DEF Stretch
    <3> QED
      BY <3>1, <3>2 DEF Row
  <2>6. /\ Image(i) = Preamble(i) \o FlattenSeq(a) \o Footer(i)
        /\ Expected(i) = Preamble(i) \o FlattenSeq(b) \o Footer(i)
    BY <1>1, <2>2, <2>3 DEF Image, Expected
  <2> QED
    BY <2>5, <2>6
<1>2. CASE i.kind = "brute"
  <2>1. PICK m \in Nat : m = i.sizes[1]
    BY <1>2, FitFacts
  <2>2. PICK a : a = [v \in 1 .. i.sizes[1] |-> Vector(i, ExCodeBytes(i))]
    OBVIOUS
  <2>3. PICK b : b = [v \in 1 .. i.sizes[1] |-> Vector(i, LoadedCodeBytes(i))]
    OBVIOUS
  <2>4. /\ Stretch(Vector(i, ExCodeBytes(i)), i, 2)
        /\ Stretch(Vector(i, LoadedCodeBytes(i)), i, 2)
    BY SizesAreNumbers, Stretches
  <2>5. Row(PartsOf(i), m, a) /\ Row(PartsOf(i), m, b)
    BY <2>1, <2>2, <2>3, <2>4 DEF Row, Stretch
  <2>6. \A n \in 1..m : Len(a[n]) = Len(b[n])
    BY <2>1, <2>2, <2>3, <2>4 DEF Stretch
  <2>7. ~OneBitBruteForce(i) => a = b
    <3>1. ~OneBitBruteForce(i) => ExCodeBytes(i) = LoadedCodeBytes(i)
      BY <1>2, CodeSizes DEF OneBitBruteForce
    <3> QED
      BY <2>2, <2>3, <3>1
  <2>8. /\ Image(i) = Preamble(i) \o FlattenSeq(a) \o Footer(i)
        /\ Expected(i) = Preamble(i) \o FlattenSeq(b) \o Footer(i)
    BY <1>2, <2>2, <2>3 DEF Image, Expected
  <2> QED
    BY <2>5, <2>6, <2>7, <2>8
<1> QED
  BY <1>1, <1>2, FitFacts

LEMMA ImageFacts ==
  ASSUME NEW i, Fit(i)
  PROVE  /\ Image(i) \in Seq(PartsOf(i)) /\ Expected(i) \in Seq(PartsOf(i))
         /\ Len(Image(i)) = Len(Expected(i)) /\ Len(Image(i)) >= 2
         /\ ~OneBitBruteForce(i) => Expected(i) = Image(i)
<1>1. PICK a, b, m : /\ m \in Nat /\ Row(PartsOf(i), m, a) /\ Row(PartsOf(i), m, b)
                     /\ \A n \in 1..m : Len(a[n]) = Len(b[n])
                     /\ Image(i) = Preamble(i) \o FlattenSeq(a) \o Footer(i)
                     /\ Expected(i) = Preamble(i) \o FlattenSeq(b) \o Footer(i)
                     /\ ~OneBitBruteForce(i) => a = b
  BY Middles
<1>2. PICK S : S = PartsOf(i)
  OBVIOUS
<1>3. PICK x, y, head, foot : /\ x = FlattenSeq(a) /\ y = FlattenSeq(b)
                              /\ head = Preamble(i) /\ foot = Footer(i)
  OBVIOUS
<1>4. x \in Seq(S) /\ y \in Seq(S) /\ Len(x) = Len(y)
  BY <1>1, <1>2, <1>3, FlattenFacts
<1>5. head \in Seq(S) /\ foot \in Seq(S) /\ Len(head) = 3
  BY <1>2, <1>3, Stretches DEF Stretch
<1>6. /\ head \o x \o foot \in Seq(S) /\ head \o y \o foot \in Seq(S)
      /\ Len(head \o x \o foot) = Len(head \o y \o foot)
      /\ Len(head \o x \o foot) >= Len(head)
  <2>1. head \in Seq(S) /\ foot \in Seq(S)
    BY <1>5
  <2> QED
    BY <1>4, <2>1, Between
<1>7. Image(i) = head \o x \o foot /\ Expected(i) = head \o y \o foot
  BY <1>1, <1>3
<1>8. Len(Image(i)) >= 2
  <2>1. PICK len \in Nat : len = Len(Image(i))
    BY <1>6, <1>7, LenProperties
  <2>2. len >= 3
    BY <1>5, <1>6, <1>7, <2>1
  <2> QED
    BY <2>1, <2>2
<1>9. ~OneBitBruteForce(i) => Expected(i) = Image(i)
  BY <1>1
<1>10. Image(i) \in Seq(S) /\ Expected(i) \in Seq(S) /\ Len(Image(i)) = Len(Expected(i))
  BY <1>6, <1>7
<1> QED
  BY <1>2, <1>8, <1>9, <1>10

-----------------------------------------------------------------------------
(* The inductive invariant: a file is always what ONE save wrote, cut      *)
(* short and with holes (FileOK), a save in progress has written exactly   *)
(* what it has no longer to write (SaveOK), one that returned has left its *)
(* file whole (KeptOK), and every index in memory is one that training     *)
(* returned, with the widths and dimensions training lets through          *)
(* (MemoryOK).                                                             *)

\* The file is what a save of i writes, cut short and with holes.
Torn(f, i) ==
  /\ f \in Seq([of : {i, NoIndex}, name : Names, size : Int])
  /\ Len(f) <= Len(Image(i))
  /\ \A n \in DOMAIN f : f[n] = Image(i)[n] \/ f[n] = Hole(Image(i)[n])

Writing(f, l, i) ==
  f \in Seq(PartsOf(i)) /\ l \in Seq(PartsOf(i)) /\ f \o l = Image(i)

FileOK == file = <<>> \/ \E i \in Indexes : Fit(i) /\ Torn(file, i)
MemoryOK == (index = NoIndex \/ Fit(index)) /\ (good = NoIndex \/ Fit(good))
SaveOK == left # <<>> => Fit(index) /\ good = NoIndex /\ Writing(file, left, index)
KeptOK == good # NoIndex => left = <<>> /\ file = Image(good)
CountsOK == result \in Results /\ saves \in 0..MaxSaves /\ faults \in 0..MaxFaults

IInv == FileOK /\ MemoryOK /\ SaveOK /\ KeptOK /\ CountsOK

LEMMA ImageParts ==
  ASSUME NEW i, Fit(i)
  PROVE  \E len \in Nat : /\ Len(Image(i)) = len /\ DOMAIN Image(i) = 1..len /\ len >= 2
                         /\ \A n \in 1..len : Image(i)[n] \in PartsOf(i)
<1>1. Image(i) \in Seq(PartsOf(i)) /\ Len(Image(i)) >= 2
  BY ImageFacts
<1>2. PICK len \in Nat : Len(Image(i)) = len /\ DOMAIN Image(i) = 1..len
  BY <1>1, LenProperties
<1>3. \A n \in 1..len : Image(i)[n] \in PartsOf(i)
  BY <1>1, <1>2, ElementOfSeq
<1> QED
  BY <1>1, <1>2, <1>3

\* A part is of its index, and a hole of none.
LEMMA HoleFacts ==
  ASSUME NEW i, NEW x \in PartsOf(i)
  PROVE  /\ x.of = i /\ Hole(x).of = NoIndex /\ Hole(Hole(x)) = Hole(x)
         /\ x \in [of : {i, NoIndex}, name : Names, size : Int]
         /\ Hole(x) \in [of : {i, NoIndex}, name : Names, size : Int]
         /\ Hole(x).size = x.size /\ Hole(x).name = x.name
BY DEF PartsOf, Hole

\* What a save has written so far is torn.
LEMMA WritingTorn ==
  ASSUME NEW i, Fit(i), NEW f, NEW l, Writing(f, l, i)
  PROVE  Torn(f, i)
<1>1. PICK S : S = PartsOf(i)
  OBVIOUS
<1>2. f \in Seq(S) /\ l \in Seq(S) /\ f \o l = Image(i)
  BY <1>1 DEF Writing
<1>3. PICK a \in Nat : a = Len(f) /\ DOMAIN f = 1..a
  BY <1>2, LenProperties
<1>4. PICK b \in Nat : b = Len(l)
  BY <1>2, LenProperties
<1>5. PICK img : img = Image(i)
  OBVIOUS
<1>6. /\ Len(f \o l) = Len(f) + Len(l)
      /\ \A n \in 1 .. Len(f) + Len(l) :
           (f \o l)[n] = IF n <= Len(f) THEN f[n] ELSE l[n - Len(f)]
  BY <1>2, ConcatProperties
<1>7. Len(img) = a + b /\ \A n \in 1..a : img[n] = f[n]
  BY <1>2, <1>3, <1>4, <1>5, <1>6
<1>8. Len(f) <= Len(img) /\ \A n \in DOMAIN f : f[n] = img[n]
  BY <1>3, <1>7
<1>9. f \in Seq([of : {i, NoIndex}, name : Names, size : Int])
  <2>1. S \subseteq [of : {i, NoIndex}, name : Names, size : Int]
    BY <1>1, HoleFacts
  <2> QED
    BY <1>2, <2>1, SeqMonotonic
<1> QED
  BY <1>5, <1>8, <1>9 DEF Torn

\* What a loss of power leaves of a torn file is torn.
LEMMA LossTears ==
  ASSUME NEW i, Fit(i), NEW f, Torn(f, i), NEW lost
  PROVE  Torn([n \in DOMAIN f |-> IF n \in lost THEN Hole(f[n]) ELSE f[n]], i)
<1>1. PICK S : S = [of : {i, NoIndex}, name : Names, size : Int]
  OBVIOUS
<1>2. f \in Seq(S)
  BY <1>1 DEF Torn
<1>3. PICK len \in Nat : len = Len(f) /\ DOMAIN f = 1..len
  BY <1>2, LenProperties
<1>4. PICK full \in Nat : /\ Len(Image(i)) = full
                          /\ \A n \in 1..full : Image(i)[n] \in PartsOf(i)
  BY ImageParts
<1>5. len <= full /\ \A n \in 1..len : f[n] = Image(i)[n] \/ f[n] = Hole(Image(i)[n])
  BY <1>3, <1>4 DEF Torn
<1>6. PICK t : t = [n \in 1..len |-> IF n \in lost THEN Hole(f[n]) ELSE f[n]]
  OBVIOUS
<1>7. ASSUME NEW n \in 1..len
      PROVE  t[n] \in S /\ (t[n] = Image(i)[n] \/ t[n] = Hole(Image(i)[n]))
  <2>1. Image(i)[n] \in PartsOf(i)
    BY <1>4, <1>5
  <2>2. PICK x : x = Image(i)[n]
    OBVIOUS
  <2>3. x \in S /\ Hole(x) \in S /\ Hole(Hole(x)) = Hole(x)
    BY <1>1, <2>1, <2>2, HoleFacts
  <2>4. f[n] = x \/ f[n] = Hole(x)
    BY <1>5, <2>2
  <2>5. t[n] = Hole(f[n]) \/ t[n] = f[n]
    BY <1>6
  <2> QED
    BY <2>2, <2>3, <2>4, <2>5
<1>8. t \in Seq(S) /\ Len(t) = len /\ DOMAIN t = 1..len
  <2>1. [n \in 1..len |-> t[n]] \in Seq(S)
    BY <1>7, IsASeq
  <2>2. t = [n \in 1..len |-> t[n]]
    BY <1>6
  <2> QED
    BY <1>6, <2>1, <2>2
<1>9. Torn(t, i)
  BY <1>1, <1>4, <1>5, <1>7, <1>8 DEF Torn
<1> QED
  BY <1>3, <1>6, <1>9

\* One part moved from what is left to the file.
LEMMA OneMore ==
  ASSUME NEW S, NEW s \in Seq(S), NEW t \in Seq(S), t # <<>>
  PROVE  /\ Append(s, Head(t)) \in Seq(S) /\ Tail(t) \in Seq(S)
         /\ Append(s, Head(t)) \o Tail(t) = s \o t
<1>1. PICK h, r : h = Head(t) /\ r = Tail(t)
  OBVIOUS
<1>2. h \in S /\ r \in Seq(S) /\ Len(r) = Len(t) - 1 /\ \A i \in 1 .. Len(r) : r[i] = t[i + 1]
  BY <1>1, HeadTailProperties
<1>3. t[1] = h
  BY <1>1
<1>4. PICK one : one = <<h>>
  OBVIOUS
<1>5. one \in Seq(S) /\ Len(one) = 1 /\ one[1] = h
  BY <1>2, <1>4
<1>6. PICK m \in Nat : m = Len(r) /\ Len(t) = 1 + m
  BY <1>2, LenProperties
<1>7. /\ one \o r \in Seq(S) /\ Len(one \o r) = 1 + m
      /\ \A i \in 1 .. 1 + m : (one \o r)[i] = IF i <= 1 THEN one[i] ELSE r[i - 1]
  <2>1. /\ one \o r \in Seq(S) /\ Len(one \o r) = Len(one) + Len(r)
        /\ \A i \in 1 .. Len(one) + Len(r) :
             (one \o r)[i] = IF i <= Len(one) THEN one[i] ELSE r[i - Len(one)]
    <3>1. one \in Seq(S) /\ r \in Seq(S)
      BY <1>2, <1>5
    <3> QED
      BY <3>1, ConcatProperties
  <2> QED
    BY <1>5, <1>6, <2>1
<1>8. one \o r = t
  <2>1. ASSUME NEW i \in 1 .. 1 + m PROVE (one \o r)[i] = t[i]
    <3>1. CASE i = 1
      BY <1>3, <1>5, <1>7, <3>1
    <3>2. CASE i # 1
      <4>1. PICK k \in 1..m : i = k + 1 /\ i - 1 = k /\ ~(i <= 1)
        BY <3>2
      <4> QED
        BY <1>2, <1>6, <1>7, <4>1
    <3> QED
      BY <3>1, <3>2
  <2> QED
    BY <1>6, <1>7, <2>1, SeqEqual
<1>9. Append(s, h) = s \o one /\ Append(s, h) \in Seq(S)
  BY <1>2, <1>4, AppendIsConcat, AppendProperties
<1>10. (s \o one) \o r = s \o t
  <2>1. (s \o one) \o r = s \o (one \o r)
    BY <1>2, <1>5, ConcatAssociative
  <2> QED
    BY <1>8, <2>1
<1> QED
  BY <1>1, <1>2, <1>9, <1>10

-----------------------------------------------------------------------------
(* The steps.                                                              *)

LEMMA InitIInv ==
  ASSUME Init
  PROVE  IInv
<1>1. FileOK /\ MemoryOK /\ SaveOK /\ KeptOK
  BY DEF Init, FileOK, MemoryOK, SaveOK, KeptOK
<1>2. CountsOK
  BY FilesAssumption DEF Init, CountsOK, Results
<1> QED
  BY <1>1, <1>2 DEF IInv

LEMMA Trains ==
  ASSUME IInv, NEW r \in Requests, Train(r)
  PROVE  IInv'
<1>1. left = <<>> /\ UNCHANGED <<file, left, good, saves, faults>>
  BY DEF Train
<1>2. index' = index \/ index' = NoIndex \/ Fit(index')
  BY DEF Train, Fit
<1>3. FileOK' /\ MemoryOK' /\ SaveOK' /\ KeptOK'
  BY <1>1, <1>2 DEF IInv, FileOK, MemoryOK, SaveOK, KeptOK
<1>4. CountsOK'
  BY <1>1 DEF IInv, CountsOK, Train, Results
<1> QED
  BY <1>3, <1>4 DEF IInv

LEMMA Saves ==
  ASSUME IInv, Save
  PROVE  IInv'
<1>1. Fit(index)
  BY DEF IInv, MemoryOK, Save
<1>2. PICK img, S : img = Image(index) /\ S = PartsOf(index)
  OBVIOUS
<1>3. img \in Seq(S) /\ <<>> \in Seq(S) /\ <<>> \o img = img
  BY <1>1, <1>2, ImageFacts, EmptySeq, ConcatEmptySeq
<1>4. Writing(<<>>, img, index)
  BY <1>2, <1>3 DEF Writing
<1>5. file' = <<>> /\ left' = img /\ good' = NoIndex /\ index' = index
  BY <1>2 DEF Save
<1>6. FileOK' /\ MemoryOK' /\ SaveOK' /\ KeptOK'
  BY <1>1, <1>4, <1>5 DEF FileOK, MemoryOK, SaveOK, KeptOK
<1>7. CountsOK'
  BY FilesAssumption DEF IInv, CountsOK, Save, Results
<1> QED
  BY <1>6, <1>7 DEF IInv

LEMMA Writes ==
  ASSUME IInv, Write
  PROVE  IInv'
<1>1. Fit(index) /\ good = NoIndex /\ Writing(file, left, index) /\ left # <<>>
  BY DEF IInv, SaveOK, Write
<1>2. PICK S : S = PartsOf(index)
  OBVIOUS
<1>3. file \in Seq(S) /\ left \in Seq(S) /\ file \o left = Image(index)
  BY <1>1, <1>2 DEF Writing
<1>4. /\ Append(file, Head(left)) \in Seq(S) /\ Tail(left) \in Seq(S)
      /\ Append(file, Head(left)) \o Tail(left) = Image(index)
  BY <1>1, <1>3, OneMore
<1>5. file' = Append(file, Head(left)) /\ left' = Tail(left) /\ index' = index
  BY DEF Write
<1>6. Writing(file', left', index)
  BY <1>2, <1>4, <1>5 DEF Writing
<1>7. Torn(file', index) /\ index \in Indexes
  BY <1>1, <1>6, WritingTorn, FitFacts
<1>8. FileOK'
  BY <1>1, <1>7 DEF FileOK
<1>9. CASE left' # <<>>
  <2>1. good' = NoIndex /\ result' = result
    BY <1>1, <1>9 DEF Write
  <2>2. MemoryOK' /\ SaveOK' /\ KeptOK'
    BY <1>1, <1>5, <1>6, <2>1 DEF MemoryOK, SaveOK, KeptOK
  <2>3. CountsOK'
    BY <2>1 DEF IInv, CountsOK, Write
  <2> QED
    BY <1>8, <2>2, <2>3 DEF IInv
<1>10. CASE left' = <<>>
  <2>1. good' = index /\ result' = "ok"
    BY <1>10 DEF Write
  <2>2. file' = Image(index)
    <3>1. file' \in Seq(S) /\ file' \o <<>> = Image(index)
      BY <1>4, <1>5, <1>10
    <3> QED
      BY <3>1, ConcatEmptySeq
  <2>3. MemoryOK' /\ SaveOK' /\ KeptOK'
    BY <1>1, <1>5, <1>10, <2>1, <2>2 DEF MemoryOK, SaveOK, KeptOK
  <2>4. CountsOK'
    BY <2>1 DEF IInv, CountsOK, Write, Results
  <2> QED
    BY <1>8, <2>3, <2>4 DEF IInv
<1> QED
  BY <1>9, <1>10

\* A file from which the fields of an index can be read was written by a save
\* of that index.
LEMMA HeaderIs ==
  ASSUME NEW i, Fit(i), Torn(file, i), Len(file) >= 2, Header # NoIndex
  PROVE  Header = i
<1>1. PICK full \in Nat : /\ Len(Image(i)) = full
                          /\ \A n \in 1..full : Image(i)[n] \in PartsOf(i)
  BY ImageParts
<1>2. PICK len \in Nat : len = Len(file) /\ DOMAIN file = 1..len
  BY LenProperties DEF Torn
<1>3. PICK n \in 1..len : n = 2 /\ n \in 1..full
  BY <1>1, <1>2 DEF Torn
<1>4. PICK x : x = Image(i)[n]
  OBVIOUS
<1>5. x \in PartsOf(i) /\ (file[n] = x \/ file[n] = Hole(x))
  BY <1>1, <1>2, <1>3, <1>4 DEF Torn
<1>6. Header = file[n].of
  BY <1>3 DEF Header
<1> QED
  BY <1>5, <1>6, HoleFacts

\* What passes the checks of a loader is the whole file of one index: its
\* fields are there, the checksum leaves no hole in the parts after them, and
\* the sizes leave none missing.
LEMMA LoadableIsWhole ==
  ASSUME IInv, NEW loader \in Loaders, Loadable(loader)
  PROVE  Fit(Header) /\ file = Image(Header)
<1>1. PICK kind \in {"ivf", "brute"} : HeaderReads(kind)
  BY DEF Loadable, Loaders
<1>2. Len(file) >= 2 /\ file[1].of # NoIndex /\ Header # NoIndex
  BY <1>1 DEF HeaderReads, NoIndex
<1>3. file # <<>>
  <2>1. Len(<<>>) = 0
    BY EmptySeq
  <2> QED
    BY <1>2, <2>1
<1>4. PICK i \in Indexes : Fit(i) /\ Torn(file, i)
  BY <1>3 DEF IInv, FileOK
<1>5. Header = i
  BY <1>2, <1>4, HeaderIs
<1>6. PICK full \in Nat : /\ Len(Image(i)) = full /\ DOMAIN Image(i) = 1..full
                          /\ \A n \in 1..full : Image(i)[n] \in PartsOf(i)
  BY <1>4, ImageParts
<1>7. PICK S : S = [of : {i, NoIndex}, name : Names, size : Int]
  OBVIOUS
<1>8. file \in Seq(S)
  BY <1>4, <1>7 DEF Torn
<1>9. Len(file) = full
  <2>1. Len(file) = Len(Expected(i))
    BY <1>5 DEF Loadable, Fits
  <2> QED
    BY <1>4, <1>6, <2>1, ImageFacts
<1>10. DOMAIN file = 1..full
  BY <1>8, <1>9, LenProperties
<1>11. ASSUME NEW n \in 1..full PROVE file[n] = Image(i)[n]
  <2>1. file[n].of # NoIndex
    <3>1. CASE n = 1
      BY <1>2, <3>1
    <3>2. CASE n = 2
      BY <1>2, <3>2 DEF Header
    <3>3. CASE n \in 3..full
      <4>1. file[n].of = Header
        BY <1>9, <3>3 DEF Loadable, ChecksumMatches
      <4> QED
        BY <1>2, <4>1
    <3> QED
      BY <3>1, <3>2, <3>3
  <2>2. PICK x : x = Image(i)[n]
    OBVIOUS
  <2>3. x \in PartsOf(i) /\ (file[n] = x \/ file[n] = Hole(x))
    BY <1>4, <1>6, <1>10, <2>2 DEF Torn
  <2>4. Hole(x).of = NoIndex
    BY <2>3, HoleFacts
  <2> QED
    BY <2>1, <2>2, <2>3, <2>4
<1>12. Image(i) \in Seq(S)
  <2>1. PartsOf(i) \subseteq S
    BY <1>7, HoleFacts
  <2> QED
    BY <1>4, <2>1, ImageFacts, SeqMonotonic
<1>13. file = Image(i)
  BY <1>6, <1>8, <1>9, <1>11, <1>12, SeqEqual
<1> QED
  BY <1>4, <1>5, <1>13

LEMMA Loads ==
  ASSUME IInv, NEW loader \in Loaders, Load(loader)
  PROVE  IInv'
<1>1. left = <<>> /\ UNCHANGED <<file, left, good, saves, faults>>
  BY DEF Load
<1>2. index' = index \/ Fit(index')
  BY LoadableIsWhole DEF Load
<1>3. FileOK' /\ MemoryOK' /\ SaveOK' /\ KeptOK'
  BY <1>1, <1>2 DEF IInv, FileOK, MemoryOK, SaveOK, KeptOK
<1>4. CountsOK'
  BY <1>1 DEF IInv, CountsOK, Load, Results
<1> QED
  BY <1>3, <1>4 DEF IInv

LEMMA Stops ==
  ASSUME IInv, SaveStops
  PROVE  IInv'
<1>1. left # <<>> /\ left' = <<>> /\ UNCHANGED <<file, good>>
  BY DEF SaveStops
<1>2. good = NoIndex
  BY <1>1 DEF IInv, SaveOK
<1>3. index' = index \/ index' = NoIndex
  BY DEF SaveStops
<1>4. FileOK' /\ MemoryOK' /\ SaveOK' /\ KeptOK'
  BY <1>1, <1>2, <1>3 DEF IInv, FileOK, MemoryOK, SaveOK, KeptOK
<1>5. CountsOK'
  BY FilesAssumption DEF IInv, CountsOK, SaveStops, Results
<1> QED
  BY <1>4, <1>5 DEF IInv

LEMMA Loses ==
  ASSUME IInv, PowerLoss
  PROVE  IInv'
<1>1. PICK i \in Indexes : Fit(i) /\ Torn(file, i)
  BY DEF IInv, FileOK, PowerLoss
<1>2. PICK lost : file' = [n \in DOMAIN file |-> IF n \in lost THEN Hole(file[n]) ELSE file[n]]
  BY DEF PowerLoss
<1>3. Torn(file', i)
  BY <1>1, <1>2, LossTears
<1>4. FileOK'
  BY <1>1, <1>3 DEF FileOK
<1>5. left' = <<>> /\ index' = NoIndex /\ good' = NoIndex
  BY DEF PowerLoss
<1>6. MemoryOK' /\ SaveOK' /\ KeptOK'
  BY <1>5 DEF MemoryOK, SaveOK, KeptOK
<1>7. CountsOK'
  BY FilesAssumption DEF IInv, CountsOK, PowerLoss, Results
<1> QED
  BY <1>4, <1>6, <1>7 DEF IInv

LEMMA StepIInv ==
  ASSUME IInv, [Next]_vars
  PROVE  IInv'
<1>1. CASE UNCHANGED vars
  BY <1>1 DEF vars, IInv, FileOK, MemoryOK, SaveOK, KeptOK, CountsOK
<1>2. CASE Next
  BY <1>2, Trains, Saves, Writes, Loads, Stops, Loses DEF Next
<1> QED
  BY <1>1, <1>2

LEMMA Invariance == Spec => []IInv
<1>1. Init => IInv
  BY InitIInv
<1>2. IInv /\ [Next]_vars => IInv'
  BY StepIInv
<1> QED
  BY <1>1, <1>2, PTL DEF Spec

-----------------------------------------------------------------------------
(* What readers of the files rely on.                                      *)

\* Every index in memory, trained or loaded, is one that training returns for
\* some request; an IVF index has a width select_excode_ipfunc knows;
\* and what a save has written and has yet to write is the file it means to
\* write (save_to_writer, load_from_reader of ivf.rs and brute_force.rs).
THEOREM TypeCorrect == Spec => []TypeOK
<1>1. IInv => TypeOK
  <2> SUFFICES ASSUME IInv PROVE TypeOK
    OBVIOUS
  <2>1. index \in Indexes \cup {NoIndex} /\ good \in Indexes \cup {NoIndex}
    BY FitFacts DEF IInv, MemoryOK
  <2>2. index.kind = "ivf" => ExBits(index) \in ExFunctions
    BY FitFacts DEF IInv, MemoryOK, NoIndex
  <2>3. left # <<>> => file \o left = Image(index)
    BY DEF IInv, SaveOK, Writing
  <2> QED
    BY <2>1, <2>2, <2>3 DEF IInv, CountsOK, TypeOK
<1> QED
  BY <1>1, Invariance, PTL

\* Whatever a load returns is the whole of one index, as save_to_writer wrote
\* it: a file cut short or with holes never loads, whichever of the three
\* loaders is asked (ivf.rs, brute_force.rs, lib.rs).
THEOREM LoadsWhole == Spec => LoadedWhole
<1>1. IInv /\ [Next]_vars =>
        [\A loader \in Loaders : result' = "ok" /\ Load(loader) => file = Image(index')]_vars
  <2> SUFFICES ASSUME IInv, NEW loader \in Loaders, result' = "ok", Load(loader)
               PROVE  file = Image(index')
    OBVIOUS
  <2>1. Loadable(loader) /\ index' = Header
    BY DEF Load
  <2> QED
    BY <2>1, LoadableIsWhole
<1> QED
  BY <1>1, Invariance, PTL DEF Spec, LoadedWhole

\* A file that is the image of an index, not one-bit brute-force and within
\* the limit, passes every check of its loader and of the smart one.
LEMMA WholeLoads ==
  ASSUME NEW i, Fit(i), file = Image(i), ~OneBitBruteForce(i), ~Large(i)
  PROVE  Header = i /\ Loadable(i.kind) /\ Loadable("smart")
<1>1. PICK full \in Nat : /\ Len(Image(i)) = full /\ DOMAIN Image(i) = 1..full /\ full >= 2
                          /\ \A n \in 1..full : Image(i)[n] \in PartsOf(i)
  BY ImageParts
<1>2. \A n \in 1..full : file[n].of = i
  BY <1>1, HoleFacts
<1>3. Header = i
  BY <1>1, <1>2 DEF Header
<1>4. Len(file) = full /\ i # NoIndex /\ i.kind \in {"ivf", "brute"}
  BY <1>1, FitFacts
<1>5. HeaderReads(i.kind)
  BY <1>1, <1>2, <1>3, <1>4 DEF HeaderReads
<1>6. ChecksumMatches
  BY <1>2, <1>3, <1>4 DEF ChecksumMatches
<1>7. Fits
  BY <1>3, ImageFacts DEF Fits
<1>8. WithinLimits
  <2> SUFFICES ASSUME i.kind = "ivf", NEW c \in DOMAIN i.sizes
               PROVE  i.sizes[c] <= MaxCluster
    BY <1>3 DEF WithinLimits
  <2>1. PICK m \in Nat : i.sizes \in [1..m -> Nat]
    BY FitFacts
  <2>2. i.sizes[c] \in Nat /\ ~(i.sizes[c] > MaxCluster)
    BY <2>1 DEF Large
  <2> QED
    BY <2>2, FilesAssumption
<1> QED
  BY <1>3, <1>4, <1>5, <1>6, <1>7, <1>8 DEF Loadable

\* After a save returned Ok the index loads from its file, for every width,
\* dimension, rotator and last batch that training accepts: the sizes the
\* quantizer, the save and the loaders work out are the same (not so for
\* one-bit brute-force indexes, nor for clusters over the loader's limit).
THEOREM SavesLoadBack == Spec => []SavedLoadsBack
<1>1. IInv => SavedLoadsBack
  <2> SUFFICES ASSUME IInv, good # NoIndex, ~OneBitBruteForce(good), ~Large(good)
               PROVE  Header = good /\ Loadable(good.kind) /\ Loadable("smart")
    BY DEF SavedLoadsBack
  <2>1. Fit(good) /\ file = Image(good)
    BY DEF IInv, MemoryOK, KeptOK
  <2> QED
    BY <2>1, WholeLoads
<1> QED
  BY <1>1, Invariance, PTL
=============================================================================
