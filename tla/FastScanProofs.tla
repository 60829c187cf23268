--------------------------- MODULE FastScanProofs ---------------------------
(***************************************************************************)
(* FastScan does what BatchScan promises, for all indexes, queries and     *)
(* kernels: the sums of the scalar loop and the lanes of the vector ones   *)
(* are, modulo 2^16, the sums of the entries each slot's own code selects. *)
(* Then: that unpacking gives back every code, signs and extended part,    *)
(* for every width; and that every distance is as near to the exact one of *)
(* its own vector as the rounding of the table allows.                     *)
(***************************************************************************)
EXTENDS FastScan, SequenceTheorems, FunctionTheorems, FiniteSetTheorems, TLAPS

-----------------------------------------------------------------------------
(* Arithmetic modulo 2^16. *)

LEMMA Word16 == \A x \in Words16 : x \in Int /\ x % 65536 = x
<1>1. \A x \in Words16 : x \in Int /\ 0 <= x /\ x <= 65535
  BY SMTT(60) DEF Words16
<1>2. \A x \in Int : 0 <= x /\ x <= 65535 => x % 65536 = x
  BY SMTT(60)
<1> QED
  BY <1>1, <1>2, SMTT(30)

\* The words of even, rid of those of odd, do not show what was added to odd.
LEMMA LaneStep ==
  ASSUME NEW x \in Int, NEW o \in Int, NEW p \in Int, NEW q \in Int
  PROVE  (((x + p + 256 * q) % 65536) - 256 * ((o + q) % 65536)) % 65536
           = (((x - 256 * o) % 65536) + p) % 65536
BY SMT

LEMMA WordStep ==
  ASSUME NEW x \in Int, NEW p \in Int
  PROVE  ((x + p) % 65536) % 65536 = ((x % 65536) + p) % 65536
BY SMT

-----------------------------------------------------------------------------
(* The layouts. *)

LEMMA NibbleType ==
  ASSUME NEW dim \in Nat, dim % 8 = 0,
         NEW bytes \in [0..(dim \div 8) - 1 -> Bytes],
         NEW g \in 0..(dim \div 4) - 1
  PROVE  Nibble(bytes, g) \in 0..15
<1>1. g \div 2 \in 0..(dim \div 8) - 1
  BY SMT
<1>2. bytes[g \div 2] \in 0..255
  BY <1>1 DEF Bytes
<1>3. \A x \in 0..255 : x \div 16 \in 0..15 /\ x % 16 \in 0..15
  BY SMT
<1> QED
  BY <1>2, <1>3 DEF Nibble

LEMMA Kperm0Type ==
  ASSUME NEW j \in 0..15
  PROVE  Kperm0[j] \in 0..15
<1> DEFINE k == j \div 2 + 8 * (j % 2)
<1>1. Kperm0[j] = k
  BY DEF Kperm0
<1>2. j \div 2 \in 0..7 /\ j % 2 \in 0..1
  BY SMT
<1>3. k \in 0..15
  BY <1>2, SMT
<1> QED
  BY <1>1, <1>3

\* Byte j of a packed group is the nibbles of the two vectors it is for.
LEMMA PackedByte ==
  ASSUME NEW dim \in Nat, dim % 8 = 0,
         NEW codes \in [Slots -> [0..(dim \div 8) - 1 -> Bytes]],
         NEW g \in 0..(dim \div 4) - 1, NEW j \in 0..15
  PROVE  /\ PackCodes(codes, dim)[g][j] % 16 = Nibble(codes[Kperm0[j]], g)
         /\ PackCodes(codes, dim)[g][j] \div 16 = Nibble(codes[Kperm0[j] + 16], g)
<1> DEFINE x == Nibble(codes[Kperm0[j]], g)
           y == Nibble(codes[Kperm0[j] + 16], g)
<1>1. Kperm0[j] \in 0..15
  BY Kperm0Type
<1>2. Kperm0[j] \in Slots /\ Kperm0[j] + 16 \in Slots
  <2>1. \A i \in 0..15 : i \in 0..31 /\ i + 16 \in 0..31
    BY SMT
  <2> QED
    BY <1>1, <2>1 DEF Slots
<1>3. x \in 0..15 /\ y \in 0..15
  BY <1>2, NibbleType
<1>4. PackCodes(codes, dim)[g][j] = x + 16 * y
  BY DEF PackCodes
<1> HIDE DEF x, y
<1>5. PackCodes(codes, dim)[g][j] % 16 = x /\ PackCodes(codes, dim)[g][j] \div 16 = y
  <2>1. (x + 16 * y) % 16 = x /\ (x + 16 * y) \div 16 = y
    BY <1>3, SMT
  <2> QED
    BY <1>4, <2>1
<1> QED
  BY <1>5 DEF x, y

\* Even bytes of a group are for vectors 0..7, and 16..23; odd ones for 8..15, 24..31.
LEMMA WordBytes ==
  ASSUME NEW m \in Words
  PROVE  /\ 2*m \in 0..15 /\ 2*m + 1 \in 0..15
         /\ Kperm0[2*m] = m /\ Kperm0[2*m + 1] = m + 8
BY SMT DEF Words, Kperm0

\* The byte a slot is found in is the one that holds it.
LEMMA SlotByteIs ==
  ASSUME NEW s \in Slots
  PROVE  SlotByte(s) \in 0..15 /\ Kperm0[SlotByte(s)] = s % 16
<1> DEFINE r == s % 16
           w == IF r < 8 THEN 2 * r ELSE 2 * (r - 8) + 1
<1>1. r \in 0..15
  BY SMT DEF Slots
<1>2. w \in 0..15 /\ Kperm0[w] = r
  BY <1>1, SMT DEF Kperm0
<1>3. \E j \in 0..15 : Kperm0[j] = s % 16
  BY <1>2, Zenon
<1> QED
  BY <1>3 DEF SlotByte

LEMMA PackBinaryType ==
  ASSUME NEW dim \in Nat, dim % 8 = 0, NEW bit \in [0..dim - 1 -> 0..1]
  PROVE  PackBinary(bit, dim) \in [0..(dim \div 8) - 1 -> Bytes]
<1> SUFFICES ASSUME NEW c \in 0..(dim \div 8) - 1
             PROVE  128 * bit[8*c] + 64 * bit[8*c + 1] + 32 * bit[8*c + 2]
                      + 16 * bit[8*c + 3] + 8 * bit[8*c + 4] + 4 * bit[8*c + 5]
                      + 2 * bit[8*c + 6] + bit[8*c + 7] \in Bytes
  BY DEF PackBinary
<1>1. \A i \in 0..7 : 8*c + i \in 0..dim - 1
  BY SMT
<1>2. \A i \in 0..7 : bit[8*c + i] \in 0..1
  BY <1>1
<1>3. /\ bit[8*c] \in 0..1 /\ bit[8*c + 1] \in 0..1 /\ bit[8*c + 2] \in 0..1
      /\ bit[8*c + 3] \in 0..1 /\ bit[8*c + 4] \in 0..1 /\ bit[8*c + 5] \in 0..1
      /\ bit[8*c + 6] \in 0..1 /\ bit[8*c + 7] \in 0..1
  BY <1>2, SMT
<1> DEFINE x0 == bit[8*c]      x1 == bit[8*c + 1]
           x2 == bit[8*c + 2]  x3 == bit[8*c + 3]
           x4 == bit[8*c + 4]  x5 == bit[8*c + 5]
           x6 == bit[8*c + 6]  x7 == bit[8*c + 7]
<1> HIDE DEF x0, x1, x2, x3, x4, x5, x6, x7
<1>4. 128 * x0 + 64 * x1 + 32 * x2 + 16 * x3 + 8 * x4 + 4 * x5 + 2 * x6 + x7 \in 0..255
  <2>1. /\ x0 \in 0..1 /\ x1 \in 0..1 /\ x2 \in 0..1 /\ x3 \in 0..1
        /\ x4 \in 0..1 /\ x5 \in 0..1 /\ x6 \in 0..1 /\ x7 \in 0..1
    BY <1>3 DEF x0, x1, x2, x3, x4, x5, x6, x7
  <2> QED
    BY <2>1, SMT
<1> QED
  BY <1>4, Zenon DEF x0, x1, x2, x3, x4, x5, x6, x7, Bytes

LEMMA QueryLutType ==
  ASSUME NEW query, NEW dim
  PROVE  QueryLut(query, dim).entry \in [0..(dim \div 4) - 1 -> [0..15 -> Bytes]]
<1>1. \A x : Clamped(x) \in Bytes
  BY DEF Clamped, Bytes
<1>2. 0 \in Bytes
  BY DEF Bytes
<1> QED
  BY <1>1, <1>2 DEF QueryLut, Quantized

-----------------------------------------------------------------------------
(***************************************************************************)
(* The inductive invariant.  TypeOK says nothing of what a batch holds;    *)
(* that a sum is over a slot's own code needs the batch scanned to be      *)
(* there and packed from the vectors of its slots, the table to have bytes *)
(* in the rows scanned, and the registers to be zero between scans.        *)
(***************************************************************************)
Packed ==
  /\ batches \in Seq({PackedBatch(k) : k \in Nat})
  /\ \A k \in 1..Len(batches) : batches[k] = PackedBatch(k - 1)
Zeroed == col = 0 /\ sums = NoSums /\ even = NoWords /\ odd = NoWords
Tables == [0..(Dim \div 4) - 1 -> [0..15 -> Bytes]]
\* As many answers as vectors of the batches done.
Answers ==
  /\ \E S : answer \in Seq(S)
  /\ Len(answer) = IF 32 * b < input.n THEN 32 * b ELSE input.n
InScan == phase \in {"scan", "estimate", "refine"}

IInv ==
  /\ input \in Inputs
  /\ phase \in {"pack", "scan", "estimate", "refine", "done", "panic"}
  /\ b \in Nat /\ col \in 0..Columns
  /\ sums \in [Slots -> Nat] /\ even \in Registers /\ odd \in Registers
  /\ accu \in [Slots -> Words16]
  /\ Packed /\ Answers
  /\ phase = "pack" => b = 0
  /\ phase # "pack" => input.n <= 32 * Len(batches)
  /\ phase \in {"pack", "done"} => Zeroed
  /\ InScan => 32 * b < input.n /\ lut.entry \in Tables
  /\ phase \in {"estimate", "refine"} => Dim % 16 = 0 /\ col = Columns
  /\ input.kernel = "avx512" => col % 2 = 0

\* What the assumption on the inputs says of the one at hand.
LEMMA InputFacts ==
  ASSUME input \in Inputs
  PROVE  /\ Dim \in Nat /\ Dim % 8 = 0 /\ input.n \in Nat
         /\ input.kernel \in Kernels
         /\ Columns \in Nat /\ Dim \div 4 = 2 * Columns
         /\ Dim % 16 = 0 => Columns % 2 = 0
         /\ \A v \in Vectors : input.sign[v] \in [0..Dim - 1 -> 0..1]
<1>1. /\ Dim \in Nat /\ Dim % 8 = 0 /\ input.n \in Nat /\ input.kernel \in Kernels
      /\ input.sign \in [0..input.n - 1 -> [0..Dim - 1 -> 0..1]]
  BY InputAssumption DEF Dim
<1>2. /\ Columns \in Nat /\ Dim \div 4 = 2 * Columns
      /\ Dim % 16 = 0 => Columns % 2 = 0
  BY <1>1, SMT DEF Columns
<1> QED
  BY <1>1, <1>2 DEF Vectors

LEMMA SlotCodeType ==
  ASSUME input \in Inputs, NEW k \in Nat, NEW s \in Slots
  PROVE  SlotCode(k, s) \in [0..Columns - 1 -> Bytes]
<1>1. CASE Filled(k, s)
  <2>1. 32 * k + s \in Vectors
    <3>1. /\ input.n \in Nat /\ s \in 0..31 /\ 32 * k + s < input.n
      BY <1>1, InputFacts DEF Filled, Slots
    <3> QED
      BY <3>1, SMT DEF Vectors
  <2>2. input.sign[32 * k + s] \in [0..Dim - 1 -> 0..1]
    BY <2>1, InputFacts
  <2> QED
    BY <1>1, <2>2, InputFacts, PackBinaryType DEF SlotCode, Columns
<1>2. CASE ~Filled(k, s)
  BY <1>2 DEF SlotCode, Padding, Bytes
<1> QED
  BY <1>1, <1>2

\* The entry that the code of slot s selects in row g.
Sel(s, g) == lut.entry[g][Nibble(ScanCode[s], g)]

\* Byte j of a group, in half h, looks up the entry for its own slot.
LEMMA ResIs ==
  ASSUME IInv, phase = "scan", NEW h \in Halves, NEW j \in 0..15,
         NEW g \in 0..(Dim \div 4) - 1
  PROVE  /\ Kperm0[j] + 16 * h \in Slots
         /\ Res(h, g, j) = Sel(Kperm0[j] + 16 * h, g)
         /\ Res(h, g, j) \in Bytes
<1> DEFINE s == Kperm0[j] + 16 * h
<1>1. /\ input \in Inputs /\ b \in Nat /\ 32 * b < input.n /\ lut.entry \in Tables
      /\ input.n <= 32 * Len(batches) /\ Packed
  BY DEF IInv, InScan
<1>2. Len(batches) \in Nat
  BY <1>1 DEF Packed
<1>3. b + 1 \in 1..Len(batches)
  BY <1>1, <1>2, InputFacts, SMTT(30)
<1>4. batches[b + 1] = PackedBatch(b)
  BY <1>1, <1>3, SMT DEF Packed
<1>5. Group(g) = PackCodes(ScanCode, Dim)[g]
  BY <1>4 DEF Group, PackedBatch, ScanCode
<1>6. ScanCode \in [Slots -> [0..(Dim \div 8) - 1 -> Bytes]]
  BY <1>1, SlotCodeType DEF ScanCode, Columns
<1>7. /\ Group(g)[j] % 16 = Nibble(ScanCode[Kperm0[j]], g)
      /\ Group(g)[j] \div 16 = Nibble(ScanCode[Kperm0[j] + 16], g)
  <2>1. Dim \in Nat /\ Dim % 8 = 0
    BY <1>1, InputFacts
  <2>2. /\ PackCodes(ScanCode, Dim)[g][j] % 16 = Nibble(ScanCode[Kperm0[j]], g)
        /\ PackCodes(ScanCode, Dim)[g][j] \div 16 = Nibble(ScanCode[Kperm0[j] + 16], g)
    BY <1>6, <2>1, PackedByte
  <2> QED
    BY <1>5, <2>2
<1>8. Kperm0[j] \in 0..15
  BY Kperm0Type
<1>9. s \in Slots
  BY <1>8, SMT DEF Slots, Halves
<1>10. Res(h, g, j) = Sel(s, g)
  <2>1. CASE h = 0
    BY <1>7, <1>8, <2>1, SMT DEF Res, Sel
  <2>2. CASE h = 1
    BY <1>7, <1>8, <2>2, SMT DEF Res, Sel
  <2> QED
    BY <2>1, <2>2, SMT DEF Halves
<1>11. Nibble(ScanCode[s], g) \in 0..15
  BY <1>1, <1>6, <1>9, InputFacts, NibbleType
<1>12. Sel(s, g) \in Bytes
  BY <1>1, <1>11 DEF Sel, Tables
<1> QED
  BY <1>9, <1>10, <1>12

-----------------------------------------------------------------------------
(* One step of a scan, slot by slot. *)

\* A slot is one word of one half: an even byte for the first eight of sixteen.
LEMMA SlotWord ==
  ASSUME NEW s \in Slots
  PROVE  /\ s \div 16 \in Halves /\ s % 8 \in Words
         /\ s % 16 < 8 => Kperm0[2 * (s % 8)] + 16 * (s \div 16) = s
         /\ ~(s % 16 < 8) => Kperm0[2 * (s % 8) + 1] + 16 * (s \div 16) = s
<1>1. /\ s \div 16 \in 0..1 /\ s % 8 \in 0..7
      /\ s % 16 < 8 => (s % 8) + 16 * (s \div 16) = s
      /\ ~(s % 16 < 8) => (s % 8) + 8 + 16 * (s \div 16) = s
  BY SMT DEF Slots
<1>2. s % 8 \in Words
  BY <1>1 DEF Words
<1>3. Kperm0[2 * (s % 8)] = s % 8 /\ Kperm0[2 * (s % 8) + 1] = (s % 8) + 8
  BY <1>2, WordBytes
<1> QED
  BY <1>1, <1>2, <1>3 DEF Halves

\* What step p of the lanes does to their sum.
LEMMA AddLanesStep ==
  ASSUME NEW f \in [Lanes -> Int], NEW g \in [Lanes -> Int], NEW p \in [Lanes -> Int],
         \A l \in Lanes : g[l] = (f[l] + p[l]) % 65536
  PROVE  AddLanes(g) = (AddLanes(f) + (p[0] + p[1] + p[2] + p[3])) % 65536
<1>1. 0 \in Lanes /\ 1 \in Lanes /\ 2 \in Lanes /\ 3 \in Lanes
  BY DEF Lanes
<1>2. /\ f[0] \in Int /\ f[1] \in Int /\ f[2] \in Int /\ f[3] \in Int
      /\ p[0] \in Int /\ p[1] \in Int /\ p[2] \in Int /\ p[3] \in Int
      /\ g[0] = (f[0] + p[0]) % 65536 /\ g[1] = (f[1] + p[1]) % 65536
      /\ g[2] = (f[2] + p[2]) % 65536 /\ g[3] = (f[3] + p[3]) % 65536
  BY <1>1
<1>3. (((f[0] + p[0]) % 65536) + ((f[1] + p[1]) % 65536)
         + ((f[2] + p[2]) % 65536) + ((f[3] + p[3]) % 65536)) % 65536
        = (((f[0] + f[1] + f[2] + f[3]) % 65536) + (p[0] + p[1] + p[2] + p[3])) % 65536
  <2> DEFINE f0 == f[0]  f1 == f[1]  f2 == f[2]  f3 == f[3]
             p0 == p[0]  p1 == p[1]  p2 == p[2]  p3 == p[3]
  <2>1. /\ f0 \in Int /\ f1 \in Int /\ f2 \in Int /\ f3 \in Int
        /\ p0 \in Int /\ p1 \in Int /\ p2 \in Int /\ p3 \in Int
    BY <1>2
  <2> HIDE DEF f0, f1, f2, f3, p0, p1, p2, p3
  <2>2. (((f0 + p0) % 65536) + ((f1 + p1) % 65536)
           + ((f2 + p2) % 65536) + ((f3 + p3) % 65536)) % 65536
          = (((f0 + f1 + f2 + f3) % 65536) + (p0 + p1 + p2 + p3)) % 65536
    BY <2>1, SMT
  <2> QED
    BY <2>2 DEF f0, f1, f2, f3, p0, p1, p2, p3
<1>4. AddLanes(g) = (((f[0] + p[0]) % 65536) + ((f[1] + p[1]) % 65536)
         + ((f[2] + p[2]) % 65536) + ((f[3] + p[3]) % 65536)) % 65536
  BY <1>2 DEF AddLanes
<1>5. AddLanes(f) = (f[0] + f[1] + f[2] + f[3]) % 65536
  BY DEF AddLanes
<1> QED
  BY <1>3, <1>4, <1>5

\* What a step of n lanes brings to lane l of slot s.
Brought(s, n) == [l \in Lanes |-> IF l < n THEN Sel(s, 2 * col + l) ELSE 0]

LEMMA VectorStep ==
  ASSUME IInv, phase = "scan", UNCHANGED input, input.kernel # "scalar",
         NEW n \in {2, 4}, 2 * col + n <= Dim \div 4,
         even' \in Registers, odd' \in Registers,
         \A h \in Halves, l \in Lanes, m \in Words :
           /\ even'[h][l][m] = IF l < n THEN EvenPlus(h, l, m) ELSE even[h][l][m]
           /\ odd'[h][l][m] = IF l < n THEN OddPlus(h, l, m) ELSE odd[h][l][m],
         NEW s \in Slots
  PROVE  /\ Brought(s, n) \in [Lanes -> Nat]
         /\ LET p == Brought(s, n)
            IN Assembled'[s] = (Assembled[s] + (p[0] + p[1] + p[2] + p[3])) % 65536
<1> DEFINE h == s \div 16
           m == s % 8
           p == Brought(s, n)
<1>1. h \in Halves /\ m \in Words /\ 2*m \in 0..15 /\ 2*m + 1 \in 0..15
  BY SlotWord, WordBytes
<1>2. \A l \in Lanes : /\ even[h][l][m] \in Words16 /\ odd[h][l][m] \in Words16
                       /\ even'[h][l][m] \in Words16 /\ odd'[h][l][m] \in Words16
  BY <1>1 DEF IInv, Registers
<1>3. ASSUME NEW l \in Lanes, l < n
      PROVE  2 * col + l \in 0..(Dim \div 4) - 1
  <2>1. col \in Nat /\ Columns \in Nat /\ Dim \div 4 = 2 * Columns
    BY InputFacts, SMT DEF IInv
  <2> QED
    BY <1>3, <2>1, SMT DEF Lanes
<1>4. ASSUME NEW l \in Lanes, l < n
      PROVE  /\ Res(h, 2 * col + l, 2*m) \in Bytes /\ Res(h, 2 * col + l, 2*m + 1) \in Bytes
             /\ s % 16 < 8 => Res(h, 2 * col + l, 2*m) = Sel(s, 2 * col + l)
             /\ ~(s % 16 < 8) => Res(h, 2 * col + l, 2*m + 1) = Sel(s, 2 * col + l)
  <2> DEFINE g == 2 * col + l
  <2>1. g \in 0..(Dim \div 4) - 1
    BY <1>3, <1>4
  <2> HIDE DEF g
  <2>2. /\ Res(h, g, 2*m) \in Bytes /\ Res(h, g, 2*m) = Sel(Kperm0[2*m] + 16 * h, g)
        /\ Res(h, g, 2*m + 1) \in Bytes /\ Res(h, g, 2*m + 1) = Sel(Kperm0[2*m + 1] + 16 * h, g)
    BY <1>1, <2>1, ResIs
  <2>3. /\ Res(h, g, 2*m) \in Bytes /\ Res(h, g, 2*m + 1) \in Bytes
        /\ s % 16 < 8 => Res(h, g, 2*m) = Sel(s, g)
        /\ ~(s % 16 < 8) => Res(h, g, 2*m + 1) = Sel(s, g)
    BY <2>2, SlotWord
  <2> QED
    BY <2>3 DEF g
<1>5. \A x \in Bytes : x \in Nat
  BY DEF Bytes
<1>7. p \in [Lanes -> Nat]
  <2>1. \A l \in Lanes : l < n => Sel(s, 2 * col + l) \in Nat
    BY <1>4, <1>5
  <2>2. \A l \in Lanes : (IF l < n THEN Sel(s, 2 * col + l) ELSE 0) \in Nat
    BY <2>1
  <2> QED
    BY <2>2 DEF Brought
<1>8. CASE s % 16 < 8
  <2> DEFINE f == [l \in Lanes |-> Low(h, l, m)]
             g == [l \in Lanes |-> Low(h, l, m)']
  <2>1. Assembled[s] = AddLanes(f) /\ Assembled'[s] = AddLanes(g)
    BY <1>8 DEF Assembled
  <2>2. ASSUME NEW l \in Lanes
        PROVE  /\ Low(h, l, m) \in Int /\ Low(h, l, m)' \in Int
               /\ Low(h, l, m)' = (Low(h, l, m) + p[l]) % 65536
    <3>1. even[h][l][m] \in Int /\ odd[h][l][m] \in Int
      BY <1>2, Word16
    <3>2. Low(h, l, m) \in Int /\ Low(h, l, m) % 65536 = Low(h, l, m)
      BY <3>1, SMT DEF Low
    <3>3. CASE l < n
      <4> DEFINE e0 == even[h][l][m]
                 o0 == odd[h][l][m]
                 q0 == Res(h, 2 * col + l, 2*m)
                 q1 == Res(h, 2 * col + l, 2*m + 1)
      <4>1. /\ even'[h][l][m] = (e0 + q0 + 256 * q1) % 65536
            /\ odd'[h][l][m] = (o0 + q1) % 65536
        BY <1>1, <3>3 DEF EvenPlus, OddPlus
      <4>2. q0 \in Int /\ q1 \in Int /\ p[l] = q0
        BY <1>4, <1>5, <1>8, <3>3 DEF Brought
      <4>3. Low(h, l, m)' = (even'[h][l][m] - 256 * odd'[h][l][m]) % 65536
        BY DEF Low
      <4>4. Low(h, l, m) = (e0 - 256 * o0) % 65536
        BY DEF Low
      <4>5. e0 \in Int /\ o0 \in Int
        BY <3>1
      <4> HIDE DEF e0, o0, q0, q1, h, m, p
      <4>6. (((e0 + q0 + 256 * q1) % 65536) - 256 * ((o0 + q1) % 65536)) % 65536
              = (((e0 - 256 * o0) % 65536) + q0) % 65536
        BY <4>2, <4>5, LaneStep
      <4>7. Low(h, l, m)' = (Low(h, l, m) + p[l]) % 65536
        BY <4>1, <4>2, <4>3, <4>4, <4>6
      <4>8. Low(h, l, m)' \in Int
        BY <3>2, <4>2, <4>7, SMT
      <4> QED
        BY <3>2, <4>7, <4>8
    <3>4. CASE ~(l < n)
      <4>1. Low(h, l, m)' = Low(h, l, m) /\ p[l] = 0
        BY <1>1, <3>4 DEF Low, Brought
      <4> HIDE DEF h, m, p
      <4> QED
        BY <3>2, <4>1, SMT
    <3> QED
      BY <3>3, <3>4
  <2> HIDE DEF h, m, p
  <2>3. f \in [Lanes -> Int] /\ g \in [Lanes -> Int] /\ p \in [Lanes -> Int]
    BY <1>7, <2>2
  <2>4. \A l \in Lanes : g[l] = (f[l] + p[l]) % 65536
    BY <2>2
  <2>5. AddLanes(g) = (AddLanes(f) + (p[0] + p[1] + p[2] + p[3])) % 65536
    <3> HIDE DEF f, g
    <3> QED
      BY <2>3, <2>4, AddLanesStep
  <2>6. Assembled'[s] = (Assembled[s] + (p[0] + p[1] + p[2] + p[3])) % 65536
    BY <2>1, <2>5
  <2> QED
    BY <1>7, <2>6 DEF p
<1>9. CASE ~(s % 16 < 8)
  <2> DEFINE f == [l \in Lanes |-> odd[h][l][m]]
             g == [l \in Lanes |-> odd'[h][l][m]]
  <2>1. Assembled[s] = AddLanes(f) /\ Assembled'[s] = AddLanes(g)
    BY <1>9 DEF Assembled
  <2>2. ASSUME NEW l \in Lanes
        PROVE  /\ odd[h][l][m] \in Int /\ odd'[h][l][m] \in Int
               /\ odd'[h][l][m] = (odd[h][l][m] + p[l]) % 65536
    <3>1. odd[h][l][m] \in Int /\ odd'[h][l][m] \in Int /\ odd[h][l][m] % 65536 = odd[h][l][m]
      BY <1>2, Word16
    <3>2. CASE l < n
      BY <1>1, <1>4, <1>9, <3>1, <3>2 DEF OddPlus, Brought
    <3>3. CASE ~(l < n)
      <4>1. odd'[h][l][m] = odd[h][l][m] /\ p[l] = 0
        BY <1>1, <3>3 DEF Brought
      <4> HIDE DEF h, m, p
      <4> QED
        BY <3>1, <4>1, SMT
    <3> QED
      BY <3>2, <3>3
  <2> HIDE DEF h, m, p
  <2>3. f \in [Lanes -> Int] /\ g \in [Lanes -> Int] /\ p \in [Lanes -> Int]
    BY <1>7, <2>2
  <2>4. \A l \in Lanes : g[l] = (f[l] + p[l]) % 65536
    BY <2>2
  <2>5. AddLanes(g) = (AddLanes(f) + (p[0] + p[1] + p[2] + p[3])) % 65536
    <3> HIDE DEF f, g
    <3> QED
      BY <2>3, <2>4, AddLanesStep
  <2>6. Assembled'[s] = (Assembled[s] + (p[0] + p[1] + p[2] + p[3])) % 65536
    BY <2>1, <2>5
  <2> QED
    BY <1>7, <2>6 DEF p
<1> QED
  BY <1>8, <1>9

LEMMA ScalarStep ==
  ASSUME IInv, phase = "scan", UNCHANGED input, input.kernel = "scalar", col < Columns,
         NEW s \in Slots, sums' \in [Slots -> Nat],
         sums'[s] = sums[s] + Res(s \div 16, 2 * col, SlotByte(s))
                            + Res(s \div 16, 2 * col + 1, SlotByte(s))
  PROVE  Assembled'[s] = (Assembled[s] + Sel(s, 2 * col) + Sel(s, 2 * col + 1)) % 65536
<1> DEFINE h == s \div 16
           j == SlotByte(s)
<1>1. h \in Halves /\ j \in 0..15 /\ Kperm0[j] = s % 16
  BY SlotWord, SlotByteIs
<1>2. (s % 16) + 16 * h = s
  BY SMT DEF Slots
<1>3. 2 * col \in 0..(Dim \div 4) - 1 /\ 2 * col + 1 \in 0..(Dim \div 4) - 1
  <2>1. col \in Nat /\ Columns \in Nat /\ Dim \div 4 = 2 * Columns
    BY InputFacts, SMT DEF IInv
  <2> QED
    BY <2>1, SMT
<1> HIDE DEF h, j
<1>4. /\ Res(h, 2 * col, j) = Sel(s, 2 * col) /\ Res(h, 2 * col, j) \in Bytes
      /\ Res(h, 2 * col + 1, j) = Sel(s, 2 * col + 1) /\ Res(h, 2 * col + 1, j) \in Bytes
  BY <1>1, <1>2, <1>3, ResIs
<1>5. sums[s] \in Int
  BY DEF IInv
<1>6. Assembled[s] = sums[s] % 65536 /\ Assembled'[s] = sums'[s] % 65536
  BY DEF Assembled
<1>7. Sel(s, 2 * col) \in Int /\ Sel(s, 2 * col + 1) \in Int
  BY <1>4 DEF Bytes
<1>8. sums'[s] = sums[s] + Sel(s, 2 * col) + Sel(s, 2 * col + 1)
  BY <1>4 DEF h, j
<1> DEFINE x == sums[s]
           p == Sel(s, 2 * col)
           q == Sel(s, 2 * col + 1)
<1> HIDE DEF x, p, q
<1>9. (x + p + q) % 65536 = ((x % 65536) + p + q) % 65536
  BY <1>5, <1>7, SMT DEF x, p, q
<1> QED
  BY <1>6, <1>8, <1>9 DEF x, p, q

-----------------------------------------------------------------------------
(* The invariant is inductive. *)

LEMMA Registers0 ==
  /\ NoSums \in [Slots -> Nat] /\ NoSums \in [Slots -> Words16] /\ NoWords \in Registers
BY SMT DEF NoSums, NoWords, Registers, Words16

LEMMA InitInv == Init => IInv
<1> SUFFICES ASSUME Init PROVE IInv
  OBVIOUS
<1>1. 0 \in 0..Columns
  BY InputFacts, SMT DEF Init
<1>2. Packed
  <2>1. batches = <<>>
    BY DEF Init
  <2>2. <<>> \in Seq({PackedBatch(k) : k \in Nat}) /\ Len(<<>>) = 0
    BY EmptySeq
  <2> QED
    BY <2>1, <2>2, SMT DEF Packed
<1>3. Answers
  <2>1. answer = <<>> /\ b = 0 /\ input.n \in Nat
    BY InputFacts DEF Init
  <2>2. <<>> \in Seq({}) /\ Len(<<>>) = 0
    BY EmptySeq
  <2> QED
    BY <2>1, <2>2, SMT DEF Answers
<1> QED
  BY <1>1, <1>2, <1>3, Registers0, SMT DEF Init, IInv, Zeroed, InScan

\* One more batch, packed like those before it.
LEMMA PackedGrows ==
  ASSUME Packed, UNCHANGED input, batches' = Append(batches, PackedBatch(Len(batches)))
  PROVE  Packed' /\ Len(batches') = Len(batches) + 1
<1> DEFINE S == {PackedBatch(k) : k \in Nat}
           B == PackedBatch(Len(batches))
<1>1. batches \in Seq(S) /\ Len(batches) \in Nat
  BY LenProperties DEF Packed
<1>2. B \in S
  BY <1>1
<1>3. \A k : PackedBatch(k)' = PackedBatch(k)
  BY DEF PackedBatch, SlotCode, SlotFactors, Filled, Padding, Columns, Dim
<1>4. S' = S
  BY <1>3
<1> HIDE DEF S, B
<1>5. /\ batches' \in Seq(S) /\ Len(batches') = Len(batches) + 1
      /\ \A i \in 1..Len(batches) : batches'[i] = batches[i]
      /\ batches'[Len(batches) + 1] = B
  BY <1>1, <1>2, AppendProperties DEF B
<1>6. ASSUME NEW k \in 1..Len(batches')
      PROVE  batches'[k] = PackedBatch(k - 1)
  <2>1. k \in 1..Len(batches) \/ k = Len(batches) + 1
    BY <1>1, <1>5, <1>6, SMT
  <2>2. CASE k \in 1..Len(batches)
    BY <1>5, <2>2 DEF Packed
  <2>3. CASE k = Len(batches) + 1
    <3>1. k - 1 = Len(batches)
      BY <1>1, <2>3, SMTT(60)
    <3> QED
      BY <1>5, <2>3, <3>1 DEF B
  <2> QED
    BY <2>1, <2>2, <2>3
<1> QED
  BY <1>3, <1>4, <1>5, <1>6 DEF Packed, S

LEMMA Modulo16 == \A x \in Int : x % 65536 \in Words16
<1> SUFFICES ASSUME NEW x \in Int PROVE x % 65536 \in Words16
  OBVIOUS
<1>1. x % 65536 \in Int /\ 0 <= x % 65536 /\ x % 65536 < 65536
  BY SMT
<1> QED
  BY <1>1 DEF Words16

\* What 2^16 is taken of, in the kernels and when they are done, is an integer.
LEMMA PlusType ==
  ASSUME IInv, phase = "scan", NEW h \in Halves, NEW l \in Lanes, NEW m \in Words,
         2 * col + l \in 0..(Dim \div 4) - 1
  PROVE  EvenPlus(h, l, m) \in Words16 /\ OddPlus(h, l, m) \in Words16
<1> DEFINE q0 == Res(h, 2 * col + l, 2*m)
           q1 == Res(h, 2 * col + l, 2*m + 1)
<1>1. even[h][l][m] \in Int /\ odd[h][l][m] \in Int
  BY Word16 DEF IInv, Registers
<1>2. q0 \in Bytes /\ q1 \in Bytes
  BY ResIs, WordBytes
<1>3. q0 \in Int /\ q1 \in Int
  BY <1>2 DEF Bytes
<1> HIDE DEF q0, q1
<1>4. even[h][l][m] + q0 + 256 * q1 \in Int /\ odd[h][l][m] + q1 \in Int
  BY <1>1, <1>3, SMT
<1> QED
  BY <1>4, Modulo16 DEF EvenPlus, OddPlus, q0, q1

LEMMA AssembledType ==
  ASSUME IInv
  PROVE  Assembled \in [Slots -> Words16]
<1>1. ASSUME NEW s \in Slots
      PROVE  Assembled[s] \in Words16
  <2> DEFINE h == s \div 16
             m == s % 8
  <2>1. h \in Halves /\ m \in Words
    BY SlotWord
  <2>2. /\ \A l \in Lanes : even[h][l][m] \in Int /\ odd[h][l][m] \in Int
        /\ sums[s] \in Int
    BY <2>1, Word16 DEF IInv, Registers
  <2>3. \A l \in Lanes : Low(h, l, m) \in Int
    BY <2>2, SMT DEF Low
  <2> HIDE DEF h, m
  <2>4. \A f : (\A l \in Lanes : f[l] \in Int) => AddLanes(f) \in Words16
    <3> SUFFICES ASSUME NEW f, \A l \in Lanes : f[l] \in Int
                 PROVE  AddLanes(f) \in Words16
      OBVIOUS
    <3>1. f[0] \in Int /\ f[1] \in Int /\ f[2] \in Int /\ f[3] \in Int
      BY SMT DEF Lanes
    <3> QED
      BY <3>1, Modulo16 DEF AddLanes
  <2>5. sums[s] % 65536 \in Words16
    BY <2>2, Modulo16
  <2>6. AddLanes([l \in Lanes |-> Low(h, l, m)]) \in Words16
    BY <2>3, <2>4
  <2>7. AddLanes([l \in Lanes |-> odd[h][l][m]]) \in Words16
    BY <2>2, <2>4
  <2> QED
    BY <2>5, <2>6, <2>7 DEF Assembled, h, m
<1> QED
  BY <1>1 DEF Assembled

LEMMA PackedStays ==
  ASSUME Packed, UNCHANGED <<input, batches>>
  PROVE  Packed'
<1>1. \A k : PackedBatch(k)' = PackedBatch(k)
  BY DEF PackedBatch, SlotCode, SlotFactors, Filled, Padding, Columns, Dim
<1>2. {PackedBatch(k) : k \in Nat}' = {PackedBatch(k) : k \in Nat}
  BY <1>1
<1> QED
  BY <1>1, <1>2 DEF Packed

\* A sequence goes on with n more elements.
LEMMA Lengthened ==
  ASSUME NEW S, NEW T, NEW q \in Seq(S), NEW n \in Nat, NEW r \in [1..n -> T]
  PROVE  (\E U : q \o r \in Seq(U)) /\ Len(q \o r) = Len(q) + n
<1> DEFINE U == S \cup T
<1>1. Len(q) \in Nat /\ q \in [1..Len(q) -> S]
  BY LenProperties
<1>2. q \in [1..Len(q) -> U] /\ r \in [1..n -> U]
  BY <1>1
<1> HIDE DEF U
<1>3. q \in Seq(U) /\ r \in Seq(U)
  BY <1>1, <1>2, SeqDef
<1>4. Len(r) = n
  <2>1. Len(r) \in Nat /\ DOMAIN r = 1..Len(r) /\ DOMAIN r = 1..n
    BY <1>2, <1>3, LenProperties
  <2> QED
    BY <2>1, SMT
<1>5. q \o r \in Seq(U) /\ Len(q \o r) = Len(q) + Len(r)
  BY <1>3, ConcatProperties
<1> QED
  BY <1>4, <1>5

LEMMA AnswersGrow ==
  ASSUME Answers, UNCHANGED input, b \in Nat, input.n \in Nat, 32 * b < input.n,
         b' = b + 1, NEW e,
         answer' = answer \o [i \in 1..Actual(b) |-> e[i]]
  PROVE  Answers'
<1> DEFINE n == Actual(b)
           T == {e[i] : i \in 1..n}
           r == [i \in 1..n |-> e[i]]
<1>1. n \in Nat /\ (32 * b) + n = IF 32 * (b + 1) < input.n THEN 32 * (b + 1) ELSE input.n
  BY SMT DEF Actual
<1>2. r \in [1..n -> T]
  OBVIOUS
<1>3. PICK S : answer \in Seq(S)
  BY DEF Answers
<1>4. Len(answer) = 32 * b
  BY DEF Answers
<1> HIDE DEF n, r, T
<1>5. n \in Nat
  BY <1>1
<1>6. /\ \E U : answer \o r \in Seq(U)
      /\ Len(answer \o r) = Len(answer) + n
  <2>1. \E U : answer \o r \in Seq(U)
    BY <1>2, <1>3, <1>5, Lengthened
  <2>2. Len(answer \o r) = Len(answer) + n
    BY <1>2, <1>3, <1>5, Lengthened
  <2> QED
    BY <2>1, <2>2
<1>7. answer' = answer \o r
  BY DEF r, n
<1> QED
  BY <1>1, <1>4, <1>6, <1>7 DEF Answers

\* Where the groups of a step are.
LEMMA KernelFacts ==
  ASSUME IInv, phase = "scan", Dim % 16 = 0, col < Columns
  PROVE  /\ col \in Nat /\ Columns \in Nat /\ Dim \div 4 = 2 * Columns
         /\ \A l \in 0..1 : 2 * col + l \in 0..(Dim \div 4) - 1
         /\ input.kernel = "avx512" =>
              /\ col % 2 = 0 /\ col + 2 <= Columns
              /\ \A l \in Lanes : 2 * col + l \in 0..(Dim \div 4) - 1
<1>1. /\ col \in Nat /\ Columns \in Nat /\ Dim \div 4 = 2 * Columns /\ Columns % 2 = 0
      /\ input.kernel = "avx512" => col % 2 = 0
  BY InputFacts, SMT DEF IInv
<1>2. \A l \in 0..1 : 2 * col + l \in 0..(2 * Columns) - 1
  BY <1>1, SMT
<1>3. col % 2 = 0 => col + 2 <= Columns
  BY <1>1, SMT
<1>4. col % 2 = 0 => \A l \in 0..3 : 2 * col + l \in 0..(2 * Columns) - 1
  BY <1>1, <1>3, SMT
<1> QED
  BY <1>1, <1>2, <1>3, <1>4 DEF Lanes

LEMMA NextInv ==
  ASSUME IInv, [Next]_vars
  PROVE  IInv'
<1> USE DEF IInv
<1>1. CASE PackBatch
  <2>1. Packed' /\ Len(batches') = Len(batches) + 1
    BY <1>1, PackedGrows DEF PackBatch
  <2>2. Answers'
    BY <1>1 DEF PackBatch, Answers
  <2> QED
    BY <1>1, <2>1, <2>2 DEF PackBatch, scanVars, Columns, Dim, Zeroed, InScan
<1>2. CASE BuildLut
  <2>1. Packed' /\ Answers'
    BY <1>2, PackedStays DEF BuildLut, Answers
  <2>2. lut'.entry \in Tables
    BY <1>2, QueryLutType DEF BuildLut, Tables
  <2>3. input.n <= 32 * Len(batches)
    BY <1>2, InputFacts, SMT DEF BuildLut, Packed
  <2>4. 32 * b < input.n \/ input.n = 0
    BY <1>2, InputFacts, SMT DEF BuildLut
  <2> QED
    BY <1>2, <2>1, <2>2, <2>3, <2>4
       DEF BuildLut, scanVars, Columns, Dim, Zeroed, InScan, Tables
<1>3. CASE BuildLutHighAcc
  <2>1. Packed' /\ Answers'
    BY <1>3, PackedStays DEF BuildLutHighAcc, Answers
  <2>2. input.n <= 32 * Len(batches)
    BY <1>3, InputFacts, SMT DEF BuildLutHighAcc, Packed
  <2> QED
    BY <1>3, <2>1, <2>2 DEF BuildLutHighAcc, scanVars, Columns, Dim, Zeroed, InScan
<1>4. CASE AccumulateScalar
  <2>1. Packed' /\ Answers'
    BY <1>4, PackedStays DEF AccumulateScalar, Answers
  <2>2. /\ phase = "scan" /\ input.kernel = "scalar" /\ Dim % 16 = 0 /\ col < Columns
    BY <1>4 DEF AccumulateScalar, Scanning
  <2>3. col + 1 \in 0..Columns
    BY <2>2, KernelFacts, SMT
  <2>4. sums' \in [Slots -> Nat]
    <3>1. ASSUME NEW s \in Slots
          PROVE  sums[s] + Res(s \div 16, 2 * col, SlotByte(s))
                         + Res(s \div 16, 2 * col + 1, SlotByte(s)) \in Nat
      <4>1. 2 * col \in 0..(Dim \div 4) - 1 /\ 2 * col + 1 \in 0..(Dim \div 4) - 1
        BY <2>2, KernelFacts, SMT
      <4>2. /\ Res(s \div 16, 2 * col, SlotByte(s)) \in Bytes
            /\ Res(s \div 16, 2 * col + 1, SlotByte(s)) \in Bytes
        BY <2>2, <4>1, SlotWord, SlotByteIs, ResIs
      <4>3. sums[s] \in Nat
        OBVIOUS
      <4>4. \A x \in Nat, p, q \in Bytes : x + p + q \in Nat
        BY SMT DEF Bytes
      <4> QED
        BY <4>2, <4>3, <4>4
    <3> QED
      BY <1>4, <3>1 DEF AccumulateScalar
  <2> QED
    BY <1>4, <2>1, <2>2, <2>3, <2>4
       DEF AccumulateScalar, Columns, Dim, Zeroed, InScan, Tables
<1>5. CASE AccumulateAvx2
  <2>1. Packed' /\ Answers'
    BY <1>5, PackedStays DEF AccumulateAvx2, Answers
  <2>2. /\ phase = "scan" /\ input.kernel = "avx2" /\ Dim % 16 = 0 /\ col < Columns
    BY <1>5 DEF AccumulateAvx2, Scanning
  <2>3. col + 1 \in 0..Columns
    BY <2>2, KernelFacts, SMT
  <2>4. \A h \in Halves, l \in Lanes, m \in Words :
          l < 2 => EvenPlus(h, l, m) \in Words16 /\ OddPlus(h, l, m) \in Words16
    <3>1. \A l \in Lanes : l < 2 => l \in 0..1
      BY SMT DEF Lanes
    <3> QED
      BY <2>2, <3>1, KernelFacts, PlusType
  <2>5. even' \in Registers /\ odd' \in Registers
    BY <1>5, <2>4 DEF AccumulateAvx2, Registers
  <2> QED
    BY <1>5, <2>1, <2>2, <2>3, <2>5
       DEF AccumulateAvx2, Columns, Dim, Zeroed, InScan, Tables
<1>6. CASE AccumulateAvx512
  <2>1. Packed' /\ Answers'
    BY <1>6, PackedStays DEF AccumulateAvx512, Answers
  <2>2. /\ phase = "scan" /\ input.kernel = "avx512" /\ Dim % 16 = 0 /\ col < Columns
    BY <1>6 DEF AccumulateAvx512, Scanning
  <2>3. col + 2 \in 0..Columns /\ (col + 2) % 2 = 0
    BY <2>2, KernelFacts, SMT
  <2>4. \A h \in Halves, l \in Lanes, m \in Words :
          EvenPlus(h, l, m) \in Words16 /\ OddPlus(h, l, m) \in Words16
    BY <2>2, KernelFacts, PlusType
  <2>5. even' \in Registers /\ odd' \in Registers
    BY <1>6, <2>4 DEF AccumulateAvx512, Registers
  <2> QED
    BY <1>6, <2>1, <2>2, <2>3, <2>5
       DEF AccumulateAvx512, Columns, Dim, Zeroed, InScan, Tables
<1>7. CASE WrongDimension
  <2>1. Packed' /\ Answers'
    BY <1>7, PackedStays DEF WrongDimension, Answers
  <2> QED
    BY <1>7, <2>1 DEF WrongDimension, scanVars, Columns, Dim, Zeroed, InScan
<1>8. CASE Assemble
  <2>1. Packed' /\ Answers'
    BY <1>8, PackedStays DEF Assemble, Answers
  <2>2. col = Columns
    BY <1>8, InputFacts, SMT DEF Assemble
  <2>3. accu' \in [Slots -> Words16]
    BY <1>8, AssembledType DEF Assemble
  <2> QED
    BY <1>8, <2>1, <2>2, <2>3 DEF Assemble, scanVars, Columns, Dim, Zeroed, InScan, Tables
<1>9. CASE Distances
  <2>1. Packed' /\ Answers'
    BY <1>9, PackedStays DEF Distances, Answers
  <2> QED
    BY <1>9, <2>1 DEF Distances, scanVars, Columns, Dim, Zeroed, InScan, Tables
<1>10. CASE Refine
  <2>1. Packed'
    BY <1>10, PackedStays DEF Refine
  <2>2. 32 * b < input.n /\ b \in Nat /\ input.n \in Nat
    BY <1>10, InputFacts DEF Refine, InScan
  <2>3. Answers'
    <3> DEFINE e == [i \in 1..32 |->
             [estimate |-> estimate[i - 1].distance, bound |-> estimate[i - 1].bound,
              distance |-> Final(i - 1)]]
    <3>1. \A i \in 1..Actual(b) : i \in 1..32
      <4>1. Actual(b) \in Int /\ Actual(b) <= 32
        BY <2>2, SMT DEF Actual
      <4> QED
        BY <4>1, SMT
    <3>2. answer' = answer \o [i \in 1..Actual(b) |-> e[i]] /\ b' = b + 1 /\ UNCHANGED input
      BY <1>10, <3>1 DEF Refine
    <3> HIDE DEF e
    <3> QED
      BY <2>2, <3>2, AnswersGrow
  <2>4. 0 \in 0..Columns /\ b + 1 \in Nat
    BY <2>2, InputFacts, SMT
  <2> QED
    <3>1. phase' \in {"scan", "done"} /\ (phase' = "scan" => 32 * b' < input'.n)
      BY <1>10 DEF Refine
    <3>2. Zeroed' /\ sums' \in [Slots -> Nat] /\ even' \in Registers /\ odd' \in Registers
      BY <1>10, Registers0 DEF Refine, Zeroed
    <3>3. /\ UNCHANGED <<input, batches, lut, accu>> /\ b' = b + 1 /\ col' = 0
          /\ phase = "refine"
      BY <1>10 DEF Refine
    <3>4. b' \in Nat /\ col' \in 0..Columns' /\ col' % 2 = 0
      BY <2>4, <3>3, SMT DEF Columns, Dim
    <3>5. Tables' = Tables /\ lut'.entry \in Tables /\ input.n <= 32 * Len(batches)
      BY <3>3 DEF Tables, Dim, InScan
    <3> QED
      BY <2>1, <2>3, <3>1, <3>2, <3>3, <3>4, <3>5 DEF InScan
<1>11. CASE UNCHANGED vars
  BY <1>11, PackedStays DEF vars, Columns, Dim, Zeroed, InScan, Tables, Answers
<1> QED
  BY <1>1, <1>2, <1>3, <1>4, <1>5, <1>6, <1>7, <1>8, <1>9, <1>10, <1>11 DEF Next

LEMMA Invariance == Spec => []IInv
<1>1. Init => IInv
  BY InitInv
<1>2. IInv /\ [Next]_vars => IInv'
  BY NextInv
<1> QED
  BY <1>1, <1>2, PTL DEF Spec

\* TypeOK in every reachable state, whatever the inputs: batches are scanned in
\* whole columns, and there is one answer for every vector and none for padding.
THEOREM TypeCorrect == Spec => []TypeOK
<1>1. IInv => TypeOK
  BY DEF IInv, TypeOK, Answers
<1> QED
  BY <1>1, Invariance, PTL

-----------------------------------------------------------------------------
(* A step of a scan is one of BatchScan's, or none. *)

LEMMA ZeroedAssembled == Zeroed => Assembled = NoSums
<1> SUFFICES ASSUME Zeroed PROVE Assembled = NoSums
  OBVIOUS
<1>1. ASSUME NEW s \in Slots
      PROVE  Assembled[s] = 0
  <2> DEFINE h == s \div 16
             m == s % 8
  <2>1. /\ \A l \in Lanes : even[h][l][m] = 0 /\ odd[h][l][m] = 0
        /\ sums[s] = 0
    BY SlotWord DEF Zeroed, NoWords, NoSums
  <2>2. \A l \in Lanes : Low(h, l, m) = 0
    BY <2>1, SMT DEF Low
  <2> HIDE DEF h, m
  <2>3. \A f : (\A l \in Lanes : f[l] = 0) => AddLanes(f) = 0
    <3> SUFFICES ASSUME NEW f, \A l \in Lanes : f[l] = 0
                 PROVE  AddLanes(f) = 0
      OBVIOUS
    <3>1. f[0] = 0 /\ f[1] = 0 /\ f[2] = 0 /\ f[3] = 0
      BY SMT DEF Lanes
    <3> QED
      BY <3>1, SMT DEF AddLanes
  <2>4. sums[s] % 65536 = 0
    BY <2>1, SMT
  <2>5. AddLanes([l \in Lanes |-> Low(h, l, m)]) = 0
    BY <2>2, <2>3
  <2>6. AddLanes([l \in Lanes |-> odd[h][l][m]]) = 0
    BY <2>1, <2>3
  <2> QED
    BY <2>4, <2>5, <2>6 DEF Assembled, h, m
<1> QED
  BY <1>1 DEF Assembled, NoSums

LEMMA ZeroedNext == (Zeroed => Assembled = NoSums)'
BY ZeroedAssembled, PTL

LEMMA InitRefines == Init => Abstract!Init
<1> SUFFICES ASSUME Init PROVE Abstract!Init
  OBVIOUS
<1>1. col = 0
  BY DEF Init
<1>2. Assembled = NoSums
  BY ZeroedAssembled DEF Init, Zeroed
<1>3. ScanSum = NoSums
  BY <1>2 DEF Init, ScanSum
<1> QED
  BY <1>1, <1>3 DEF Abstract!Init, Abstract!Zero, Abstract!Slots, Slots, NoSums

\* Two entries for each byte of the code.
LEMMA SelectedIs ==
  ASSUME NEW s, NEW c
  PROVE  Abstract!Selected(s, c) = Sel(s, 2*c) + Sel(s, 2*c + 1)
BY DEF Abstract!Selected, Abstract!Nibble, Nibble, Sel

LEMMA SelType ==
  ASSUME IInv, phase = "scan", NEW s \in Slots, NEW g \in 0..(Dim \div 4) - 1
  PROVE  Sel(s, g) \in Int
<1>1. /\ input \in Inputs /\ b \in Nat /\ lut.entry \in Tables
      /\ Dim \in Nat /\ Dim % 8 = 0
  BY InputFacts DEF IInv, InScan
<1>2. ScanCode[s] \in [0..(Dim \div 8) - 1 -> Bytes]
  BY <1>1, SlotCodeType DEF ScanCode, Columns
<1>3. Nibble(ScanCode[s], g) \in 0..15
  BY <1>1, <1>2, NibbleType
<1>4. Sel(s, g) \in Bytes
  BY <1>1, <1>3 DEF Sel, Tables
<1> QED
  BY <1>4 DEF Bytes

\* A scan changes neither the codes nor the table it reads.
LEMMA StaysLoaded ==
  UNCHANGED <<input, b, lut>> => UNCHANGED <<ScanCode, lut.entry, Columns>>
BY DEF ScanCode, SlotCode, Filled, Padding, Columns, Dim

LEMMA StepRefines ==
  ASSUME IInv, [Next]_vars
  PROVE  [Abstract!Next]_(Abstract!vars)
<1> USE DEF Abstract!vars
<1>0. ASSUME UNCHANGED <<input, b, lut, col>>, ScanSum' = ScanSum
      PROVE  UNCHANGED Abstract!vars
  BY <1>0 DEF ScanCode, SlotCode, Filled, Padding, Columns, Dim
<1>1. CASE PackBatch
  BY <1>0, <1>1 DEF PackBatch, scanVars, ScanSum, Assembled, Low
<1>2. CASE BuildLut
  <2>1. Zeroed /\ Zeroed' /\ input' = input
    BY <1>2 DEF IInv, BuildLut, Zeroed, scanVars
  <2>2. ScanSum = Assembled /\ ScanSum' = Assembled'
    BY <1>2 DEF BuildLut, ScanSum
  <2>3. Assembled' = Assembled
    BY <1>2 DEF BuildLut, scanVars, Assembled, Low
  <2>4. Assembled = NoSums
    BY <2>1, ZeroedAssembled
  <2> QED
    BY <2>1, <2>2, <2>3, <2>4
       DEF Zeroed, Abstract!Next, Abstract!Load, Abstract!Zero, Abstract!Slots, Slots, NoSums
<1>3. CASE BuildLutHighAcc
  BY <1>0, <1>3 DEF BuildLutHighAcc, scanVars, ScanSum, Assembled, Low
<1>4. CASE AccumulateScalar
  <2>1. /\ phase = "scan" /\ input.kernel = "scalar" /\ Dim % 16 = 0 /\ col < Columns
        /\ UNCHANGED <<input, phase, b, lut>> /\ col' = col + 1
    BY <1>4 DEF AccumulateScalar, Scanning
  <2>2. sums' \in [Slots -> Nat]
    BY NextInv DEF IInv
  <2>3. ASSUME NEW s \in Slots
        PROVE  Assembled'[s] = (Assembled[s] + Sel(s, 2 * col) + Sel(s, 2 * col + 1)) % 65536
    <3>1. sums'[s] = sums[s] + Res(s \div 16, 2 * col, SlotByte(s))
                             + Res(s \div 16, 2 * col + 1, SlotByte(s))
      BY <1>4 DEF AccumulateScalar
    <3> QED
      BY <2>1, <2>2, <3>1, ScalarStep
  <2>4. ScanSum = Assembled /\ ScanSum' = Assembled'
    BY <2>1 DEF ScanSum
  <2>5. col + 1 <= Columns
    BY <2>1, KernelFacts, SMT
  <2>6. ScanSum' = [s \in Slots |-> (ScanSum[s] + Abstract!Selected(s, col)) % 65536]
    <3>1. ASSUME NEW s \in Slots
          PROVE  (Assembled[s] + Sel(s, 2 * col) + Sel(s, 2 * col + 1)) % 65536
                   = (ScanSum[s] + Abstract!Selected(s, col)) % 65536
      <4> DEFINE x == Assembled[s]
                 p == Sel(s, 2 * col)
                 q == Sel(s, 2 * col + 1)
      <4>1. x \in Int /\ p \in Int /\ q \in Int
        BY <2>1, AssembledType, Word16, SelType, KernelFacts
      <4>2. Abstract!Selected(s, col) = p + q /\ ScanSum[s] = x
        BY <2>4, SelectedIs
      <4> HIDE DEF x, p, q
      <4>3. x + p + q = x + (p + q)
        BY <4>1, SMT
      <4> QED
        BY <4>2, <4>3 DEF x, p, q
    <3>2. Assembled' = [s \in Slots |-> Assembled'[s]]
      BY DEF Assembled
    <3> QED
      BY <2>3, <2>4, <3>1, <3>2
  <2> QED
    BY <2>1, <2>5, <2>6, StaysLoaded
       DEF Abstract!Next, Abstract!AddOne, Abstract!Slots, Slots
<1>5. CASE AccumulateAvx2
  <2>1. /\ phase = "scan" /\ input.kernel = "avx2" /\ Dim % 16 = 0 /\ col < Columns
        /\ UNCHANGED <<input, phase, b, lut>> /\ col' = col + 1
    BY <1>5 DEF AccumulateAvx2, Scanning
  <2>2. even' \in Registers /\ odd' \in Registers
    BY NextInv DEF IInv
  <2>3. 2 * col + 2 <= Dim \div 4 /\ col + 1 <= Columns
    BY <2>1, KernelFacts, SMT
  <2>4. \A h \in Halves, l \in Lanes, m \in Words :
          /\ even'[h][l][m] = IF l < 2 THEN EvenPlus(h, l, m) ELSE even[h][l][m]
          /\ odd'[h][l][m] = IF l < 2 THEN OddPlus(h, l, m) ELSE odd[h][l][m]
    BY <1>5 DEF AccumulateAvx2
  <2>5. ScanSum = Assembled /\ ScanSum' = Assembled'
    BY <2>1 DEF ScanSum
  <2>6. ScanSum' = [s \in Slots |-> (ScanSum[s] + Abstract!Selected(s, col)) % 65536]
    <3>1. ASSUME NEW s \in Slots
          PROVE  Assembled'[s] = (ScanSum[s] + Abstract!Selected(s, col)) % 65536
      <4> DEFINE p == Brought(s, 2)
      <4>1. /\ p \in [Lanes -> Nat]
            /\ Assembled'[s] = (Assembled[s] + (p[0] + p[1] + p[2] + p[3])) % 65536
        BY <2>1, <2>2, <2>3, <2>4, VectorStep
      <4>2. /\ p[0] = Sel(s, 2 * col) /\ p[1] = Sel(s, 2 * col + 1)
            /\ p[2] = 0 /\ p[3] = 0
        BY <2>1, KernelFacts, SMT DEF Brought, Lanes
      <4>3. Abstract!Selected(s, col) = p[0] + p[1]
        BY <4>2, SelectedIs
      <4>4. p[0] \in Int /\ p[1] \in Int
        BY <4>1, SMT DEF Lanes
      <4> HIDE DEF p
      <4>5. p[0] + p[1] + p[2] + p[3] = p[0] + p[1]
        BY <4>2, <4>4, SMT
      <4> QED
        BY <2>5, <4>1, <4>3, <4>5
    <3>2. Assembled' = [s \in Slots |-> Assembled'[s]]
      BY DEF Assembled
    <3> QED
      BY <2>5, <3>1, <3>2
  <2> QED
    BY <2>1, <2>3, <2>6, StaysLoaded
       DEF Abstract!Next, Abstract!AddOne, Abstract!Slots, Slots
<1>6. CASE AccumulateAvx512
  <2>1. /\ phase = "scan" /\ input.kernel = "avx512" /\ Dim % 16 = 0 /\ col < Columns
        /\ UNCHANGED <<input, phase, b, lut>> /\ col' = col + 2
    BY <1>6 DEF AccumulateAvx512, Scanning
  <2>2. even' \in Registers /\ odd' \in Registers
    BY NextInv DEF IInv
  <2>3. 2 * col + 4 <= Dim \div 4 /\ col + 2 <= Columns
    BY <2>1, KernelFacts, SMT
  <2>4. \A h \in Halves, l \in Lanes, m \in Words :
          /\ even'[h][l][m] = IF l < 4 THEN EvenPlus(h, l, m) ELSE even[h][l][m]
          /\ odd'[h][l][m] = IF l < 4 THEN OddPlus(h, l, m) ELSE odd[h][l][m]
    <3>1. \A l \in Lanes : l < 4
      BY SMT DEF Lanes
    <3> QED
      BY <1>6, <3>1 DEF AccumulateAvx512
  <2>5. ScanSum = Assembled /\ ScanSum' = Assembled'
    BY <2>1 DEF ScanSum
  <2>6. ScanSum' = [s \in Slots |-> (ScanSum[s] + Abstract!Selected(s, col)
                                       + Abstract!Selected(s, col + 1)) % 65536]
    <3>1. ASSUME NEW s \in Slots
          PROVE  Assembled'[s] = (ScanSum[s] + Abstract!Selected(s, col)
                                    + Abstract!Selected(s, col + 1)) % 65536
      <4> DEFINE p == Brought(s, 4)
      <4>1. /\ p \in [Lanes -> Nat]
            /\ Assembled'[s] = (Assembled[s] + (p[0] + p[1] + p[2] + p[3])) % 65536
        BY <2>1, <2>2, <2>3, <2>4, VectorStep
      <4>2. /\ p[0] = Sel(s, 2 * col) /\ p[1] = Sel(s, 2 * col + 1)
            /\ p[2] = Sel(s, 2 * (col + 1)) /\ p[3] = Sel(s, 2 * (col + 1) + 1)
        <5>1. /\ 2 * col + 0 = 2 * col /\ 2 * col + 2 = 2 * (col + 1)
              /\ 2 * col + 3 = 2 * (col + 1) + 1
          BY <2>1, KernelFacts, SMT
        <5>2. \A l \in Lanes : p[l] = Sel(s, 2 * col + l)
          BY SMT DEF Brought, Lanes
        <5> HIDE DEF p
        <5>3. p[0] = Sel(s, 2 * col + 0) /\ p[1] = Sel(s, 2 * col + 1)
              /\ p[2] = Sel(s, 2 * col + 2) /\ p[3] = Sel(s, 2 * col + 3)
          BY <5>2, SMT DEF Lanes
        <5> QED
          BY <5>1, <5>3
      <4>3. /\ Abstract!Selected(s, col) = p[0] + p[1]
            /\ Abstract!Selected(s, col + 1) = p[2] + p[3]
        BY <4>2, SelectedIs
      <4>4. p[0] \in Int /\ p[1] \in Int /\ p[2] \in Int /\ p[3] \in Int
        BY <4>1, SMT DEF Lanes
      <4>5. Assembled[s] \in Int
        BY AssembledType, Word16
      <4> HIDE DEF p
      <4>6. Assembled[s] + (p[0] + p[1] + p[2] + p[3])
              = Assembled[s] + (p[0] + p[1]) + (p[2] + p[3])
        BY <4>4, <4>5, SMT
      <4> QED
        BY <2>5, <4>1, <4>3, <4>6
    <3>2. Assembled' = [s \in Slots |-> Assembled'[s]]
      BY DEF Assembled
    <3> QED
      BY <2>5, <3>1, <3>2
  <2> QED
    BY <2>1, <2>3, <2>6, StaysLoaded
       DEF Abstract!Next, Abstract!AddTwo, Abstract!Slots, Slots
<1>7. CASE WrongDimension
  BY <1>0, <1>7 DEF WrongDimension, scanVars, ScanSum, Assembled, Low
<1>8. CASE Assemble
  BY <1>0, <1>8 DEF Assemble, scanVars, ScanSum
<1>9. CASE Distances
  BY <1>0, <1>9 DEF Distances, scanVars, ScanSum
<1>10. CASE Refine
  <2>1. col = Columns /\ col' = 0 /\ phase' \in {"scan", "done"} /\ Zeroed'
    BY <1>10 DEF Refine, IInv, Zeroed
  <2>2. Assembled' = NoSums
    <3>1. Zeroed' => Assembled' = NoSums
      BY ZeroedNext
    <3> QED
      BY <2>1, <3>1
  <2>3. ScanSum' = NoSums
    BY <2>1, <2>2 DEF ScanSum
  <2> QED
    BY <2>1, <2>3 DEF Abstract!Next, Abstract!Finish, Abstract!Zero, Abstract!Slots, Slots, NoSums
<1>11. CASE UNCHANGED vars
  BY <1>0, <1>11 DEF vars, ScanSum, Assembled, Low
<1> QED
  BY <1>1, <1>2, <1>3, <1>4, <1>5, <1>6, <1>7, <1>8, <1>9, <1>10, <1>11 DEF Next

\* Whichever kernel scans, each slot's sum is that of the entries its own code
\* selects: FastScan implements BatchScan, for all inputs.
THEOREM Refinement == Spec => Implements
<1>1. Init => Abstract!Init
  BY InitRefines
<1>2. IInv /\ [Next]_vars => [Abstract!Next]_(Abstract!vars)
  BY StepRefines
<1> QED
  BY <1>1, <1>2, Invariance, PTL DEF Spec, Implements, Abstract!Spec

LEMMA Powers ==
  ASSUME NEW k
  PROVE  /\ (k = 0 => 2^k = 1) /\ (k = 1 => 2^k = 2) /\ (k = 2 => 2^k = 4)
         /\ (k = 3 => 2^k = 8) /\ (k = 4 => 2^k = 16) /\ (k = 5 => 2^k = 32)
         /\ (k = 6 => 2^k = 64) /\ (k = 7 => 2^k = 128) /\ (k = 8 => 2^k = 256)
<1>0. k = 0 => 2^k = 1
  <2>1. 2^0 = 1
    BY SMT
  <2> QED
    BY <2>1, Zenon
<1>1. k = 1 => 2^k = 2
  <2>1. 2^1 = 2
    BY SMT
  <2> QED
    BY <2>1, Zenon
<1>2. k = 2 => 2^k = 4
  <2>1. 2^2 = 4
    BY SMT
  <2> QED
    BY <2>1, Zenon
<1>3. k = 3 => 2^k = 8
  <2>1. 2^3 = 8
    BY SMT
  <2> QED
    BY <2>1, Zenon
<1>4. k = 4 => 2^k = 16
  <2>1. 2^4 = 16
    BY SMT
  <2> QED
    BY <2>1, Zenon
<1>5. k = 5 => 2^k = 32
  <2>1. 2^5 = 32
    BY SMT
  <2> QED
    BY <2>1, Zenon
<1>6. k = 6 => 2^k = 64
  <2>1. 2^6 = 64
    BY SMT
  <2> QED
    BY <2>1, Zenon
<1>7. k = 7 => 2^k = 128
  <2>1. 2^7 = 128
    BY SMT
  <2> QED
    BY <2>1, Zenon
<1>8. k = 8 => 2^k = 256
  <2>1. 2^8 = 256
    BY SMT
  <2> QED
    BY <2>1, Zenon
<1> QED
  BY <1>0, <1>1, <1>2, <1>3, <1>4, <1>5, <1>6, <1>7, <1>8

-----------------------------------------------------------------------------
(* Packed codes unpack to what was packed. *)

\* Byte c of the packed bits.
LEMMA PackedBits ==
  ASSUME NEW dim \in Nat, dim % 8 = 0, NEW bit \in [0..dim - 1 -> 0..1],
         NEW c \in 0..(dim \div 8) - 1
  PROVE  /\ (PackBinary(bit, dim)[c] \div 128) % 2 = bit[8*c]
         /\ (PackBinary(bit, dim)[c] \div 64) % 2 = bit[8*c + 1]
         /\ (PackBinary(bit, dim)[c] \div 32) % 2 = bit[8*c + 2]
         /\ (PackBinary(bit, dim)[c] \div 16) % 2 = bit[8*c + 3]
         /\ (PackBinary(bit, dim)[c] \div 8) % 2 = bit[8*c + 4]
         /\ (PackBinary(bit, dim)[c] \div 4) % 2 = bit[8*c + 5]
         /\ (PackBinary(bit, dim)[c] \div 2) % 2 = bit[8*c + 6]
         /\ (PackBinary(bit, dim)[c] \div 1) % 2 = bit[8*c + 7]
         /\ PackBinary(bit, dim)[c] \div 16
              = 8 * bit[8*c] + 4 * bit[8*c + 1] + 2 * bit[8*c + 2] + bit[8*c + 3]
         /\ PackBinary(bit, dim)[c] % 16
              = 8 * bit[8*c + 4] + 4 * bit[8*c + 5] + 2 * bit[8*c + 6] + bit[8*c + 7]
<1>0. PICK y : y = PackBinary(bit, dim)[c]
  OBVIOUS
<1>1. PICK x0, x1, x2, x3, x4, x5, x6, x7 :
        /\ x0 = bit[8*c] /\ x1 = bit[8*c + 1] /\ x2 = bit[8*c + 2] /\ x3 = bit[8*c + 3]
        /\ x4 = bit[8*c + 4] /\ x5 = bit[8*c + 5] /\ x6 = bit[8*c + 6] /\ x7 = bit[8*c + 7]
  OBVIOUS
<1>2. /\ 8*c \in 0..dim - 1 /\ 8*c + 1 \in 0..dim - 1 /\ 8*c + 2 \in 0..dim - 1
      /\ 8*c + 3 \in 0..dim - 1 /\ 8*c + 4 \in 0..dim - 1 /\ 8*c + 5 \in 0..dim - 1
      /\ 8*c + 6 \in 0..dim - 1 /\ 8*c + 7 \in 0..dim - 1
  BY SMT
<1>3. /\ x0 \in 0..1 /\ x1 \in 0..1 /\ x2 \in 0..1 /\ x3 \in 0..1
      /\ x4 \in 0..1 /\ x5 \in 0..1 /\ x6 \in 0..1 /\ x7 \in 0..1
  BY <1>1, <1>2
<1>4. y = 128 * x0 + 64 * x1 + 32 * x2 + 16 * x3 + 8 * x4 + 4 * x5 + 2 * x6 + x7
  BY <1>0, <1>1 DEF PackBinary
<1>5. /\ (y \div 128) % 2 = x0 /\ (y \div 64) % 2 = x1 /\ (y \div 32) % 2 = x2
      /\ (y \div 16) % 2 = x3 /\ (y \div 8) % 2 = x4 /\ (y \div 4) % 2 = x5
      /\ (y \div 2) % 2 = x6 /\ (y \div 1) % 2 = x7
      /\ y \div 16 = 8 * x0 + 4 * x1 + 2 * x2 + x3
      /\ y % 16 = 8 * x4 + 4 * x5 + 2 * x6 + x7
  BY <1>3, <1>4, SMT
<1> QED
  BY <1>0, <1>1, <1>5

LEMMA BitIs ==
  ASSUME NEW dim \in Nat, dim % 8 = 0, NEW bit \in [0..dim - 1 -> 0..1],
         NEW i \in 0..dim - 1
  PROVE  Bit(PackBinary(bit, dim), i) = bit[i]
<1>1. PICK c \in 0..(dim \div 8) - 1, r \in 0..7 : i = 8*c + r /\ c = i \div 8 /\ r = i % 8
  <2>1. i \div 8 \in 0..(dim \div 8) - 1 /\ i % 8 \in 0..7 /\ i = 8 * (i \div 8) + (i % 8)
    BY SMT
  <2> QED
    BY <2>1
<1>2. PICK y : y = PackBinary(bit, dim)[c]
  OBVIOUS
<1>3. PICK k \in 0..7 : k = 7 - r
  OBVIOUS
<1>4. Bit(PackBinary(bit, dim), i) = (y \div 2^k) % 2
  BY <1>1, <1>2, <1>3 DEF Bit
<1>5. /\ (y \div 128) % 2 = bit[8*c] /\ (y \div 64) % 2 = bit[8*c + 1]
      /\ (y \div 32) % 2 = bit[8*c + 2] /\ (y \div 16) % 2 = bit[8*c + 3]
      /\ (y \div 8) % 2 = bit[8*c + 4] /\ (y \div 4) % 2 = bit[8*c + 5]
      /\ (y \div 2) % 2 = bit[8*c + 6] /\ (y \div 1) % 2 = bit[8*c + 7]
  BY <1>2, PackedBits, ZenonT(40)
<1>6. CASE k = 0
  <2>1. 2^k = 1
    BY <1>1, <1>3, <1>6, Powers
  <2>2. i = 8*c + 7
    BY <1>1, <1>3, <1>6
  <2> QED
    BY <1>4, <1>5, <2>1, <2>2
<1>7. CASE k = 1
  <2>1. 2^k = 2
    BY <1>1, <1>3, <1>7, Powers
  <2>2. i = 8*c + 6
    BY <1>1, <1>3, <1>7
  <2> QED
    BY <1>4, <1>5, <2>1, <2>2
<1>8. CASE k = 2
  <2>1. 2^k = 4
    BY <1>1, <1>3, <1>8, Powers
  <2>2. i = 8*c + 5
    BY <1>1, <1>3, <1>8
  <2> QED
    BY <1>4, <1>5, <2>1, <2>2
<1>9. CASE k = 3
  <2>1. 2^k = 8
    BY <1>1, <1>3, <1>9, Powers
  <2>2. i = 8*c + 4
    BY <1>1, <1>3, <1>9
  <2> QED
    BY <1>4, <1>5, <2>1, <2>2
<1>10. CASE k = 4
  <2>1. 2^k = 16
    BY <1>1, <1>3, <1>10, Powers
  <2>2. i = 8*c + 3
    BY <1>1, <1>3, <1>10
  <2> QED
    BY <1>4, <1>5, <2>1, <2>2
<1>11. CASE k = 5
  <2>1. 2^k = 32
    BY <1>1, <1>3, <1>11, Powers, SMTT(30)
  <2>2. i = 8*c + 2
    BY <1>1, <1>3, <1>11
  <2> QED
    BY <1>4, <1>5, <2>1, <2>2
<1>12. CASE k = 6
  <2>1. 2^k = 64
    BY <1>1, <1>3, <1>12, Powers, SMTT(30)
  <2>2. i = 8*c + 1
    BY <1>1, <1>3, <1>12
  <2> QED
    BY <1>4, <1>5, <2>1, <2>2
<1>13. CASE k = 7
  <2>1. 2^k = 128
    BY <1>1, <1>3, <1>13, Powers, SMTT(30)
  <2>2. i = 8*c
    BY <1>1, <1>3, <1>13
  <2> QED
    BY <1>4, <1>5, <2>1, <2>2
<1> QED
  BY <1>6, <1>7, <1>8, <1>9, <1>10, <1>11, <1>12, <1>13

LEMMA SlotHalves ==
  ASSUME NEW s \in Slots
  PROVE  /\ s < 16 => s % 16 = s
         /\ ~(s < 16) => (s % 16) + 16 = s
BY SMT DEF Slots

\* What a slot finds in a group is the nibble of its own vector.
LEMMA SlotNibbleIs ==
  ASSUME NEW dim \in Nat, dim % 8 = 0,
         NEW codes \in [Slots -> [0..(dim \div 8) - 1 -> Bytes]],
         NEW g \in 0..(dim \div 4) - 1, NEW s \in Slots
  PROVE  SlotNibble(PackCodes(codes, dim)[g], s) = Nibble(codes[s], g)
<1>1. PICK j \in 0..15 : j = SlotByte(s) /\ Kperm0[j] = s % 16
  BY SlotByteIs
<1>2. s < 16 => s % 16 = s
  BY SlotHalves
<1>3. ~(s < 16) => (s % 16) + 16 = s
  BY SlotHalves
<1>4. PICK y : y = PackCodes(codes, dim)[g][j]
  OBVIOUS
<1>5. y % 16 = Nibble(codes[Kperm0[j]], g) /\ y \div 16 = Nibble(codes[Kperm0[j] + 16], g)
  BY <1>4, PackedByte
<1>6. SlotNibble(PackCodes(codes, dim)[g], s) = IF s < 16 THEN y % 16 ELSE y \div 16
  BY <1>1, <1>4 DEF SlotNibble
<1> QED
  BY <1>1, <1>2, <1>3, <1>5, <1>6

LEMMA UnpackBytesIs ==
  ASSUME NEW dim \in Nat, dim % 8 = 0,
         NEW codes \in [Slots -> [0..(dim \div 8) - 1 -> Bytes]], NEW s \in Slots
  PROVE  UnpackBytes(PackCodes(codes, dim), s, dim) = codes[s]
<1>1. ASSUME NEW c \in 0..(dim \div 8) - 1
      PROVE  UnpackBytes(PackCodes(codes, dim), s, dim)[c] = codes[s][c]
  <2>1. /\ 2*c \in 0..(dim \div 4) - 1 /\ 2*c + 1 \in 0..(dim \div 4) - 1
        /\ (2*c) % 2 = 0 /\ (2*c + 1) % 2 = 1 /\ (2*c) \div 2 = c /\ (2*c + 1) \div 2 = c
    BY SMT
  <2>2. PICK x \in Bytes : x = codes[s][c]
    OBVIOUS
  <2>3. Nibble(codes[s], 2*c) = x \div 16 /\ Nibble(codes[s], 2*c + 1) = x % 16
    BY <2>1, <2>2 DEF Nibble
  <2>4. /\ SlotNibble(PackCodes(codes, dim)[2*c], s) = x \div 16
        /\ SlotNibble(PackCodes(codes, dim)[2*c + 1], s) = x % 16
    <3>1. PICK g, h : g = 2*c /\ h = 2*c + 1
      OBVIOUS
    <3>2. g \in 0..(dim \div 4) - 1 /\ h \in 0..(dim \div 4) - 1
      BY <2>1, <3>1
    <3>3. /\ SlotNibble(PackCodes(codes, dim)[g], s) = Nibble(codes[s], g)
          /\ SlotNibble(PackCodes(codes, dim)[h], s) = Nibble(codes[s], h)
      BY <3>2, SlotNibbleIs
    <3> QED
      BY <2>3, <3>1, <3>3
  <2>5. UnpackBytes(PackCodes(codes, dim), s, dim)[c] = 16 * (x \div 16) + (x % 16)
    BY <2>4 DEF UnpackBytes
  <2>6. 16 * (x \div 16) + (x % 16) = x
    BY SMT DEF Bytes
  <2> QED
    BY <2>2, <2>5, <2>6
<1>2. UnpackBytes(PackCodes(codes, dim), s, dim)
        = [c \in 0..(dim \div 8) - 1 |-> UnpackBytes(PackCodes(codes, dim), s, dim)[c]]
  BY DEF UnpackBytes
<1>3. codes[s] = [c \in 0..(dim \div 8) - 1 |-> codes[s][c]]
  OBVIOUS
<1> QED
  BY <1>1, <1>2, <1>3

-----------------------------------------------------------------------------
(* Extended codes of every width unpack to what was packed. *)

LEMMA PowerType ==
  ASSUME NEW k \in 0..8
  PROVE  2^k \in 1..256
BY Powers

\* Four values of two bits in a byte.
LEMMA Interleaved ==
  ASSUME NEW f, NEW first \in Nat, NEW m \in 0..3,
         f[first] \in Int, f[first + 4] \in Int, f[first + 8] \in Int, f[first + 12] \in Int
  PROVE  (Interleave2(f, first) \div 4^m) % 4 = f[first + 4*m] % 4
<1>1. PICK x, y, z, t : /\ x = f[first] % 4 /\ y = f[first + 4] % 4
                        /\ z = f[first + 8] % 4 /\ t = f[first + 12] % 4
  OBVIOUS
<1>2. x \in 0..3 /\ y \in 0..3 /\ z \in 0..3 /\ t \in 0..3
  BY <1>1
<1>3. PICK v : v = Interleave2(f, first)
  OBVIOUS
<1>4. v = x + 4 * y + 16 * z + 64 * t
  BY <1>1, <1>3 DEF Interleave2
<1>5. (v \div 1) % 4 = x /\ (v \div 4) % 4 = y /\ (v \div 16) % 4 = z /\ (v \div 64) % 4 = t
  BY <1>2, <1>4
<1>6. CASE m = 0
  <2>1. 4^m = 1
    <3>1. 4^0 = 1
      BY SMT
    <3> QED
      BY <1>6, <3>1, Zenon
  <2>2. first + 4*m = first
    BY <1>6
  <2> QED
    BY <1>1, <1>3, <1>5, <2>1, <2>2
<1>7. CASE m = 1
  <2>1. 4^m = 4
    <3>1. 4^1 = 4
      BY SMT
    <3> QED
      BY <1>7, <3>1, Zenon
  <2>2. first + 4*m = first + 4
    BY <1>7
  <2> QED
    BY <1>1, <1>3, <1>5, <2>1, <2>2
<1>8. CASE m = 2
  <2>1. 4^m = 16
    <3>1. 4^2 = 16
      BY SMT
    <3> QED
      BY <1>8, <3>1, Zenon
  <2>2. first + 4*m = first + 8
    BY <1>8
  <2> QED
    BY <1>1, <1>3, <1>5, <2>1, <2>2
<1>9. CASE m = 3
  <2>1. 4^m = 64
    <3>1. 4^3 = 64
      BY SMT
    <3> QED
      BY <1>9, <3>1, Zenon
  <2>2. first + 4*m = first + 12
    BY <1>9
  <2> QED
    BY <1>1, <1>3, <1>5, <2>1, <2>2
<1> QED
  BY <1>6, <1>7, <1>8, <1>9

\* Where coordinate i is among its block of sixteen.
LEMMA Blocks ==
  ASSUME NEW dim \in Nat, dim % 16 = 0, NEW i \in 0..dim - 1
  PROVE  \E q \in Nat, m \in 0..3, r \in 0..3 :
           /\ q = i \div 16 /\ r = i % 4 /\ m = (i % 16) \div 4
           /\ i = 16*q + 4*m + r /\ i % 16 = 4*m + r
           /\ 16*q + 15 < dim
<1>1. /\ i \div 16 \in Nat /\ (i % 16) \div 4 \in 0..3 /\ i % 4 \in 0..3
      /\ i = 16 * (i \div 16) + 4 * ((i % 16) \div 4) + (i % 4)
      /\ i % 16 = 4 * ((i % 16) \div 4) + (i % 4)
      /\ 16 * (i \div 16) + 15 < dim
  BY SMT
<1> QED
  BY <1>1

LEMMA UnpackEx2 ==
  ASSUME NEW dim \in Nat, dim % 16 = 0, NEW code \in [0..dim - 1 -> 0..3],
         NEW i \in 0..dim - 1
  PROVE  UnpackEx(PackEx(code, dim, 2), dim, 2)[i] = code[i]
<1>1. PICK q \in Nat, m \in 0..3, r \in 0..3 :
        /\ q = i \div 16 /\ r = i % 4 /\ m = (i % 16) \div 4
        /\ i = 16*q + 4*m + r /\ i % 16 = 4*m + r /\ 16*q + 15 < dim
  BY Blocks
<1>2. PICK k \in Nat : k = 4*q + r
  OBVIOUS
<1>3. k \in 0 .. ExSize(dim, 2) - 1 /\ k \div 4 = q /\ k % 4 = r
  <2>1. ExSize(dim, 2) = (dim \div 16) * 4
    BY DEF ExSize
  <2>2. k \in 0 .. ((dim \div 16) * 4) - 1
    BY <1>1, <1>2
  <2>3. k \div 4 = q /\ k % 4 = r
    BY <1>2
  <2> QED
    BY <2>1, <2>2, <2>3
<1>4. PICK first \in Nat : first = 16*q + r
  OBVIOUS
<1>5. PackEx(code, dim, 2)[k] = Interleave2(code, first)
  BY <1>3, <1>4 DEF PackEx, Block2
<1>6. /\ code[first] \in Int /\ code[first + 4] \in Int /\ code[first + 8] \in Int
      /\ code[first + 12] \in Int
  <2>1. /\ first \in 0..dim - 1 /\ first + 4 \in 0..dim - 1 /\ first + 8 \in 0..dim - 1
        /\ first + 12 \in 0..dim - 1
    BY <1>1, <1>4
  <2> QED
    BY <2>1
<1>7. (Interleave2(code, first) \div 4^m) % 4 = code[first + 4*m] % 4
  BY <1>6, Interleaved
<1>8. first + 4*m = i
  BY <1>1, <1>4
<1>9. UnpackEx(PackEx(code, dim, 2), dim, 2)[i] = (PackEx(code, dim, 2)[k] \div 4^m) % 4
  <2>1. PICK packed : packed = PackEx(code, dim, 2)
    OBVIOUS
  <2>2. UnpackEx(packed, dim, 2)[i] = Code2(packed, 4 * (i \div 16), i)
    BY DEF UnpackEx
  <2>3. Code2(packed, 4*q, i) = (packed[4*q + r] \div 4^m) % 4
    BY <1>1 DEF Code2
  <2> QED
    BY <1>1, <1>2, <2>1, <2>2, <2>3
<1>10. code[i] % 4 = code[i]
  <2>1. PICK z \in 0..3 : z = code[i]
    OBVIOUS
  <2>2. z % 4 = z
    OBVIOUS
  <2> QED
    BY <2>1, <2>2
<1> QED
  BY <1>5, <1>7, <1>8, <1>9, <1>10

LEMMA UnpackEx6 ==
  ASSUME NEW dim \in Nat, dim % 16 = 0, NEW code \in [0..dim - 1 -> 0..63],
         NEW i \in 0..dim - 1
  PROVE  UnpackEx(PackEx(code, dim, 6), dim, 6)[i] = code[i]
<1>1. PICK q \in Nat, m \in 0..3, r \in 0..3 :
        /\ q = i \div 16 /\ r = i % 4 /\ m = (i % 16) \div 4
        /\ i = 16*q + 4*m + r /\ i % 16 = 4*m + r /\ 16*q + 15 < dim
  BY Blocks
<1>2. PICK k \in 0..15, j \in 0..7 : k = i % 16 /\ j = k % 8 /\ i = 16*q + k
  <2>1. i % 16 \in 0..15 /\ (i % 16) % 8 \in 0..7 /\ i = 16*q + (i % 16)
    BY <1>1
  <2> QED
    BY <2>1
<1>3. ExSize(dim, 6) = (dim \div 16) * 12
  BY DEF ExSize
<1>4. PICK low, high \in Nat : low = 12*q + j /\ high = 12*q + 8 + r
  OBVIOUS
<1>5. /\ low \in 0 .. ExSize(dim, 6) - 1 /\ low \div 12 = q /\ low % 12 = j
      /\ high \in 0 .. ExSize(dim, 6) - 1 /\ high \div 12 = q /\ high % 12 = 8 + r
  <2>1. low \in 0 .. ((dim \div 16) * 12) - 1 /\ low \div 12 = q /\ low % 12 = j
    BY <1>1, <1>4
  <2>2. high \in 0 .. ((dim \div 16) * 12) - 1 /\ high \div 12 = q /\ high % 12 = 8 + r
    BY <1>1, <1>4
  <2> QED
    BY <1>3, <2>1, <2>2
<1>6. PICK packed : packed = PackEx(code, dim, 6)
  OBVIOUS
<1>7. PICK tops : tops = [n \in DOMAIN code |-> code[n] \div 16]
  OBVIOUS
<1>8. PICK base, first \in Nat : base = 16*q /\ first = 16*q + r
  OBVIOUS
<1>9. packed[low] = (code[base + j] % 16) + 16 * (code[base + j + 8] % 16)
  <2>1. packed[low] = Block6(code, low)
    BY <1>5, <1>6 DEF PackEx
  <2>2. j < 8
    OBVIOUS
  <2> QED
    BY <1>5, <1>8, <2>1, <2>2 DEF Block6
<1>10. packed[high] = Interleave2(tops, first)
  <2>1. packed[high] = Block6(code, high)
    BY <1>5, <1>6 DEF PackEx
  <2>2. ~(8 + r < 8) /\ base + (8 + r) - 8 = first
    BY <1>8
  <2> QED
    BY <1>5, <1>7, <1>8, <2>1, <2>2 DEF Block6
<1>11. PICK z \in 0..63 : z = code[i]
  OBVIOUS
<1>12. (IF k < 8 THEN packed[low] % 16 ELSE packed[low] \div 16) = z % 16
  <2>1. base + j \in 0..dim - 1 /\ base + j + 8 \in 0..dim - 1
    BY <1>1, <1>8, SMTT(30)
  <2>2. PICK x, y \in 0..63 : x = code[base + j] /\ y = code[base + j + 8]
    BY <2>1
  <2>3. packed[low] = (x % 16) + 16 * (y % 16)
    BY <1>9, <2>2
  <2>4. packed[low] % 16 = x % 16 /\ packed[low] \div 16 = y % 16
    BY <2>3
  <2>5. CASE k < 8
    <3>1. base + j = i
      BY <1>2, <1>8, <2>5
    <3> QED
      BY <1>11, <2>2, <2>4, <2>5, <3>1
  <2>6. CASE ~(k < 8)
    <3>1. base + j + 8 = i
      BY <1>2, <1>8, <2>6
    <3> QED
      BY <1>11, <2>2, <2>4, <2>6, <3>1
  <2> QED
    BY <2>5, <2>6
<1>13. (packed[high] \div 4^m) % 4 = z \div 16
  <2>1. /\ first \in 0..dim - 1 /\ first + 4 \in 0..dim - 1 /\ first + 8 \in 0..dim - 1
        /\ first + 12 \in 0..dim - 1
    BY <1>1, <1>8
  <2>2. \A n \in 0..dim - 1 : tops[n] = code[n] \div 16 /\ tops[n] \in Int
    <3>1. \A x \in 0..63 : x \div 16 \in Int
      OBVIOUS
    <3> QED
      BY <1>7, <3>1
  <2>3. (Interleave2(tops, first) \div 4^m) % 4 = tops[first + 4*m] % 4
    <3>1. /\ tops[first] \in Int /\ tops[first + 4] \in Int /\ tops[first + 8] \in Int
          /\ tops[first + 12] \in Int
      BY <2>1, <2>2
    <3> QED
      BY <3>1, Interleaved
  <2>4. first + 4*m = i
    BY <1>1, <1>8
  <2>5. tops[i] = z \div 16
    BY <1>11, <2>2
  <2>6. (z \div 16) % 4 = z \div 16
    OBVIOUS
  <2> QED
    BY <1>10, <2>3, <2>4, <2>5, <2>6
<1>14. UnpackEx(packed, dim, 6)[i]
         = (IF k < 8 THEN packed[low] % 16 ELSE packed[low] \div 16)
             + 16 * ((packed[high] \div 4^m) % 4)
  <2>1. UnpackEx(packed, dim, 6)[i] = Code6(packed, 12 * (i \div 16), i)
    BY DEF UnpackEx
  <2>2. Code6(packed, 12*q, i)
          = (IF i % 16 < 8 THEN packed[12*q + ((i % 16) % 8)] % 16
             ELSE packed[12*q + ((i % 16) % 8)] \div 16) + 16 * Code2(packed, 12*q + 8, i)
    BY DEF Code6
  <2>3. Code2(packed, 12*q + 8, i) = (packed[12*q + 8 + r] \div 4^m) % 4
    BY <1>1 DEF Code2
  <2> QED
    BY <1>1, <1>2, <1>4, <2>1, <2>2, <2>3
<1>15. UnpackEx(packed, dim, 6)[i] = (z % 16) + 16 * (z \div 16)
  BY <1>12, <1>13, <1>14
<1>16. (z % 16) + 16 * (z \div 16) = z
  OBVIOUS
<1> QED
  BY <1>6, <1>11, <1>15, <1>16

LEMMA SetInduction ==
  ASSUME NEW T, T \subseteq Nat, 0 \in T, \A n \in T : n + 1 \in T
  PROVE  T = Nat
<1> SUFFICES ASSUME NEW m \in Nat, m \notin T PROVE FALSE
  OBVIOUS
<1> DEFINE f == [n \in 0..m |-> IF n \in T THEN n + 1 ELSE n]
<1>1. f \in Injection(0..m, 0..m)
  <2>1. f \in [0..m -> 0..m]
    OBVIOUS
  <2>2. \A x, y \in 0..m : f[x] = f[y] => x = y
    OBVIOUS
  <2> QED
    BY <2>1, <2>2 DEF Injection, IsInjective
<1>2. f \in Surjection(0..m, 0..m)
  BY <1>1, FS_Interval, FS_Injection
<1>3. \E n \in 0..m : f[n] = 0
  <2> HIDE DEF f
  <2>1. 0 \in 0..m
    OBVIOUS
  <2> QED
    BY <1>2, <2>1 DEF Surjection
<1> QED
  BY <1>3

LEMMA UpTo ==
  ASSUME NEW n \in Nat, NEW T, 0 \in T, \A k \in 0..n - 1 : k \in T => k + 1 \in T
  PROVE  0..n \subseteq T
<1>1. PICK U : U = {k \in Nat : k <= n => k \in T}
  OBVIOUS
<1>2. U \subseteq Nat /\ 0 \in U
  BY <1>1
<1>3. \A k \in U : k + 1 \in U
  BY <1>1
<1>4. U = Nat
  BY <1>2, <1>3, SetInduction
<1> QED
  BY <1>1, <1>4

LEMMA DivUnique ==
  ASSUME NEW x \in Nat, NEW n \in Nat \ {0}, NEW q \in Nat, NEW r \in 0..n - 1, x = n*q + r
  PROVE  x \div n = q /\ x % n = r
<1>1. PICK d \in Nat, m \in 0..n - 1 : d = x \div n /\ m = x % n /\ x = n*d + m
  <2>1. x \div n \in Nat /\ x % n \in 0..n - 1 /\ x = n * (x \div n) + (x % n)
    BY SMT
  <2> QED
    BY <2>1
<1>2. ~(d < q)
  <2> SUFFICES ASSUME d < q PROVE FALSE
    OBVIOUS
  <2>1. PICK k \in Nat : q = d + 1 + k
    <3>1. q - d - 1 \in Nat /\ q = d + 1 + (q - d - 1)
      OBVIOUS
    <3> QED
      BY <3>1
  <2>2. n*q = n*d + n + n*k /\ n*k \in Nat /\ n*d \in Nat
    BY <2>1
  <2> QED
    BY <1>1, <2>2
<1>3. ~(q < d)
  <2> SUFFICES ASSUME q < d PROVE FALSE
    OBVIOUS
  <2>1. PICK k \in Nat : d = q + 1 + k
    <3>1. d - q - 1 \in Nat /\ d = q + 1 + (d - q - 1)
      OBVIOUS
    <3> QED
      BY <3>1
  <2>2. n*d = n*q + n + n*k /\ n*k \in Nat /\ n*q \in Nat
    BY <2>1
  <2> QED
    BY <1>1, <2>2
<1>4. d = q
  BY <1>2, <1>3
<1>5. n*d = n*q /\ n*q \in Nat
  BY <1>4
<1> QED
  BY <1>1, <1>4, <1>5

LEMMA DivIs ==
  ASSUME NEW x \in Nat, NEW n \in Nat \ {0}
  PROVE  \E q \in Nat, r \in 0..n - 1 : q = x \div n /\ r = x % n /\ x = n*q + r
<1>1. x \div n \in Nat /\ x % n \in 0..n - 1 /\ x = n * (x \div n) + (x % n)
  BY SMT
<1> QED
  BY <1>1

\* Two divisions are one.
LEMMA DivDiv ==
  ASSUME NEW x \in Nat, NEW a \in Nat \ {0}, NEW c \in Nat \ {0}
  PROVE  (x \div a) \div c = x \div (a * c)
<1>1. PICK q \in Nat, r \in 0..a - 1 : q = x \div a /\ x = a*q + r
  BY DivIs
<1>2. PICK p \in Nat, s \in 0..c - 1 : p = q \div c /\ q = c*p + s
  BY DivIs
<1>3. PICK n : n = a * c
  OBVIOUS
<1>4. n \in Nat \ {0}
  BY <1>3
<1>5. PICK t : t = a*s + r
  OBVIOUS
<1>6. t \in 0..n - 1
  <2>1. PICK k \in Nat : c = s + 1 + k
    <3>1. c - s - 1 \in Nat /\ c = s + 1 + (c - s - 1)
      OBVIOUS
    <3> QED
      BY <3>1
  <2>2. n = a*s + a + a*k /\ a*k \in Nat /\ a*s \in Nat
    BY <1>3, <2>1
  <2> QED
    BY <1>5, <2>2
<1>7. x = n*p + t
  <2>1. a*q = a*(c*p) + a*s
    BY <1>2
  <2>2. a*(c*p) = n*p
    BY <1>3
  <2>3. a*(c*p) \in Nat /\ a*s \in Nat /\ n*p \in Nat
    BY <1>4
  <2> QED
    BY <1>1, <1>5, <2>1, <2>2, <2>3
<1>8. x \div n = p
  BY <1>4, <1>6, <1>7, DivUnique
<1> QED
  BY <1>1, <1>2, <1>3, <1>8

\* One bit more of a number.
LEMMA BitMore ==
  ASSUME NEW x \in Nat, NEW a \in Nat \ {0}
  PROVE  x % (2 * a) = (x % a) + a * ((x \div a) % 2)
<1>1. PICK q \in Nat, r \in 0..a - 1 : q = x \div a /\ r = x % a /\ x = a*q + r
  BY DivIs
<1>2. PICK p \in Nat, s \in 0..1 : s = q % 2 /\ q = 2*p + s
  BY SMT
<1>3. PICK t : t = r + a*s
  OBVIOUS
<1>4. PICK n : n = 2 * a
  OBVIOUS
<1>5. n \in Nat \ {0} /\ t \in 0..n - 1
  <2>1. CASE s = 0
    BY <1>3, <1>4, <2>1
  <2>2. CASE s = 1
    BY <1>3, <1>4, <2>2
  <2> QED
    BY <1>2, <2>1, <2>2
<1>6. x = n*p + t
  <2>1. a*q = (2 * a)*p + a*s
    BY <1>2
  <2>2. (2 * a)*p = n*p
    BY <1>4
  <2>3. n*p \in Nat /\ a*s \in Nat /\ a*q \in Nat
    BY <1>5
  <2>4. x = n*p + a*s + r
    BY <1>1, <2>1, <2>2, <2>3
  <2> QED
    BY <1>3, <2>3, <2>4
<1>7. x % n = t
  BY <1>5, <1>6, DivUnique
<1>8. x % (2 * a) = t
  BY <1>4, <1>7, Zenon
<1>9. (x % a) + a * ((x \div a) % 2) = r + a*s
  BY <1>1, <1>2, Zenon
<1> QED
  BY <1>3, <1>8, <1>9, Zenon
-----------------------------------------------------------------------------
(* Powers of two, up to the sixteen bits a window of two bytes has. *)

LEMMA PowerNext == ASSUME NEW k \in 0..14 PROVE 2^(k + 1) = 2 * 2^k
<1>0. CASE k = 0
  <2>1. 2^1 = 2 * 2^0
    BY SMT
  <2>2. k + 1 = 1
    BY <1>0
  <2> QED
    BY <1>0, <2>1, <2>2, Zenon
<1>1. CASE k = 1
  <2>1. 2^2 = 2 * 2^1
    BY SMT
  <2>2. k + 1 = 2
    BY <1>1
  <2> QED
    BY <1>1, <2>1, <2>2, Zenon
<1>2. CASE k = 2
  <2>1. 2^3 = 2 * 2^2
    BY SMT
  <2>2. k + 1 = 3
    BY <1>2
  <2> QED
    BY <1>2, <2>1, <2>2, Zenon
<1>3. CASE k = 3
  <2>1. 2^4 = 2 * 2^3
    BY SMT
  <2>2. k + 1 = 4
    BY <1>3
  <2> QED
    BY <1>3, <2>1, <2>2, Zenon
<1>4. CASE k = 4
  <2>1. 2^5 = 2 * 2^4
    BY SMT
  <2>2. k + 1 = 5
    BY <1>4
  <2> QED
    BY <1>4, <2>1, <2>2, Zenon
<1>5. CASE k = 5
  <2>1. 2^6 = 2 * 2^5
    BY SMT
  <2>2. k + 1 = 6
    BY <1>5
  <2> QED
    BY <1>5, <2>1, <2>2, Zenon
<1>6. CASE k = 6
  <2>1. 2^7 = 2 * 2^6
    BY SMT
  <2>2. k + 1 = 7
    BY <1>6
  <2> QED
    BY <1>6, <2>1, <2>2, Zenon
<1>7. CASE k = 7
  <2>1. 2^8 = 2 * 2^7
    BY SMT
  <2>2. k + 1 = 8
    BY <1>7
  <2> QED
    BY <1>7, <2>1, <2>2, Zenon
<1>8. CASE k = 8
  <2>1. 2^9 = 2 * 2^8
    BY SMT
  <2>2. k + 1 = 9
    BY <1>8
  <2> QED
    BY <1>8, <2>1, <2>2, Zenon
<1>9. CASE k = 9
  <2>1. 2^10 = 2 * 2^9
    BY SMT
  <2>2. k + 1 = 10
    BY <1>9
  <2> QED
    BY <1>9, <2>1, <2>2, Zenon
<1>10. CASE k = 10
  <2>1. 2^11 = 2 * 2^10
    BY SMT
  <2>2. k + 1 = 11
    BY <1>10
  <2> QED
    BY <1>10, <2>1, <2>2, Zenon
<1>11. CASE k = 11
  <2>1. 2^12 = 2 * 2^11
    BY SMT
  <2>2. k + 1 = 12
    BY <1>11
  <2> QED
    BY <1>11, <2>1, <2>2, Zenon
<1>12. CASE k = 12
  <2>1. 2^13 = 2 * 2^12
    BY SMT
  <2>2. k + 1 = 13
    BY <1>12
  <2> QED
    BY <1>12, <2>1, <2>2, Zenon
<1>13. CASE k = 13
  <2>1. 2^14 = 2 * 2^13
    BY SMT
  <2>2. k + 1 = 14
    BY <1>13
  <2> QED
    BY <1>13, <2>1, <2>2, Zenon
<1>14. CASE k = 14
  <2>1. 2^15 = 2 * 2^14
    BY SMT
  <2>2. k + 1 = 15
    BY <1>14
  <2> QED
    BY <1>14, <2>1, <2>2, Zenon
<1> QED
  BY <1>0, <1>1, <1>2, <1>3, <1>4, <1>5, <1>6, <1>7, <1>8, <1>9, <1>10, <1>11, <1>12, <1>13, <1>14

LEMMA PowerIs ==
  ASSUME NEW k \in 0..15
  PROVE  2^k \in Nat \ {0}
<1>1. PICK T : T = {j \in 0..15 : 2^j \in Nat \ {0}}
  OBVIOUS
<1>2. 0 \in T
  <2>1. 2^0 = 1
    BY SMT
  <2> QED
    BY <1>1, <2>1
<1>3. ASSUME NEW j \in 0..15 - 1, j \in T PROVE j + 1 \in T
  <2>1. j \in 0..14 /\ j + 1 \in 0..15
    OBVIOUS
  <2>2. 2^(j + 1) = 2 * 2^j
    BY <2>1, PowerNext
  <2> QED
    BY <1>1, <1>3, <2>1, <2>2
<1>4. 0..15 \subseteq T
  BY <1>2, <1>3, UpTo
<1> QED
  BY <1>1, <1>4

LEMMA PowerSum ==
  ASSUME NEW r \in 0..7, NEW j \in 0..8
  PROVE  2^(r + j) = 2^r * 2^j
<1>1. PICK T : T = {k \in 0..8 : 2^(r + k) = 2^r * 2^k}
  OBVIOUS
<1>2. PICK a : a = 2^r
  OBVIOUS
<1>3. a \in Nat \ {0}
  <2>1. r \in 0..15
    OBVIOUS
  <2> QED
    BY <1>2, <2>1, PowerIs
<1>4. 0 \in T
  <2>1. 2^0 = 1
    BY SMT
  <2>2. r + 0 = r /\ 0 \in 0..8
    OBVIOUS
  <2>3. 2^(r + 0) = 2^r
    BY <2>2, Zenon
  <2>4. a * 2^0 = a
    BY <1>3, <2>1
  <2> QED
    BY <1>1, <1>2, <2>2, <2>3, <2>4, Zenon
<1>5. ASSUME NEW k \in 0..8 - 1, k \in T PROVE k + 1 \in T
  <2>1. k \in 0..14 /\ k + 1 \in 0..8 /\ r + k \in 0..14 /\ r + (k + 1) = (r + k) + 1 /\ k \in 0..15
    OBVIOUS
  <2>2. 2^(k + 1) = 2 * 2^k
    BY <2>1, PowerNext
  <2>3. PICK n : n = r + k
    OBVIOUS
  <2>4. 2^(n + 1) = 2 * 2^n
    BY <2>1, <2>3, PowerNext
  <2>5. PICK c : c = 2^k
    OBVIOUS
  <2>6. c \in Nat \ {0}
    BY <2>1, <2>5, PowerIs
  <2>7. 2^n = a * c
    BY <1>1, <1>2, <1>5, <2>3, <2>5
  <2>8. 2 * (a * c) = a * (2 * c)
    BY <1>3, <2>6
  <2>9. 2^(r + (k + 1)) = 2^(n + 1)
    BY <2>1, <2>3, Zenon
  <2>10. 2^(r + (k + 1)) = 2^r * 2^(k + 1)
    BY <1>2, <2>2, <2>4, <2>5, <2>7, <2>8, <2>9, Zenon
  <2> QED
    BY <1>1, <2>1, <2>10
<1>6. 0..8 \subseteq T
  BY <1>4, <1>5, UpTo
<1> QED
  BY <1>1, <1>6

\* Numbers whose lowest w bits are the same are the same modulo 2^w.
LEMMA BitsTell ==
  ASSUME NEW x \in Nat, NEW y \in Nat, NEW w \in 0..8,
         \A j \in 0..w - 1 : (x \div 2^j) % 2 = (y \div 2^j) % 2
  PROVE  x % 2^w = y % 2^w
<1>1. PICK T : T = {k \in 0..w : x % 2^k = y % 2^k}
  OBVIOUS
<1>2. 0 \in T
  <2>1. 2^0 = 1
    BY SMT
  <2>2. x % 2^0 = y % 2^0
    BY <2>1
  <2> QED
    BY <1>1, <2>2
<1>3. ASSUME NEW k \in 0..w - 1, k \in T PROVE k + 1 \in T
  <2>1. k \in 0..14 /\ k + 1 \in 0..w /\ k \in 0..15
    OBVIOUS
  <2>2. PICK a : a = 2^k
    OBVIOUS
  <2>3. a \in Nat \ {0}
    BY <2>1, <2>2, PowerIs
  <2>4. 2^(k + 1) = 2 * a
    BY <2>1, <2>2, PowerNext
  <2>5. x % (2 * a) = (x % a) + a * ((x \div a) % 2)
    BY <2>3, BitMore
  <2>6. y % (2 * a) = (y % a) + a * ((y \div a) % 2)
    BY <2>3, BitMore
  <2>7. x % a = y % a /\ (x \div a) % 2 = (y \div a) % 2
    BY <1>1, <1>3, <2>2
  <2>8. x % 2^(k + 1) = y % 2^(k + 1)
    BY <2>4, <2>5, <2>6, <2>7, Zenon
  <2> QED
    BY <1>1, <2>1, <2>8
<1>4. w \in Nat
  OBVIOUS
<1>5. 0..w \subseteq T
  BY <1>2, <1>3, <1>4, UpTo
<1> QED
  BY <1>1, <1>4, <1>5

-----------------------------------------------------------------------------
(* The stream of bits of extended codes. *)

\* Bit p of the stream is a bit of code p \div w.
StreamBit(code, w, p) == (code[p \div w] \div 2^(p % w)) % 2

LEMMA StreamBitType ==
  ASSUME NEW dim \in Nat, NEW w \in 1..8, NEW code \in [0..dim - 1 -> 0..2^w - 1],
         NEW p \in Nat, p < dim * w
  PROVE  StreamBit(code, w, p) \in 0..1
<1>0. w \in Nat \ {0}
  OBVIOUS
<1>1. PICK q \in Nat, r \in 0..w - 1 : q = p \div w /\ r = p % w /\ p = w*q + r
  BY <1>0, DivIs
<1>2. q \in 0..dim - 1
  <2> SUFFICES ASSUME ~(q < dim) PROVE FALSE
    BY <1>1
  <2>1. PICK k \in Nat : q = dim + k
    <3>1. q - dim \in Nat /\ q = dim + (q - dim)
      OBVIOUS
    <3> QED
      BY <3>1
  <2>2. w*q = dim*w + w*k /\ w*k \in Nat /\ dim*w \in Nat
    BY <1>0, <2>1
  <2> QED
    BY <1>1, <2>2
<1>3. PICK a : a = 2^r
  OBVIOUS
<1>4. PICK n : n = 2^w
  OBVIOUS
<1>5. a \in Nat \ {0} /\ n \in Nat \ {0}
  <2>1. r \in 0..15 /\ w \in 0..15
    BY <1>1
  <2> QED
    BY <1>3, <1>4, <2>1, PowerIs
<1>6. PICK x : x = code[q]
  OBVIOUS
<1>7. x \in 0..n - 1
  BY <1>2, <1>4, <1>6
<1>8. x \in Nat
  BY <1>5, <1>7
<1>9. x \div a \in Nat
  BY <1>5, <1>8, DivIs
<1>10. StreamBit(code, w, p) = (x \div a) % 2
  BY <1>1, <1>3, <1>6 DEF StreamBit
<1> QED
  BY <1>9, <1>10

\* A byte is the eight bits from its place on.
LEMMA StreamByteBits ==
  ASSUME NEW dim \in Nat, NEW w \in 1..8, NEW code \in [0..dim - 1 -> 0..2^w - 1],
         NEW k \in Nat, 8*k + 7 < dim * w
  PROVE  /\ StreamByte(code, w, k) \in Bytes
         /\ \A t \in 0..7 :
              (StreamByte(code, w, k) \div 2^t) % 2 = StreamBit(code, w, 8*k + t)
<1>1. PICK y : y = StreamByte(code, w, k)
  OBVIOUS
<1>2. PICK x0, x1, x2, x3, x4, x5, x6, x7 :
        /\ x0 = StreamBit(code, w, 8*k + 0) /\ x1 = StreamBit(code, w, 8*k + 1)
        /\ x2 = StreamBit(code, w, 8*k + 2) /\ x3 = StreamBit(code, w, 8*k + 3)
        /\ x4 = StreamBit(code, w, 8*k + 4) /\ x5 = StreamBit(code, w, 8*k + 5)
        /\ x6 = StreamBit(code, w, 8*k + 6) /\ x7 = StreamBit(code, w, 8*k + 7)
  OBVIOUS
<1>3. y = x0 + 2 * x1 + 4 * x2 + 8 * x3 + 16 * x4 + 32 * x5 + 64 * x6 + 128 * x7
  BY <1>1, <1>2, Zenon DEF StreamByte, StreamBit
<1>4. ASSUME NEW j \in 0..7
      PROVE  StreamBit(code, w, 8*k + j) \in 0..1
  <2>1. PICK p : p = 8*k + j
    OBVIOUS
  <2>2. p \in Nat /\ p < dim * w
    <3>1. dim * w \in Nat
      OBVIOUS
    <3> QED
      BY <2>1, <3>1
  <2>3. StreamBit(code, w, p) \in 0..1
    BY <2>2, StreamBitType
  <2> QED
    BY <2>1, <2>3
<1>5. /\ x0 \in 0..1 /\ x1 \in 0..1 /\ x2 \in 0..1 /\ x3 \in 0..1
      /\ x4 \in 0..1 /\ x5 \in 0..1 /\ x6 \in 0..1 /\ x7 \in 0..1
  BY <1>2, <1>4
<1>6. /\ y \in Bytes
      /\ (y \div 1) % 2 = x0 /\ (y \div 2) % 2 = x1 /\ (y \div 4) % 2 = x2
      /\ (y \div 8) % 2 = x3 /\ (y \div 16) % 2 = x4 /\ (y \div 32) % 2 = x5
      /\ (y \div 64) % 2 = x6 /\ (y \div 128) % 2 = x7
  <2>1. PICK d \in Nat, o \in Nat : d = 8 /\ o = 0
    OBVIOUS
  <2>2. PICK bit : bit = [i \in 0..d - 1 |-> StreamBit(code, w, 8*k + (7 - i))]
    OBVIOUS
  <2>3. /\ bit[8*o] = x7 /\ bit[8*o + 1] = x6 /\ bit[8*o + 2] = x5 /\ bit[8*o + 3] = x4
        /\ bit[8*o + 4] = x3 /\ bit[8*o + 5] = x2 /\ bit[8*o + 6] = x1 /\ bit[8*o + 7] = x0
    BY <1>2, <2>1, <2>2
  <2>4. bit \in [0..d - 1 -> 0..1]
    <3>1. \A i \in 0..d - 1 : 7 - i \in 0..7
      BY <2>1
    <3> QED
      BY <1>4, <2>2, <3>1
  <2>5. d % 8 = 0 /\ o \in 0..(d \div 8) - 1
    BY <2>1
  <2>6. y = PackBinary(bit, d)[o]
    <3>1. PackBinary(bit, d)[o]
            = 128 * x7 + 64 * x6 + 32 * x5 + 16 * x4 + 8 * x3 + 4 * x2 + 2 * x1 + x0
      BY <2>3, <2>5 DEF PackBinary
    <3> QED
      BY <1>3, <1>5, <3>1
  <2>7. /\ (y \div 128) % 2 = x7 /\ (y \div 64) % 2 = x6 /\ (y \div 32) % 2 = x5
        /\ (y \div 16) % 2 = x4 /\ (y \div 8) % 2 = x3 /\ (y \div 4) % 2 = x2
        /\ (y \div 2) % 2 = x1 /\ (y \div 1) % 2 = x0
    BY <2>3, <2>4, <2>5, <2>6, PackedBits, ZenonT(40)
  <2>8. y \in Bytes
    BY <2>4, <2>5, <2>6, PackBinaryType
  <2> QED
    BY <2>7, <2>8
<1>7. ASSUME NEW t \in 0..7
      PROVE  (y \div 2^t) % 2 = StreamBit(code, w, 8*k + t)
  <2>0. CASE t = 0
    <3>1. 2^t = 1
      BY <2>0, Powers
    <3>2. StreamBit(code, w, 8*k + t) = x0
      BY <1>2, <2>0, Zenon
    <3> QED
      BY <1>6, <3>1, <3>2
  <2>1. CASE t = 1
    <3>1. 2^t = 2
      BY <2>1, Powers
    <3>2. StreamBit(code, w, 8*k + t) = x1
      BY <1>2, <2>1, Zenon
    <3> QED
      BY <1>6, <3>1, <3>2
  <2>2. CASE t = 2
    <3>1. 2^t = 4
      BY <2>2, Powers
    <3>2. StreamBit(code, w, 8*k + t) = x2
      BY <1>2, <2>2, Zenon
    <3> QED
      BY <1>6, <3>1, <3>2
  <2>3. CASE t = 3
    <3>1. 2^t = 8
      BY <2>3, Powers
    <3>2. StreamBit(code, w, 8*k + t) = x3
      BY <1>2, <2>3, Zenon
    <3> QED
      BY <1>6, <3>1, <3>2
  <2>4. CASE t = 4
    <3>1. 2^t = 16
      BY <2>4, Powers
    <3>2. StreamBit(code, w, 8*k + t) = x4
      BY <1>2, <2>4, Zenon
    <3> QED
      BY <1>6, <3>1, <3>2
  <2>5. CASE t = 5
    <3>1. 2^t = 32
      BY <2>5, Powers
    <3>2. StreamBit(code, w, 8*k + t) = x5
      BY <1>2, <2>5, Zenon
    <3> QED
      BY <1>6, <3>1, <3>2
  <2>6. CASE t = 6
    <3>1. 2^t = 64
      BY <2>6, Powers
    <3>2. StreamBit(code, w, 8*k + t) = x6
      BY <1>2, <2>6, Zenon
    <3> QED
      BY <1>6, <3>1, <3>2
  <2>7. CASE t = 7
    <3>1. 2^t = 128
      BY <2>7, Powers
    <3>2. StreamBit(code, w, 8*k + t) = x7
      BY <1>2, <2>7, Zenon
    <3> QED
      BY <1>6, <3>1, <3>2
  <2> QED
    BY <2>0, <2>1, <2>2, <2>3, <2>4, <2>5, <2>6, <2>7
<1> QED
  BY <1>1, <1>6, <1>7

\* The bytes of a row are filled by its codes.
LEMMA ExSizeIs ==
  ASSUME NEW dim \in Nat, dim % 16 = 0, NEW w \in {1, 3, 4, 5, 7, 8}
  PROVE  ExSize(dim, w) \in Nat /\ dim * w = 8 * ExSize(dim, w)
<1>1. PICK e \in Nat : dim = 16 * e /\ e = dim \div 16
  <2>1. dim = 16 * (dim \div 16) /\ dim \div 16 \in Nat
    BY SMT
  <2> QED
    BY <2>1
<1>2. CASE w = 1
  BY <1>1, <1>2 DEF ExSize
<1>3. CASE w # 1
  <2>1. PICK m \in Nat : m = 2 * (e * w) /\ dim * w = 8 * m
    <3>1. e * w \in Nat /\ (16 * e) * w = 8 * (2 * (e * w))
      OBVIOUS
    <3> QED
      BY <1>1, <3>1
  <2>2. ExSize(dim, w) = (dim * w + 7) \div 8
    <3>1. w \notin {0, 1} /\ w # 2 /\ w # 6
      BY <1>3
    <3> QED
      BY <3>1, Zenon DEF ExSize
  <2>3. (8 * m + 7) \div 8 = m
    BY SMT
  <2> QED
    BY <2>1, <2>2, <2>3
<1> QED
  BY <1>2, <1>3

Joined(x, y) == x + 256 * y

\* A bit of two bytes is a bit of one of them.
LEMMA LowerByte ==
  ASSUME NEW x \in Bytes, NEW y \in Bytes, NEW t \in 0..7
  PROVE  (Joined(x, y) \div 2^t) % 2 = (x \div 2^t) % 2
<1>1. PICK z : z = Joined(x, y)
  OBVIOUS
<1>2. z = x + 256 * y /\ x \in 0..255 /\ y \in 0..255
  BY <1>1 DEF Bytes, Joined
<1>3. /\ (z \div 1) % 2 = (x \div 1) % 2 /\ (z \div 2) % 2 = (x \div 2) % 2
      /\ (z \div 4) % 2 = (x \div 4) % 2 /\ (z \div 8) % 2 = (x \div 8) % 2
      /\ (z \div 16) % 2 = (x \div 16) % 2 /\ (z \div 32) % 2 = (x \div 32) % 2
      /\ (z \div 64) % 2 = (x \div 64) % 2 /\ (z \div 128) % 2 = (x \div 128) % 2
  BY <1>2, SMT
<1>4. CASE t = 0
  <2>1. 2^t = 1
    BY <1>4, Powers
  <2> QED
    BY <1>1, <1>3, <1>4, <2>1
<1>5. CASE t = 1
  <2>1. 2^t = 2
    BY <1>5, Powers
  <2> QED
    BY <1>1, <1>3, <1>5, <2>1
<1>6. CASE t = 2
  <2>1. 2^t = 4
    BY <1>6, Powers
  <2> QED
    BY <1>1, <1>3, <1>6, <2>1
<1>7. CASE t = 3
  <2>1. 2^t = 8
    BY <1>7, Powers
  <2> QED
    BY <1>1, <1>3, <1>7, <2>1
<1>8. CASE t = 4
  <2>1. 2^t = 16
    BY <1>8, Powers
  <2> QED
    BY <1>1, <1>3, <1>8, <2>1
<1>9. CASE t = 5
  <2>1. 2^t = 32
    BY <1>9, Powers
  <2> QED
    BY <1>1, <1>3, <1>9, <2>1
<1>10. CASE t = 6
  <2>1. 2^t = 64
    BY <1>10, Powers
  <2> QED
    BY <1>1, <1>3, <1>10, <2>1
<1>11. CASE t = 7
  <2>1. 2^t = 128
    BY <1>11, Powers
  <2> QED
    BY <1>1, <1>3, <1>11, <2>1
<1> QED
  BY <1>4, <1>5, <1>6, <1>7, <1>8, <1>9, <1>10, <1>11

LEMMA UpperByte ==
  ASSUME NEW x \in Bytes, NEW y \in Bytes, NEW j \in 0..7
  PROVE  (Joined(x, y) \div 2^(j + 8)) % 2 = (y \div 2^j) % 2
<1>1. PICK z : z = Joined(x, y)
  OBVIOUS
<1>2. z = x + 256 * y /\ x \in 0..255 /\ y \in 0..255
  BY <1>1 DEF Bytes, Joined
<1>3. PICK a : a = 2^j
  OBVIOUS
<1>4. a \in Nat \ {0}
  <2>1. j \in 0..15
    OBVIOUS
  <2> QED
    BY <1>3, <2>1, PowerIs
<1>5. 2^(j + 8) = 256 * a
  <2>1. 2^8 = 256
    BY SMT
  <2>2. 8 \in 0..8
    OBVIOUS
  <2>3. 2^(j + 8) = 2^j * 2^8
    BY <2>2, PowerSum
  <2>4. 2^(j + 8) = a * 256
    BY <1>3, <2>1, <2>3, Zenon
  <2> QED
    BY <1>4, <2>4
<1>6. z \in Nat /\ z \div 256 = y
  BY <1>2
<1>7. PICK c \in Nat \ {0} : c = 256
  OBVIOUS
<1>8. (z \div c) \div a = z \div (c * a)
  BY <1>4, <1>6, DivDiv
<1>9. z \div 2^(j + 8) = y \div a
  BY <1>5, <1>6, <1>7, <1>8, Zenon
<1> QED
  BY <1>1, <1>3, <1>9, Zenon

LEMMA StreamIs ==
  ASSUME NEW dim \in Nat, dim % 16 = 0, NEW w \in {1, 3, 4, 5, 7, 8},
         NEW code \in [0..dim - 1 -> 0..2^w - 1], NEW i \in 0..dim - 1
  PROVE  UnpackEx(PackEx(code, dim, w), dim, w)[i] = code[i]
<1>1. PICK size : size = ExSize(dim, w)
  OBVIOUS
<1>2. size \in Nat /\ dim * w = 8 * size
  BY <1>1, ExSizeIs
<1>3. w \in 1..8 /\ w \in Nat \ {0} /\ w \in 0..8 /\ w \in 0..15 /\ w # 0 /\ w # 2 /\ w # 6
  OBVIOUS
<1>4. PICK packed : packed = PackEx(code, dim, w)
  OBVIOUS
<1>5. packed = [k \in 0..size - 1 |-> StreamByte(code, w, k)]
  BY <1>1, <1>3, <1>4 DEF PackEx
<1>6. PICK p \in Nat : p = i * w
  BY <1>3
<1>7. p + w <= 8 * size
  <2>1. PICK m \in Nat : dim = i + 1 + m
    <3>1. dim - i - 1 \in Nat /\ dim = i + 1 + (dim - i - 1)
      OBVIOUS
    <3> QED
      BY <3>1
  <2>2. dim * w = i*w + w + m*w /\ m*w \in Nat
    BY <1>3, <2>1
  <2> QED
    BY <1>2, <1>3, <1>6, <2>2
<1>8. PICK k \in Nat, r \in 0..7 : k = p \div 8 /\ r = p % 8 /\ p = 8*k + r
  BY SMTT(30)
<1>9. k \in 0..size - 1 /\ 8*k + 7 < dim * w
  BY <1>2, <1>3, <1>7, <1>8
<1>10. PICK x : x = packed[k]
  OBVIOUS
<1>11. PICK y : y = IF k + 1 \in DOMAIN packed THEN packed[k + 1] ELSE 0
  OBVIOUS
<1>12. /\ x \in Bytes
       /\ \A t \in 0..7 : (x \div 2^t) % 2 = StreamBit(code, w, 8*k + t)
  <2>1. x = StreamByte(code, w, k)
    BY <1>5, <1>9, <1>10
  <2>2. /\ StreamByte(code, w, k) \in Bytes
        /\ \A t \in 0..7 : (StreamByte(code, w, k) \div 2^t) % 2 = StreamBit(code, w, 8*k + t)
    <3>1. w \in 1..8 /\ k \in Nat /\ 8*k + 7 < dim * w /\ dim \in Nat
          /\ code \in [0..dim - 1 -> 0..2^w - 1]
      BY <1>3, <1>9
    <3> QED
      BY ONLY <3>1, StreamByteBits
  <2> QED
    BY <2>1, <2>2, Zenon
<1>13. ASSUME k + 1 < size
       PROVE  /\ y \in Bytes
              /\ \A t \in 0..7 : (y \div 2^t) % 2 = StreamBit(code, w, 8*(k + 1) + t)
  <2>1. PICK k1 \in Nat : k1 = k + 1
    OBVIOUS
  <2>2. y = StreamByte(code, w, k1) /\ 8*k1 + 7 < dim * w
    BY <1>2, <1>5, <1>11, <1>13, <2>1
  <2>3. /\ StreamByte(code, w, k1) \in Bytes
        /\ \A t \in 0..7 : (StreamByte(code, w, k1) \div 2^t) % 2 = StreamBit(code, w, 8*k1 + t)
    <3>1. w \in 1..8 /\ k1 \in Nat /\ 8*k1 + 7 < dim * w /\ dim \in Nat
          /\ code \in [0..dim - 1 -> 0..2^w - 1]
      BY <1>3, <2>2
    <3> QED
      BY ONLY <3>1, StreamByteBits
  <2> QED
    BY <2>1, <2>2, <2>3, Zenon
<1>14. x \in Bytes /\ y \in Bytes
  <2>1. PICK o \in 0..7 : o = 0
    OBVIOUS
  <2>2. x \in Bytes
    BY <1>12
  <2>3. ~(k + 1 < size) => y \in Bytes
    BY <1>2, <1>5, <1>11 DEF Bytes
  <2>4. ASSUME k + 1 < size PROVE y \in Bytes
    BY <1>13, <2>4
  <2> QED
    BY <2>2, <2>3, <2>4
<1>15. PICK z \in Nat : z = Joined(x, y)
  BY <1>14 DEF Bytes, Joined
<1>16. PICK u : u = z \div 2^r
  OBVIOUS
<1>17. r \in 0..8 /\ r \in 0..15 /\ 2^r \in Nat \ {0}
  <2>1. r \in 0..8 /\ r \in 0..15
    OBVIOUS
  <2> QED
    BY <2>1, PowerIs
<1>18. u \in Nat
  BY <1>16, <1>17, DivIs
<1>19. PICK v : v = code[i]
  OBVIOUS
<1>20. 2^w \in Nat \ {0}
  BY <1>3, PowerIs
<1>21. v \in 0..2^w - 1
  BY <1>19
<1>22. v \in Nat
  BY <1>20, <1>21
<1>23. ASSUME NEW j \in 0..w - 1
       PROVE  (u \div 2^j) % 2 = (v \div 2^j) % 2
  <2>1. j \in 0..7 /\ j \in 0..8 /\ j \in 0..15 /\ r + j \in 0..15 /\ j \in Nat
    BY <1>3
  <2>2. PICK t \in 0..15 : t = r + j
    BY <2>1
  <2>3. 2^j \in Nat \ {0}
    BY <2>1, PowerIs
  <2>4. (z \div 2^r) \div 2^j = z \div (2^r * 2^j)
    <3>1. PICK a, c : a = 2^r /\ c = 2^j
      OBVIOUS
    <3>2. a \in Nat \ {0} /\ c \in Nat \ {0}
      BY <1>17, <2>3, <3>1
    <3>3. (z \div a) \div c = z \div (a * c)
      BY <3>2, DivDiv
    <3> QED
      BY <3>1, <3>3, Zenon
  <2>5. 2^(r + j) = 2^r * 2^j
    BY <1>17, <2>1, PowerSum
  <2>6. (u \div 2^j) % 2 = (z \div 2^t) % 2
    <3>1. u \div 2^j = z \div 2^t
      BY <1>16, <2>2, <2>4, <2>5, Zenon
    <3> QED
      BY <3>1, Zenon
  <2>7. ASSUME t < 8 PROVE (u \div 2^j) % 2 = StreamBit(code, w, 8*k + t)
    <3>1. t \in 0..7
      BY <2>7
    <3>2. (z \div 2^t) % 2 = (x \div 2^t) % 2
      BY <1>14, <1>15, <3>1, LowerByte
    <3>3. (x \div 2^t) % 2 = StreamBit(code, w, 8*k + t)
      BY <1>12, <3>1
    <3> QED
      BY <2>6, <3>2, <3>3, Zenon
  <2>8. ASSUME ~(t < 8) PROVE (u \div 2^j) % 2 = StreamBit(code, w, 8*k + t)
    <3>1. PICK s \in 0..7 : s + 8 = t
      <4>1. t - 8 \in 0..7 /\ (t - 8) + 8 = t
        BY <2>1, <2>2, <2>8
      <4> QED
        BY <4>1
    <3>2. k + 1 < size /\ 8*(k + 1) + s = 8*k + t
      BY <1>2, <1>3, <1>7, <1>8, <2>1, <2>2, <3>1
    <3>3. (z \div 2^(s + 8)) % 2 = (y \div 2^s) % 2
      BY <1>14, <1>15, UpperByte
    <3>4. (y \div 2^s) % 2 = StreamBit(code, w, 8*(k + 1) + s)
      BY <1>13, <3>2
    <3> QED
      BY <2>6, <3>1, <3>2, <3>3, <3>4, Zenon
  <2>9. PICK q : q = 8*k + t
    OBVIOUS
  <2>10. q \in Nat /\ q = w*i + j
    BY <1>3, <1>6, <1>8, <2>1, <2>2, <2>9
  <2>11. i \in Nat
    OBVIOUS
  <2>12. q \div w = i /\ q % w = j
    BY <1>3, <2>10, <2>11, DivUnique
  <2>13. StreamBit(code, w, q) = (v \div 2^j) % 2
    BY <1>19, <2>12, Zenon DEF StreamBit
  <2> QED
    BY <2>7, <2>8, <2>9, <2>13, Zenon
<1>24. u % 2^w = v % 2^w
  BY <1>3, <1>18, <1>22, <1>23, BitsTell
<1>25. v % 2^w = v
  <2>1. PICK a : a = 2^w
    OBVIOUS
  <2>2. a \in Nat \ {0} /\ v \in 0..a - 1 /\ v = a*0 + v /\ 0 \in Nat
    BY <1>20, <1>21, <2>1
  <2>3. PICK o \in Nat : o = 0
    OBVIOUS
  <2>4. v = a*o + v
    BY <2>2, <2>3
  <2>5. v % a = v
    BY <1>22, <2>2, <2>4, DivUnique
  <2> QED
    BY <2>1, <2>5, Zenon
<1>26. UnpackEx(packed, dim, w)[i] = StreamCode(packed, w, i)
  BY <1>3 DEF UnpackEx
<1>27. StreamCode(packed, w, i) = u % 2^w
  BY <1>6, <1>8, <1>10, <1>11, <1>15, <1>16, ZenonT(40) DEF StreamCode, Joined
<1> QED
  BY <1>4, <1>19, <1>24, <1>25, <1>26, <1>27, Zenon

LEMMA UnpackExIs ==
  ASSUME NEW dim \in Nat, dim % 16 = 0, NEW w \in 0..8,
         NEW code \in [0..dim - 1 -> 0..2^w - 1], NEW packed,
         w = 0 \/ packed = PackEx(code, dim, w)
  PROVE  UnpackEx(packed, dim, w) = code
<1>1. ASSUME NEW i \in 0..dim - 1
      PROVE  UnpackEx(packed, dim, w)[i] = code[i]
  <2>1. CASE w = 0
    <3>1. UnpackEx(packed, dim, w)[i] = 0
      BY <2>1 DEF UnpackEx
    <3>2. 2^w = 1
      BY <2>1, Powers
    <3>3. code[i] \in 0..0
      <4>1. code[i] \in 0..2^w - 1
        OBVIOUS
      <4> QED
        BY <3>2, <4>1
    <3> QED
      BY <3>1, <3>3
  <2>2. CASE w = 2
    <3>1. 2^w = 4
      BY <2>2, Powers
    <3>2. code \in [0..dim - 1 -> 0..3]
      BY <3>1
    <3>3. UnpackEx(PackEx(code, dim, 2), dim, 2)[i] = code[i]
      BY <3>2, UnpackEx2
    <3>4. w # 0
      BY <2>2
    <3>5. packed = PackEx(code, dim, 2)
      BY <2>2, <3>4, Zenon
    <3> QED
      BY <2>2, <3>3, <3>5, Zenon
  <2>3. CASE w = 6
    <3>1. 2^w = 64
      BY <2>3, Powers
    <3>2. code \in [0..dim - 1 -> 0..63]
      <4>1. 2^w - 1 = 63
        BY <3>1
      <4>2. code \in [0..dim - 1 -> 0..2^w - 1]
        OBVIOUS
      <4> QED
        BY <4>1, <4>2, Zenon
    <3>3. UnpackEx(PackEx(code, dim, 6), dim, 6)[i] = code[i]
      BY <3>2, UnpackEx6
    <3>4. w # 0
      BY <2>3
    <3>5. packed = PackEx(code, dim, 6)
      BY <2>3, <3>4, Zenon
    <3> QED
      BY <2>3, <3>3, <3>5, Zenon
  <2>4. CASE w \in {1, 3, 4, 5, 7, 8}
    <3>1. UnpackEx(PackEx(code, dim, w), dim, w)[i] = code[i]
      BY <2>4, StreamIs
    <3>2. w # 0
      BY <2>4
    <3> QED
      BY <3>1, <3>2, Zenon
  <2> QED
    BY <2>1, <2>2, <2>3, <2>4
<1>2. UnpackEx(packed, dim, w) = [i \in 0..dim - 1 |-> UnpackEx(packed, dim, w)[i]]
  BY DEF UnpackEx
<1>3. code = [i \in 0..dim - 1 |-> code[i]]
  OBVIOUS
<1> QED
  BY <1>1, <1>2, <1>3

-----------------------------------------------------------------------------
(* What has been packed. *)

KeptCodes(n) == IF input.index = "ivf" /\ input.n < n THEN input.n ELSE n

CodesOK ==
  /\ \E S : exCodes \in Seq(S)
  /\ Len(exCodes) = KeptCodes(32 * Len(batches))
  /\ \A v \in 0..Len(exCodes) - 1 : exCodes[v + 1] = KeptEx(v)
  /\ phase = "done" /\ input.n > 0 => Dim % 16 = 0

LEMMA ExFacts ==
  ASSUME input \in Inputs
  PROVE  /\ input.exBits \in 0..8 /\ input.index \in {"ivf", "mstg"}
         /\ \A v \in Vectors : input.ex[v] \in [0..Dim - 1 -> 0..2^input.exBits - 1]
BY InputAssumption DEF Dim, Vectors

LEMMA CodesInit == Init => CodesOK
<1> SUFFICES ASSUME Init PROVE CodesOK
  OBVIOUS
<1>1. exCodes = <<>> /\ batches = <<>> /\ phase = "pack" /\ input \in Inputs
  BY DEF Init
<1>2. Len(exCodes) = 0 /\ Len(batches) = 0 /\ exCodes \in Seq({})
  BY <1>1
<1>3. input.n \in Nat
  BY <1>1, InputFacts
<1>4. KeptCodes(32 * Len(batches)) = 0
  BY <1>2, <1>3 DEF KeptCodes
<1> QED
  BY <1>1, <1>2, <1>4 DEF CodesOK

\* Where an element of a lengthened sequence is from.
LEMMA LengthenedAt ==
  ASSUME NEW S, NEW T, NEW q \in Seq(S), NEW m \in Nat, NEW r \in [1..m -> T]
  PROVE  \A i \in 1..Len(q) + m :
           (q \o r)[i] = IF i <= Len(q) THEN q[i] ELSE r[i - Len(q)]
<1>1. PICK l \in Nat : l = Len(q)
  BY LenProperties
<1>2. q \in [1..l -> S]
  BY <1>1, LenProperties
<1>3. q \in Seq(S \cup T) /\ r \in Seq(S \cup T)
  <2>1. q \in [1..l -> S \cup T] /\ r \in [1..m -> S \cup T]
    BY <1>2
  <2> QED
    BY <2>1, SeqDef
<1>4. Len(r) = m
  <2>1. Len(r) \in Nat /\ DOMAIN r = 1..Len(r) /\ DOMAIN r = 1..m
    BY <1>3, LenProperties
  <2>2. PICK n : n = Len(r)
    OBVIOUS
  <2>3. n \in Nat /\ 1..n = 1..m
    BY <2>1, <2>2
  <2>4. n = m
    BY ONLY m \in Nat, <2>3, SMT
  <2> QED
    BY <2>2, <2>4
<1>5. \A i \in 1..l : (q \o r)[i] = q[i]
  BY <1>1, <1>3, <1>4, ConcatProperties
<1>6. \A i \in l + 1 .. l + m : (q \o r)[i] = r[i - l]
  BY <1>1, <1>3, <1>4, ConcatProperties
<1>7. ASSUME NEW i \in 1..l + m
      PROVE  (q \o r)[i] = IF i <= l THEN q[i] ELSE r[i - l]
  <2>1. CASE i <= l
    <3>1. i \in 1..l
      BY <2>1
    <3> QED
      BY <1>5, <2>1, <3>1
  <2>2. CASE ~(i <= l)
    <3>1. i \in l + 1 .. l + m
      BY <2>2
    <3> QED
      BY <1>6, <2>2, <3>1
  <2> QED
    BY <2>1, <2>2
<1> QED
  BY <1>1, <1>7

LEMMA CodesNext ==
  ASSUME IInv, CodesOK, [Next]_vars
  PROVE  CodesOK'
<1>0. input \in Inputs /\ input.n \in Nat /\ Packed
  BY InputFacts DEF IInv
<1>1. CASE PackBatch
  <2>1. PICK k : k = Len(batches)
    OBVIOUS
  <2>2. /\ phase = "pack" /\ 32 * k < input.n /\ input' = input /\ phase' = phase
        /\ batches' = Append(batches, PackedBatch(k))
        /\ exCodes' = exCodes \o [i \in 1..Kept(k) |-> KeptEx(32 * k + i - 1)]
    BY <1>1, <2>1 DEF PackBatch
  <2>3. k \in Nat /\ Len(batches') = k + 1
    <3>1. k \in Nat
      BY <1>0, <2>1, LenProperties DEF Packed
    <3>2. Len(batches') = Len(batches) + 1
      BY <1>0, <2>1, <2>2, PackedGrows
    <3> QED
      BY <2>1, <3>1, <3>2
  <2>4. PICK m \in Nat : m = Kept(k)
    <3>1. Kept(k) \in Nat
      BY <1>0, <2>2, <2>3 DEF Kept, Actual
    <3> QED
      BY <3>1
  <2>5. PICK r : r = [i \in 1..m |-> KeptEx(32 * k + i - 1)]
    OBVIOUS
  <2>6. PICK T : T = {r[i] : i \in 1..m}
    OBVIOUS
  <2>7. r \in [1..m -> T]
    BY <2>5, <2>6
  <2>8. PICK S : exCodes \in Seq(S)
    BY DEF CodesOK
  <2>9. exCodes' = exCodes \o r
    BY <2>2, <2>4, <2>5
  <2>10. PICK l \in Nat : l = Len(exCodes)
    BY <2>8, LenProperties
  <2>11. l = 32 * k
    BY <1>0, <2>1, <2>2, <2>3, <2>10 DEF CodesOK, KeptCodes
  <2>12. (\E U : exCodes' \in Seq(U)) /\ Len(exCodes') = l + m
    <3>1. \E U : exCodes \o r \in Seq(U)
      BY <2>7, <2>8, Lengthened
    <3>2. Len(exCodes \o r) = Len(exCodes) + m
      BY <2>7, <2>8, Lengthened
    <3> QED
      BY <2>9, <2>10, <3>1, <3>2
  <2>13. l + m = KeptCodes(32 * (k + 1))
    <3>1. Kept(k) = IF input.index = "ivf"
                    THEN IF input.n - 32 * k < 32 THEN input.n - 32 * k ELSE 32 ELSE 32
      BY DEF Kept, Actual
    <3> QED
      BY <1>0, <2>2, <2>3, <2>4, <2>11, <3>1, SMTT(30) DEF KeptCodes
  <2>14. \A v : KeptEx(v)' = KeptEx(v)
    BY <2>2 DEF KeptEx, Vectors, Dim
  <2>15. KeptCodes(32 * Len(batches))' = KeptCodes(32 * (k + 1))
    BY <2>2, <2>3 DEF KeptCodes
  <2>16. ASSUME NEW v \in 0..Len(exCodes') - 1
         PROVE  exCodes'[v + 1] = KeptEx(v)
    <3>1. v \in Nat /\ v < l + m
      BY <2>12
    <3>2. \A i \in 1..l + m : (exCodes \o r)[i] = IF i <= l THEN exCodes[i] ELSE r[i - l]
      BY <2>7, <2>8, <2>10, LengthenedAt
    <3>3. PICK e \in 1..l + m : e = v + 1
      BY <3>1
    <3>4. exCodes'[v + 1] = IF e <= l THEN exCodes[e] ELSE r[e - l]
      BY <2>9, <3>2, <3>3
    <3>5. CASE e <= l
      <4>1. v \in 0..l - 1
        BY <3>1, <3>3, <3>5
      <4>2. exCodes[v + 1] = KeptEx(v)
        BY <2>10, <4>1 DEF CodesOK
      <4> QED
        BY <3>3, <3>4, <3>5, <4>2, Zenon
    <3>6. CASE ~(e <= l)
      <4>1. PICK i \in 1..m : i = e - l
        BY <3>6
      <4>2. 32 * k + i - 1 = v
        BY <2>3, <2>11, <3>1, <3>3, <4>1
      <4>3. r[i] = KeptEx(32 * k + i - 1)
        BY <2>5
      <4> QED
        BY <3>4, <3>6, <4>1, <4>2, <4>3, Zenon
    <3> QED
      BY <3>5, <3>6
  <2>17. phase' # "done"
    BY <2>2
  <2> QED
    BY <2>12, <2>13, <2>14, <2>15, <2>16, <2>17 DEF CodesOK
<1>2. ASSUME UNCHANGED <<input, batches, exCodes>>,
             phase' = "done" /\ input.n > 0 => Dim % 16 = 0
      PROVE  CodesOK'
  <2>1. \A v : KeptEx(v)' = KeptEx(v)
    BY <1>2 DEF KeptEx, Vectors, Dim
  <2>2. KeptCodes(32 * Len(batches))' = KeptCodes(32 * Len(batches)) /\ Dim' = Dim
    BY <1>2 DEF KeptCodes, Dim
  <2> QED
    BY <1>2, <2>1, <2>2 DEF CodesOK
<1>3. CASE BuildLut
  <2>1. phase' = "done" => input.n = 0
    BY <1>3 DEF BuildLut
  <2> QED
    BY <1>0, <1>2, <1>3, <2>1 DEF BuildLut
<1>4. CASE BuildLutHighAcc
  BY <1>2, <1>4 DEF BuildLutHighAcc
<1>5. CASE AccumulateScalar
  BY <1>2, <1>5 DEF AccumulateScalar, Scanning
<1>6. CASE AccumulateAvx2
  BY <1>2, <1>6 DEF AccumulateAvx2, Scanning
<1>7. CASE AccumulateAvx512
  BY <1>2, <1>7 DEF AccumulateAvx512, Scanning
<1>8. CASE WrongDimension
  BY <1>2, <1>8 DEF WrongDimension
<1>9. CASE Assemble
  BY <1>2, <1>9 DEF Assemble
<1>10. CASE Distances
  BY <1>2, <1>10 DEF Distances
<1>11. CASE Refine
  <2>1. Dim % 16 = 0
    BY <1>11 DEF Refine, IInv
  <2> QED
    BY <1>2, <1>11, <2>1 DEF Refine
<1>12. CASE UNCHANGED vars
  BY <1>2, <1>12 DEF vars, CodesOK
<1> QED
  BY <1>1, <1>3, <1>4, <1>5, <1>6, <1>7, <1>8, <1>9, <1>10, <1>11, <1>12 DEF Next

LEMMA CodesInvariance == Spec => [](IInv /\ CodesOK)
<1>1. Init => IInv /\ CodesOK
  BY InitInv, CodesInit
<1>2. IInv /\ CodesOK /\ [Next]_vars => (IInv /\ CodesOK)'
  BY NextInv, CodesNext
<1> QED
  BY <1>1, <1>2, PTL DEF Spec

\* The extended code of a vector, from what was kept of it.
LEMMA KeptExIs ==
  ASSUME IInv, CodesOK, phase # "pack", Dim % 16 = 0, NEW v \in Vectors
  PROVE  UnpackEx(exCodes[v + 1], Dim, input.exBits) = input.ex[v]
<1>1. /\ input \in Inputs /\ input.n \in Nat /\ Dim \in Nat
      /\ input.exBits \in 0..8 /\ input.ex[v] \in [0..Dim - 1 -> 0..2^input.exBits - 1]
  BY InputFacts, ExFacts DEF IInv
<1>2. input.n <= 32 * Len(batches) /\ Len(batches) \in Nat
  BY LenProperties DEF IInv, Packed
<1>3. v \in 0..Len(exCodes) - 1
  BY <1>1, <1>2 DEF CodesOK, KeptCodes, Vectors
<1>4. exCodes[v + 1] = KeptEx(v)
  BY <1>3 DEF CodesOK
<1>5. input.exBits = 0 \/ KeptEx(v) = PackEx(input.ex[v], Dim, input.exBits)
  BY DEF KeptEx
<1>6. PICK dim, w, code, packed : dim = Dim /\ w = input.exBits /\ code = input.ex[v]
                                    /\ packed = exCodes[v + 1]
  OBVIOUS
<1>7. /\ dim \in Nat /\ dim % 16 = 0 /\ w \in 0..8 /\ code \in [0..dim - 1 -> 0..2^w - 1]
      /\ (w = 0 \/ packed = PackEx(code, dim, w))
  BY <1>1, <1>4, <1>5, <1>6
<1>8. UnpackEx(packed, dim, w) = code
  BY <1>7, UnpackExIs
<1> QED
  BY <1>6, <1>8, Zenon

\* The signs of a vector, from the batch it was packed in.
LEMMA SignsAre ==
  ASSUME IInv, phase # "pack", NEW v \in Vectors, NEW i \in 0..Dim - 1
  PROVE  Bit(UnpackBytes(batches[v \div 32 + 1].codes, v % 32, Dim), i) = input.sign[v][i]
<1>1. /\ input \in Inputs /\ input.n \in Nat /\ Dim \in Nat /\ Dim % 8 = 0
      /\ input.sign[v] \in [0..Dim - 1 -> 0..1]
  BY InputFacts DEF IInv
<1>2. PICK k \in Nat, s \in Slots : k = v \div 32 /\ s = v % 32 /\ v = 32 * k + s
  BY <1>1, SMT DEF Slots, Vectors
<1>3. k + 1 \in 1..Len(batches) /\ k + 1 - 1 = k
  <2>1. input.n <= 32 * Len(batches) /\ Len(batches) \in Nat
    BY LenProperties DEF IInv, Packed
  <2> QED
    BY <1>1, <1>2, <2>1 DEF Slots, Vectors
<1>4. batches[k + 1] = PackedBatch(k)
  BY <1>3 DEF IInv, Packed
<1>5. PICK codes : codes = [t \in Slots |-> SlotCode(k, t)]
  OBVIOUS
<1>6. codes \in [Slots -> [0..(Dim \div 8) - 1 -> Bytes]]
  <2>1. \A t \in Slots : SlotCode(k, t) \in [0..Columns - 1 -> Bytes]
    BY <1>1, SlotCodeType
  <2> QED
    BY <1>5, <2>1 DEF Columns
<1>7. batches[k + 1].codes = PackCodes(codes, Dim)
  BY <1>4, <1>5 DEF PackedBatch
<1>8. UnpackBytes(PackCodes(codes, Dim), s, Dim) = codes[s]
  BY <1>1, <1>6, UnpackBytesIs
<1>9. codes[s] = PackBinary(input.sign[v], Dim)
  <2>1. Filled(k, s)
    BY <1>1, <1>2 DEF Filled, Vectors
  <2> QED
    BY <1>2, <1>5, <2>1 DEF SlotCode
<1>10. Bit(PackBinary(input.sign[v], Dim), i) = input.sign[v][i]
  BY <1>1, BitIs
<1> QED
  BY <1>2, <1>7, <1>8, <1>9, <1>10, Zenon

\* fetch_embedding undoes packing, for every number of dimensions and vectors
\* and every width of extended code: no bit is lost, moved, or another vector's.
THEOREM CodesComeBack == Spec => []CodesBack
<1>1. IInv /\ CodesOK => CodesBack
  <2> SUFFICES ASSUME IInv, CodesOK, phase = "done", NEW v \in Vectors
               PROVE  Fetched(v) = TotalCode(v)
    BY DEF CodesBack
  <2>1. phase # "pack" /\ input.n \in Nat
    BY InputFacts DEF IInv
  <2>2. Dim % 16 = 0
    BY <2>1 DEF CodesOK, Vectors
  <2>3. UnpackEx(exCodes[v + 1], Dim, input.exBits) = input.ex[v]
    BY <2>1, <2>2, KeptExIs
  <2>4. \A i \in 0..Dim - 1 :
          Bit(UnpackBytes(batches[v \div 32 + 1].codes, v % 32, Dim), i) = input.sign[v][i]
    BY <2>1, SignsAre
  <2> QED
    BY <2>3, <2>4 DEF Fetched, TotalCode
<1> QED
  BY <1>1, CodesInvariance, PTL

-----------------------------------------------------------------------------
(* Inner products, from the first dimension on. *)

\* g has the sums of all lengths up to n.
Summed(f, q, n, g) ==
  g = [i \in 0..n |-> IF i = 0 THEN 0 ELSE g[i - 1] + f[i - 1] * q[i - 1]]
DotTo(f, q, n) == (CHOOSE g : Summed(f, q, n, g))[n]

LEMMA SummedIs ==
  ASSUME NEW f, NEW q, NEW n \in Nat, NEW g, Summed(f, q, n, g)
  PROVE  /\ g[0] = 0
         /\ \A i \in 0..n - 1 : g[i + 1] = g[i] + f[i] * q[i]
<1>1. \A i \in 0..n : g[i] = IF i = 0 THEN 0 ELSE g[i - 1] + f[i - 1] * q[i - 1]
  BY DEF Summed
<1>2. g[0] = 0
  BY <1>1
<1>3. ASSUME NEW i \in 0..n - 1
      PROVE  g[i + 1] = g[i] + f[i] * q[i]
  <2>1. PICK j \in 0..n : j = i + 1 /\ j # 0 /\ j - 1 = i
    OBVIOUS
  <2>2. g[j] = g[j - 1] + f[j - 1] * q[j - 1]
    BY <1>1, <2>1
  <2> QED
    BY <2>1, <2>2, Zenon
<1> QED
  BY <1>2, <1>3

LEMMA SummedExists ==
  ASSUME NEW f, NEW q, NEW m \in Nat
  PROVE  \E g : Summed(f, q, m, g)
<1> DEFINE T == {n \in Nat : \E g : Summed(f, q, n, g)}
<1>1. 0 \in T
  <2>1. Summed(f, q, 0, [n \in 0..0 |-> 0])
    BY DEF Summed
  <2> QED
    BY <2>1
<1>2. ASSUME NEW n \in T PROVE n + 1 \in T
  <2>1. n \in Nat
    OBVIOUS
  <2>2. PICK g : Summed(f, q, n, g)
    OBVIOUS
  <2>3. PICK s : s = g[n] + f[n] * q[n]
    OBVIOUS
  <2>4. PICK h : h = [i \in 0 .. n + 1 |-> IF i = n + 1 THEN s ELSE g[i]]
    OBVIOUS
  <2>5. ASSUME NEW i \in 0 .. n + 1
        PROVE  h[i] = IF i = 0 THEN 0 ELSE h[i - 1] + f[i - 1] * q[i - 1]
    <3>1. CASE i = n + 1
      <4>1. i - 1 = n /\ n \in 0 .. n + 1 /\ n # n + 1 /\ i # 0
        BY <2>1, <3>1
      <4>2. h[i] = s /\ h[n] = g[n]
        BY <2>4, <3>1, <4>1
      <4> QED
        BY <2>3, <4>1, <4>2, Zenon
    <3>2. CASE i # n + 1
      <4>1. i \in 0 .. n
        BY <2>1, <3>2
      <4>2. g[i] = IF i = 0 THEN 0 ELSE g[i - 1] + f[i - 1] * q[i - 1]
        BY <2>2, <4>1 DEF Summed
      <4>3. i # 0 => i - 1 \in 0 .. n + 1 /\ i - 1 # n + 1
        BY <2>1, <4>1
      <4>4. i # 0 => h[i - 1] = g[i - 1]
        BY <2>4, <4>3
      <4>5. h[i] = g[i]
        BY <2>4, <3>2
      <4> QED
        BY <4>2, <4>4, <4>5, Zenon
    <3> QED
      BY <3>1, <3>2
  <2>6. Summed(f, q, n + 1, h)
    <3>1. h = [i \in 0 .. n + 1 |-> h[i]]
      BY <2>4
    <3> QED
      BY <2>5, <3>1 DEF Summed
  <2> QED
    BY <2>1, <2>6
<1> HIDE DEF T
<1>3. T \subseteq Nat
  BY DEF T
<1>4. T = Nat
  BY <1>1, <1>2, <1>3, SetInduction
<1>5. m \in T
  BY <1>4
<1> QED
  BY <1>5 DEF T

\* Sums of one length are part of those of another.
LEMMA SummedAgree ==
  ASSUME NEW f, NEW q, NEW n \in Nat, NEW m \in Nat, n <= m, NEW g, NEW h,
         Summed(f, q, n, g), Summed(f, q, m, h)
  PROVE  g[n] = h[n]
<1>1. PICK T : T = {i \in 0..n : g[i] = h[i]}
  OBVIOUS
<1>2. 0 \in T
  <2>1. g[0] = 0
    BY SummedIs
  <2>2. h[0] = 0
    BY SummedIs
  <2> QED
    BY <1>1, <2>1, <2>2
<1>3. ASSUME NEW i \in 0..n - 1, i \in T PROVE i + 1 \in T
  <2>1. g[i + 1] = g[i] + f[i] * q[i]
    BY SummedIs
  <2>2. i \in 0..m - 1
    OBVIOUS
  <2>3. h[i + 1] = h[i] + f[i] * q[i]
    BY <2>2, SummedIs
  <2> QED
    BY <1>1, <1>3, <2>1, <2>3
<1>4. 0..n \subseteq T
  BY <1>2, <1>3, UpTo
<1> QED
  BY <1>1, <1>4

LEMMA DotIs ==
  ASSUME NEW f, NEW q, NEW n \in Nat
  PROVE  /\ DotTo(f, q, 0) = 0
         /\ DotTo(f, q, n + 1) = DotTo(f, q, n) + f[n] * q[n]
<1>1. ASSUME NEW m \in Nat PROVE \E g : Summed(f, q, m, g) /\ DotTo(f, q, m) = g[m]
  <2>1. \E g : Summed(f, q, m, g)
    BY SummedExists
  <2>2. Summed(f, q, m, CHOOSE g : Summed(f, q, m, g))
    BY <2>1, Zenon
  <2> QED
    BY <2>2, Zenon DEF DotTo
<1>2. DotTo(f, q, 0) = 0
  <2>1. PICK o \in Nat : o = 0
    OBVIOUS
  <2>2. PICK g : Summed(f, q, o, g) /\ DotTo(f, q, o) = g[o]
    BY <1>1
  <2>3. g[0] = 0
    BY <2>2, SummedIs
  <2> QED
    BY <2>1, <2>2, <2>3, Zenon
<1>3. DotTo(f, q, n + 1) = DotTo(f, q, n) + f[n] * q[n]
  <2>1. PICK m \in Nat : m = n + 1
    OBVIOUS
  <2>2. PICK h : Summed(f, q, m, h) /\ DotTo(f, q, m) = h[m]
    BY <1>1
  <2>3. PICK g : Summed(f, q, n, g) /\ DotTo(f, q, n) = g[n]
    BY <1>1
  <2>4. n <= m /\ n \in 0..m - 1
    BY <2>1
  <2>5. g[n] = h[n]
    BY <2>2, <2>3, <2>4, SummedAgree
  <2>6. h[n + 1] = h[n] + f[n] * q[n]
    BY <2>2, <2>4, SummedIs
  <2> QED
    BY <2>1, <2>2, <2>3, <2>5, <2>6, Zenon
<1> QED
  BY <1>2, <1>3

LEMMA DotType ==
  ASSUME NEW f, NEW q, NEW n \in Nat, \A i \in 0..n - 1 : f[i] \in Int /\ q[i] \in Int,
         NEW m \in 0..n
  PROVE  DotTo(f, q, m) \in Int
<1>1. PICK T : T = {i \in 0..n : DotTo(f, q, i) \in Int}
  OBVIOUS
<1>2. 0 \in T
  <2>1. DotTo(f, q, 0) = 0
    <3>1. n \in Nat
      OBVIOUS
    <3> QED
      BY <3>1, DotIs
  <2> QED
    BY <1>1, <2>1
<1>3. ASSUME NEW i \in 0..n - 1, i \in T PROVE i + 1 \in T
  <2>1. i \in Nat
    OBVIOUS
  <2>2. DotTo(f, q, i + 1) = DotTo(f, q, i) + f[i] * q[i]
    BY <2>1, DotIs
  <2>3. PICK x, y, z : x = DotTo(f, q, i) /\ y = f[i] /\ z = q[i]
    OBVIOUS
  <2>4. x \in Int /\ y \in Int /\ z \in Int
    BY <1>1, <1>3, <2>3
  <2>5. DotTo(f, q, i + 1) = x + y * z
    BY <2>2, <2>3
  <2>6. x + y * z \in Int
    BY <2>4
  <2>7. DotTo(f, q, i + 1) \in Int
    BY <2>5, <2>6
  <2> QED
    BY <1>1, <2>7
<1>4. 0..n \subseteq T
  BY <1>2, <1>3, UpTo
<1> QED
  BY <1>1, <1>4

\* h is 2 (a + s c) - t, dimension by dimension, and so is its sum; e is all ones.
Combined(a, c, e, h, q, n, s, t) ==
  \A i \in 0..n - 1 : /\ a[i] \in Int /\ c[i] \in Int /\ q[i] \in Int /\ e[i] = 1
                      /\ h[i] = 2 * (a[i] + s * c[i]) - t
SumCombined(a, c, e, h, q, n, s, t) ==
  DotTo(h, q, n) = 2 * DotTo(a, q, n) + 2 * s * DotTo(c, q, n) - t * DotTo(e, q, n)

LEMMA DotLinear ==
  ASSUME NEW a, NEW c, NEW e, NEW h, NEW q, NEW n \in Nat
  PROVE  \A s, t \in Int :
           Combined(a, c, e, h, q, n, s, t) => SumCombined(a, c, e, h, q, n, s, t)
<1> SUFFICES ASSUME NEW s \in Int, NEW t \in Int,
                    \A i \in 0..n - 1 : /\ a[i] \in Int /\ c[i] \in Int /\ q[i] \in Int /\ e[i] = 1
                                        /\ h[i] = 2 * (a[i] + s * c[i]) - t
             PROVE  DotTo(h, q, n) = 2 * DotTo(a, q, n) + 2 * s * DotTo(c, q, n) - t * DotTo(e, q, n)
  BY DEF Combined, SumCombined
<1>1. PICK T : T = {i \in 0..n : DotTo(h, q, i)
                       = 2 * DotTo(a, q, i) + 2 * s * DotTo(c, q, i) - t * DotTo(e, q, i)}
  OBVIOUS
<1>2. 0 \in T
  <2>1. DotTo(a, q, 0) = 0 /\ DotTo(c, q, 0) = 0 /\ DotTo(e, q, 0) = 0 /\ DotTo(h, q, 0) = 0
    <3>1. n \in Nat
      OBVIOUS
    <3> QED
      BY <3>1, DotIs
  <2> QED
    BY <1>1, <2>1
<1>3. ASSUME NEW i \in 0..n - 1, i \in T PROVE i + 1 \in T
  <2>1. i \in Nat /\ i \in 0..n /\ i + 1 \in 0..n
    OBVIOUS
  <2>2. /\ DotTo(a, q, i + 1) = DotTo(a, q, i) + a[i] * q[i]
        /\ DotTo(c, q, i + 1) = DotTo(c, q, i) + c[i] * q[i]
        /\ DotTo(e, q, i + 1) = DotTo(e, q, i) + e[i] * q[i]
        /\ DotTo(h, q, i + 1) = DotTo(h, q, i) + h[i] * q[i]
    BY <2>1, DotIs
  <2>3. DotTo(a, q, i) \in Int /\ DotTo(c, q, i) \in Int /\ DotTo(e, q, i) \in Int
    <3>1. \A j \in 0..n - 1 : a[j] \in Int /\ q[j] \in Int
      OBVIOUS
    <3>2. \A j \in 0..n - 1 : c[j] \in Int /\ q[j] \in Int
      OBVIOUS
    <3>3. \A j \in 0..n - 1 : e[j] \in Int /\ q[j] \in Int
      OBVIOUS
    <3>4. DotTo(a, q, i) \in Int
      BY <2>1, <3>1, DotType
    <3>5. DotTo(c, q, i) \in Int
      BY <2>1, <3>2, DotType
    <3>6. DotTo(e, q, i) \in Int
      BY <2>1, <3>3, DotType
    <3> QED
      BY <3>4, <3>5, <3>6
  <2>4. PICK x \in Int, y \in Int, z \in Int :
          x = DotTo(a, q, i) /\ y = DotTo(c, q, i) /\ z = DotTo(e, q, i)
    BY <2>3
  <2>5. PICK u \in Int, v \in Int, w \in Int : u = a[i] /\ v = c[i] /\ w = q[i]
    OBVIOUS
  <2>6. e[i] = 1 /\ h[i] = 2 * (u + s * v) - t
    BY <2>5
  <2>7. DotTo(h, q, i) = 2 * x + 2 * s * y - t * z
    BY <1>1, <1>3, <2>4
  <2>8. DotTo(e, q, i + 1) = z + w
    BY <2>2, <2>4, <2>5, <2>6
  <2>9. DotTo(h, q, i + 1) = (2 * x + 2 * s * y - t * z) + (2 * (u + s * v) - t) * w
    BY <2>2, <2>5, <2>6, <2>7
  <2>10. DotTo(a, q, i + 1) = x + u * w /\ DotTo(c, q, i + 1) = y + v * w
    BY <2>2, <2>4, <2>5
  <2>11. (2 * x + 2 * s * y - t * z) + (2 * (u + s * v) - t) * w
           = 2 * (x + u * w) + 2 * s * (y + v * w) - t * (z + w)
    BY SMT
  <2>12. DotTo(h, q, i + 1) = 2 * DotTo(a, q, i + 1) + 2 * s * DotTo(c, q, i + 1)
                                - t * DotTo(e, q, i + 1)
    BY <2>8, <2>9, <2>10, <2>11
  <2> QED
    BY <1>1, <2>1, <2>12
<1>4. 0..n \subseteq T
  BY <1>2, <1>3, UpTo
<1> QED
  BY <1>1, <1>4

LEMMA DotSame ==
  ASSUME NEW f, NEW h, NEW q, NEW n \in Nat, \A i \in 0..n - 1 : f[i] = h[i]
  PROVE  DotTo(f, q, n) = DotTo(h, q, n)
<1>1. \A g : Summed(f, q, n, g) <=> Summed(h, q, n, g)
  <2>1. ASSUME NEW g
        PROVE  [i \in 0..n |-> IF i = 0 THEN 0 ELSE g[i - 1] + f[i - 1] * q[i - 1]]
                 = [i \in 0..n |-> IF i = 0 THEN 0 ELSE g[i - 1] + h[i - 1] * q[i - 1]]
    <3>1. ASSUME NEW i \in 0..n, i # 0 PROVE f[i - 1] = h[i - 1]
      <4>1. i - 1 \in 0..n - 1
        BY <3>1
      <4> QED
        BY <4>1
    <3> QED
      BY <3>1, Zenon
  <2> QED
    BY <2>1, Zenon DEF Summed
<1>2. (CHOOSE g : Summed(f, q, n, g)) = (CHOOSE g : Summed(h, q, n, g))
  BY <1>1, Zenon
<1> QED
  BY <1>2, Zenon DEF DotTo

LEMMA DotDim == ASSUME NEW f PROVE Dot(f) = DotTo(f, input.query, Dim)
BY Zenon DEF Dot, DotTo, Summed

-----------------------------------------------------------------------------
(* What a row of the table holds. *)

\* What the four dimensions of group g that j selects add up to.
Selection(query, g, j) ==
  (j \div 8) * query[4*g] + ((j \div 4) % 2) * query[4*g + 1]
    + ((j \div 2) % 2) * query[4*g + 2] + (j % 2) * query[4*g + 3]

RowOf(query, g, entry) ==
  entry = [j \in 0..15 |-> IF j = 0 THEN 0
                           ELSE entry[j - Lowbit(j)] + query[4*g + Kpos[j + 1]]]

LEMMA LowbitIs ==
  ASSUME NEW j \in 1..15
  PROVE  /\ Lowbit(j) \in {1, 2, 4, 8}
         /\ j % Lowbit(j) = 0 /\ j % (2 * Lowbit(j)) # 0
<1>1. \E p \in {1, 2, 4, 8} : j % p = 0 /\ j % (2 * p) # 0
  <2>1. j \in {1, 3, 5, 7, 9, 11, 13, 15} => j % 1 = 0 /\ j % (2 * 1) # 0
    BY SMT
  <2>2. j \in {2, 6, 10, 14} => j % 2 = 0 /\ j % (2 * 2) # 0
    BY SMT
  <2>3. j \in {4, 12} => j % 4 = 0 /\ j % (2 * 4) # 0
    BY SMT
  <2>4. j = 8 => j % 8 = 0 /\ j % (2 * 8) # 0
    BY SMT
  <2>5. j \in {1, 3, 5, 7, 9, 11, 13, 15} \/ j \in {2, 6, 10, 14} \/ j \in {4, 12} \/ j = 8
    BY SMT
  <2> QED
    BY <2>1, <2>2, <2>3, <2>4, <2>5
<1> QED
  BY <1>1, Zenon DEF Lowbit

\* An entry is an earlier one and one dimension more.
LEMMA SelectionStep ==
  ASSUME NEW query, NEW g \in Nat, \A i \in 0..3 : query[4*g + i] \in Int, NEW j \in 1..15
  PROVE  /\ j - Lowbit(j) \in 0..j - 1
         /\ Selection(query, g, j)
              = Selection(query, g, j - Lowbit(j)) + query[4*g + Kpos[j + 1]]
<1>1. PICK x, y, z, t : /\ x = query[4*g] /\ y = query[4*g + 1]
                        /\ z = query[4*g + 2] /\ t = query[4*g + 3]
  OBVIOUS
<1>2. x \in Int /\ y \in Int /\ z \in Int /\ t \in Int
  <2>1. query[4*g + 0] \in Int /\ query[4*g + 1] \in Int /\ query[4*g + 2] \in Int
        /\ query[4*g + 3] \in Int
    OBVIOUS
  <2>2. 4*g + 0 = 4*g
    OBVIOUS
  <2> QED
    BY <1>1, <2>1, <2>2
<1>3. PICK p : p = Lowbit(j)
  OBVIOUS
<1>4. p \in {1, 2, 4, 8} /\ j % p = 0 /\ j % (2 * p) # 0
  BY <1>3, LowbitIs
<1>5. ASSUME NEW k
      PROVE  Selection(query, g, k)
               = (k \div 8) * x + ((k \div 4) % 2) * y + ((k \div 2) % 2) * z + (k % 2) * t
  BY <1>1, Zenon DEF Selection
<1>6. PICK w : w = query[4*g + Kpos[j + 1]]
  OBVIOUS
<1>7. CASE j = 1
  <2>1. p = 1
    BY <1>4, <1>7
  <2>2. w = t
    <3>1. Kpos[j + 1] = 3
      BY <1>7 DEF Kpos
    <3>2. 4*g + Kpos[j + 1] = 4*g + 3
      BY <3>1
    <3> QED
      BY <1>1, <1>6, <3>2, Zenon
  <2>3. j - p = 0
    BY <1>7, <2>1
  <2> QED
    BY <1>2, <1>3, <1>5, <1>6, <1>7, <2>2, <2>3
<1>8. CASE j = 2
  <2>1. p = 2
    BY <1>4, <1>8
  <2>2. w = z
    <3>1. Kpos[j + 1] = 2
      BY <1>8 DEF Kpos
    <3>2. 4*g + Kpos[j + 1] = 4*g + 2
      BY <3>1
    <3> QED
      BY <1>1, <1>6, <3>2, Zenon
  <2>3. j - p = 0
    BY <1>8, <2>1
  <2> QED
    BY <1>2, <1>3, <1>5, <1>6, <1>8, <2>2, <2>3
<1>9. CASE j = 3
  <2>1. p = 1
    BY <1>4, <1>9
  <2>2. w = t
    <3>1. Kpos[j + 1] = 3
      BY <1>9 DEF Kpos
    <3>2. 4*g + Kpos[j + 1] = 4*g + 3
      BY <3>1
    <3> QED
      BY <1>1, <1>6, <3>2, Zenon
  <2>3. j - p = 2
    BY <1>9, <2>1
  <2> QED
    BY <1>2, <1>3, <1>5, <1>6, <1>9, <2>2, <2>3
<1>10. CASE j = 4
  <2>1. p = 4
    BY <1>4, <1>10
  <2>2. w = y
    <3>1. Kpos[j + 1] = 1
      BY <1>10 DEF Kpos
    <3>2. 4*g + Kpos[j + 1] = 4*g + 1
      BY <3>1
    <3> QED
      BY <1>1, <1>6, <3>2, Zenon
  <2>3. j - p = 0
    BY <1>10, <2>1
  <2> QED
    BY <1>2, <1>3, <1>5, <1>6, <1>10, <2>2, <2>3
<1>11. CASE j = 5
  <2>1. p = 1
    BY <1>4, <1>11
  <2>2. w = t
    <3>1. Kpos[j + 1] = 3
      BY <1>11 DEF Kpos
    <3>2. 4*g + Kpos[j + 1] = 4*g + 3
      BY <3>1
    <3> QED
      BY <1>1, <1>6, <3>2, Zenon
  <2>3. j - p = 4
    BY <1>11, <2>1
  <2> QED
    BY <1>2, <1>3, <1>5, <1>6, <1>11, <2>2, <2>3
<1>12. CASE j = 6
  <2>1. p = 2
    BY <1>4, <1>12
  <2>2. w = z
    <3>1. Kpos[j + 1] = 2
      BY <1>12 DEF Kpos
    <3>2. 4*g + Kpos[j + 1] = 4*g + 2
      BY <3>1
    <3> QED
      BY <1>1, <1>6, <3>2, Zenon
  <2>3. j - p = 4
    BY <1>12, <2>1
  <2> QED
    BY <1>2, <1>3, <1>5, <1>6, <1>12, <2>2, <2>3
<1>13. CASE j = 7
  <2>1. p = 1
    BY <1>4, <1>13
  <2>2. w = t
    <3>1. Kpos[j + 1] = 3
      BY <1>13 DEF Kpos
    <3>2. 4*g + Kpos[j + 1] = 4*g + 3
      BY <3>1
    <3> QED
      BY <1>1, <1>6, <3>2, Zenon
  <2>3. j - p = 6
    BY <1>13, <2>1
  <2> QED
    BY <1>2, <1>3, <1>5, <1>6, <1>13, <2>2, <2>3
<1>14. CASE j = 8
  <2>1. p = 8
    BY <1>4, <1>14
  <2>2. w = x
    <3>1. Kpos[j + 1] = 0
      BY <1>14 DEF Kpos
    <3>2. 4*g + Kpos[j + 1] = 4*g
      BY <3>1
    <3> QED
      BY <1>1, <1>6, <3>2, Zenon
  <2>3. j - p = 0
    BY <1>14, <2>1
  <2> QED
    BY <1>2, <1>3, <1>5, <1>6, <1>14, <2>2, <2>3
<1>15. CASE j = 9
  <2>1. p = 1
    BY <1>4, <1>15
  <2>2. w = t
    <3>1. Kpos[j + 1] = 3
      BY <1>15 DEF Kpos
    <3>2. 4*g + Kpos[j + 1] = 4*g + 3
      BY <3>1
    <3> QED
      BY <1>1, <1>6, <3>2, Zenon
  <2>3. j - p = 8
    BY <1>15, <2>1
  <2> QED
    BY <1>2, <1>3, <1>5, <1>6, <1>15, <2>2, <2>3
<1>16. CASE j = 10
  <2>1. p = 2
    BY <1>4, <1>16
  <2>2. w = z
    <3>1. Kpos[j + 1] = 2
      BY <1>16 DEF Kpos
    <3>2. 4*g + Kpos[j + 1] = 4*g + 2
      BY <3>1
    <3> QED
      BY <1>1, <1>6, <3>2, Zenon
  <2>3. j - p = 8
    BY <1>16, <2>1
  <2> QED
    BY <1>2, <1>3, <1>5, <1>6, <1>16, <2>2, <2>3
<1>17. CASE j = 11
  <2>1. p = 1
    BY <1>4, <1>17
  <2>2. w = t
    <3>1. Kpos[j + 1] = 3
      BY <1>17 DEF Kpos
    <3>2. 4*g + Kpos[j + 1] = 4*g + 3
      BY <3>1
    <3> QED
      BY <1>1, <1>6, <3>2, Zenon
  <2>3. j - p = 10
    BY <1>17, <2>1
  <2> QED
    BY <1>2, <1>3, <1>5, <1>6, <1>17, <2>2, <2>3
<1>18. CASE j = 12
  <2>1. p = 4
    BY <1>4, <1>18
  <2>2. w = y
    <3>1. Kpos[j + 1] = 1
      BY <1>18 DEF Kpos
    <3>2. 4*g + Kpos[j + 1] = 4*g + 1
      BY <3>1
    <3> QED
      BY <1>1, <1>6, <3>2, Zenon
  <2>3. j - p = 8
    BY <1>18, <2>1
  <2> QED
    BY <1>2, <1>3, <1>5, <1>6, <1>18, <2>2, <2>3
<1>19. CASE j = 13
  <2>1. p = 1
    BY <1>4, <1>19
  <2>2. w = t
    <3>1. Kpos[j + 1] = 3
      BY <1>19 DEF Kpos
    <3>2. 4*g + Kpos[j + 1] = 4*g + 3
      BY <3>1
    <3> QED
      BY <1>1, <1>6, <3>2, Zenon
  <2>3. j - p = 12
    BY <1>19, <2>1
  <2> QED
    BY <1>2, <1>3, <1>5, <1>6, <1>19, <2>2, <2>3
<1>20. CASE j = 14
  <2>1. p = 2
    BY <1>4, <1>20
  <2>2. w = z
    <3>1. Kpos[j + 1] = 2
      BY <1>20 DEF Kpos
    <3>2. 4*g + Kpos[j + 1] = 4*g + 2
      BY <3>1
    <3> QED
      BY <1>1, <1>6, <3>2, Zenon
  <2>3. j - p = 12
    BY <1>20, <2>1
  <2> QED
    BY <1>2, <1>3, <1>5, <1>6, <1>20, <2>2, <2>3
<1>21. CASE j = 15
  <2>1. p = 1
    BY <1>4, <1>21
  <2>2. w = t
    <3>1. Kpos[j + 1] = 3
      BY <1>21 DEF Kpos
    <3>2. 4*g + Kpos[j + 1] = 4*g + 3
      BY <3>1
    <3> QED
      BY <1>1, <1>6, <3>2, Zenon
  <2>3. j - p = 14
    BY <1>21, <2>1
  <2> QED
    BY <1>2, <1>3, <1>5, <1>6, <1>21, <2>2, <2>3
<1> QED
  BY <1>7, <1>8, <1>9, <1>10, <1>11, <1>12, <1>13, <1>14, <1>15, <1>16, <1>17, <1>18, <1>19, <1>20, <1>21

LEMMA LutRowIs ==
  ASSUME NEW query, NEW g \in Nat, \A i \in 0..3 : query[4*g + i] \in Int, NEW j \in 0..15
  PROVE  LutRow(query, g)[j] = Selection(query, g, j)
<1>1. PICK e : e = [k \in 0..15 |-> Selection(query, g, k)]
  OBVIOUS
<1>2. Selection(query, g, 0) = 0
  <2>1. query[4*g + 0] \in Int /\ query[4*g + 1] \in Int /\ query[4*g + 2] \in Int
        /\ query[4*g + 3] \in Int /\ 4*g + 0 = 4*g
    OBVIOUS
  <2>2. 0 \div 8 = 0 /\ (0 \div 4) % 2 = 0 /\ (0 \div 2) % 2 = 0 /\ 0 % 2 = 0
    BY SMT
  <2> QED
    BY <2>1, <2>2 DEF Selection
<1>3. RowOf(query, g, e)
  <2>1. ASSUME NEW k \in 0..15
        PROVE  e[k] = IF k = 0 THEN 0 ELSE e[k - Lowbit(k)] + query[4*g + Kpos[k + 1]]
    <3>1. CASE k = 0
      BY <1>1, <1>2, <3>1
    <3>2. CASE k # 0
      <4>1. k \in 1..15
        BY <3>2
      <4>2. PICK r : r = k - Lowbit(k)
        OBVIOUS
      <4>3. r \in 0..k - 1 /\ Selection(query, g, k)
                                = Selection(query, g, r) + query[4*g + Kpos[k + 1]]
        BY <4>1, <4>2, SelectionStep
      <4>4. e[k] = Selection(query, g, k) /\ e[r] = Selection(query, g, r)
        BY <1>1, <4>3
      <4> QED
        BY <3>2, <4>2, <4>3, <4>4, Zenon
    <3> QED
      BY <3>1, <3>2
  <2>2. e = [k \in 0..15 |-> e[k]]
    BY <1>1
  <2> QED
    BY <2>1, <2>2, Zenon DEF RowOf
<1>4. PICK row : row = LutRow(query, g)
  OBVIOUS
<1>5. row = CHOOSE entry : RowOf(query, g, entry)
  BY <1>4, Zenon DEF LutRow, RowOf
<1>6. RowOf(query, g, row)
  BY <1>3, <1>5, Zenon
<1>7. ASSUME NEW k \in 0..15
      PROVE  row[k] = IF k = 0 THEN 0 ELSE row[k - Lowbit(k)] + query[4*g + Kpos[k + 1]]
  BY <1>6, Zenon DEF RowOf
<1>8. PICK T : T = {n \in 0..15 : \A k \in 0..n : row[k] = Selection(query, g, k)}
  OBVIOUS
<1>9. 0 \in T
  <2>1. row[0] = 0
    BY <1>7
  <2> QED
    BY <1>2, <1>8, <2>1
<1>10. ASSUME NEW n \in 0..15 - 1, n \in T PROVE n + 1 \in T
  <2>1. PICK k \in 1..15 : k = n + 1
    OBVIOUS
  <2>2. PICK r : r = k - Lowbit(k)
    OBVIOUS
  <2>3. r \in 0..k - 1 /\ Selection(query, g, k) = Selection(query, g, r) + query[4*g + Kpos[k + 1]]
    BY <2>2, SelectionStep
  <2>4. row[k] = row[r] + query[4*g + Kpos[k + 1]]
    <3>1. k \in 0..15 /\ k # 0
      OBVIOUS
    <3> QED
      BY <1>7, <2>2, <3>1
  <2>5. row[r] = Selection(query, g, r)
    BY <1>8, <1>10, <2>1, <2>3
  <2>6. row[k] = Selection(query, g, k)
    BY <2>3, <2>4, <2>5, Zenon
  <2> QED
    BY <1>8, <1>10, <2>1, <2>6
<1>11. 15 \in Nat
  OBVIOUS
<1>12. 0..15 \subseteq T
  BY <1>9, <1>10, <1>11, UpTo
<1> QED
  BY <1>4, <1>8, <1>12

LEMMA SelectionType ==
  ASSUME NEW query, NEW g \in Nat, \A i \in 0..3 : query[4*g + i] \in Int, NEW j \in 0..15
  PROVE  Selection(query, g, j) \in Int
<1>1. query[4*g + 0] \in Int /\ query[4*g + 1] \in Int /\ query[4*g + 2] \in Int
      /\ query[4*g + 3] \in Int /\ 4*g + 0 = 4*g
  OBVIOUS
<1>2. PICK k, l, m, n : k = j \div 8 /\ l = (j \div 4) % 2 /\ m = (j \div 2) % 2 /\ n = j % 2
  OBVIOUS
<1>3. k \in Int /\ l \in Int /\ m \in Int /\ n \in Int
  BY <1>2, SMT
<1> QED
  BY <1>1, <1>2, <1>3 DEF Selection

-----------------------------------------------------------------------------
(* The range of a table, and what rounding to it loses. *)

\* Finitely many integers have a least and a greatest.
LEMMA Extremes ==
  ASSUME NEW m \in Nat, NEW F, \A i \in 0..m : F[i] \in Int
  PROVE  /\ \E i \in 0..m : \A j \in 0..m : F[i] <= F[j]
         /\ \E i \in 0..m : \A j \in 0..m : F[j] <= F[i]
<1>1. PICK T : T = {n \in 0..m : /\ \E i \in 0..n : \A j \in 0..n : F[i] <= F[j]
                                 /\ \E i \in 0..n : \A j \in 0..n : F[j] <= F[i]}
  OBVIOUS
<1>2. 0 \in T
  <2>1. F[0] <= F[0]
    OBVIOUS
  <2> QED
    BY <1>1, <2>1
<1>3. ASSUME NEW n \in 0..m - 1, n \in T PROVE n + 1 \in T
  <2>1. PICK k \in 0..m : k = n + 1
    OBVIOUS
  <2>2. PICK lo \in 0..n : \A j \in 0..n : F[lo] <= F[j]
    BY <1>1, <1>3
  <2>3. PICK hi \in 0..n : \A j \in 0..n : F[j] <= F[hi]
    BY <1>1, <1>3
  <2>4. F[lo] \in Int /\ F[hi] \in Int /\ F[k] \in Int /\ \A j \in 0..n : F[j] \in Int
    OBVIOUS
  <2>5. \A j \in 0..k : j \in 0..n \/ j = k
    BY <2>1
  <2>6. lo \in 0..k /\ hi \in 0..k /\ k \in 0..k
    BY <2>1
  <2>7. \E i \in 0..k : \A j \in 0..k : F[i] <= F[j]
    <3>1. CASE F[lo] <= F[k]
      <4>1. \A j \in 0..k : F[lo] <= F[j]
        BY <2>2, <2>5, <3>1
      <4> QED
        BY <2>6, <4>1
    <3>2. CASE ~(F[lo] <= F[k])
      <4>1. \A j \in 0..k : F[k] <= F[j]
        <5>1. ASSUME NEW j \in 0..k PROVE F[k] <= F[j]
          <6>1. CASE j = k
            BY <2>4, <6>1
          <6>2. CASE j \in 0..n
            <7>1. F[lo] <= F[j] /\ F[j] \in Int
              BY <2>2, <2>4, <6>2
            <7> QED
              BY <2>4, <3>2, <7>1
          <6> QED
            BY <2>5, <6>1, <6>2
        <5> QED
          BY <5>1
      <4> QED
        BY <2>6, <4>1
    <3> QED
      BY <3>1, <3>2
  <2>8. \E i \in 0..k : \A j \in 0..k : F[j] <= F[i]
    <3>1. CASE F[k] <= F[hi]
      <4>1. \A j \in 0..k : F[j] <= F[hi]
        BY <2>3, <2>5, <3>1
      <4> QED
        BY <2>6, <4>1
    <3>2. CASE ~(F[k] <= F[hi])
      <4>1. \A j \in 0..k : F[j] <= F[k]
        <5>1. ASSUME NEW j \in 0..k PROVE F[j] <= F[k]
          <6>1. CASE j = k
            BY <2>4, <6>1
          <6>2. CASE j \in 0..n
            <7>1. F[j] <= F[hi] /\ F[j] \in Int
              BY <2>3, <2>4, <6>2
            <7> QED
              BY <2>4, <3>2, <7>1
          <6> QED
            BY <2>5, <6>1, <6>2
        <5> QED
          BY <5>1
      <4> QED
        BY <2>6, <4>1
    <3> QED
      BY <3>1, <3>2
  <2> QED
    BY <1>1, <2>1, <2>7, <2>8
<1>4. 0..m \subseteq T
  BY <1>2, <1>3, UpTo
<1>5. m \in T
  BY <1>4
<1> QED
  BY <1>1, <1>5

\* The dimensions of a group are there.
LEMMA GroupOf ==
  ASSUME NEW dim \in Nat, dim % 8 = 0, NEW query \in [0..dim - 1 -> Int],
         NEW g \in 0..(dim \div 4) - 1
  PROVE  g \in Nat /\ \A i \in 0..3 : query[4*g + i] \in Int
<1>1. g \in Nat
  BY SMT
<1>2. ASSUME NEW i \in 0..3 PROVE 4*g + i \in 0..dim - 1
  BY SMT
<1> QED
  BY <1>1, <1>2

\* The entries of all rows.
Entries(query, dim) ==
  UNION {{[h \in 0..(dim \div 4) - 1 |-> LutRow(query, h)][g][j] : j \in 0..15}
           : g \in 0..(dim \div 4) - 1}
EntryValues(query, dim) == IF dim = 0 THEN {0} ELSE Entries(query, dim)

LEMMA EntriesBounded ==
  ASSUME NEW dim \in Nat, dim % 8 = 0, NEW query \in [0..dim - 1 -> Int]
  PROVE  /\ EntryValues(query, dim) \subseteq Int
         /\ \E x \in EntryValues(query, dim) : \A y \in EntryValues(query, dim) : x =< y
         /\ \E x \in EntryValues(query, dim) : \A y \in EntryValues(query, dim) : x >= y
         /\ \A g \in 0..(dim \div 4) - 1, j \in 0..15 :
              Selection(query, g, j) \in EntryValues(query, dim)
<1>1. CASE dim = 0
  <2>1. EntryValues(query, dim) = {0} /\ 0..(dim \div 4) - 1 = {}
    BY <1>1 DEF EntryValues
  <2> QED
    BY <2>1
<1>2. CASE dim # 0
  <2>1. PICK V : V = EntryValues(query, dim)
    OBVIOUS
  <2>2. PICK rows : rows = 0..(dim \div 4) - 1
    OBVIOUS
  <2>3. \A g \in rows, j \in 0..15 : LutRow(query, g)[j] = Selection(query, g, j)
    BY <2>2, GroupOf, LutRowIs
  <2>4. \A g \in rows : \A x : x \in {LutRow(query, g)[j] : j \in 0..15}
                              <=> \E j \in 0..15 : x = Selection(query, g, j)
    <3>1. ASSUME NEW g \in rows, NEW x
          PROVE  x \in {LutRow(query, g)[j] : j \in 0..15}
                   <=> \E j \in 0..15 : x = Selection(query, g, j)
      BY <2>3
    <3> QED
      BY <3>1
  <2>5. \A x : x \in V <=> \E g \in rows : \E j \in 0..15 : x = Selection(query, g, j)
    <3>1. V = UNION {{LutRow(query, g)[j] : j \in 0..15} : g \in rows}
      BY <1>2, <2>1, <2>2 DEF EntryValues, Entries
    <3>2. ASSUME NEW x
          PROVE  x \in V <=> \E g \in rows : \E j \in 0..15 : x = Selection(query, g, j)
      <4>1. x \in V <=> \E g \in rows : x \in {LutRow(query, g)[j] : j \in 0..15}
        BY <3>1, Zenon
      <4>2. \A g \in rows : x \in {LutRow(query, g)[j] : j \in 0..15}
                              <=> \E j \in 0..15 : x = Selection(query, g, j)
        BY <2>4, Zenon
      <4> QED
        BY <4>1, <4>2, Zenon
    <3> QED
      BY <3>2
  <2>6. \A g \in rows, j \in 0..15 : Selection(query, g, j) \in Int
    BY <2>2, GroupOf, SelectionType
  <2>7. V \subseteq Int
    <3>1. ASSUME NEW x \in V PROVE x \in Int
      <4>1. PICK g \in rows : \E j \in 0..15 : x = Selection(query, g, j)
        BY <2>5, Zenon
      <4>2. PICK j \in 0..15 : x = Selection(query, g, j)
        BY <4>1
      <4> QED
        BY <2>6, <4>2, Zenon
    <3> QED
      BY <3>1
  <2>8. PICK m \in Nat : m = 16 * (dim \div 4) - 1
    <3>1. 16 * (dim \div 4) - 1 \in Nat
      BY <1>2, SMT
    <3> QED
      BY <3>1
  <2>9. PICK F : F = [i \in 0..m |-> Selection(query, i \div 16, i % 16)]
    OBVIOUS
  <2>10. \A i \in 0..m : i \div 16 \in rows /\ i % 16 \in 0..15
    BY <2>2, <2>8, SMT
  <2>11. \A i \in 0..m : F[i] \in V /\ F[i] \in Int
    BY <2>5, <2>6, <2>9, <2>10
  <2>12. ASSUME NEW x \in V PROVE \E i \in 0..m : x = F[i]
    <3>1. PICK g \in rows, j \in 0..15 : x = Selection(query, g, j)
      BY <2>5
    <3>2. g \in 0..(dim \div 4) - 1
      BY <2>2
    <3>3. PICK i : i = 16*g + j
      OBVIOUS
    <3>4. i \in 0..m /\ i \div 16 = g /\ i % 16 = j
      BY <2>8, <3>2, <3>3, SMT
    <3>5. F[i] = Selection(query, i \div 16, i % 16)
      BY <2>9, <3>4
    <3> QED
      BY <3>1, <3>4, <3>5, Zenon
  <2>13. \E i \in 0..m : \A j \in 0..m : F[i] <= F[j]
    BY <2>11, Extremes
  <2>14. \E i \in 0..m : \A j \in 0..m : F[j] <= F[i]
    BY <2>11, Extremes
  <2>15. \E x \in V : \A y \in V : x =< y
    <3>1. PICK i \in 0..m : \A j \in 0..m : F[i] <= F[j]
      BY <2>13
    <3>2. \A y \in V : F[i] =< y
      BY <2>12, <3>1
    <3> QED
      BY <2>11, <3>2
  <2>16. \E x \in V : \A y \in V : x >= y
    <3>1. PICK i \in 0..m : \A j \in 0..m : F[j] <= F[i]
      BY <2>14
    <3>2. \A y \in V : F[i] >= y
      <4>1. ASSUME NEW y \in V PROVE F[i] >= y
        <5>1. PICK j \in 0..m : y = F[j]
          BY <2>12
        <5>2. F[j] <= F[i] /\ F[j] \in Int /\ F[i] \in Int
          BY <2>11, <3>1
        <5> QED
          BY <5>1, <5>2
      <4> QED
        BY <4>1
    <3> QED
      BY <2>11, <3>2
  <2>17. \A g \in rows, j \in 0..15 : Selection(query, g, j) \in V
    BY <2>5
  <2> QED
    BY <2>1, <2>2, <2>7, <2>15, <2>16, <2>17
<1> QED
  BY <1>1, <1>2

LEMMA Rounded ==
  ASSUME NEW x \in Int, NEW vl \in Int, NEW w \in Nat \ {0}, vl <= x, x <= vl + w
  PROVE  /\ 2 * w * Quantized(x, vl, w) - 510 * (x - vl) <= w
         /\ 510 * (x - vl) - 2 * w * Quantized(x, vl, w) <= w
<1>1. PICK a \in Nat : a = x - vl /\ a <= w
  <2>1. x - vl \in Nat /\ x - vl <= w
    OBVIOUS
  <2> QED
    BY <2>1
<1>2. PICK n \in Nat, u \in Nat \ {0} : n = 510 * a + w /\ u = 2 * w
  OBVIOUS
<1>3. PICK d \in Nat, r \in 0..u - 1 : d = n \div u /\ r = n % u /\ n = u*d + r
  BY DivIs
<1>4. d <= 255
  <2> SUFFICES ASSUME ~(d <= 255) PROVE FALSE
    OBVIOUS
  <2>1. PICK k \in Nat : d = 256 + k
    <3>1. d - 256 \in Nat /\ d = 256 + (d - 256)
      OBVIOUS
    <3> QED
      BY <3>1
  <2>2. u*d = 256*u + u*k /\ u*k \in Nat
    BY <2>1
  <2> QED
    BY <1>1, <1>2, <1>3, <2>2
<1>5. Quantized(x, vl, w) = d
  <2>1. 2 * 255 * (x - vl) + w = n /\ 2 * w = u
    BY <1>1, <1>2
  <2>2. Quantized(x, vl, w) = Clamped(n \div u)
    BY <2>1, Zenon DEF Quantized
  <2>3. Clamped(d) = d
    BY <1>4 DEF Clamped, Bytes
  <2> QED
    BY <1>3, <2>2, <2>3, Zenon
<1>6. u*d \in Nat /\ 2 * w * d = u*d
  BY <1>2
<1>7. 2 * w * Quantized(x, vl, w) = u*d
  BY <1>5, <1>6, Zenon
<1> QED
  BY <1>1, <1>2, <1>3, <1>6, <1>7

\* What the table of a query is.
LEMMA QueryLutIs ==
  ASSUME NEW dim \in Nat, dim % 8 = 0, NEW query \in [0..dim - 1 -> Int]
  PROVE  /\ QueryLut(query, dim).vl \in Int
         /\ QueryLut(query, dim).width \in Nat
         /\ \A g \in 0..(dim \div 4) - 1, j \in 0..15 :
              LET l == QueryLut(query, dim)
                  x == Selection(query, g, j)
                  e == l.entry[g][j]
              IN /\ l.vl <= x /\ x <= l.vl + l.width
                 /\ e = IF l.width = 0 THEN 0 ELSE Quantized(x, l.vl, l.width)
<1>1. PICK V : V = EntryValues(query, dim)
  OBVIOUS
<1>2. /\ V \subseteq Int
      /\ \E x \in V : \A y \in V : x =< y
      /\ \E x \in V : \A y \in V : x >= y
      /\ \A g \in 0..(dim \div 4) - 1, j \in 0..15 : Selection(query, g, j) \in V
  BY <1>1, EntriesBounded
<1>3. PICK lo, hi : lo = Min(V) /\ hi = Max(V)
  OBVIOUS
<1>4. lo \in V /\ \A y \in V : lo =< y
  BY <1>2, <1>3, Zenon DEF Min
<1>5. hi \in V /\ \A y \in V : hi >= y
  BY <1>2, <1>3, Zenon DEF Max
<1>6. PICK w \in Nat : w = hi - lo
  <2>1. lo \in Int /\ hi \in Int /\ lo =< hi
    BY <1>2, <1>4, <1>5
  <2>2. hi - lo \in Nat
    BY <2>1
  <2> QED
    BY <2>2
<1>7. PICK l : l = QueryLut(query, dim)
  OBVIOUS
<1>8. l = [entry |-> [g \in 0..(dim \div 4) - 1 |->
                        [j \in 0..15 |-> IF w = 0 THEN 0
                          ELSE Quantized([h \in 0..(dim \div 4) - 1 |-> LutRow(query, h)][g][j],
                                         lo, w)]],
           vl |-> lo, width |-> w]
  BY <1>1, <1>3, <1>6, <1>7, Zenon DEF QueryLut, EntryValues, Entries
<1>9. l.vl = lo /\ l.width = w
  BY <1>8
<1>10. ASSUME NEW g \in 0..(dim \div 4) - 1, NEW j \in 0..15
       PROVE  /\ lo <= Selection(query, g, j) /\ Selection(query, g, j) <= lo + w
              /\ l.entry[g][j] = IF w = 0 THEN 0 ELSE Quantized(Selection(query, g, j), lo, w)
  <2>1. LutRow(query, g)[j] = Selection(query, g, j)
    BY GroupOf, LutRowIs
  <2>2. l.entry[g][j] = IF w = 0 THEN 0 ELSE Quantized(LutRow(query, g)[j], lo, w)
    BY <1>8
  <2>3. PICK x : x = Selection(query, g, j)
    OBVIOUS
  <2>4. x \in V
    BY <1>2, <2>3
  <2>5. lo \in Int /\ hi \in Int /\ x \in Int /\ lo =< x /\ hi >= x
    BY <1>2, <1>4, <1>5, <2>4
  <2>6. lo <= x /\ x <= lo + w
    BY <1>6, <2>5
  <2> QED
    BY <2>1, <2>2, <2>3, <2>6
<1> QED
  BY <1>2, <1>4, <1>6, <1>7, <1>9, <1>10

\* 510 times an entry and the number it stands for, a step of w apart at most.
Near(w, e, vl, x) ==
  /\ 2 * w * e + 510 * vl - 510 * x <= w
  /\ 510 * x - 510 * vl - 2 * w * e <= w

\* An entry is rounded by half a step at most.
LEMMA EntryClose ==
  ASSUME NEW dim \in Nat, dim % 8 = 0, NEW query \in [0..dim - 1 -> Int],
         NEW g \in 0..(dim \div 4) - 1, NEW j \in 0..15, NEW l, l = QueryLut(query, dim)
  PROVE  Near(l.width, l.entry[g][j], l.vl, Selection(query, g, j))
<1>1. PICK x, e, vl, w : /\ x = Selection(query, g, j) /\ e = l.entry[g][j]
                         /\ vl = l.vl /\ w = l.width
  OBVIOUS
<1>2. /\ vl \in Int /\ w \in Nat /\ vl <= x /\ x <= vl + w
      /\ e = IF w = 0 THEN 0 ELSE Quantized(x, vl, w)
  BY <1>1, QueryLutIs
<1>3. x \in Int
  BY <1>1, GroupOf, SelectionType
<1>4. /\ 2 * w * e + 510 * vl - 510 * x <= w
      /\ 510 * x - 510 * vl - 2 * w * e <= w
  <2>1. CASE w = 0
    BY <1>2, <1>3, <2>1
  <2>2. CASE w # 0
    <3>1. w \in Nat \ {0}
      BY <1>2, <2>2
    <3>2. e = Quantized(x, vl, w)
      BY <1>2, <2>2
    <3>3. /\ 2 * w * e - 510 * (x - vl) <= w
          /\ 510 * (x - vl) - 2 * w * e <= w
      BY <1>2, <1>3, <3>1, <3>2, Rounded
    <3>4. e \in Int
      BY <3>2 DEF Quantized, Clamped, Bytes
    <3>5. 2 * w * e \in Int
      BY <1>2, <3>4
    <3> QED
      BY <1>2, <1>3, <3>3, <3>5
  <2> QED
    BY <2>1, <2>2
<1>5. Near(w, e, vl, x)
  BY <1>4 DEF Near
<1> QED
  BY <1>1, <1>5, Zenon

-----------------------------------------------------------------------------
(* What the entries a code selects add up to. *)

\* The four bits of group g, as the number they are.
LEMMA GroupBits ==
  ASSUME NEW dim \in Nat, dim % 8 = 0, NEW bit \in [0..dim - 1 -> 0..1],
         NEW g \in 0..(dim \div 4) - 1
  PROVE  Nibble(PackBinary(bit, dim), g)
           = 8 * bit[4*g] + 4 * bit[4*g + 1] + 2 * bit[4*g + 2] + bit[4*g + 3]
<1>1. PICK c \in 0..(dim \div 8) - 1 : c = g \div 2
  <2>1. g \div 2 \in 0..(dim \div 8) - 1
    BY SMT
  <2> QED
    BY <2>1
<1>2. PICK y : y = PackBinary(bit, dim)[c]
  OBVIOUS
<1>3. PICK m \in Nat : m = 4*g
  OBVIOUS
<1>4. CASE g % 2 = 0
  <2>1. m = 8*c
    BY <1>1, <1>3, <1>4, SMT
  <2>2. y \div 16 = 8 * bit[8*c] + 4 * bit[8*c + 1] + 2 * bit[8*c + 2] + bit[8*c + 3]
    BY <1>2, PackedBits
  <2>3. y \div 16 = 8 * bit[m] + 4 * bit[m + 1] + 2 * bit[m + 2] + bit[m + 3]
    BY <2>1, <2>2, Zenon
  <2>4. Nibble(PackBinary(bit, dim), g) = y \div 16
    BY <1>1, <1>2, <1>4, Zenon DEF Nibble
  <2> QED
    BY <1>3, <2>3, <2>4, Zenon
<1>5. CASE ~(g % 2 = 0)
  <2>1. m = 8*c + 4 /\ m + 1 = 8*c + 5 /\ m + 2 = 8*c + 6 /\ m + 3 = 8*c + 7
    BY <1>1, <1>3, <1>5, SMT
  <2>2. y % 16 = 8 * bit[8*c + 4] + 4 * bit[8*c + 5] + 2 * bit[8*c + 6] + bit[8*c + 7]
    BY <1>2, PackedBits
  <2>3. y % 16 = 8 * bit[m] + 4 * bit[m + 1] + 2 * bit[m + 2] + bit[m + 3]
    BY <2>1, <2>2, Zenon
  <2>4. Nibble(PackBinary(bit, dim), g) = y % 16
    BY <1>1, <1>2, <1>5, Zenon DEF Nibble
  <2> QED
    BY <1>3, <2>3, <2>4, Zenon
<1> QED
  BY <1>4, <1>5

\* The entry a code selects in row g stands for its four terms of the product.
LEMMA GroupDot ==
  ASSUME NEW dim \in Nat, dim % 8 = 0, NEW bit \in [0..dim - 1 -> 0..1],
         NEW q \in [0..dim - 1 -> Int], NEW g \in 0..(dim \div 4) - 1
  PROVE  /\ Nibble(PackBinary(bit, dim), g) \in 0..15
         /\ DotTo(bit, q, 4*g + 4)
              = DotTo(bit, q, 4*g) + Selection(q, g, Nibble(PackBinary(bit, dim), g))
<1>1. PICK m \in Nat : m = 4*g
  OBVIOUS
<1>2. m \in 0..dim - 1 /\ m + 1 \in 0..dim - 1 /\ m + 2 \in 0..dim - 1 /\ m + 3 \in 0..dim - 1
  BY <1>1, SMT
<1>3. PICK a, c, d, e : a = bit[m] /\ c = bit[m + 1] /\ d = bit[m + 2] /\ e = bit[m + 3]
  OBVIOUS
<1>4. a \in 0..1 /\ c \in 0..1 /\ d \in 0..1 /\ e \in 0..1
  BY <1>2, <1>3
<1>5. PICK x, y, z, t : x = q[m] /\ y = q[m + 1] /\ z = q[m + 2] /\ t = q[m + 3]
  OBVIOUS
<1>6. x \in Int /\ y \in Int /\ z \in Int /\ t \in Int
  BY <1>2, <1>5
<1>7. PICK j : j = Nibble(PackBinary(bit, dim), g)
  OBVIOUS
<1>8. j = 8*a + 4*c + 2*d + e
  <2>1. j = 8 * bit[4*g] + 4 * bit[4*g + 1] + 2 * bit[4*g + 2] + bit[4*g + 3]
    BY <1>7, GroupBits
  <2> QED
    BY <1>1, <1>3, <2>1, Zenon
<1>9. /\ j \in 0..15 /\ j \div 8 = a /\ (j \div 4) % 2 = c /\ (j \div 2) % 2 = d
      /\ j % 2 = e
  BY <1>4, <1>8, SMTT(30)
<1>10. Selection(q, g, j) = a * x + c * y + d * z + e * t
  BY <1>1, <1>5, <1>9, Zenon DEF Selection
<1>11. PICK s0, s1, s2, s3, s4 :
         /\ s0 = DotTo(bit, q, m) /\ s1 = DotTo(bit, q, m + 1) /\ s2 = DotTo(bit, q, m + 2)
         /\ s3 = DotTo(bit, q, m + 3) /\ s4 = DotTo(bit, q, m + 4)
  OBVIOUS
<1>12. s1 = s0 + a * x /\ s2 = s1 + c * y /\ s3 = s2 + d * z /\ s4 = s3 + e * t
  <2>1. m + 1 \in Nat /\ m + 2 \in Nat /\ m + 3 \in Nat
        /\ m + 1 + 1 = m + 2 /\ m + 2 + 1 = m + 3 /\ m + 3 + 1 = m + 4
    OBVIOUS
  <2>2. s1 = s0 + a * x
    BY <1>3, <1>5, <1>11, DotIs, Zenon
  <2>3. s2 = s1 + c * y
    BY <1>3, <1>5, <1>11, <2>1, DotIs, Zenon
  <2>4. s3 = s2 + d * z
    BY <1>3, <1>5, <1>11, <2>1, DotIs, Zenon
  <2>5. s4 = s3 + e * t
    BY <1>3, <1>5, <1>11, <2>1, DotIs, Zenon
  <2> QED
    BY <2>2, <2>3, <2>4, <2>5
<1>13. s0 \in Int
  <2>1. \A i \in 0..dim - 1 : bit[i] \in Int /\ q[i] \in Int
    OBVIOUS
  <2>2. m \in 0..dim
    BY <1>2
  <2> QED
    BY <1>11, <2>1, <2>2, DotType
<1>14. a * x \in Int /\ c * y \in Int /\ d * z \in Int /\ e * t \in Int
  BY <1>4, <1>6
<1>15. s4 = s0 + (a * x + c * y + d * z + e * t)
  <2>1. PICK u0, u1, u2, u3 : u0 = a * x /\ u1 = c * y /\ u2 = d * z /\ u3 = e * t
    OBVIOUS
  <2>2. u0 \in Int /\ u1 \in Int /\ u2 \in Int /\ u3 \in Int
    BY <1>14, <2>1
  <2>3. s1 = s0 + u0 /\ s2 = s1 + u1 /\ s3 = s2 + u2 /\ s4 = s3 + u3
    BY <1>12, <2>1, Zenon
  <2>4. s4 = s0 + (u0 + u1 + u2 + u3)
    BY ONLY <1>13, <2>2, <2>3, SMT
  <2> QED
    BY <2>1, <2>4, Zenon
<1> QED
  BY <1>1, <1>7, <1>9, <1>10, <1>11, <1>15, Zenon

\* The entries of the first n rows that a code selects, added up.
RowTotal(entry, code, n) ==
  DotTo([g \in Nat |-> entry[g][Nibble(code, g)]], [g \in Nat |-> 1], n)

LEMMA RowTotalIs ==
  ASSUME NEW entry, NEW code, NEW n \in Nat, entry[n][Nibble(code, n)] \in Int
  PROVE  /\ RowTotal(entry, code, 0) = 0
         /\ RowTotal(entry, code, n + 1)
              = RowTotal(entry, code, n) + entry[n][Nibble(code, n)]
<1>1. PICK f : f = [g \in Nat |-> entry[g][Nibble(code, g)]]
  OBVIOUS
<1>2. PICK h : h = [g \in Nat |-> 1]
  OBVIOUS
<1>3. \A i : RowTotal(entry, code, i) = DotTo(f, h, i)
  BY <1>1, <1>2, Zenon DEF RowTotal
<1>4. f[n] = entry[n][Nibble(code, n)] /\ h[n] = 1
  BY <1>1, <1>2
<1>5. f[n] * h[n] = f[n]
  BY <1>4
<1>6. DotTo(f, h, 0) = 0
  BY DotIs
<1>7. DotTo(f, h, n + 1) = DotTo(f, h, n) + f[n] * h[n]
  BY DotIs
<1> QED
  BY <1>3, <1>4, <1>5, <1>6, <1>7, Zenon

\* 510 times n entries and what they stand for, n steps of w apart at most.
Apart(w, t, n, vl, x) ==
  /\ 2 * w * t + 510 * n * vl - 510 * x <= n * w
  /\ 510 * x - 510 * n * vl - 2 * w * t <= n * w

LEMMA ApartStep ==
  ASSUME NEW w \in Nat, NEW t \in Int, NEW n \in Nat, NEW vl \in Int, NEW x \in Int,
         Apart(w, t, n, vl, x)
  PROVE  \A e, y \in Int : Near(w, e, vl, y) => Apart(w, t + e, n + 1, vl, x + y)
<1> SUFFICES ASSUME NEW e \in Int, NEW y \in Int, Near(w, e, vl, y)
             PROVE  Apart(w, t + e, n + 1, vl, x + y)
  OBVIOUS
<1>1. PICK a \in Int, c \in Int, d \in Int, u \in Nat :
        a = 2 * w * t /\ c = 2 * w * e /\ d = 510 * n * vl /\ u = n * w
  <2>1. 2 * w * t \in Int /\ 2 * w * e \in Int /\ 510 * n * vl \in Int /\ n * w \in Nat
    OBVIOUS
  <2> QED
    BY <2>1
<1>2. /\ a + d - 510 * x <= u /\ 510 * x - d - a <= u
  BY <1>1, ZenonT(40) DEF Apart
<1>3. /\ c + 510 * vl - 510 * y <= w /\ 510 * y - 510 * vl - c <= w
  BY <1>1, Zenon DEF Near
<1>4. PICK a2 \in Int, d2 \in Int, u2 \in Nat :
        a2 = 2 * w * (t + e) /\ d2 = 510 * (n + 1) * vl /\ u2 = (n + 1) * w
  <2>1. 2 * w * (t + e) \in Int /\ 510 * (n + 1) * vl \in Int /\ (n + 1) * w \in Nat
    OBVIOUS
  <2> QED
    BY <2>1
<1>5. a2 = a + c /\ d2 = d + 510 * vl /\ u2 = u + w
  <2>1. 2 * w * (t + e) = 2 * w * t + 2 * w * e
    OBVIOUS
  <2>2. 510 * (n + 1) * vl = 510 * n * vl + 510 * vl
    OBVIOUS
  <2>3. (n + 1) * w = n * w + w
    OBVIOUS
  <2> QED
    BY <1>1, <1>4, <2>1, <2>2, <2>3
<1>6. /\ a2 + d2 - 510 * (x + y) <= u2 /\ 510 * (x + y) - d2 - a2 <= u2
  BY ONLY w \in Nat, vl \in Int, x \in Int, y \in Int, a \in Int, c \in Int, d \in Int, u \in Nat,
     <1>2, <1>3, <1>5, SMT
<1> QED
  BY <1>4, <1>6, ZenonT(40) DEF Apart

\* The sum of a code's entries is as many steps from its product with the query
\* as it has rows.
RowsWithin(l, dim, bit, q, n) ==
  LET t == RowTotal(l.entry, PackBinary(bit, dim), n)
  IN /\ t \in 0..255 * n
     /\ DotTo(bit, q, 4*n) \in Int
     /\ Apart(l.width, t, n, l.vl, DotTo(bit, q, 4*n))

LEMMA RowClose ==
  ASSUME NEW dim \in Nat, dim % 8 = 0, NEW bit \in [0..dim - 1 -> 0..1],
         NEW q \in [0..dim - 1 -> Int], NEW l, l = QueryLut(q, dim),
         NEW n \in 0..dim \div 4
  PROVE  RowsWithin(l, dim, bit, q, n)
<1>1. PICK entry, w, vl, code : /\ entry = l.entry /\ w = l.width /\ vl = l.vl
                                /\ code = PackBinary(bit, dim)
  OBVIOUS
<1>2. w \in Nat /\ vl \in Int
  BY <1>1, QueryLutIs
<1>3. PICK N \in Nat : N = dim \div 4
  <2>1. dim \div 4 \in Nat
    BY SMT
  <2> QED
    BY <2>1
<1>4. PICK T : T = {i \in 0..N : /\ RowTotal(entry, code, i) \in 0..255 * i
                                 /\ DotTo(bit, q, 4*i) \in Int
                                 /\ Apart(w, RowTotal(entry, code, i), i, vl, DotTo(bit, q, 4*i))}
  OBVIOUS
<1>5. ASSUME NEW g \in 0..N - 1
      PROVE  /\ Nibble(code, g) \in 0..15
             /\ entry[g][Nibble(code, g)] \in 0..255
             /\ Selection(q, g, Nibble(code, g)) \in Int
             /\ Near(w, entry[g][Nibble(code, g)], vl, Selection(q, g, Nibble(code, g)))
             /\ DotTo(bit, q, 4*g + 4) = DotTo(bit, q, 4*g) + Selection(q, g, Nibble(code, g))
  <2>1. g \in 0..(dim \div 4) - 1
    BY <1>3
  <2>2. PICK j : j = Nibble(code, g)
    OBVIOUS
  <2>3. j \in 0..15 /\ DotTo(bit, q, 4*g + 4) = DotTo(bit, q, 4*g) + Selection(q, g, j)
    BY <1>1, <2>1, <2>2, GroupDot
  <2>4. Near(w, entry[g][j], vl, Selection(q, g, j))
    BY <1>1, <2>1, <2>3, EntryClose
  <2>5. Selection(q, g, j) \in Int
    BY <2>1, <2>3, GroupOf, SelectionType
  <2>6. entry[g][j] \in 0..255
    <3>1. QueryLut(q, dim).entry \in [0..(dim \div 4) - 1 -> [0..15 -> Bytes]]
      BY QueryLutType
    <3>2. entry = QueryLut(q, dim).entry
      BY <1>1
    <3>3. entry \in [0..(dim \div 4) - 1 -> [0..15 -> Bytes]]
      BY <3>1, <3>2, Zenon
    <3>4. entry[g][j] \in Bytes
      BY ONLY <2>1, <2>3, <3>3
    <3> QED
      BY <3>4 DEF Bytes
  <2> QED
    BY <2>2, <2>3, <2>4, <2>5, <2>6, Zenon
<1>6. 0 \in T
  <2>1. RowTotal(entry, code, 0) = 0
    BY DotIs DEF RowTotal
  <2>2. DotTo(bit, q, 0) = 0
    BY DotIs
  <2>3. 4*0 = 0 /\ 0 \in 0..N /\ 0 \in 0..255 * 0
    BY SMT
  <2>4. Apart(w, 0, 0, vl, 0)
    BY <1>2 DEF Apart
  <2>5. RowTotal(entry, code, 0) \in 0..255 * 0
    BY <2>1, <2>3, Zenon
  <2>6. DotTo(bit, q, 4*0) = 0
    BY <2>2, <2>3, Zenon
  <2>7. Apart(w, RowTotal(entry, code, 0), 0, vl, DotTo(bit, q, 4*0))
    BY <2>1, <2>4, <2>6, Zenon
  <2> QED
    BY <1>4, <2>3, <2>5, <2>6, <2>7
<1>7. ASSUME NEW g \in 0..N - 1, g \in T PROVE g + 1 \in T
  <2>1. PICK j, e, y : /\ j = Nibble(code, g) /\ e = entry[g][j] /\ y = Selection(q, g, j)
    OBVIOUS
  <2>2. e \in 0..255 /\ y \in Int /\ Near(w, e, vl, y)
    BY <1>5, <2>1, Zenon
  <2>3. PICK t, x : t = RowTotal(entry, code, g) /\ x = DotTo(bit, q, 4*g)
    OBVIOUS
  <2>4. t \in 0..255 * g /\ x \in Int /\ Apart(w, t, g, vl, x)
    BY <1>4, <1>7, <2>3
  <2>5. DotTo(bit, q, 4*(g + 1)) = x + y
    <3>1. 4*(g + 1) = 4*g + 4
      OBVIOUS
    <3>2. DotTo(bit, q, 4*g + 4) = x + y
      BY <1>5, <2>1, <2>3, Zenon
    <3> QED
      BY <3>1, <3>2, Zenon
  <2>6. RowTotal(entry, code, g + 1) = t + e
    <3>1. g \in Nat /\ e \in Int
      BY <2>2
    <3>2. entry[g][Nibble(code, g)] = e
      BY <2>1, Zenon
    <3>3. RowTotal(entry, code, g + 1) = RowTotal(entry, code, g) + entry[g][Nibble(code, g)]
      BY <3>1, <3>2, RowTotalIs, Zenon
    <3> QED
      BY <2>3, <3>2, <3>3, Zenon
  <2>7. t \in Int /\ g \in Nat /\ e \in Int
    BY <2>2, <2>4
  <2>8. Apart(w, t + e, g + 1, vl, x + y)
    BY <1>2, <2>2, <2>4, <2>7, ApartStep
  <2>9. t + e \in 0..255 * (g + 1) /\ x + y \in Int
    BY <2>2, <2>4, <2>7
  <2>10. g + 1 \in 0..N
    BY <1>3
  <2>11. RowTotal(entry, code, g + 1) \in 0..255 * (g + 1)
    BY <2>6, <2>9, Zenon
  <2>12. DotTo(bit, q, 4*(g + 1)) \in Int
    BY <2>5, <2>9, Zenon
  <2>13. Apart(w, RowTotal(entry, code, g + 1), g + 1, vl, DotTo(bit, q, 4*(g + 1)))
    BY <2>5, <2>6, <2>8, Zenon
  <2> QED
    BY <1>4, <2>10, <2>11, <2>12, <2>13
<1>8. 0..N \subseteq T
  BY <1>3, <1>6, <1>7, UpTo
<1>9. n \in T
  BY <1>3, <1>8
<1>10. /\ RowTotal(entry, code, n) \in 0..255 * n
       /\ DotTo(bit, q, 4*n) \in Int
       /\ Apart(w, RowTotal(entry, code, n), n, vl, DotTo(bit, q, 4*n))
  BY <1>4, <1>9
<1> QED
  BY <1>1, <1>10, Zenon DEF RowsWithin

-----------------------------------------------------------------------------
(***************************************************************************)
(* What a query's distances rest on: the table is the query's own from     *)
(* when it is built, the sums are at all times those of the entries the    *)
(* columns scanned so far select, and an estimate is of those sums.        *)
(***************************************************************************)
Total(s) == RowTotal(lut.entry, ScanCode[s], 2 * col)
SumsOK ==
  InScan => \A s \in Slots : Total(s) \in Int /\ ScanSum[s] = Total(s) % 65536
LutOK ==
  InScan \/ (phase = "done" /\ input.n > 0) => lut = QueryLut(input.query, Dim)
EstimateOK == phase = "refine" => estimate = [s \in Slots |-> Estimated(s)]

\* Nothing scanned, nothing summed.
LEMMA FreshSums == (col = 0 /\ ScanSum = NoSums) => SumsOK
<1> SUFFICES ASSUME col = 0, ScanSum = NoSums, NEW s \in Slots
             PROVE  Total(s) \in Int /\ ScanSum[s] = Total(s) % 65536
  BY DEF SumsOK
<1>1. 2 * col = 0
  OBVIOUS
<1>2. Total(s) = 0
  BY <1>1, DotIs, Zenon DEF Total, RowTotal
<1>3. ScanSum[s] = 0
  BY DEF NoSums
<1> QED
  BY <1>2, <1>3

LEMMA FreshSumsNext == ((col = 0 /\ ScanSum = NoSums) => SumsOK)'
BY FreshSums, PTL

LEMMA ModAdd ==
  ASSUME NEW x \in Int, NEW p \in Int, NEW y, y = x % 65536
  PROVE  (y + p) % 65536 = (x + p) % 65536
<1>1. ((x % 65536) + p) % 65536 = (x + p) % 65536
  BY SMT
<1> QED
  BY <1>1

\* Two rows more.
LEMMA TotalStep ==
  ASSUME NEW entry, NEW code, NEW n \in Nat, RowTotal(entry, code, n) \in Int,
         entry[n][Nibble(code, n)] \in Int, entry[n + 1][Nibble(code, n + 1)] \in Int
  PROVE  /\ RowTotal(entry, code, n + 2) \in Int
         /\ RowTotal(entry, code, n + 2)
              = RowTotal(entry, code, n)
                  + (entry[n][Nibble(code, n)] + entry[n + 1][Nibble(code, n + 1)])
<1>1. PICK x, y : x = entry[n][Nibble(code, n)] /\ y = entry[n + 1][Nibble(code, n + 1)]
  OBVIOUS
<1>2. x \in Int /\ y \in Int
  BY <1>1
<1>3. n + 1 \in Nat /\ n + 1 + 1 = n + 2
  OBVIOUS
<1>4. PICK t, u : t = RowTotal(entry, code, n) /\ u = RowTotal(entry, code, n + 2)
  OBVIOUS
<1>5. RowTotal(entry, code, n + 1) = t + x
  BY <1>1, <1>4, RowTotalIs, Zenon
<1>6. u = (t + x) + y
  <2>1. RowTotal(entry, code, n + 1 + 1) = RowTotal(entry, code, n + 1) + y
    BY <1>1, <1>3, RowTotalIs, Zenon
  <2> QED
    BY <1>3, <1>4, <1>5, <2>1, Zenon
<1>7. t \in Int
  BY <1>4
<1>8. u \in Int /\ u = t + (x + y)
  BY ONLY <1>2, <1>6, <1>7, SMT
<1> QED
  BY <1>1, <1>4, <1>8, Zenon

\* What a byte of the code selects, added to a sum.
LEMMA ByteStep ==
  ASSUME IInv, phase = "scan", NEW s \in Slots, NEW c \in Nat, c < Columns,
         RowTotal(lut.entry, ScanCode[s], 2 * c) \in Int
  PROVE  /\ Abstract!Selected(s, c) \in Int
         /\ RowTotal(lut.entry, ScanCode[s], 2 * (c + 1)) \in Int
         /\ RowTotal(lut.entry, ScanCode[s], 2 * (c + 1))
              = RowTotal(lut.entry, ScanCode[s], 2 * c) + Abstract!Selected(s, c)
<1>1. Columns \in Nat /\ Dim \div 4 = 2 * Columns
  BY InputFacts DEF IInv
<1>2. PICK n \in Nat : n = 2 * c
  OBVIOUS
<1>3. n \in 0..(Dim \div 4) - 1 /\ n + 1 \in 0..(Dim \div 4) - 1 /\ 2 * (c + 1) = n + 2
  BY <1>1, <1>2
<1>4. Sel(s, n) \in Int /\ Sel(s, n + 1) \in Int
  BY <1>3, SelType
<1>5. Abstract!Selected(s, c) = Sel(s, n) + Sel(s, n + 1)
  BY <1>2, SelectedIs
<1>6. PICK entry, code : entry = lut.entry /\ code = ScanCode[s]
  OBVIOUS
<1>7. /\ Sel(s, n) = entry[n][Nibble(code, n)]
      /\ Sel(s, n + 1) = entry[n + 1][Nibble(code, n + 1)]
  BY <1>6 DEF Sel
<1>8. RowTotal(entry, code, n) \in Int
  BY <1>2, <1>6
<1>9. /\ entry[n][Nibble(code, n)] \in Int /\ entry[n + 1][Nibble(code, n + 1)] \in Int
  BY <1>4, <1>7, Zenon
<1>10. /\ RowTotal(entry, code, n + 2) \in Int
       /\ RowTotal(entry, code, n + 2)
            = RowTotal(entry, code, n)
                + (entry[n][Nibble(code, n)] + entry[n + 1][Nibble(code, n + 1)])
  BY <1>8, <1>9, TotalStep
<1>11. Abstract!Selected(s, c) \in Int
  BY <1>4, <1>5
<1> QED
  BY <1>2, <1>3, <1>5, <1>6, <1>7, <1>10, <1>11, Zenon

LEMMA SumsNext ==
  ASSUME IInv, SumsOK, [Next]_vars
  PROVE  SumsOK'
<1>1. [Abstract!Next]_(Abstract!vars)
  BY StepRefines
<1>2. ASSUME phase = "scan", phase' = "scan", Dim % 16 = 0, col < Columns,
             UNCHANGED <<input, b, lut>>, col' = col + 1
      PROVE  SumsOK'
  <2>0. col \in Nat
    BY <1>2, KernelFacts
  <2>1. Abstract!AddOne
    <3>1. col' # 0 /\ col' # col /\ col' # col + 2
      BY <1>2, <2>0
    <3> QED
      BY <1>1, <3>1
         DEF Abstract!Next, Abstract!vars, Abstract!Load, Abstract!AddTwo, Abstract!Finish
  <2>2. \A s \in Slots : ScanSum'[s] = (ScanSum[s] + Abstract!Selected(s, col)) % 65536
    BY <2>1 DEF Abstract!AddOne, Abstract!Slots, Slots
  <2>3. ScanCode' = ScanCode /\ lut' = lut
    BY <1>2, StaysLoaded
  <2>4. ASSUME NEW s \in Slots
        PROVE  Total(s)' \in Int /\ ScanSum'[s] = Total(s)' % 65536
    <3>1. Total(s) \in Int /\ ScanSum[s] = Total(s) % 65536
      BY <1>2 DEF SumsOK, InScan
    <3>2. PICK x, p : x = Total(s) /\ p = Abstract!Selected(s, col)
      OBVIOUS
    <3>3. /\ p \in Int
          /\ RowTotal(lut.entry, ScanCode[s], 2 * (col + 1)) \in Int
          /\ RowTotal(lut.entry, ScanCode[s], 2 * (col + 1)) = x + p
      BY <1>2, <2>0, <3>1, <3>2, ByteStep DEF Total
    <3>4. Total(s)' = RowTotal(lut.entry, ScanCode[s], 2 * (col + 1))
      BY <1>2, <2>3, Zenon DEF Total
    <3>5. PICK y : y = ScanSum[s]
      OBVIOUS
    <3>6. ScanSum'[s] = (y + p) % 65536
      BY <2>2, <3>2, <3>5
    <3>7. x \in Int /\ y = x % 65536
      BY <3>1, <3>2, <3>5
    <3>8. (y + p) % 65536 = (x + p) % 65536
      BY <3>3, <3>7, ModAdd
    <3>9. Total(s)' = x + p
      BY <3>3, <3>4, Zenon
    <3>10. Total(s)' \in Int
      BY <3>3, <3>4, Zenon
    <3> QED
      BY <3>6, <3>8, <3>9, <3>10
  <2> QED
    BY <2>4 DEF SumsOK
<1>3. ASSUME phase = "scan", phase' = "scan", Dim % 16 = 0, col < Columns,
             input.kernel = "avx512", UNCHANGED <<input, b, lut>>, col' = col + 2
      PROVE  SumsOK'
  <2>0. col \in Nat /\ col + 1 < Columns
    BY <1>3, KernelFacts
  <2>1. Abstract!AddTwo
    <3>1. col' # 0 /\ col' # col /\ col' # col + 1
      BY <1>3, <2>0
    <3> QED
      BY <1>1, <3>1
         DEF Abstract!Next, Abstract!vars, Abstract!Load, Abstract!AddOne, Abstract!Finish
  <2>2. \A s \in Slots : ScanSum'[s] = (ScanSum[s] + Abstract!Selected(s, col)
                                          + Abstract!Selected(s, col + 1)) % 65536
    BY <2>1 DEF Abstract!AddTwo, Abstract!Slots, Slots
  <2>3. ScanCode' = ScanCode /\ lut' = lut
    BY <1>3, StaysLoaded
  <2>4. ASSUME NEW s \in Slots
        PROVE  Total(s)' \in Int /\ ScanSum'[s] = Total(s)' % 65536
    <3>1. Total(s) \in Int /\ ScanSum[s] = Total(s) % 65536
      BY <1>3 DEF SumsOK, InScan
    <3>2. PICK x, p, r : /\ x = Total(s) /\ p = Abstract!Selected(s, col)
                         /\ r = Abstract!Selected(s, col + 1)
      OBVIOUS
    <3>3. /\ p \in Int
          /\ RowTotal(lut.entry, ScanCode[s], 2 * (col + 1)) \in Int
          /\ RowTotal(lut.entry, ScanCode[s], 2 * (col + 1)) = x + p
      BY <1>3, <2>0, <3>1, <3>2, ByteStep DEF Total
    <3>4. PICK c \in Nat : c = col + 1
      BY <2>0
    <3>5. /\ r \in Int
          /\ RowTotal(lut.entry, ScanCode[s], 2 * (c + 1)) \in Int
          /\ RowTotal(lut.entry, ScanCode[s], 2 * (c + 1)) = (x + p) + r
      <4>1. c < Columns /\ RowTotal(lut.entry, ScanCode[s], 2 * c) \in Int
        BY <2>0, <3>3, <3>4
      <4> QED
        BY <1>3, <3>2, <3>3, <3>4, <4>1, ByteStep
    <3>6. c + 1 = col + 2
      BY <2>0, <3>4
    <3>7. Total(s)' = (x + p) + r
      BY <1>3, <2>3, <3>5, <3>6, Zenon DEF Total
    <3>8. PICK y : y = ScanSum[s]
      OBVIOUS
    <3>9. ScanSum'[s] = (y + p + r) % 65536
      BY <2>2, <3>2, <3>8
    <3>10. x \in Int /\ y = x % 65536
      BY <3>1, <3>2, <3>8
    <3>11. /\ y \in Int /\ y + p + r = y + (p + r) /\ p + r \in Int
           /\ (x + p) + r = x + (p + r) /\ (x + p) + r \in Int
      BY <3>3, <3>5, <3>10
    <3>12. (y + (p + r)) % 65536 = (x + (p + r)) % 65536
      <4>1. PICK e : e = p + r
        OBVIOUS
      <4>2. x \in Int /\ e \in Int /\ y = x % 65536
        BY <3>10, <3>11, <4>1
      <4>3. (y + e) % 65536 = (x + e) % 65536
        BY <4>2, ModAdd
      <4> QED
        BY <4>1, <4>3
    <3> QED
      BY <3>7, <3>9, <3>11, <3>12
  <2> QED
    BY <2>4 DEF SumsOK
<1>4. ASSUME InScan, UNCHANGED <<input, b, lut, col>>, ScanSum' = ScanSum
      PROVE  SumsOK'
  <2>1. ScanCode' = ScanCode
    BY <1>4, StaysLoaded
  <2>2. \A s : Total(s)' = Total(s)
    BY <1>4, <2>1 DEF Total
  <2> QED
    BY <1>4, <2>2 DEF SumsOK
<1>5. CASE PackBatch
  BY <1>5 DEF PackBatch, SumsOK, InScan
<1>6. CASE BuildLut
  <2>1. Zeroed' /\ phase' # "estimate" /\ phase' # "refine"
    BY <1>6 DEF IInv, BuildLut, Zeroed, scanVars
  <2>2. Assembled' = NoSums
    BY <2>1, ZeroedNext
  <2>3. ScanSum' = NoSums /\ col' = 0
    BY <2>1, <2>2 DEF ScanSum, Zeroed
  <2> QED
    BY <2>3, FreshSumsNext
<1>7. CASE BuildLutHighAcc
  BY <1>7 DEF BuildLutHighAcc, SumsOK, InScan
<1>8. CASE AccumulateScalar
  BY <1>2, <1>8 DEF AccumulateScalar, Scanning
<1>9. CASE AccumulateAvx2
  BY <1>2, <1>9 DEF AccumulateAvx2, Scanning
<1>10. CASE AccumulateAvx512
  BY <1>3, <1>10 DEF AccumulateAvx512, Scanning
<1>11. CASE WrongDimension
  BY <1>11 DEF WrongDimension, SumsOK, InScan
<1>12. CASE Assemble
  BY <1>4, <1>12 DEF Assemble, ScanSum, InScan
<1>13. CASE Distances
  BY <1>4, <1>13 DEF Distances, ScanSum, InScan
<1>14. CASE Refine
  <2>1. Zeroed' /\ phase' # "estimate" /\ phase' # "refine"
    BY <1>14 DEF Refine, Zeroed
  <2>2. Assembled' = NoSums
    BY <2>1, ZeroedNext
  <2>3. ScanSum' = NoSums /\ col' = 0
    BY <2>1, <2>2 DEF ScanSum, Zeroed
  <2> QED
    BY <2>3, FreshSumsNext
<1>15. CASE UNCHANGED vars
  <2>1. ScanSum' = ScanSum /\ UNCHANGED <<input, b, lut, col>>
    BY <1>15 DEF vars, ScanSum, Assembled, Low
  <2>2. CASE InScan
    BY <1>4, <2>1, <2>2
  <2>3. CASE ~InScan
    BY <1>15, <2>3 DEF SumsOK, InScan, vars
  <2> QED
    BY <2>2, <2>3
<1> QED
  BY <1>5, <1>6, <1>7, <1>8, <1>9, <1>10, <1>11, <1>12, <1>13, <1>14, <1>15 DEF Next

LEMMA LutNext ==
  ASSUME IInv, LutOK, [Next]_vars
  PROVE  LutOK'
<1> USE DEF LutOK, InScan, Dim
<1>1. CASE PackBatch
  BY <1>1 DEF PackBatch
<1>2. CASE BuildLut
  BY <1>2 DEF BuildLut
<1>3. CASE BuildLutHighAcc
  BY <1>3 DEF BuildLutHighAcc
<1>4. CASE AccumulateScalar
  BY <1>4 DEF AccumulateScalar, Scanning
<1>5. CASE AccumulateAvx2
  BY <1>5 DEF AccumulateAvx2, Scanning
<1>6. CASE AccumulateAvx512
  BY <1>6 DEF AccumulateAvx512, Scanning
<1>7. CASE WrongDimension
  BY <1>7 DEF WrongDimension
<1>8. CASE Assemble
  BY <1>8 DEF Assemble
<1>9. CASE Distances
  BY <1>9 DEF Distances
<1>10. CASE Refine
  BY <1>10 DEF Refine
<1>11. CASE UNCHANGED vars
  BY <1>11 DEF vars
<1> QED
  BY <1>1, <1>2, <1>3, <1>4, <1>5, <1>6, <1>7, <1>8, <1>9, <1>10, <1>11 DEF Next

LEMMA EstimateNext ==
  ASSUME IInv, EstimateOK, [Next]_vars
  PROVE  EstimateOK'
<1> USE DEF EstimateOK
<1>1. CASE Distances
  <2>1. \A s : Estimated(s)' = Estimated(s)
    BY <1>1 DEF Distances, scanVars, Estimated, Ip, SumQuery, Dot, Dim
  <2> QED
    BY <1>1, <2>1 DEF Distances
<1>2. CASE UNCHANGED vars
  <2>1. \A s : Estimated(s)' = Estimated(s)
    BY <1>2 DEF vars, Estimated, Ip, SumQuery, Dot, Dim
  <2> QED
    BY <1>2, <2>1 DEF vars
<1>3. CASE phase' # "refine"
  BY <1>3
<1>4. Next => Distances \/ phase' # "refine"
  BY DEF Next, PackBatch, BuildLut, BuildLutHighAcc, AccumulateScalar, AccumulateAvx2,
         AccumulateAvx512, Scanning, WrongDimension, Assemble, Refine
<1> QED
  BY <1>1, <1>2, <1>3, <1>4

-----------------------------------------------------------------------------
(* From the sums to the distances. *)

LEMMA AbsType ==
  ASSUME NEW r \in Int
  PROVE  Abs(r) \in Nat /\ (Abs(r) = r \/ Abs(r) = -r)
BY DEF Abs

LEMMA AbsProduct ==
  ASSUME NEW r \in Int, NEW d \in Int, NEW m \in Nat, d <= m, -d <= m
  PROVE  Abs(r * d) <= Abs(r) * m
<1>1. PICK a \in Nat : a = Abs(r) /\ (a = r \/ a = -r)
  BY AbsType
<1>2. PICK i \in Nat, j \in Nat : i = m - d /\ j = m + d
  <2>1. m - d \in Nat /\ m + d \in Nat
    OBVIOUS
  <2> QED
    BY <2>1
<1>3. a * i \in Nat /\ a * j \in Nat /\ a * d \in Int /\ a * m \in Int
  BY SMT
<1>4. a * i = a * m - a * d /\ a * j = a * m + a * d
  BY <1>2, SMT
<1>5. a * d <= a * m /\ -(a * d) <= a * m
  BY <1>3, <1>4
<1>6. r * d = a * d \/ r * d = -(a * d)
  BY <1>1
<1>7. PICK p \in Int : p = r * d
  OBVIOUS
<1>8. Abs(p) <= a * m
  BY <1>3, <1>5, <1>6, <1>7 DEF Abs
<1> QED
  BY <1>1, <1>7, <1>8, Zenon

\* Half a product is in m of the exact one, 510 times as large.
Within(i, x, m) == 2*i - 510*x <= m /\ 510*x - 2*i <= m

\* The estimate: sq, the sum of the query, and the addends fall out.
EstimateWithin(n, r, i, x, sq, m) ==
  Abs((510 * n + r * (2 * i - 255 * sq)) - (510 * n + 255 * r * (2 * x - sq))) <= Abs(r) * m

LEMMA OneClose ==
  ASSUME NEW i \in Int, NEW x \in Int, NEW m \in Nat, Within(i, x, m), NEW r \in Int
  PROVE  \A n, sq \in Int : EstimateWithin(n, r, i, x, sq, m)
<1> SUFFICES ASSUME NEW n \in Int, NEW sq \in Int
             PROVE  Abs((510 * n + r * (2 * i - 255 * sq)) - (510 * n + 255 * r * (2 * x - sq)))
                      <= Abs(r) * m
  BY DEF EstimateWithin
<1>0. 2*i - 510*x <= m /\ 510*x - 2*i <= m
  BY DEF Within
<1>1. PICK d \in Int : d = 2*i - 510*x
  <2>1. 2*i - 510*x \in Int
    OBVIOUS
  <2> QED
    BY <2>1
<1>2. PICK e : e = (510 * n + r * (2 * i - 255 * sq)) - (510 * n + 255 * r * (2 * x - sq))
  OBVIOUS
<1>3. e = r * d
  <2>1. r * (2 * i - 255 * sq) = 2 * (r * i) - 255 * (r * sq)
    BY SMT
  <2>2. 255 * r * (2 * x - sq) = 510 * (r * x) - 255 * (r * sq)
    BY SMT
  <2>3. r * d = 2 * (r * i) - 510 * (r * x)
    BY <1>1, SMT
  <2>4. r * i \in Int /\ r * x \in Int /\ r * sq \in Int
    OBVIOUS
  <2> QED
    BY <1>2, <2>1, <2>2, <2>3, <2>4
<1>4. d <= m /\ -d <= m
  BY <1>0, <1>1
<1>5. Abs(r * d) <= Abs(r) * m
  BY <1>4, AbsProduct
<1> QED
  BY <1>2, <1>3, <1>5, ZenonT(40)

\* The refined distance: so does y, what the extended code brings.
RefinedWithin(n, r, c, i, x, y, k, m) ==
  Abs((510 * n + r * (2 * c * i + 510 * y - 255 * k))
        - (510 * n + 255 * r * (2 * y + 2 * c * x - k))) <= Abs(r) * c * m

LEMMA ExClose ==
  ASSUME NEW i \in Int, NEW x \in Int, NEW m \in Nat, Within(i, x, m),
         NEW r \in Int, NEW c \in Nat
  PROVE  \A n, y, k \in Int : RefinedWithin(n, r, c, i, x, y, k, m)
<1> SUFFICES ASSUME NEW n \in Int, NEW y \in Int, NEW k \in Int
             PROVE  Abs((510 * n + r * (2 * c * i + 510 * y - 255 * k))
                          - (510 * n + 255 * r * (2 * y + 2 * c * x - k)))
                      <= Abs(r) * c * m
  BY DEF RefinedWithin
<1>0. 2*i - 510*x <= m /\ 510*x - 2*i <= m
  BY DEF Within
<1>1. PICK d \in Int : d = 2*i - 510*x
  <2>1. 2*i - 510*x \in Int
    OBVIOUS
  <2> QED
    BY <2>1
<1>2. PICK e : e = (510 * n + r * (2 * c * i + 510 * y - 255 * k))
                     - (510 * n + 255 * r * (2 * y + 2 * c * x - k))
  OBVIOUS
<1>3. PICK ci \in Int, cx \in Int, cd \in Int, cm \in Nat :
        ci = c * i /\ cx = c * x /\ cd = c * d /\ cm = c * m
  <2>1. c * i \in Int /\ c * x \in Int /\ c * d \in Int /\ c * m \in Nat
    BY SMT
  <2> QED
    BY <2>1
<1>4. cd = 2*ci - 510*cx
  BY <1>1, <1>3, SMT
<1>5. e = r * cd
  <2>1. 2 * c * i = 2 * ci /\ 2 * c * x = 2 * cx
    BY <1>3, SMT
  <2>2. r * (2 * ci + 510 * y - 255 * k) = 2 * (r * ci) + 510 * (r * y) - 255 * (r * k)
    BY SMT
  <2>3. 255 * r * (2 * y + 2 * cx - k) = 510 * (r * y) + 510 * (r * cx) - 255 * (r * k)
    BY SMT
  <2>4. r * cd = 2 * (r * ci) - 510 * (r * cx)
    BY <1>4, SMT
  <2>5. r * ci \in Int /\ r * cx \in Int /\ r * y \in Int /\ r * k \in Int
    OBVIOUS
  <2>6. e = (510 * n + r * (2 * ci + 510 * y - 255 * k))
              - (510 * n + 255 * r * (2 * y + 2 * cx - k))
    BY <1>2, <2>1
  <2> QED
    BY <2>2, <2>3, <2>4, <2>5, <2>6
<1>6. cd <= cm /\ -cd <= cm
  <2>1. PICK u \in Nat, z \in Nat : u = m - d /\ z = m + d
    <3>1. m - d \in Nat /\ m + d \in Nat
      BY <1>0, <1>1
    <3> QED
      BY <3>1
  <2>2. c * u = cm - cd /\ c * z = cm + cd /\ c * u \in Nat /\ c * z \in Nat
    BY <1>3, <2>1, SMT
  <2> QED
    BY <2>2
<1>7. Abs(r * cd) <= Abs(r) * cm
  BY <1>6, AbsProduct
<1>8. Abs(r) * c * m = Abs(r) * cm
  BY <1>3, AbsType, SMT
<1>9. Abs(e) <= Abs(r) * c * m
  BY <1>5, <1>7, <1>8
<1> QED
  BY <1>2, <1>9

-----------------------------------------------------------------------------
(* The answers. *)

\* What DistancesClose says of an answer a for vector v.
Close(v, a) ==
  LET one == input.factors[v].one
      ex == input.factors[v].ex
      step == (Dim \div 4) * lut.width
      exactOne == 510 * (one.add + input.gAdd)
                    + 255 * one.rescale * (2 * ExactIp(v) - SumQuery)
      exactEx == 510 * (ex.add + input.gAdd) + 255 * ex.rescale * ExactTotal(v)
  IN /\ Abs(a.estimate - exactOne) <= Abs(one.rescale) * step
     /\ a.bound = a.estimate - 510 * one.error * input.gError
     /\ IF input.exBits = 0 THEN a.distance = a.estimate
        ELSE Abs(a.distance - exactEx) <= Abs(ex.rescale) * Scale * step
AnswersOK == NoWrap => \A v \in 0..Len(answer) - 1 : Close(v, answer[v + 1])
SlotAnswer(s) == [estimate |-> estimate[s].distance, bound |-> estimate[s].bound,
                  distance |-> Final(s)]

LEMMA FactorFacts ==
  ASSUME input \in Inputs, NEW v \in Vectors
  PROVE  /\ input.query \in [0..Dim - 1 -> Int] /\ input.gAdd \in Int /\ input.gError \in Int
         /\ input.factors[v].one.add \in Int /\ input.factors[v].one.rescale \in Int
         /\ input.factors[v].one.error \in Int
         /\ input.factors[v].ex.add \in Int /\ input.factors[v].ex.rescale \in Int
<1>1. /\ input.query \in [0..Dim - 1 -> Int] /\ input.gAdd \in Int /\ input.gError \in Int
      /\ input.factors \in [0..input.n - 1 -> [one : [add : Int, rescale : Int, error : Int],
                                              ex : [add : Int, rescale : Int]]]
  BY InputAssumption DEF Dim
<1>2. input.factors[v] \in [one : [add : Int, rescale : Int, error : Int],
                            ex : [add : Int, rescale : Int]]
  BY <1>1 DEF Vectors
<1> QED
  BY <1>1, <1>2

\* The sums of a batch that was scanned are those of the codes in its slots.
LEMMA SlotSum ==
  ASSUME IInv, SumsOK, LutOK, phase = "refine", NoWrap, NEW s \in Slots, 32 * b + s < input.n
  PROVE  /\ 32 * b + s \in Vectors
         /\ accu[s] = RowTotal(lut.entry, PackBinary(input.sign[32 * b + s], Dim), Dim \div 4)
         /\ Apart(lut.width, accu[s], Dim \div 4, lut.vl, ExactIp(32 * b + s))
         /\ accu[s] \in Nat /\ ExactIp(32 * b + s) \in Int
<1>1. /\ input \in Inputs /\ b \in Nat /\ Dim \in Nat /\ Dim % 8 = 0 /\ input.n \in Nat
      /\ Columns \in Nat /\ Dim \div 4 = 2 * Columns /\ col = Columns
  BY InputFacts DEF IInv
<1>2. PICK v : v = 32 * b + s
  OBVIOUS
<1>3. v \in Vectors
  BY <1>1, <1>2 DEF Vectors, Slots
<1>4. PICK sign \in [0..Dim - 1 -> 0..1] : sign = input.sign[v]
  BY <1>1, <1>3, InputFacts
<1>5. PICK q \in [0..Dim - 1 -> Int] : q = input.query
  BY <1>1, <1>3, FactorFacts
<1>6. PICK l : l = lut
  OBVIOUS
<1>7. l = QueryLut(q, Dim)
  BY <1>5, <1>6 DEF LutOK, InScan
<1>8. PICK G \in Nat : G = Dim \div 4 /\ 4*G = Dim /\ 2 * col = G
  <2>1. Dim \div 4 \in Nat /\ 4 * (Dim \div 4) = Dim /\ 2 * col = Dim \div 4
    BY <1>1, SMT
  <2> QED
    BY <2>1
<1>9. PICK t, x : t = RowTotal(l.entry, PackBinary(sign, Dim), G) /\ x = DotTo(sign, q, 4*G)
  OBVIOUS
<1>10. t \in 0..255 * G /\ x \in Int /\ Apart(l.width, t, G, l.vl, x)
  <2>1. PICK dim \in Nat : dim = Dim /\ dim % 8 = 0
    BY <1>1
  <2>2. G \in 0..dim \div 4
    BY <1>8, <2>1
  <2>3. sign \in [0..dim - 1 -> 0..1] /\ q \in [0..dim - 1 -> Int] /\ l = QueryLut(q, dim)
    BY <1>4, <1>5, <1>7, <2>1
  <2>4. RowsWithin(l, dim, sign, q, G)
    BY ONLY <2>1, <2>2, <2>3, RowClose
  <2> QED
    BY <1>9, <2>1, <2>4, Zenon DEF RowsWithin
<1>11. ScanCode[s] = PackBinary(sign, Dim)
  <2>1. Filled(b, s)
    BY DEF Filled
  <2> QED
    BY <1>2, <1>4, <2>1 DEF ScanCode, SlotCode
<1>12. accu[s] = t
  <2>1. Total(s) = t
    BY <1>6, <1>8, <1>9, <1>11, Zenon DEF Total
  <2>2. accu[s] = t % 65536
    BY <2>1 DEF SumsOK, InScan, ScanSum
  <2>3. 255 * G < 65536
    BY <1>8 DEF NoWrap
  <2>4. t % 65536 = t
    BY <1>10, <2>3, SMT
  <2> QED
    BY <2>2, <2>4
<1>13. ExactIp(v) = x
  BY <1>4, <1>5, <1>8, <1>9, DotDim, Zenon DEF ExactIp
<1>14. t \in Nat
  BY <1>10
<1> QED
  BY <1>2, <1>3, <1>4, <1>6, <1>8, <1>9, <1>10, <1>12, <1>13, <1>14, Zenon

\* The product with the whole code, from those with its two parts.
LEMMA ExactTotalIs ==
  ASSUME input \in Inputs, NEW v \in Vectors
  PROVE  /\ Scale \in Nat /\ SumQuery \in Int /\ Dot(input.ex[v]) \in Int
         /\ ExactTotal(v) = 2 * Dot(input.ex[v]) + 2 * Scale * ExactIp(v)
                              - (2 * Scale - 1) * SumQuery
<1>1. Dim \in Nat /\ input.exBits \in 0..8
  BY InputFacts, ExFacts
<1>2. PICK q \in [0..Dim - 1 -> Int] : q = input.query
  BY FactorFacts
<1>3. PICK sign \in [0..Dim - 1 -> 0..1] : sign = input.sign[v]
  BY InputFacts
<1>4. PICK c \in Nat : c = Scale
  <2>1. PICK e \in 0..8 : e = input.exBits
    BY <1>1
  <2>2. 2^e \in 1..256
    BY PowerType
  <2>3. 2^e \in Nat
    BY <2>2
  <2> QED
    BY <2>1, <2>3 DEF Scale
<1>5. PICK a \in [0..Dim - 1 -> Nat] : a = input.ex[v]
  <2>1. PICK w \in Nat : w = 2^input.exBits
    BY <1>4 DEF Scale
  <2>2. input.ex[v] \in [0..Dim - 1 -> 0..w - 1]
    BY <2>1, ExFacts, Zenon
  <2>3. \A i \in 0..w - 1 : i \in Nat
    OBVIOUS
  <2>4. input.ex[v] \in [0..Dim - 1 -> Nat]
    BY <2>2, <2>3
  <2> QED
    BY <2>4
<1>6. PICK ones : ones = [i \in 0..Dim - 1 |-> 1]
  OBVIOUS
<1>7. PICK h : h = [i \in 0..Dim - 1 |-> 2 * TotalCode(v)[i] - (2 * Scale - 1)]
  OBVIOUS
<1>8. PICK t \in Int : t = 2 * c - 1
  <2>1. 2 * c - 1 \in Int
    OBVIOUS
  <2> QED
    BY <2>1
<1>9. \A i \in 0..Dim - 1 : /\ a[i] \in Int /\ sign[i] \in Int /\ q[i] \in Int /\ ones[i] = 1
                            /\ h[i] = 2 * (a[i] + c * sign[i]) - t
  <2>1. ASSUME NEW i \in 0..Dim - 1
        PROVE  h[i] = 2 * (a[i] + c * sign[i]) - t
    <3>1. TotalCode(v)[i] = a[i] + c * sign[i]
      BY <1>3, <1>4, <1>5 DEF TotalCode
    <3>2. h[i] = 2 * TotalCode(v)[i] - (2 * Scale - 1)
      BY <1>7
    <3> QED
      BY <1>4, <1>8, <3>1, <3>2
  <2> QED
    BY <1>6, <2>1
<1>10. DotTo(h, q, Dim) = 2 * DotTo(a, q, Dim) + 2 * c * DotTo(sign, q, Dim)
                            - t * DotTo(ones, q, Dim)
  <2>1. c \in Int
    OBVIOUS
  <2>2. Combined(a, sign, ones, h, q, Dim, c, t)
    BY <1>9 DEF Combined
  <2>3. SumCombined(a, sign, ones, h, q, Dim, c, t)
    BY <1>1, <2>1, <2>2, DotLinear
  <2> QED
    BY <2>3, Zenon DEF SumCombined
<1>11. Dim \in 0..Dim
  BY <1>1
<1>12. DotTo(a, q, Dim) \in Int /\ DotTo(ones, q, Dim) \in Int
  <2>1. \A i \in 0..Dim - 1 : a[i] \in Int /\ ones[i] \in Int /\ q[i] \in Int
    BY <1>6, <1>9
  <2>2. DotTo(a, q, Dim) \in Int
    BY <1>1, <1>11, <2>1, DotType
  <2>3. DotTo(ones, q, Dim) \in Int
    BY <1>1, <1>11, <2>1, DotType
  <2> QED
    BY <2>2, <2>3
<1>13. ExactTotal(v) = DotTo(h, q, Dim)
  BY <1>2, <1>7, DotDim, Zenon DEF ExactTotal
<1>14. ExactIp(v) = DotTo(sign, q, Dim)
  BY <1>2, <1>3, DotDim, Zenon DEF ExactIp
<1>15. SumQuery = DotTo(ones, q, Dim)
  BY <1>2, <1>6, DotDim, Zenon DEF SumQuery
<1>16. Dot(input.ex[v]) = DotTo(a, q, Dim)
  BY <1>2, <1>5, DotDim, Zenon
<1> QED
  BY <1>4, <1>8, <1>10, <1>12, <1>13, <1>14, <1>15, <1>16, Zenon

\* A slot of a batch done is answered with the distance of its own vector.
LEMMA SlotClose ==
  ASSUME IInv, CodesOK, SumsOK, LutOK, EstimateOK, phase = "refine", NoWrap,
         NEW s \in Slots, 32 * b + s < input.n
  PROVE  Close(32 * b + s, SlotAnswer(s))
<1>1. /\ input \in Inputs /\ b \in Nat /\ Dim \in Nat /\ Dim % 8 = 0 /\ Dim % 16 = 0
      /\ input.n \in Nat
  BY InputFacts DEF IInv
<1>2. PICK v : v = 32 * b + s
  OBVIOUS
<1>3. v \in Vectors
  BY <1>2, SlotSum
<1>4. PICK x \in Int : x = ExactIp(v)
  BY <1>2, SlotSum
<1>5. PICK t \in Nat : t = accu[s]
  BY SlotSum
<1>6. PICK G \in Nat, w \in Nat, vl \in Int : G = Dim \div 4 /\ w = lut.width /\ vl = lut.vl
  <2>1. Dim \div 4 \in Nat
    BY <1>1, SMT
  <2>2. lut = QueryLut(input.query, Dim)
    BY DEF LutOK, InScan
  <2>3. lut.width \in Nat /\ lut.vl \in Int
    BY <1>1, <1>3, <2>2, FactorFacts, QueryLutIs
  <2> QED
    BY <2>1, <2>3
<1>7. Apart(w, t, G, vl, x)
  BY <1>2, <1>4, <1>5, <1>6, SlotSum, Zenon
<1>8. PICK i \in Int, m \in Nat : i = w * t + 255 * G * vl /\ m = G * w
  <2>1. w * t + 255 * G * vl \in Int /\ G * w \in Nat
    BY SMT
  <2> QED
    BY <2>1
<1>9. Within(i, x, m)
  <2>1. PICK p \in Int, r \in Int : p = w * t /\ r = G * vl
    <3>1. w * t \in Int /\ G * vl \in Int
      BY SMT
    <3> QED
      BY <3>1
  <2>2. 2 * w * t = 2 * p /\ 510 * G * vl = 510 * r /\ 255 * G * vl = 255 * r
    BY <2>1, SMT
  <2>3. i = p + 255 * r
    BY <1>8, <2>1, <2>2
  <2>4. 2 * p + 510 * r - 510 * x <= m /\ 510 * x - 510 * r - 2 * p <= m
    BY <1>7, <1>8, <2>2 DEF Apart
  <2> QED
    BY <2>3, <2>4 DEF Within
<1>10. PICK one : one = input.factors[v].one
  OBVIOUS
<1>11. PICK ex : ex = input.factors[v].ex
  OBVIOUS
<1>12. /\ one.add \in Int /\ one.rescale \in Int /\ one.error \in Int
       /\ ex.add \in Int /\ ex.rescale \in Int /\ input.gAdd \in Int /\ input.gError \in Int
  BY <1>1, <1>3, <1>10, <1>11, FactorFacts
<1>13. batches[b + 1].factors[s] = one
  <2>1. b + 1 \in 1..Len(batches) /\ b + 1 - 1 = b
    <3>1. input.n <= 32 * Len(batches) /\ Len(batches) \in Nat
      BY LenProperties DEF IInv, Packed
    <3> QED
      BY <1>1, <3>1 DEF Slots
  <2>2. batches[b + 1] = PackedBatch(b)
    BY <2>1 DEF IInv, Packed
  <2>3. Filled(b, s)
    BY DEF Filled
  <2> QED
    BY <1>2, <1>10, <2>2, <2>3 DEF PackedBatch, SlotFactors
<1>14. PICK sq \in Int, y \in Int, c \in Nat :
         sq = SumQuery /\ y = Dot(input.ex[v]) /\ c = Scale
  BY <1>1, <1>3, ExactTotalIs
<1>15. Ip(s) = i
  BY <1>5, <1>6, <1>8, Zenon DEF Ip
<1>16. estimate[s] = Estimated(s)
  BY DEF EstimateOK
<1>17. PICK n \in Int : n = one.add + input.gAdd
  <2>1. one.add + input.gAdd \in Int
    BY <1>12
  <2> QED
    BY <2>1
<1>18. /\ estimate[s].ip = i
       /\ estimate[s].distance = 510 * n + one.rescale * (2 * i - 255 * sq)
       /\ estimate[s].bound = estimate[s].distance - 510 * one.error * input.gError
  BY <1>13, <1>14, <1>15, <1>16, <1>17 DEF Estimated
<1>19. PICK a : a = SlotAnswer(s)
  OBVIOUS
<1>20. /\ a.estimate = estimate[s].distance /\ a.bound = estimate[s].bound
       /\ a.distance = Final(s)
  BY <1>19 DEF SlotAnswer
<1>21. PICK exactOne : exactOne = 510 * n + 255 * one.rescale * (2 * x - sq)
  OBVIOUS
<1>22. Abs(a.estimate - exactOne) <= Abs(one.rescale) * m
  <2>1. PICK r \in Int : r = one.rescale
    BY <1>12
  <2>2. Abs((510 * n + r * (2 * i - 255 * sq)) - (510 * n + 255 * r * (2 * x - sq)))
          <= Abs(r) * m
    BY <1>9, OneClose DEF EstimateWithin
  <2>3. a.estimate = 510 * n + r * (2 * i - 255 * sq)
    BY <1>18, <1>20, <2>1, ZenonT(40)
  <2>4. exactOne = 510 * n + 255 * r * (2 * x - sq)
    BY <1>21, <2>1, Zenon
  <2>5. Abs(a.estimate - exactOne) <= Abs(r) * m
    BY <2>2, <2>3, <2>4
  <2> QED
    BY <2>1, <2>5, Zenon
<1>23. PICK k \in Int : k = (2 * c - 1) * sq
  <2>1. (2 * c - 1) * sq \in Int
    OBVIOUS
  <2> QED
    BY <2>1
<1>24. PICK o \in Int : o = ex.add + input.gAdd
  <2>1. ex.add + input.gAdd \in Int
    BY <1>12
  <2> QED
    BY <2>1
<1>25. PICK exactEx : exactEx = 510 * o + 255 * ex.rescale * ExactTotal(v)
  OBVIOUS
<1>26. ExactTotal(v) = 2 * y + 2 * c * x - k
  BY <1>1, <1>3, <1>4, <1>14, <1>23, ExactTotalIs, Zenon
<1>27. input.exBits # 0 => Abs(a.distance - exactEx) <= Abs(ex.rescale) * c * m
  <2> SUFFICES ASSUME input.exBits # 0
               PROVE  Abs(a.distance - exactEx) <= Abs(ex.rescale) * c * m
    OBVIOUS
  <2>1. input.exBits > 0
    BY <1>1, ExFacts
  <2>2. UnpackEx(exCodes[v + 1], Dim, input.exBits) = input.ex[v]
    BY <1>1, <1>3, KeptExIs
  <2>3. Final(s) = Refined(s)
    BY <2>1 DEF Final
  <2>4. PICK r \in Int : r = ex.rescale
    BY <1>12
  <2>5. Refined(s) = 510 * o + r * (2 * c * i + 510 * y - 255 * k)
    <3>1. Refined(s) = 510 * (ex.add + input.gAdd)
                         + ex.rescale * (2 * Scale * estimate[s].ip
                                          + 510 * Dot(UnpackEx(exCodes[v + 1], Dim, input.exBits))
                                          - 255 * ((2 * Scale - 1) * SumQuery))
      BY <1>2, <1>11, ZenonT(40) DEF Refined
    <3>2. /\ ex.add + input.gAdd = o /\ ex.rescale = r /\ Scale = c /\ estimate[s].ip = i
          /\ Dot(UnpackEx(exCodes[v + 1], Dim, input.exBits)) = y
          /\ SumQuery = sq
      BY <1>14, <1>18, <1>24, <2>2, <2>4, Zenon
    <3>3. (2 * Scale - 1) * SumQuery = k
      BY <1>23, <3>2, Zenon
    <3> QED
      BY <3>1, <3>2, <3>3, ZenonT(40)
  <2>6. Abs((510 * o + r * (2 * c * i + 510 * y - 255 * k))
              - (510 * o + 255 * r * (2 * y + 2 * c * x - k))) <= Abs(r) * c * m
    BY <1>9, ExClose DEF RefinedWithin
  <2>7. a.distance = 510 * o + r * (2 * c * i + 510 * y - 255 * k)
    BY <1>20, <2>3, <2>5, ZenonT(40)
  <2>8. exactEx = 510 * o + 255 * r * (2 * y + 2 * c * x - k)
    BY <1>25, <1>26, <2>4, Zenon
  <2>9. Abs(a.distance - exactEx) <= Abs(r) * c * m
    BY <2>6, <2>7, <2>8
  <2> QED
    BY <2>4, <2>9, Zenon
<1>28. input.exBits = 0 => a.distance = a.estimate
  BY <1>20 DEF Final
<1>29. a.bound = a.estimate - 510 * one.error * input.gError
  BY <1>18, <1>20, ZenonT(40)
<1>30. Close(v, a)
  <2>1. exactOne = 510 * (one.add + input.gAdd) + 255 * one.rescale * (2 * ExactIp(v) - SumQuery)
    BY <1>4, <1>14, <1>17, <1>21, Zenon
  <2>2. exactEx = 510 * (ex.add + input.gAdd) + 255 * ex.rescale * ExactTotal(v)
    BY <1>24, <1>25, Zenon
  <2>3. m = (Dim \div 4) * lut.width
    BY <1>6, <1>8, Zenon
  <2>4. IF input.exBits = 0 THEN a.distance = a.estimate
        ELSE Abs(a.distance - exactEx) <= Abs(ex.rescale) * Scale * m
    BY <1>14, <1>27, <1>28, Zenon
  <2>5. Abs(a.estimate - exactOne) <= Abs(one.rescale) * m
    BY <1>22
  <2> QED
    BY <1>10, <1>11, <1>29, <2>1, <2>2, <2>3, <2>4, <2>5 DEF Close
<1> QED
  BY <1>2, <1>19, <1>30, Zenon

LEMMA AnswersNext ==
  ASSUME IInv, CodesOK, SumsOK, LutOK, EstimateOK, AnswersOK, [Next]_vars
  PROVE  AnswersOK'
<1>0. input \in Inputs /\ input.n \in Nat /\ b \in Nat /\ Answers
  BY InputFacts DEF IInv
<1>1. ASSUME UNCHANGED <<input, lut>>
      PROVE  (\A v, a : Close(v, a)' = Close(v, a)) /\ NoWrap' = NoWrap
  BY <1>1 DEF Close, ExactIp, ExactTotal, SumQuery, Dot, TotalCode, Scale, Dim, NoWrap
<1>2. ASSUME UNCHANGED <<input, lut, answer>>
      PROVE  AnswersOK'
  BY <1>1, <1>2 DEF AnswersOK
<1>3. CASE PackBatch
  BY <1>2, <1>3 DEF PackBatch
<1>4. CASE BuildLut
  <2>1. b = 0 /\ answer' = answer
    BY <1>4 DEF BuildLut, IInv
  <2>2. Len(answer) = 0
    BY <1>0, <2>1 DEF Answers
  <2>3. Len(answer') = 0
    BY <2>1, <2>2
  <2> QED
    BY <2>3 DEF AnswersOK
<1>5. CASE BuildLutHighAcc
  BY <1>2, <1>5 DEF BuildLutHighAcc
<1>6. CASE AccumulateScalar
  BY <1>2, <1>6 DEF AccumulateScalar, Scanning
<1>7. CASE AccumulateAvx2
  BY <1>2, <1>7 DEF AccumulateAvx2, Scanning
<1>8. CASE AccumulateAvx512
  BY <1>2, <1>8 DEF AccumulateAvx512, Scanning
<1>9. CASE WrongDimension
  BY <1>2, <1>9 DEF WrongDimension
<1>10. CASE Assemble
  BY <1>2, <1>10 DEF Assemble
<1>11. CASE Distances
  BY <1>2, <1>11 DEF Distances
<1>12. CASE Refine
  <2>1. /\ phase = "refine" /\ UNCHANGED <<input, lut>> /\ 32 * b < input.n
    BY <1>12 DEF Refine, IInv, InScan
  <2>2. PICK m \in Nat : m = Actual(b)
    <3>1. Actual(b) \in Nat
      BY <1>0, <2>1 DEF Actual
    <3> QED
      BY <3>1
  <2>3. m <= 32 /\ 32 * b + m <= input.n
    BY <1>0, <2>1, <2>2 DEF Actual
  <2>4. PICK r : r = [i \in 1..m |-> SlotAnswer(i - 1)]
    OBVIOUS
  <2>5. answer' = answer \o r
    BY <1>12, <2>2, <2>4 DEF Refine, SlotAnswer
  <2>6. PICK S : answer \in Seq(S)
    BY <1>0 DEF Answers
  <2>7. PICK l \in Nat : l = Len(answer) /\ l = 32 * b
    <3>1. Len(answer) = 32 * b /\ 32 * b \in Nat
      BY <1>0, <2>1 DEF Answers
    <3> QED
      BY <3>1
  <2>8. PICK T : T = {r[i] : i \in 1..m}
    OBVIOUS
  <2>9. r \in [1..m -> T]
    BY <2>4, <2>8
  <2>10. Len(answer') = l + m
    <3>1. Len(answer \o r) = Len(answer) + m
      BY <2>6, <2>9, Lengthened
    <3> QED
      BY <2>5, <2>7, <3>1
  <2>11. \A i \in 1..l + m : answer'[i] = IF i <= l THEN answer[i] ELSE r[i - l]
    <3>1. \A i \in 1..Len(answer) + m :
            (answer \o r)[i] = IF i <= Len(answer) THEN answer[i] ELSE r[i - Len(answer)]
      BY <2>6, <2>9, LengthenedAt
    <3> QED
      BY <2>5, <2>7, <3>1
  <2>12. ASSUME NoWrap, NEW v \in 0..l + m - 1
         PROVE  Close(v, answer'[v + 1])
    <3>1. CASE v < l
      <4>1. v \in 0..Len(answer) - 1 /\ v + 1 \in 1..l + m /\ v + 1 <= l
        BY <2>7, <3>1
      <4>2. answer'[v + 1] = answer[v + 1]
        BY <2>11, <4>1
      <4>3. Close(v, answer[v + 1])
        BY <2>12, <4>1 DEF AnswersOK
      <4> QED
        BY <4>2, <4>3, Zenon
    <3>2. CASE ~(v < l)
      <4>1. PICK i \in 1..m : i = v + 1 - l
        BY <3>2
      <4>2. PICK s \in Slots : s = i - 1
        BY <2>3, <4>1 DEF Slots
      <4>3. v = 32 * b + s /\ v < input.n
        <5>1. i = v + 1 - l /\ s = i - 1 /\ l = 32 * b /\ v \in Int /\ i <= m
          BY <2>7, <4>1, <4>2
        <5>2. v = 32 * b + s
          BY <1>0, <4>1, <5>1
        <5> QED
          BY <1>0, <2>3, <5>1, <5>2
      <4>4. answer'[v + 1] = SlotAnswer(s)
        <5>1. v + 1 \in 1..l + m /\ ~(v + 1 <= l)
          BY <3>2
        <5>2. answer'[v + 1] = r[v + 1 - l]
          BY <2>11, <5>1
        <5>3. r[i] = SlotAnswer(s)
          BY <2>4, <4>2
        <5> QED
          BY <4>1, <5>2, <5>3, Zenon
      <4>5. Close(32 * b + s, SlotAnswer(s))
        BY <2>1, <2>12, <4>3, SlotClose
      <4> QED
        BY <4>3, <4>4, <4>5, Zenon
    <3> QED
      BY <3>1, <3>2
  <2>13. (\A v, a : Close(v, a)' = Close(v, a)) /\ NoWrap' = NoWrap
    BY <1>1, <2>1
  <2>14. NoWrap' => \A v \in 0..Len(answer') - 1 : Close(v, answer'[v + 1])
    BY <2>10, <2>12, <2>13
  <2>15. ASSUME NoWrap', NEW v \in 0..Len(answer') - 1
         PROVE  Close(v, answer[v + 1])'
    <3>1. PICK a : a = answer'[v + 1]
      OBVIOUS
    <3>2. Close(v, a)
      BY <2>14, <2>15, <3>1
    <3>3. Close(v, a)'
      BY <2>13, <3>2
    <3> QED
      BY <3>1, <3>3 DEF Close
  <2> QED
    BY <2>15 DEF AnswersOK
<1>13. CASE UNCHANGED vars
  BY <1>2, <1>13 DEF vars
<1> QED
  BY <1>3, <1>4, <1>5, <1>6, <1>7, <1>8, <1>9, <1>10, <1>11, <1>12, <1>13 DEF Next

\* A query that is done has been through every batch.
Finished == phase = "done" => input.n <= 32 * b

LEMMA FinishedNext ==
  ASSUME IInv, Finished, [Next]_vars
  PROVE  Finished'
<1>0. input.n \in Nat /\ b \in Nat
  BY InputFacts DEF IInv
<1>1. CASE Refine
  BY <1>0, <1>1 DEF Refine, Finished
<1>2. CASE BuildLut
  BY <1>0, <1>2 DEF BuildLut, Finished
<1>3. CASE UNCHANGED vars
  BY <1>3 DEF vars, Finished
<1>4. Next => Refine \/ BuildLut \/ phase' # "done"
  BY DEF Next, PackBatch, BuildLutHighAcc, AccumulateScalar, AccumulateAvx2,
         AccumulateAvx512, Scanning, WrongDimension, Assemble, Distances
<1> QED
  BY <1>1, <1>2, <1>3, <1>4 DEF Finished

\* The invariant that the distances rest on.
DistancesOK == CodesOK /\ SumsOK /\ LutOK /\ EstimateOK /\ AnswersOK /\ Finished

LEMMA DistancesInvariance == Spec => [](IInv /\ DistancesOK)
<1>1. Init => IInv /\ DistancesOK
  <2> SUFFICES ASSUME Init PROVE DistancesOK
    BY InitInv
  <2>1. phase = "pack" /\ answer = <<>>
    BY DEF Init
  <2>2. Len(answer) = 0
    BY <2>1
  <2> QED
    BY <2>1, <2>2, CodesInit
       DEF DistancesOK, SumsOK, LutOK, EstimateOK, AnswersOK, InScan, Finished
<1>2. IInv /\ DistancesOK /\ [Next]_vars => (IInv /\ DistancesOK)'
  BY NextInv, CodesNext, SumsNext, LutNext, EstimateNext, AnswersNext,
     FinishedNext DEF DistancesOK
<1> QED
  BY <1>1, <1>2, PTL DEF Spec

\* Every distance is its own vector's, as near to the exact one as the rounding
\* of the table allows: for all indexes, queries, factors, widths and kernels.
THEOREM EveryDistanceClose == Spec => []DistancesClose
<1>1. IInv /\ DistancesOK => DistancesClose
  <2> SUFFICES ASSUME IInv, DistancesOK, phase = "done", NoWrap, NEW v \in Vectors
               PROVE  Close(v, answer[v + 1])
    BY DEF DistancesClose, Close
  <2>1. input.n \in Nat /\ input.n <= 32 * Len(batches) /\ Answers
    BY InputFacts DEF IInv
  <2>2. Len(answer) = input.n
    BY <2>1 DEF DistancesOK, Finished, Answers, IInv
  <2>3. v \in 0..Len(answer) - 1
    BY <2>2 DEF Vectors
  <2> QED
    BY <2>3 DEF DistancesOK, AnswersOK
<1> QED
  BY <1>1, DistancesInvariance, PTL
=============================================================================
