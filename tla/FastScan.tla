------------------------------ MODULE FastScan ------------------------------
(***************************************************************************)
(* A cluster's (or posting list's) vectors are packed in batches of 32;    *)
(* a query's table is built once; every batch is scanned with it, by the   *)
(* scalar loop or by the AVX2 or AVX-512 one, whichever the machine has;   *)
(* the sums become estimates and lower bounds, and the extended codes      *)
(* refine them.  What a search then does with the distances is IvfSearch   *)
(* and MstgSearch.                                                         *)
(*                                                                         *)
(* Queries and factors are integers.  A table is scaled by 255 / width, so *)
(* an inner product read from it is kept 255 times, and a distance 510     *)
(* times as large as it is.                                                *)
(***************************************************************************)
EXTENDS Integers, Sequences, FastScanLayout

CONSTANT Inputs    \* the indexes and queries considered: see InputAssumption

Halves == 0..1     \* the low and the high nibbles of a register
Lanes == 0..3      \* its 128-bit lanes; AVX2 has the first two
Words == 0..7      \* the 16-bit words of a lane
Kernels == {"scalar", "avx2", "avx512"}

\* A vector is the signs, the extended code and the factors quantization gave it.
ASSUME InputAssumption ==
  \A i \in Inputs :
    /\ i.index \in {"ivf", "mstg"} /\ i.kernel \in Kernels
    /\ i.dim \in Nat /\ i.dim % 8 = 0 /\ i.n \in Nat /\ i.exBits \in 0..8
    /\ i.query \in [0..i.dim - 1 -> Int] /\ i.gAdd \in Int /\ i.gError \in Int
    /\ i.sign \in [0..i.n - 1 -> [0..i.dim - 1 -> 0..1]]
    /\ i.ex \in [0..i.n - 1 -> [0..i.dim - 1 -> 0..2^i.exBits - 1]]
    /\ i.factors \in [0..i.n - 1 -> [one : [add : Int, rescale : Int, error : Int],
                                      ex : [add : Int, rescale : Int]]]

VARIABLES
  input,      \* what is indexed and asked
  phase,      \* "pack", "scan", "estimate", "refine", "done" or "panic"
  batches,    \* packed so far
  exCodes,    \* ex_codes_packed: of every vector, in order
  lut,        \* the query's table
  b,          \* the batch being scanned
  col,        \* the first byte of its codes not yet scanned
  sums,       \* scalar: by slot
  even, odd,  \* accu0 and accu2, accu1 and accu3: by half, lane and word
  accu,       \* the 32 results of the last scan
  estimate,   \* of the 32 slots: inner product, distance, lower bound
  answer      \* of every vector so far: estimate, bound, final distance

vars == <<input, phase, batches, exCodes, lut, b, col, sums, even, odd, accu,
          estimate, answer>>
scanVars == <<sums, even, odd>>

Dim == input.dim
Columns == Dim \div 8
Vectors == 0..input.n - 1
Scale == 2^input.exBits
TotalCode(v) == [i \in 0..Dim - 1 |-> input.ex[v][i] + Scale * input.sign[v][i]]
\* A sum over the dimensions, from the first on.
Dot(f) ==
  LET upTo[i \in 0..Dim] ==
        IF i = 0 THEN 0 ELSE upTo[i - 1] + f[i - 1] * input.query[i - 1]
  IN upTo[Dim]
SumQuery == Dot([i \in 0..Dim - 1 |-> 1])

Padding == [code |-> [c \in 0..Columns - 1 |-> 0],
            factors |-> [add |-> 0, rescale |-> 0, error |-> 0]]
\* What batch k has in slot s.
Filled(k, s) == 32 * k + s < input.n
SlotCode(k, s) ==
  IF Filled(k, s) THEN PackBinary(input.sign[32 * k + s], Dim) ELSE Padding.code
SlotFactors(k, s) ==
  IF Filled(k, s) THEN input.factors[32 * k + s].one ELSE Padding.factors
Actual(k) == IF input.n - 32 * k < 32 THEN input.n - 32 * k ELSE 32

NoSums == [s \in Slots |-> 0]
NoWords == [h \in Halves |-> [l \in Lanes |-> [m \in Words |-> 0]]]
NoEstimate == [s \in Slots |-> [ip |-> 0, distance |-> 0, bound |-> 0]]

Init ==
  /\ input \in Inputs
  /\ phase = "pack" /\ batches = <<>> /\ exCodes = <<>>
  /\ lut = [entry |-> <<>>, vl |-> 0, width |-> 0]
  /\ b = 0 /\ col = 0
  /\ sums = NoSums /\ even = NoWords /\ odd = NoWords /\ accu = NoSums
  /\ estimate = NoEstimate /\ answer = <<>>

-----------------------------------------------------------------------------
(***************************************************************************)
(* Packing.  The last batch is padded; an IVF cluster keeps no extended    *)
(* code of the padding, a posting list does, and an IVF cluster keeps none *)
(* of one-bit vectors, of which the quantizer made some all the same.      *)
(***************************************************************************)
KeptEx(v) ==
  IF v \notin Vectors \/ (input.index = "ivf" /\ input.exBits = 0) THEN <<>>
  ELSE PackEx(input.ex[v], Dim, input.exBits)
Kept(k) == IF input.index = "ivf" THEN Actual(k) ELSE 32

\* from_quantized_vectors, pack_batch: one batch.
PackedBatch(k) ==
  [codes |-> PackCodes([s \in Slots |-> SlotCode(k, s)], Dim),
   factors |-> [s \in Slots |-> SlotFactors(k, s)]]
PackBatch ==
  LET k == Len(batches) IN
  /\ phase = "pack" /\ 32 * k < input.n
  /\ batches' = Append(batches, PackedBatch(k))
  /\ exCodes' = exCodes \o [i \in 1..Kept(k) |-> KeptEx(32 * k + i - 1)]
  /\ UNCHANGED <<input, phase, lut, b, col, scanVars, accu, estimate, answer>>

\* build_lut: once per query.
BuildLut ==
  /\ phase = "pack" /\ 32 * Len(batches) >= input.n
  /\ Dim <= 2048
  /\ lut' = QueryLut(input.query, Dim)
  /\ phase' = IF input.n = 0 THEN "done" ELSE "scan"
  /\ UNCHANGED <<input, batches, exCodes, b, col, scanVars, accu, estimate, answer>>

\* QueryLutHighAcc::new, "used for high-dimensional data" (fastscan.rs:75): its
\* table is Dim \div 32 times as long as the one pack_lut_f32 asserts it is given,
\* and every query panics.
BuildLutHighAcc ==
  /\ phase = "pack" /\ 32 * Len(batches) >= input.n
  /\ Dim > 2048
  /\ phase' = "panic"
  /\ UNCHANGED <<input, batches, exCodes, lut, b, col, scanVars, accu, estimate, answer>>

-----------------------------------------------------------------------------
\* The rows of the table and the bytes of the batch that group g brings together.
Group(g) == batches[b + 1].codes[g]
Res(h, g, j) ==
  lut.entry[g][IF h = 0 THEN Group(g)[j] % 16 ELSE Group(g)[j] \div 16]

Scanning(kernel) ==
  /\ phase = "scan" /\ input.kernel = kernel
  /\ Dim % 16 = 0 /\ col < Columns

\* accumulate_batch_scalar: one byte of every code.
AccumulateScalar ==
  /\ Scanning("scalar")
  /\ sums' = [s \in Slots |->
       sums[s] + Res(s \div 16, 2 * col, SlotByte(s))
               + Res(s \div 16, 2 * col + 1, SlotByte(s))]
  /\ col' = col + 1
  /\ UNCHANGED <<input, phase, batches, exCodes, lut, b, even, odd, accu,
                 estimate, answer>>

\* What adding the sixteen looked-up bytes of a group does to a word of each
\* accumulator: the second byte counts 256 times in the first.
EvenPlus(h, l, m) ==
  LET g == 2 * col + l
  IN (even[h][l][m] + Res(h, g, 2*m) + 256 * Res(h, g, 2*m + 1)) % 65536
OddPlus(h, l, m) == (odd[h][l][m] + Res(h, 2 * col + l, 2*m + 1)) % 65536

\* accumulate_batch_avx2_impl: 32 bytes, the two groups of a byte, in two lanes.
AccumulateAvx2 ==
  /\ Scanning("avx2")
  /\ even' = [h \in Halves |-> [l \in Lanes |-> [m \in Words |->
                IF l < 2 THEN EvenPlus(h, l, m) ELSE even[h][l][m]]]]
  /\ odd' = [h \in Halves |-> [l \in Lanes |-> [m \in Words |->
                IF l < 2 THEN OddPlus(h, l, m) ELSE odd[h][l][m]]]]
  /\ col' = col + 1
  /\ UNCHANGED <<input, phase, batches, exCodes, lut, b, sums, accu, estimate, answer>>

\* accumulate_batch_avx512_impl: 64 bytes, the groups of two bytes, in four.
AccumulateAvx512 ==
  /\ Scanning("avx512")
  /\ even' = [h \in Halves |-> [l \in Lanes |-> [m \in Words |-> EvenPlus(h, l, m)]]]
  /\ odd' = [h \in Halves |-> [l \in Lanes |-> [m \in Words |-> OddPlus(h, l, m)]]]
  /\ col' = col + 2
  /\ UNCHANGED <<input, phase, batches, exCodes, lut, b, sums, accu, estimate, answer>>

\* accumulate_batch_avx2 asserts that the dimension is a multiple of 16.
WrongDimension ==
  /\ phase = "scan" /\ Dim % 16 # 0
  /\ phase' = "panic"
  /\ UNCHANGED <<input, batches, exCodes, lut, b, col, scanVars, accu, estimate, answer>>

\* The lanes of a word, added up; and the words of even without those of odd.
AddLanes(f) == (f[0] + f[1] + f[2] + f[3]) % 65536
Low(h, l, m) == (even[h][l][m] - 256 * odd[h][l][m]) % 65536

\* (Fault: the upper bytes are left in the even words.)
AssembledUncorrected ==
  [s \in Slots |->
     LET h == s \div 16
         m == s % 8
     IN IF input.kernel = "scalar" THEN sums[s] % 65536
        ELSE IF s % 16 < 8 THEN AddLanes([l \in Lanes |-> even[h][l][m]])
        ELSE AddLanes([l \in Lanes |-> odd[h][l][m]])]
\* What the accumulators come to: words 0..7 of a half are its even bytes,
\* vectors 0..7, and the odd ones vectors 8..15.
Assembled ==
  [s \in Slots |->
     LET h == s \div 16
         m == s % 8
     IN IF input.kernel = "scalar" THEN sums[s] % 65536
        ELSE IF s % 16 < 8 THEN AddLanes([l \in Lanes |-> Low(h, l, m)])
        ELSE AddLanes([l \in Lanes |-> odd[h][l][m]])]

Assemble ==
  /\ phase = "scan" /\ Dim % 16 = 0 /\ col >= Columns
  /\ accu' = Assembled
  /\ phase' = "estimate"
  /\ UNCHANGED <<input, batches, exCodes, lut, b, col, scanVars, estimate, answer>>

-----------------------------------------------------------------------------
\* 255 * (delta * accu + sum_vl), and 510 times the distance and its bound.
Ip(s) == lut.width * accu[s] + 255 * (Dim \div 4) * lut.vl
Estimated(s) ==
  LET f == batches[b + 1].factors[s]
      distance == 510 * (f.add + input.gAdd) + f.rescale * (2 * Ip(s) - 255 * SumQuery)
  IN [ip |-> Ip(s), distance |-> distance,
      bound |-> distance - 510 * f.error * input.gError]

\* compute_batch_distances_u16, of all 32 slots.
Distances ==
  /\ phase = "estimate"
  /\ estimate' = [s \in Slots |-> Estimated(s)]
  /\ phase' = "refine"
  /\ UNCHANGED <<input, batches, exCodes, lut, b, col, scanVars, accu, answer>>

\* refine_distance_with_ex of the vector in slot s, 510 times as large.
Refined(s) ==
  LET v == 32 * b + s
      f == input.factors[v].ex
      exDot == Dot(UnpackEx(exCodes[v + 1], Dim, input.exBits))
      kbx == (2 * Scale - 1) * SumQuery
  IN 510 * (f.add + input.gAdd)
       + f.rescale * (2 * Scale * estimate[s].ip + 510 * exDot - 255 * kbx)
Final(s) == IF input.exBits > 0 THEN Refined(s) ELSE estimate[s].distance

\* (Fault: the padding of the last batch is answered with.)
RefinePadding ==
  /\ phase = "refine"
  /\ answer' = answer \o [i \in 1..32 |->
       [estimate |-> estimate[i - 1].distance, bound |-> estimate[i - 1].bound,
        distance |-> IF i > Actual(b) THEN 0 ELSE Final(i - 1)]]
  /\ b' = b + 1 /\ col' = 0
  /\ sums' = NoSums /\ even' = NoWords /\ odd' = NoWords
  /\ phase' = IF 32 * (b + 1) < input.n THEN "scan" ELSE "done"
  /\ UNCHANGED <<input, batches, exCodes, lut, accu, estimate>>
\* The vectors of the batch, but not its padding; the next scan starts afresh.
Refine ==
  /\ phase = "refine"
  /\ answer' = answer \o [i \in 1..Actual(b) |->
       [estimate |-> estimate[i - 1].distance, bound |-> estimate[i - 1].bound,
        distance |-> Final(i - 1)]]
  /\ b' = b + 1 /\ col' = 0
  /\ sums' = NoSums /\ even' = NoWords /\ odd' = NoWords
  /\ phase' = IF 32 * (b + 1) < input.n THEN "scan" ELSE "done"
  /\ UNCHANGED <<input, batches, exCodes, lut, accu, estimate>>

Next ==
  \/ PackBatch \/ BuildLut \/ BuildLutHighAcc
  \/ AccumulateScalar \/ AccumulateAvx2 \/ AccumulateAvx512 \/ WrongDimension
  \/ Assemble \/ Distances \/ Refine

Spec == Init /\ [][Next]_vars

\* fetch_embedding: the code of vector v, from the batch and the extended code.
Fetched(v) ==
  LET packed == batches[v \div 32 + 1].codes
      bytes == UnpackBytes(packed, v % 32, Dim)
      ex == UnpackEx(exCodes[v + 1], Dim, input.exBits)
  IN [i \in 0..Dim - 1 |-> ex[i] + Scale * Bit(bytes, i)]

-----------------------------------------------------------------------------
Words16 == 0..65535
Registers == [Halves -> [Lanes -> [Words -> Words16]]]

\* Types; a batch is scanned in whole columns, and there is one answer for
\* each vector of the batches done, and none for the padding of the last.
TypeOK ==
  /\ phase \in {"pack", "scan", "estimate", "refine", "done", "panic"}
  /\ b \in Nat /\ col \in 0..Columns
  /\ sums \in [Slots -> Nat] /\ even \in Registers /\ odd \in Registers
  /\ accu \in [Slots -> Words16]
  /\ phase # "pack" => 32 * Len(batches) >= input.n
  /\ Len(answer) = IF 32 * b < input.n THEN 32 * b ELSE input.n

\* fetch_embedding gets back, from the packed batch and the packed extended
\* code, the very code the quantizer gave the vector: for every place in a
\* full or a partial batch, and every width of extended code.
CodesBack ==
  phase = "done" => \A v \in Vectors : Fetched(v) = TotalCode(v)

\* The inner products of the exact tables: with the sign bits, and with the
\* whole code centred on zero (twice as large).
ExactIp(v) == Dot(input.sign[v])
ExactTotal(v) == Dot([i \in 0..Dim - 1 |-> 2 * TotalCode(v)[i] - (2 * Scale - 1)])
Abs(x) == IF x < 0 THEN -x ELSE x
NoWrap == 255 * (Dim \div 4) < 65536

\* While the sums fit their 16 bits, a distance differs from the exact one of
\* the vector itself by no more than half a step of the table per row, times
\* the factor (and, refined, the scale) the inner product is multiplied with:
\* nothing is lost by packing, no slot gets the code, the factors or the
\* extended code of another, and the extended part adds no error of its own.
DistancesClose ==
  phase = "done" /\ NoWrap => \A v \in Vectors :
    LET one == input.factors[v].one
        ex == input.factors[v].ex
        step == (Dim \div 4) * lut.width
        exactOne == 510 * (one.add + input.gAdd)
                      + 255 * one.rescale * (2 * ExactIp(v) - SumQuery)
        exactEx == 510 * (ex.add + input.gAdd) + 255 * ex.rescale * ExactTotal(v)
    IN /\ Abs(answer[v + 1].estimate - exactOne) <= Abs(one.rescale) * step
       /\ answer[v + 1].bound = answer[v + 1].estimate - 510 * one.error * input.gError
       /\ IF input.exBits = 0 THEN answer[v + 1].distance = answer[v + 1].estimate
          ELSE Abs(answer[v + 1].distance - exactEx) <= Abs(ex.rescale) * Scale * step

\* Scalar, AVX2 and AVX-512 code all do what BatchScan promises: in 16 bits,
\* each slot's sum of the entries its own code selects, batch after batch.
ScanCode == [s \in Slots |-> SlotCode(b, s)]
ScanSum == IF phase \in {"estimate", "refine"} THEN accu ELSE Assembled
Abstract == INSTANCE BatchScan WITH
  code <- ScanCode, table <- lut.entry, length <- Columns, done <- col, sum <- ScanSum
Implements == Abstract!Spec
=============================================================================
