--------------------------- MODULE FastScanLayout ---------------------------
(***************************************************************************)
(* The data layouts of FastScan: binary codes packed 32 vectors at a time  *)
(* so that one shuffle looks up sixteen of them, and the tables of partial *)
(* inner products they index.  Everything counts from 0, as in the code.   *)
(*                                                                         *)
(* A packed batch is a function from groups to their sixteen bytes.  Group *)
(* g holds the four dimensions 4g .. 4g+3 of all 32 vectors, and table row *)
(* g is about the same four.  Queries are integers and a table entry is    *)
(* kept as the numerator it is rounded from: f32 rounding is left out.     *)
(***************************************************************************)
EXTENDS Integers, FiniteSetsExt

Slots == 0..31                 \* FASTSCAN_BATCH_SIZE vectors
Bytes == 0..255

\* KPERM0: byte j of a group holds vectors Kperm0[j] and Kperm0[j] + 16.
Kperm0 == [j \in 0..15 |-> j \div 2 + 8 * (j % 2)]

\* pack_binary_code: eight bits to the byte, the first one the highest.
PackBinary(bit, dim) ==
  [c \in 0..(dim \div 8) - 1 |->
     128 * bit[8*c] + 64 * bit[8*c + 1] + 32 * bit[8*c + 2] + 16 * bit[8*c + 3]
       + 8 * bit[8*c + 4] + 4 * bit[8*c + 5] + 2 * bit[8*c + 6] + bit[8*c + 7]]

\* The four bits of group g: the upper half of byte g \div 2, or the lower.
Nibble(bytes, g) ==
  IF g % 2 = 0 THEN bytes[g \div 2] \div 16 ELSE bytes[g \div 2] % 16

PackCodes(codes, dim) ==
  [g \in 0..(dim \div 4) - 1 |->
     [j \in 0..15 |-> Nibble(codes[Kperm0[j]], g) + 16 * Nibble(codes[Kperm0[j] + 16], g)]]

\* Of a group, the four bits of the vector in slot s.
SlotByte(s) == CHOOSE j \in 0..15 : Kperm0[j] = s % 16
SlotNibble(group, s) ==
  IF s < 16 THEN group[SlotByte(s)] % 16 ELSE group[SlotByte(s)] \div 16

\* unpack_single_vector: the bytes of the vector in slot s, and then its bits.
UnpackBytes(packed, s, dim) ==
  [c \in 0..(dim \div 8) - 1 |->
     16 * SlotNibble(packed[2*c], s) + SlotNibble(packed[2*c + 1], s)]
Bit(bytes, i) == (bytes[i \div 8] \div 2^(7 - (i % 8))) % 2

-----------------------------------------------------------------------------
\* KPOS and lowbit: entry j of a row is an earlier entry and one dimension.
Kpos == <<3, 3, 2, 3, 1, 3, 2, 3, 0, 3, 2, 3, 1, 3, 2, 3>>
Lowbit(j) == CHOOSE p \in {1, 2, 4, 8} : j % p = 0 /\ j % (2 * p) # 0

\* (Fault: the first dimension of four is taken for the lowest bit.)
LutRowReversed(query, g) ==
  LET entry[j \in 0..15] ==
        IF j = 0 THEN 0
        ELSE entry[j - Lowbit(j)] + query[4*g + (3 - Kpos[j + 1])]
  IN entry
\* pack_lut_f32: row g, by entry.
LutRow(query, g) ==
  LET entry[j \in 0..15] ==
        IF j = 0 THEN 0
        ELSE entry[j - Lowbit(j)] + query[4*g + Kpos[j + 1]]
  IN entry

\* round(255 (x - vl) / width), halves up, and the clamp to a byte.
Clamped(x) == IF x \in Bytes THEN x ELSE IF x > 255 THEN 255 ELSE 0
Quantized(x, vl, width) ==
  Clamped((2 * 255 * (x - vl) + width) \div (2 * width))

\* QueryLut::new.  vl is the least entry of all rows; delta is width / 255.
QueryLut(query, dim) ==
  LET groups == 0..(dim \div 4) - 1
      float == [g \in groups |-> LutRow(query, g)]
      values == IF dim = 0 THEN {0}      \* unwrap_or(0.0)
                ELSE UNION {{float[g][j] : j \in 0..15} : g \in groups}
      vl == Min(values)
      width == Max(values) - vl
  IN [entry |-> [g \in groups |->
                   [j \in 0..15 |-> IF width = 0 THEN 0
                                    ELSE Quantized(float[g][j], vl, width)]],
      vl |-> vl, width |-> width]

-----------------------------------------------------------------------------
(***************************************************************************)
(* The extended codes: exBits more bits per dimension, in bytes.  Widths 2 *)
(* and 6 interleave sixteen codes for the kernels that multiply them as    *)
(* they are packed; the others, and the one-bit format, are a stream of    *)
(* bits, lowest first.                                                     *)
(***************************************************************************)
\* Byte k of the stream of codes of width w.
StreamByte(code, w, k) ==
  LET bit(i) == (code[(8*k + i) \div w] \div 2^((8*k + i) % w)) % 2
  IN bit(0) + 2 * bit(1) + 4 * bit(2) + 8 * bit(3)
       + 16 * bit(4) + 32 * bit(5) + 64 * bit(6) + 128 * bit(7)

\* Four codes of two bits, four apart, share a byte.
Interleave2(code, first) ==
  (code[first] % 4) + 4 * (code[first + 4] % 4)
    + 16 * (code[first + 8] % 4) + 64 * (code[first + 12] % 4)
Block2(code, i) == Interleave2(code, 16 * (i \div 4) + (i % 4))

\* (Fault: the nibbles of width 6 are paired with their neighbours.)
Block6Neighbours(code, i) ==
  LET first == 16 * (i \div 12)
      k == i % 12
      high == [j \in DOMAIN code |-> code[j] \div 16]
  IN IF k < 8 THEN (code[first + 2*k] % 16) + 16 * (code[first + 2*k + 1] % 16)
     ELSE Interleave2(high, first + k - 8)

\* Twelve bytes: eight of low nibbles, eight codes apart, four of high bits.
Block6(code, i) ==
  LET first == 16 * (i \div 12)
      k == i % 12
      high == [j \in DOMAIN code |-> code[j] \div 16]
  IN IF k < 8 THEN (code[first + k] % 16) + 16 * (code[first + k + 8] % 16)
     ELSE Interleave2(high, first + k - 8)

\* The bytes quantize_with_centroid allocates: width 0 gets some as well.
ExSize(dim, w) ==
  CASE w \in {0, 1} -> (dim \div 16) * 2
    [] w = 2 -> (dim \div 16) * 4
    [] w = 6 -> (dim \div 16) * 12
    [] OTHER -> (dim * w + 7) \div 8

\* For rows of a multiple of 16; others do not get here with a width packed in blocks,
\* for training panics (RabitqFiles).
PackEx(code, dim, w) ==
  [i \in 0..ExSize(dim, w) - 1 |->
     CASE w = 0 -> 0
       [] w = 2 -> Block2(code, i)
       [] w = 6 -> Block6(code, i)
       [] OTHER -> StreamByte(code, w, i)]

\* One code of a stream: it lies in two bytes at most.
StreamCode(packed, w, i) ==
  LET p == i * w
      k == p \div 8
      next == IF k + 1 \in DOMAIN packed THEN packed[k + 1] ELSE 0
  IN ((packed[k] + 256 * next) \div 2^(p % 8)) % 2^w
\* One code of a block of sixteen.
Code2(packed, base, i) == (packed[base + (i % 4)] \div 4^((i % 16) \div 4)) % 4
Code6(packed, base, i) ==
  LET k == i % 16
      byte == packed[base + (k % 8)]
  IN (IF k < 8 THEN byte % 16 ELSE byte \div 16) + 16 * Code2(packed, base + 8, i)

UnpackEx(packed, dim, w) ==
  [i \in 0..dim - 1 |->
     CASE w = 0 -> 0
       [] w = 2 -> Code2(packed, 4 * (i \div 16), i)
       [] w = 6 -> Code6(packed, 12 * (i \div 16), i)
       [] OTHER -> StreamCode(packed, w, i)]
=============================================================================
