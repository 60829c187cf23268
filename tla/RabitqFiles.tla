----------------------------- MODULE RabitqFiles -----------------------------
(***************************************************************************)
(* IVF and brute-force indexes: training, save_to_path and the loaders, on *)
(* one path.  Training accepts or refuses a request, or panics; a save     *)
(* rewrites the file part by part; IvfRabitqIndex, BruteForceRabitqIndex   *)
(* and RabitqIndex (which goes by the first four bytes) load it.           *)
(*                                                                         *)
(* Of an index the model keeps what decides the sizes of its parts.  Each  *)
(* side works the sizes out for itself: the quantizer when it packs codes, *)
(* each loader when it reads them.  A file is a sequence of parts, each    *)
(* with its size in bytes and the index it is of; the checksum is taken as *)
(* perfect, so bytes read at the wrong place never pass it.                *)
(***************************************************************************)
EXTENDS Integers, Sequences, SequencesExt, Functions

CONSTANTS
  Requests,     \* what is asked of training; not 10 to 16 bits, too wide for pack_ex_code
  MaxCluster,   \* MAX_CLUSTER_SIZE of the IVF loader: a million
  MaxSaves,     \* bound: saves started; of saves and faults before a training
  MaxFaults     \* bound: deaths, failed writes and power losses

Request == [kind : {"ivf", "brute"}, rotator : {"matrix", "fht"},
            dim : Nat \ {0}, bits : Nat \ 10..16, rows : Nat, nlist : Nat]

ASSUME FilesAssumption ==
  Requests \subseteq Request /\ MaxCluster \in Nat /\ MaxSaves \in Nat /\ MaxFaults \in Nat

VARIABLES
  index,    \* the index in memory
  file,     \* the parts of the file; empty before the first save
  left,     \* the parts the save in progress has yet to write; empty if none is
  result,   \* how the last call ended; "none" while a save runs
  good,     \* what the last save to return wrote, if the file is untouched since
  saves, faults

vars == <<index, file, left, result, good, saves, faults>>

NoIndex == [kind |-> "none", rotator |-> "none", dim |-> 0, bits |-> 0, sizes |-> <<>>]
Results == {"none", "ok", "refused", "panic", "error"}
Loaders == {"ivf", "brute", "smart"}

Init ==
  /\ index = NoIndex /\ file = <<>> /\ left = <<>> /\ result = "none"
  /\ good = NoIndex /\ saves = 0 /\ faults = 0

Up(n, m) == (n + m - 1) \div m       \* div_ceil

ExBits(i) == i.bits - 1
Padded(i) == IF i.rotator = "fht" THEN 64 * Up(i.dim, 64) ELSE i.dim

(***************************************************************************)
(* train, train_with_clusters.                                             *)
(***************************************************************************)
Refused(r) ==
  \/ r.rows = 0
  \/ r.bits \notin 1..16
  \/ r.kind = "ivf" /\ r.nlist \notin 1..r.rows

ExFunctions == {0, 2, 6}
\* (Fault: the choice of a function has a fallback.)
PanicsPackingOnly(r) == ExBits(r) \in {1, 2, 6} /\ Padded(r) % 16 # 0
\* pack_ex_code_{1,2,6}bit_cpp_compat run past a row that is no multiple of
\* 16; select_excode_ipfunc knows three widths, and IVF asks it at the end.
Panics(r) ==
  \/ ExBits(r) \in {1, 2, 6} /\ Padded(r) % 16 # 0
  \/ r.kind = "ivf" /\ ExBits(r) \notin ExFunctions

\* How k-means, or the caller's assignments, may distribute the rows.
Shapes(r) ==
  IF r.kind = "brute" THEN {<<r.rows>>}
  ELSE {s \in [1..r.nlist -> 0..r.rows] : FoldFunction(+, 0, s) = r.rows}

Trained(r, shape) ==
  [kind |-> r.kind, rotator |-> r.rotator, dim |-> r.dim, bits |-> r.bits, sizes |-> shape]

Train(r) ==
  /\ left = <<>> /\ saves + faults < MaxSaves
  /\ \/ Refused(r) /\ result' = "refused" /\ UNCHANGED index
     \/ ~Refused(r) /\ Panics(r) /\ result' = "panic" /\ index' = NoIndex
     \/ /\ ~Refused(r) /\ ~Panics(r) /\ result' = "ok"
        /\ \E shape \in Shapes(r) : index' = Trained(r, shape)
  /\ UNCHANGED <<file, left, good, saves, faults>>

(***************************************************************************)
(* save_to_writer.                                                         *)
(***************************************************************************)
Part(i, name, size) == [of |-> i, name |-> name, size |-> size]
Hole(part) == [part EXCEPT !.of = NoIndex]

\* (Fault: every width is packed to whole bytes, none in groups of 16.)
ExCodeBytesFlat(i) == Up(Padded(i) * ExBits(i), 8)
\* quantize_with_centroid.  The brute-force index stores it as it comes; the
\* IVF index drops the code of a one-bit index (from_quantized_vectors).
ExCodeBytes(i) ==
  CASE ExBits(i) \in {0, 1} -> 2 * (Padded(i) \div 16)
    [] ExBits(i) = 2        -> 4 * (Padded(i) \div 16)
    [] ExBits(i) = 6        -> 12 * (Padded(i) \div 16)
    [] OTHER                -> Up(Padded(i) * ExBits(i), 8)
IvfCodeBytes(i) == IF ExBits(i) = 0 THEN 0 ELSE ExCodeBytes(i)

BatchStride(i) == (Padded(i) * 32) \div 8 + 4 * 32 * 3
\* (Fault: the last batch is left out when it is not full.)
BatchBytesFull(i, n) == BatchStride(i) * (n \div 32)
BatchBytes(i, n) == BatchStride(i) * (n \div 32 + IF n % 32 > 0 THEN 1 ELSE 0)
RotatorBytes(i) ==
  IF i.rotator = "fht" THEN (4 * Padded(i)) \div 8 ELSE Padded(i) * Padded(i) * 4

Preamble(i) ==
  <<Part(i, "magic", 8), Part(i, "fields", IF i.kind = "ivf" THEN 36 ELSE 28),
    Part(i, "rotator", RotatorBytes(i))>>
Cluster(i, n, batches, code) ==
  <<Part(i, "rows", 4 * Padded(i) + 8 + 8 * n), Part(i, "batches", 8 + batches),
    Part(i, "codes", n * (8 + code)), Part(i, "factors", 16 * n)>>
Vector(i, code) ==
  <<Part(i, "codes", Up(Padded(i), 8) + code), Part(i, "factors", 32)>>
Footer(i) == <<Part(i, "checksum", 4)>>

Image(i) ==
  Preamble(i) \o
    (IF i.kind = "ivf"
     THEN FlattenSeq([c \in DOMAIN i.sizes |->
            Cluster(i, i.sizes[c], BatchBytes(i, i.sizes[c]), IvfCodeBytes(i))])
     ELSE FlattenSeq([v \in 1..i.sizes[1] |-> Vector(i, ExCodeBytes(i))]))
    \o Footer(i)

Save ==
  /\ index # NoIndex /\ left = <<>> /\ saves < MaxSaves
  /\ file' = <<>>                                        \* File::create
  /\ left' = Image(index)
  /\ result' = "none" /\ good' = NoIndex
  /\ saves' = saves + 1
  /\ UNCHANGED <<index, faults>>

\* The last part is followed by flush and Ok.
Write ==
  /\ left # <<>>
  /\ file' = Append(file, Head(left))
  /\ left' = Tail(left)
  /\ IF left' = <<>> THEN result' = "ok" /\ good' = index
     ELSE UNCHANGED <<result, good>>
  /\ UNCHANGED <<index, saves, faults>>

(***************************************************************************)
(* load_from_reader of the three.  Every part is read with the size the    *)
(* loader expects of it; the IVF loader also compares the lengths stored   *)
(* before batches and codes.                                               *)
(***************************************************************************)
LoadedIvfCodeBytes(i) == IF ExBits(i) > 0 THEN (Padded(i) * ExBits(i)) \div 8 ELSE 0
LoadedCodeBytes(i) == IF ExBits(i) > 0 THEN Up(Padded(i) * ExBits(i), 8) ELSE 0
LoadedBatchBytes(i, n) == BatchStride(i) * Up(n, 32)

Expected(i) ==
  Preamble(i) \o
    (IF i.kind = "ivf"
     THEN FlattenSeq([c \in DOMAIN i.sizes |->
            Cluster(i, i.sizes[c], LoadedBatchBytes(i, i.sizes[c]), LoadedIvfCodeBytes(i))])
     ELSE FlattenSeq([v \in 1..i.sizes[1] |-> Vector(i, LoadedCodeBytes(i))]))
    \o Footer(i)

\* The index the fields say the file is of.
Header == file[2].of
HeaderReads(kind) ==
  Len(file) >= 2 /\ file[1].of.kind = kind /\ Header # NoIndex

\* (Fault: the codes are not summed.)
ChecksumButCodes ==
  \A n \in 3..Len(file) : file[n].name = "codes" \/ file[n].of = Header
\* What the checksum is of starts after magic and version.
ChecksumMatches == \A n \in 3..Len(file) : file[n].of = Header

Fits ==
  LET expected == Expected(Header)
  IN Len(file) = Len(expected) /\ \A n \in DOMAIN file : file[n].size = expected[n].size
WithinLimits ==
  Header.kind = "ivf" => \A c \in DOMAIN Header.sizes : Header.sizes[c] <= MaxCluster

\* magic, version, fields, parts, checksum; the smart loader rewinds and goes
\* on as the one the magic names.
Loadable(loader) ==
  /\ \E kind \in IF loader = "smart" THEN {"ivf", "brute"} ELSE {loader} :
       HeaderReads(kind)
  /\ WithinLimits /\ ChecksumMatches /\ Fits

Load(loader) ==
  /\ left = <<>>
  /\ IF Loadable(loader) THEN result' = "ok" /\ index' = Header
     ELSE result' = "error" /\ UNCHANGED index
  /\ UNCHANGED <<file, left, good, saves, faults>>

(***************************************************************************)
(* Faults.                                                                 *)
(***************************************************************************)
\* A write fails, and the caller has an error and its index; or the process
\* dies.  The file stays as far as it came.
SaveStops ==
  /\ left # <<>> /\ faults < MaxFaults
  /\ left' = <<>> /\ result' = "error"
  /\ index' \in {index, NoIndex}
  /\ faults' = faults + 1
  /\ UNCHANGED <<file, good, saves>>

\* Nothing is synced: any part may not have reached the disk.
PowerLoss ==
  /\ file # <<>> /\ faults < MaxFaults
  /\ \E lost \in (SUBSET DOMAIN file) \ {{}} :
       file' = [n \in DOMAIN file |-> IF n \in lost THEN Hole(file[n]) ELSE file[n]]
  /\ left' = <<>> /\ index' = NoIndex /\ result' = "none" /\ good' = NoIndex
  /\ faults' = faults + 1
  /\ UNCHANGED saves

Next ==
  \/ \E r \in Requests : Train(r)
  \/ Save \/ Write
  \/ \E loader \in Loaders : Load(loader)
  \/ SaveStops \/ PowerLoss
Spec == Init /\ [][Next]_vars

-----------------------------------------------------------------------------
(* Properties *)

Indexes == UNION {{Trained(r, shape) : shape \in Shapes(r)} : r \in Requests}

\* The type invariant.  An IVF index in memory, trained or loaded, has a width
\* select_excode_ipfunc knows; what a save has written and has yet to write
\* make up the file it means to write.
TypeOK ==
  /\ index \in Indexes \cup {NoIndex}
  /\ index.kind = "ivf" => ExBits(index) \in ExFunctions
  /\ left # <<>> => file \o left = Image(index)
  /\ result \in Results
  /\ good \in Indexes \cup {NoIndex}
  /\ saves \in 0..MaxSaves /\ faults \in 0..MaxFaults

\* Whatever a load returns is the whole of one index, as save_to_writer wrote
\* it: no half-written file, and none with holes after a power loss, loads,
\* whichever loader is asked and however the saves followed each other.
LoadedWhole ==
  [][\A loader \in Loaders : result' = "ok" /\ Load(loader) => file = Image(index')]_vars

OneBitBruteForce(i) == i.kind = "brute" /\ i.bits = 1
Large(i) == i.kind = "ivf" /\ \E c \in DOMAIN i.sizes : i.sizes[c] > MaxCluster

\* After a save returned Ok, the index loads from the file, through the loader
\* of its kind and through the smart one: quantizer, save and load work out
\* the same sizes, for every width, rotator and last batch.  Not claimed of
\* one-bit brute-force indexes and of clusters over the limit of the loader.
SavedLoadsBack ==
  good # NoIndex /\ ~OneBitBruteForce(good) /\ ~Large(good) =>
    Header = good /\ Loadable(good.kind) /\ Loadable("smart")

\* The same of every index within the limit: save_to_path (brute_force.rs,
\* "Persist the index to the provided filesystem path") returned Ok, so
\* load_from_path, "Load an index from the provided filesystem path", loads it.
SavedAlwaysLoads == good # NoIndex /\ ~Large(good) => Loadable(good.kind)
=============================================================================
