------------------------------ MODULE MstgStore ------------------------------
(***************************************************************************)
(* MstgIndex::save_to_path, load_from_path and load_from_path_mmap, on one *)
(* path.  A builder process saves freshly built indexes there; a server    *)
(* process loads what is there, searches it, and may save it back.  A save *)
(* rewrites {path}.mstg in place, piece by piece, and then lets hnsw_rs    *)
(* write {path}.hnsw.graph and .hnsw.data; a load reads the header, maps   *)
(* the file, sums the mapping, reads it again for the lists, and then lets *)
(* hnsw_rs read.  Nothing is synced, renamed or locked, so the steps of a  *)
(* save and of a load mix.  A process may die between any two of them, a   *)
(* write may fail, and the machine may lose what the disk had not taken.   *)
(*                                                                         *)
(* A file is a sequence of pieces.  The checksum is taken as perfect: it   *)
(* is the content it sums.  The two files of hnsw_rs are one, external.    *)
(***************************************************************************)
EXTENDS Integers, Sequences, SequencesExt

CONSTANTS
  Versions,    \* the indexes that get built
  Sizes,       \* Sizes[v]: the pieces each serialized posting list of v takes
  NoVersion,
  MaxSaves,    \* bound: saves started
  MaxFaults    \* bound: deaths, failed writes and power losses

ASSUME StoreAssumption ==
  /\ NoVersion \notin Versions
  /\ Sizes \in [Versions -> Seq(Nat \ {0})]
  /\ MaxSaves \in Nat /\ MaxFaults \in Nat

VARIABLES
  main,    \* the pieces of {path}.mstg; empty before the first save
  graph,   \* the hnsw files: whose graph, and whether they are whole
  saver,   \* the save in progress
  index,   \* the index the server holds, as far as it is loaded
  result,  \* how the server's last load or search went
  good,    \* what the last save to return wrote, if the files are untouched since
  saves, faults

files == <<main, graph>>
vars == <<main, graph, saver, index, result, good, saves, faults>>

Hole == <<"hole">>

\* An index as it is saved: whose directory, its lists, whose graph.
Saved(v, mapped, lists, g) == [of |-> v, mapped |-> mapped, lists |-> lists, graph |-> g]
Nothing == Saved(NoVersion, FALSE, <<>>, NoVersion)
Idle == [pc |-> "idle", by |-> "builder", what |-> Nothing, left |-> <<>>]

\* An index as it is loaded: the length of its mapping, and where in it the
\* next list is to be read.  The code does not keep the last two: how many saves
\* had begun when the header was read (0 if no save had returned and left the
\* files untouched since), and when the checksum was verified.
NoIndex == [pc |-> "none", of |-> NoVersion, mapped |-> FALSE, length |-> 0, at |-> 0,
            lists |-> <<>>, graph |-> NoVersion, settled |-> 0, summed |-> 0]
Results == {"none", "ok", "missing", "foreign", "error", "panic", "sigbus"}

Init ==
  /\ main = <<>> /\ graph = [of |-> NoVersion, whole |-> FALSE]
  /\ saver = Idle /\ index = NoIndex /\ result = "none"
  /\ good = Nothing /\ saves = 0 /\ faults = 0

(***************************************************************************)
(* The layout save_main_index writes: magic, version, configuration,       *)
(* centroid ids and directory (the header, here two pieces), the number of *)
(* lists, each list behind its length, and the checksum.                   *)
(***************************************************************************)
Header(v) == <<<<"magic">>, <<"directory", v>>>>
Base == Len(Header(NoVersion))
\* The lists v was built with.
Own(v) == [i \in DOMAIN Sizes[v] |-> [n \in 1..Sizes[v][i] |-> <<"list", v, i>>]]
Prefixed(list) == <<<<"length", Len(list)>>>> \o list
Body(v, lists) ==
  Header(v) \o <<<<"count">>>> \o FlattenSeq([i \in DOMAIN lists |-> Prefixed(lists[i])])

\* (Fault: the checksum is of the header alone.)
HeaderChecksum(pieces) == <<"checksum", SubSeq(pieces, 2, Base)>>
\* The magic is not summed.
Checksum(pieces) == <<"checksum", SubSeq(pieces, 2, Len(pieces))>>
Image(v, lists) == Append(Body(v, lists), Checksum(Body(v, lists)))

\* The directory's disk_offset of a list: the builder works it out from the
\* sizes the lists will have.
\* (Fault: the length in front of each list is not counted.)
UnprefixedOffset(v, i) ==
  LET offset[n \in 1..i] == IF n = 1 THEN 0 ELSE offset[n - 1] + Sizes[v][n - 1]
  IN offset[i]
DiskOffset(v, i) ==
  LET offset[n \in 1..i] == IF n = 1 THEN 0 ELSE offset[n - 1] + Sizes[v][n - 1] + 1
  IN offset[i]

(***************************************************************************)
(* save_to_path.                                                           *)
(***************************************************************************)
SaveStarts(who, what) ==
  /\ saver = Idle /\ saves < MaxSaves
  /\ main' = <<>>                                            \* File::create
  /\ saver' = [pc |-> "main", by |-> who, what |-> what,
                left |-> Image(what.of, what.lists)]
  /\ good' = Nothing
  /\ saves' = saves + 1
  /\ UNCHANGED <<graph, index, result, faults>>

SaveBuilt == \E v \in Versions : SaveStarts("builder", Saved(v, FALSE, Own(v), v))

\* What is in memory is saved: the graph that was found, and of a mapped index no
\* list (PostingDataSource::iter).
SaveLoaded ==
  /\ index.pc = "loaded"
  /\ SaveStarts("server", Saved(index.of, index.mapped,
                                IF index.mapped THEN <<>> ELSE index.lists, index.graph))

WriteMain ==
  /\ saver.pc = "main" /\ saver.left # <<>>
  /\ main' = Append(main, Head(saver.left))
  /\ saver' = [saver EXCEPT !.left = Tail(@)]
  /\ UNCHANGED <<graph, index, result, good, saves, faults>>

\* file_dump opens its files anew before it fills them.
\* (Fault: a graph that is there is left as it is.)
DumpedUnlessThere(g) ==
  IF graph.of = NoVersion THEN [of |-> g, whole |-> FALSE] ELSE graph
Dumped(g) == [of |-> g, whole |-> FALSE]

DumpStarts ==
  /\ saver.pc = "main" /\ saver.left = <<>>
  /\ graph' = Dumped(saver.what.graph)
  /\ saver' = [saver EXCEPT !.pc = "hnsw"]
  /\ UNCHANGED <<main, index, result, good, saves, faults>>

SaveReturns ==
  /\ saver.pc = "hnsw"
  /\ graph' = [graph EXCEPT !.whole = TRUE]
  /\ good' = saver.what
  /\ saver' = Idle
  /\ UNCHANGED <<main, index, result, saves, faults>>

\* The builder dies, or a write fails and save_to_path returns its error: the
\* files stay as they are.
SaveStops ==
  /\ saver # Idle /\ faults < MaxFaults
  /\ saver' = Idle
  /\ faults' = faults + 1
  /\ UNCHANGED <<main, graph, index, result, good, saves>>

(***************************************************************************)
(* load_from_path and load_from_path_mmap: the header, the mapping, its    *)
(* checksum, its lists, and the graph, which nothing ties to them.         *)
(***************************************************************************)
LoadStops(how) ==
  /\ result' = how
  /\ index' = NoIndex
LoadStepLeaves == UNCHANGED <<files, saver, good, saves, faults>>

HeaderReads == Len(main) >= Base /\ \A n \in 1..Base : main[n] # Hole

LoadHeader(mapped) ==
  /\ index.pc = "none" /\ saver.by # "server"
  /\ IF HeaderReads
     THEN /\ index' = [NoIndex EXCEPT !.pc = "header", !.of = main[Base][2], !.mapped = mapped,
                                      !.settled = IF good = Nothing THEN 0 ELSE saves]
          /\ result' = "none"
     ELSE LoadStops("error")
  /\ LoadStepLeaves

MapMain ==
  /\ index.pc = "header"
  /\ index' = [index EXCEPT !.pc = "mapped", !.length = Len(main)]
  /\ UNCHANGED result /\ LoadStepLeaves

\* Read from a file that has been cut since it was mapped: a bus error, or zeros
\* up to the end of the last page it still reaches.
ReadsPastEnd == \E how \in {"sigbus", "error"} : LoadStops(how)
\* Read as a list what is none: its length leaves the mapping, or it does not
\* deserialize.
Misreads == \E how \in {"panic", "error"} : LoadStops(how)

\* What is summed is the header as it was read, and the mapping as it is now.  (A
\* sum that a save overtakes half way ends like one overtaken before: nothing
\* that was read matches the checksum, or the rest of the file is gone.)
\* (Fault: the loader sums the magic, which the saver does not.)
ChecksumSkewed ==
  main[index.length]
    = <<"checksum", Header(index.of) \o SubSeq(main, Base + 1, index.length - 1)>>
ChecksumMatches ==
  main[index.length] = Checksum(Header(index.of) \o SubSeq(main, Base + 1, index.length - 1))

VerifyChecksum ==
  /\ index.pc = "mapped"
  /\ IF index.length - 1 < Base THEN LoadStops("panic")       \* the slice of the mapping
     ELSE IF index.length > Len(main) THEN ReadsPastEnd
     ELSE IF ~ChecksumMatches THEN LoadStops("error")
     ELSE /\ index' = [index EXCEPT !.pc = "lists", !.at = Base + 2, !.summed = saves]
          /\ UNCHANGED result
  /\ LoadStepLeaves

AllRead == Len(index.lists) = Len(Sizes[index.of])

\* One turn of the loop over the lists (of a mapped index, the loop of
\* extract_centroids): the list behind the length at the offset reached, out of
\* the mapping as it is now.  The checksum, the last piece of the mapping, is
\* shorter than a length.  What a save has put there since need not begin a list
\* at the same byte.  (Of a save that begins while one list is being read, the
\* properties say no more than of one that begins just before.)
ReadList ==
  /\ index.pc = "lists" /\ ~AllRead
  /\ \/ IF index.at >= index.length THEN LoadStops("panic")
        ELSE IF index.at > Len(main) THEN ReadsPastEnd
        ELSE IF main[index.at][1] # "length" THEN Misreads
        ELSE LET end == index.at + main[index.at][2]
             IN IF end >= index.length THEN LoadStops("panic")
                ELSE IF end > Len(main) THEN ReadsPastEnd
                ELSE /\ index' = [index EXCEPT !.at = end + 1,
                                    !.lists = Append(@, SubSeq(main, index.at + 1, end))]
                     /\ UNCHANGED result
     \/ index.summed # saves /\ Misreads
  /\ LoadStepLeaves

GraphLoads == graph.whole

LoadHnsw ==
  /\ index.pc = "lists" /\ AllRead
  /\ IF GraphLoads
     THEN /\ index' = [index EXCEPT !.pc = "loaded", !.graph = graph.of]
          /\ result' = "ok"
     ELSE LoadStops("error")
  /\ LoadStepLeaves

Unload ==
  /\ index.pc = "loaded" /\ saver.by # "server"
  /\ index' = NoIndex /\ result' = "none"
  /\ LoadStepLeaves

(***************************************************************************)
(* with_posting_list, by a search: of an index in memory a list that was   *)
(* loaded, of a mapped one whatever the file holds now where the directory *)
(* says.  The mapping keeps the length it was made with; a page the file   *)
(* no longer reaches is a bus error.                                       *)
(***************************************************************************)
Mapped(i) ==
  LET at == Base + 1 + DiskOffset(index.of, i) + 1
  IN IF at > index.length THEN "missing"
     ELSE IF at > Len(main) THEN "sigbus"
     ELSE IF main[at][1] # "length" THEN "missing"
     ELSE LET end == at + main[at][2]
          IN IF end > index.length THEN "missing"
             ELSE IF end > Len(main) THEN "sigbus"
             ELSE IF SubSeq(main, at + 1, end) = Own(index.of)[i] THEN "ok" ELSE "foreign"

Search ==
  /\ index.pc = "loaded"
  /\ \E i \in DOMAIN Sizes[index.of] :
       result' = IF index.mapped THEN Mapped(i)
                 ELSE IF index.lists[i] = Own(index.of)[i] THEN "ok" ELSE "foreign"
  /\ index' = IF result' = "sigbus" THEN NoIndex ELSE index
  /\ saver' = IF result' = "sigbus" /\ saver.by = "server" THEN Idle ELSE saver
  /\ UNCHANGED <<files, good, saves, faults>>

(***************************************************************************)
(* Faults.                                                                 *)
(***************************************************************************)
ServerDies ==
  /\ index.pc # "none" /\ faults < MaxFaults
  /\ index' = NoIndex /\ result' = "none"
  /\ saver' = IF saver.by = "server" THEN Idle ELSE saver
  /\ faults' = faults + 1
  /\ UNCHANGED <<files, good, saves>>

\* No fsync: any piece of the files may not have reached the disk, although
\* the file has its length.
PowerLoss ==
  /\ faults < MaxFaults
  /\ \E lost \in SUBSET DOMAIN main :
       main' = [n \in DOMAIN main |-> IF n \in lost THEN Hole ELSE main[n]]
  /\ graph' \in {graph, [graph EXCEPT !.whole = FALSE]}
  /\ saver' = Idle /\ index' = NoIndex /\ result' = "none"
  /\ good' = Nothing
  /\ faults' = faults + 1
  /\ UNCHANGED saves

Save == SaveBuilt \/ SaveLoaded \/ WriteMain \/ DumpStarts \/ SaveReturns
Load ==
  \/ \E mapped \in BOOLEAN : LoadHeader(mapped)
  \/ MapMain \/ VerifyChecksum \/ ReadList \/ LoadHnsw \/ Unload
Fault == SaveStops \/ ServerDies \/ PowerLoss
Next == Save \/ Load \/ Search \/ Fault
Spec == Init /\ [][Next]_vars

(***************************************************************************)
(* Properties.                                                             *)
(***************************************************************************)
TypeOK ==
  /\ graph.of \in Versions \cup {NoVersion} /\ graph.whole \in BOOLEAN
  /\ saver.pc \in {"idle", "main", "hnsw"} /\ saver.by \in {"builder", "server"}
  /\ index.mapped \in BOOLEAN /\ result \in Results
  /\ \/ index = NoIndex
     \/ index.pc \in {"header", "mapped", "lists"} /\ result = "none"
     \/ index.pc = "loaded" /\ result \in {"ok", "missing", "foreign"}
  /\ index.settled \in 0..saves /\ index.summed \in 0..saves
  /\ good # Nothing => good.of \in Versions /\ good.mapped \in BOOLEAN
  /\ saves \in 0..MaxSaves /\ faults \in 0..MaxFaults

\* Whatever was cut short, lost or overwritten before the checksum was verified,
\* what a load has then read is all the lists of the file, as they are there:
\* saved again they would make the same file, piece for piece.  (A save that
\* begins between the checksum and the last list is not noticed.)
ListsWhole ==
  /\ TypeOK
  /\ index.pc = "lists" /\ AllRead /\ index.summed = saves
       => main = Image(index.of, index.lists)

\* A load that began after a save had returned, and that no other save has
\* overtaken, gets back what was saved: every list, and the graph of that save,
\* whatever the path held before it.
LoadsWhatWasSaved ==
  [][index.pc = "lists" /\ index'.pc = "loaded" /\ index.settled = saves
       => Saved(index'.of, good.mapped, index'.lists, index'.graph) = good]_vars

\* What save_to_path has returned Ok for, and nobody has touched since, loads ...
Settled == good # Nothing /\ (index.pc = "none" \/ index.settled = saves)
SavedLoads ==
  [][Settled /\ result' # result => result' \notin {"error", "panic"}]_vars

\* ... at least if it was saved from memory.
SavedFromMemoryLoads ==
  [][Settled /\ ~good.mapped /\ result' # result => result' \notin {"error", "panic"}]_vars

\* A search of a mapped index gets the list it asks for, as long as the file is
\* the one of that index and as long as when it was mapped: the offsets of the
\* directory, worked out before anything was written, are where the lists are,
\* and no search leaves the mapping.
SearchesOwn ==
  [][/\ index.pc = "loaded" /\ index.mapped /\ result' # result
     /\ good.of = index.of /\ good.lists = Own(good.of) /\ index.length = Len(main)
     => result' \notin {"missing", "foreign", "sigbus"}]_vars
=============================================================================
