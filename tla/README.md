# A TLA+ development of RaBitQ-rs

RaBitQ-rs is a Rust library for approximate nearest-neighbour search. It
quantizes vectors to a few bits a dimension, finds lower bounds on distances
from the bits, and refines only the vectors whose bound is promising. This
directory models the parts of it where order, concurrency, failure or a
boundary decide whether an answer is right: TLA+ modules translated from the
code, TLC configurations that check them on small instances, and proofs, checked
by TLAPS, of what matters most. Paths below are relative to the repository.

## 1. The system

### 1.1 Components, their state and operations

| Component | Source | State | Operations |
| --- | --- | --- | --- |
| MSTG search | `src/mstg/search.rs`, `src/fastscan_kernel.rs` | per query: global heap, local heaps, k-th distance seeds | `search`, `search_with_diagnostics` (`search_internal`), `dynamic_prune`, `search_posting_list_fastscan`, `merge_topk` |
| Centroid graph | `src/mstg/hnsw.rs` | `hnsw_cache` behind a RwLock | `ensure_hnsw_built`, `search`, save and load of the graph |
| Batch search | `src/mstg/search.rs` | none of its own; the rayon pool | `batch_search` |
| MSTG clustering | `src/mstg/clustering.rs` | stack of active clusters, final clusters, groups of a split | `cluster`, `split_cluster`, `balance_clusters` |
| MSTG builder | `src/mstg/builder.rs`, `src/mstg/closure.rs` | assignments, posting lists, directory | `build`, `ClosureAssigner::assign` |
| MSTG persistence | `src/mstg/io.rs`, `src/mstg/index.rs` | `{path}.mstg`, `{path}.hnsw.*`, a memory mapping | `save_to_path`, `load_from_path`, `load_from_path_mmap`, `with_posting_list` |
| IVF index | `src/ivf.rs` | clusters, rotator | training, `search`, `search_filtered`, save, load |
| Brute-force index | `src/brute_force.rs` | quantized vectors | training, `search`, `search_filtered`, save, load |
| Index loader | `src/index.rs` | none | dispatch on the first four bytes |
| K-means | `src/kmeans.rs` | sample, centroids, per-thread counts, sums and reseed candidates, the best restart | `run_kmeans_with_config`: Lloyd iterations with a parallel fold and reduce, reseeding, full assignment |
| FastScan | `src/fastscan.rs`, `src/fastscan_kernel.rs`, `src/simd.rs` | packed batches, a query's table, 16-bit accumulators | `pack_batch`, `build_lut`, `accumulate_batch`, `compute_batch_distances_u16`, `refine_distance_with_ex`, `fetch_embedding` |
| Quantizer | `src/quantizer.rs` | the sweep's codes, sums, heap and best factor | `quantize_with_centroid`, `best_rescale_factor`, `quantize_ex_with_inv`, the factors |
| Rotation, distances, scalar quantization | `src/rotation.rs`, `src/mstg/distance*.rs`, `src/mstg/scalar_quant.rs`, `src/math.rs` | none, or fixed at construction | floating-point functions |
| Readers, memory, configuration | `src/io.rs`, `src/memory.rs`, `src/mstg/config.rs` | none | file reading, prefetch, values |
| Python bindings | `src/python_bindings.rs` | an optional index | conversions around the calls above |

### 1.2 How they interact

`MstgIndex::build` clusters the data (k-means for every split), assigns each
vector to the clusters near it in parallel, fills a posting list per cluster in
parallel, and builds the centroid index *without* its graph. The first search,
save or batch that needs the graph builds it, inside the write lock, with
hnsw_rs's `parallel_insert`, which runs on the same rayon pool that
`batch_search` runs its queries on and each query its posting lists. A search
asks the graph for centroids, prunes them, scans the first eight lists one after
the other and the rest in parallel, and merges the heaps. Saving writes the main
file and then the graph's files; loading reads them back in that order, and a
mapped index goes on reading the main file at every search.

### 1.3 What is hard, and what makes each component correct

* *Search.* Pruning must be safe with a k-th distance that is stale and of
  another heap; bounds and distances may be missing (not finite); ties; a heap
  that pops at the right moment; filters; nothing lost between heaps.
* *Centroid graph.* One graph, built once, published whole; every search
  returns although the pool runs queries and insertions side by side and a
  waiting worker runs other work whatever locks it holds.
* *Clustering and building.* No vector lost or duplicated by splitting and evening out; the
  loop ends; sizes bounded; every vector in the list of a nearest cluster; the closure
  rule that the documents describe.
* *Persistence.* What passes its checksum is a whole file, after deaths, failed
  writes, power losses and overwriting; what was saved loads, with its graph. Lists and
  graph are two files that nothing ties together, and a load reads the first of
  them three times while a save may be rewriting it.
* *IVF, brute force.* Exactly the best clusters probed; the filter asked with
  the id; the answer a best k of what was accepted; layouts that agree.
* *K-means.* Counts and sums that agree with the assignments, however a range
  of chunks is split and merged; reseeding that never makes things worse; what
  is returned belongs together; results that do not depend on the schedule.
* *FastScan.* A permutation and its inverse, in four places; one accumulator
  taken apart from two by subtraction modulo 2^16; padding that is summed but never
  answered with; codes of nine widths; sums that fit.
* *Quantizer.* Sums kept incrementally over a sweep; a heap of the next change
  of every code; ties; codes that keep sign and order; three places that work
  out the same inner product.

The full list, each item at its line, is under `hazards` in `PROJECT.json`.

## 2. The modules

| Module | Models |
| --- | --- |
| `BoundedHeap` | the max-heap of k entries used by every search: `current_distk`, push-then-pop, `sanitize_lower_bound` |
| `TopK` | abstract: what a search promises of the candidates it was offered |
| `MstgSearch` | one MSTG query, from centroid pruning to the answer, with its parallel scans |
| `IvfSearch` | one IVF query: ranking, probing, filter, one heap |
| `BruteForceSearch` | one brute-force query |
| `IndexSearch` | a query to an index of either kind, as the loader returns one: `IvfSearch` or `BruteForceSearch` |
| `HnswCache` | the lazily built graph under its lock, `batch_search` and the work-stealing pool |
| `MstgClustering` | the split loop of the clustering, with k-means and evening out |
| `MstgBuild` | closure assignment and the filling of posting lists |
| `MstgIndex` | composition: data clustered by `MstgClustering`, assigned and collected by `MstgBuild`, searched by `MstgSearch` |
| `KMeansSpace` | points and centroids on a line, exact: nearest, farthest, objective |
| `Lloyd` | abstract: what an iteration of k-means does, whoever does the work |
| `KMeans` | `run_kmeans_with_config`: sample, restarts, the parallel fold and reduce, update, full assignment |
| `KMeansTraining` | `KMeans` under names that let it stand beside `Quantizer`, with what is assumed and promised of it |
| `FastScanLayout` | packed batches, lookup tables, the packed extended codes of every width, and the inverses |
| `BatchScan` | abstract: each slot's 16-bit sum of the entries its own code selects |
| `FastScan` | packing, table, the scalar, AVX2 and AVX-512 scans, estimates, refinement |
| `CodeSpace` | scaling factors and the codes they give: levels, limits, scores, as fractions |
| `BestFactor` | abstract: the factor `best_rescale_factor` promises |
| `Quantizer` | the sweep, the codes and the factors of `quantize_with_centroid` |
| `MstgStore` | saving, loading and mapping on one path, with faults |
| `RabitqFiles` | IVF and brute-force indexes: training, saving and the three loaders, with faults |
| `MstgSearchProofs`, `IndexSearchProofs`, `FastScanProofs`, `HnswCacheProofs`, `MstgIndexProofs`, `MstgStoreProofs`, `RabitqFilesProofs`, `TrainingProofs` | the theorems; the last of both `Quantizer` and `KMeansTraining` |
| `MC...` | small instances for TLC |

Definitions marked *(Fault: ...)* are slips of the kind a change to the code
could bring. No specification uses them; each shows that some property notices
it when it takes the place of the definition after it.

### 2.1 State and actions against the code

**MstgSearch.** `todo` is the list of selected centroids not yet merged; `pos[j]`
and `local[j]` are the loop index and `local_heap` of the scan of list j;
`seed[j]` is the `distk_seed` it was given; `global` is `global_heap`. `Scan(j)`
is one turn of the loop over a batch: bound, compare, refine, push, pop.
`Merge` and `Retire` are `merge_topk`; `Retire` also reads the k-th distance
again, for the next bootstrap list or, after the last one, once for all the
lists that remain: that is the stale seed. `Join` is the end of the
`par_iter().map().collect()`. A distance is an integer or `Inf` (any non-finite
float), a bound may be right, wrong or missing: the estimator's bound holds only
with high probability, and `sound` records, for the properties alone, whether
it does.

**IvfSearch, BruteForceSearch.** Same heap, one of it, carried across clusters;
`Reject` is the `EmptyIndex` and `DimensionMismatch` errors. `Rank` counts the
clusters that come before one in the code's order, so the partial selection and
the sort are one definition. `IndexSearch` has their variables in common and a
`kind`; its `Implements` is one statement for both.

**HnswCache.** Each thread has a stack of frames: a search at one of its steps,
a job it runs, a join it is in, a latch it waits for. `Check`, `Claim`, `Build`
or `AlreadyBuilt`, `Publish`, `Find`, `Probe` are the lock acquisitions and
releases of `ensure_hnsw_built` and `search`, one action between two of them.
The pool (external) is rayon's: a join puts its right half in the worker's
deque, a thief takes the oldest job, a worker whose half was stolen takes any
job it finds. parking_lot's lock is not re-entrant, and a waiting writer keeps
new readers out.

**MstgClustering.** `active` is the stack, `groups` the subclusters being evened
out, `final` the result. `Split` is `run_kmeans` and the grouping; `Move` one
pass of `balance_clusters`; `Push` the filter of empty groups and the stacking.
k-means trains on all rows, or on any sample of `PerCentroid` (256 in the code) a group if there are
more, and its result is any grouping by value: one that tells some rows of the
sample apart, if they are not all equal, and otherwise one group that has everything, for
then all centroids are equal. That unequal rows are told apart is
the theorem `UnequalRowsSeparate` of `KMeans`: the mean of a group separates from the
reseeded farthest point within the 100 iterations the code allows. Rounding can
delay that by some rounds of the loop; the model leaves it out.

**KMeans.** `Call` is the validation and `select_training_indices`, `Forgy` the
random start of a restart, `AssignFull` the assignment of all rows and the
objective, `Return` the `unwrap` of the best result. An iteration is rayon's:
`states` holds the `ThreadLocalState`s, each of a range of chunks; `Split` halves
an untouched range, `Fold` takes one chunk, `Merge` is `merge_from` of the two
halves of a range, `Update` is `update_centroids` on the one that is left. Data
are integers on a line, means and distances exact multiples of 1/`Unit`; a float
sum is rounded to `Mantissa` bits, since the order of additions is what differs
between schedules. The random generator may return anything, and the unstable
sort may order equals in any way. Rows that are not numbers are left out.
`Lloyd` is what each iteration must come to; its empty clusters get the farthest
points as long as there are no more of them than `Reseeds`, which is what eight
candidates per chunk can promise. `KMeansTraining` is an instance of all this: its `config`, `stage`
and `result` are the `input`, `phase` and `best` of `KMeans`, `Trains` its `Spec`, `IsLloyd` its
`Implements`; the run and the theorems are about it.

**MstgBuild.** `Begin` takes the clusters and the distances of all vectors to
their centroids, `Assign(v)` is `ClosureAssigner::assign` for one vector (the
square of 1 + epsilon is any fraction `FactorNum / FactorDen` of at least 1),
`Collect(c)` the filling of one list, in any order, as in the two `par_iter`s.

**MstgIndex.** Vectors are integers on a line; a centroid is the mean of its
cluster, kept `Unit` times as large to stay an integer; `Away` is the squared
distance, which is what the closure measures and the graph of BF16 centroids, the default.
`Cluster`, `Build` and `Answer` are the steps of the three modules, `Begin` hands
the clusters over, `Ask` is a query with the centroids the graph finds: any `ef`
of them in the order of their distance, since the graph is approximate. What a
scan sees of a vector is its exact distance, and a bound that is right or
missing. `RngRule` is what the documents say of the closure, and TLC refutes it.

**FastScan.** `phase` goes from packing over the table to scan, estimate and
refinement, batch after batch. `even` and `odd` are the two accumulators of each
half of the batch, by 128-bit lane and 16-bit word (`accu0` and `accu2`, `accu1`
and `accu3`): a shuffle looks up sixteen bytes, `even` gets them as eight words,
upper bytes and all, `odd` the upper bytes alone; `Assembled` subtracts 256 times
the second from the first. Queries and factors are integers, and since a table is
scaled by 255 over the width of its range, inner products are kept 255 times and
distances 510 times as large. Of the nine widths of extended codes 2 and 6 are
interleaved, the others a stream of bits. `BuildLutHighAcc` is what more than 2048
dimensions come to (below), `WrongDimension` the assertion of the kernels.

**Quantizer.** A vector is its integer residual, and everything else a fraction
`<<n, d>>` of that, so nothing is rounded: `product` is twice the `numerator`,
`normSqr` four times the `sqr_denominator`. Where the code compares roundings of
equal numbers the model takes either outcome (`First`, `Ties`). `Advance(i)` is one
turn of the loop of `best_rescale_factor`, `Skip` one that finds a change past
`t_end`; `Encode` is `quantize_ex_with_inv`, with the factor found or with the constant
one of the faster configuration, whose floor is worked out by squares. The factors
for searches (`OneBitFactors`, `ExtendedFactors`, `Delta`) follow from residual and
code. Left out: `f_error`, and how the constant is sampled.

**MstgStore.** The main file is a sequence of pieces (magic and version,
configuration and directory, number of lists, a length and some pieces for each
list, checksum) and a save appends them one at a time, so that every prefix can
be what a death leaves. `PowerLoss` turns any pieces into holes without
shortening the file, since nothing is synced. The checksum is the content it
sums. hnsw_rs's two files are one unit that is whole or not, and it is taken to
refuse one that is not.

A load is as many steps as it reads the file, and a save may run between any two:
`LoadHeader` reads the header through a descriptor, `MapMain` maps the live file
and fixes the length of the mapping, `VerifyChecksum` sums the mapping as it is
then, `ReadList` reads one list after the other out of the mapping as it is by
then, `LoadHnsw` takes the graph that is there. A file that was cut since it was
mapped is a bus error, or zeros up to the end of its last page (`ReadsPastEnd`); bytes that
are not where a list begins are a panic or an error (`Misreads`); bytes that are the list
of another index are that list. `Mapped(i)` is `with_posting_list` on a mapped
index: it reads the file as it is now.

A save writes what is in memory: the lists it has (none, of a mapped index) and
the graph it has, which for a loaded index is the one `LoadHnsw` found and may be another
index's (`Saved`, `DumpStarts`). `good` is what the last save to return wrote, as long
as nobody has touched the files since; `settled` and `summed` are the number of saves begun
when a load read the header of a `good` file, and when it passed its
checksum. The properties name the loads and searches they speak of by these:

* `ListsWhole`: a load no save has overtaken since its *checksum* has read all the lists of the file;
* `LoadsWhatWasSaved`, `SavedFromMemoryLoads`: a load no save has overtaken since its *header* gets
  lists and graph back as they were saved, and does not fail.

Of a load that is overtaken later nothing can be promised. That lists and graph are of one
index, that the lists of a loaded index are its own, were both put to TLC and are false: the second of a
load overtaken between checksum and lists, the first after three saves (one
saved, a second dies before its graph, what is there is loaded and saved again with `Ok`).

**RabitqFiles.** An index is what the sizes of its parts hang on: kind, rotator,
dimension, bits, rows of each cluster. `Train` refuses, panics or succeeds as the
validation, the packing of codes and `select_excode_ipfunc` have it. `Save` is
`File::create`, each `Write` one part. The sizes are worked out twice, as in the
code: by quantizer and cluster layout (`ExCodeBytes`, `BatchBytes`) for what is
written, by the loaders (`Loaded...`) for what is read; a part read at another
size than it has ends in an error. `Load` is any of the three loaders: header,
limits, sizes, checksum. `SaveStops` is a failed write, after which the index
still lives, or a death; `PowerLoss` makes holes of any parts.

## 3. What TLC checks

Every run is in `PROJECT.json`. All but those said to fail must pass.

| Run | Instance | Shows |
| --- | --- | --- |
| `mstg_search` | 4 centroids, one pruned; 1 bootstrap list, 2 parallel; k 0 to 3; every combination of a right, wrong, missing bound and missing distance | no candidate with a right bound is lost (`NothingLost`), seeds stay safe (`StaleSeedSafe`), the k-th distance never grows, and the search implements `TopK` |
| `index_search` | IVF: 3 clusters, two tied, nprobe 0 to 4, with and without filter; brute force: up to 4 vectors, ties, missing distances, all filters | exactly the best clusters are probed (`ProbesBest`), nothing is lost between clusters (`NothingLost`), the answer is a top k of the accepted vectors (`Implements`) |
| `hnsw_searches` | 2 workers; 3 callers of a cold index, or a batch of 2 and two callers of a warm one; 3 centroids, 2 lists | at most one graph, seen whole (`BuiltOnce`, `ReadersSeeWholeGraph`), a batch collected complete, and all calls return |
| `mstg_index` | three data sets of 5 and 6 rows, one of which can give a sample of equal rows; clusters of 2, four ways, 1 move; two replicas; 3 queries of the first five rows | clusters partition the data and fit (`Partition`), splits make progress (`NeverWhole`), each vector is in exactly the lists the code takes for it (`ReplicasExact`), a vector finds itself (`FindsItself`), replicas crowd nothing out of the first k / max_replicas (`NotCrowdedOut`), and it all ends (`Completes`) |
| `training` | k-means: up to 6 points, 1 to 5 clusters, chunks of 1 to 6 rows, samples, restarts, refused calls. Quantizer: all residuals of 3 coordinates up to 7, widths 0 to 4, two centroids, best and constant factors | k-means: every row counted once where it was assigned, on every thread (`Accounted`); what is returned belongs together (`Consistent`); unequal rows are not left in one group (`Separates`); no iteration makes the sample farther from its centroids (`Descends`); each is one of Lloyd's (`IsLloyd`). Quantizer: sums and heap of the sweep stay exact (`SumsExact`, `HeapExact`); codes keep sign and order (`OrderKept`); both estimates are exact along the residual (`ExactAlongResidual`); extra bits never rebuild a vector worse than its signs (`ExtraBitsHelp`); the factor is the best after `t_start` (`Implements`) |
| `fastscan` | both layouts, three kernels, 0 to 33 vectors of 16 to 32 dimensions, widths 0 to 8 | every code comes back (`CodesBack`), no distance differs from the exact one by more than the rounding of the table (`DistancesClose`), all kernels compute the sums of `BatchScan` (`Implements`) |
| `mstg_store` | 3 saves of 2 indexes, 2 faults, loads and re-saves between any of their steps | a load that passed its checksum has all the lists of the file (`ListsWhole`); what was saved comes back, with its graph (`LoadsWhatWasSaved`), and loads (`SavedFromMemoryLoads`); a search gets its own list (`SearchesOwn`) |
| `rabitq_files` | 22 requests for indexes of 0 to 17 bits, 1 to 41 rows, both rotators; 2 saves, 1 fault | what a save that returned has written loads by the loader of its kind and by the smart one (`SavedLoadsBack`); only whole indexes load (`LoadedWhole`) |

Runs that TLC refutes, each a place where the code and something it says of
itself disagree (`findings`):

| Run | Property | What happens |
| --- | --- | --- |
| `hnsw_cold_batch` | `AllReturn` | a first `batch_search` on 3 workers: the worker that builds the graph steals another query while it waits and blocks on its own lock |
| `mstg_closure_rng` | `RngRule` | the documents and `closure.rs` say that the closure skips lists by the RNG rule; the code never calls it, and keeps vectors in lists the rule skips, in the reading of the documents and in that of the dead code |
| `mstg_store_resave` | `SavedLoads` | a mapped index saves no lists; its file makes loads panic |
| `rabitq_one_bit` | `SavedAlwaysLoads` | a one-bit brute-force index saves a code a loader does not expect: it never loads |

More disagreements are states of the models, without a run of their own:

* a cluster of equal vectors over the size limit can be split into itself for ever: with
  `Branching` 2, where an even number of rows in one group is evened out already,
  `MCMstgIndex!EqualQueries` makes `Completes` fail; a sample that is all equal does the
  same to a cluster whose other rows differ;
* sums of floats depend on how the chunks were divided, so a seed does not fix
  the centroids for data of more than one chunk: `KM!Deterministic` fails for
  `MCTraining!SeededInputs` with a `Mantissa` of 4, where 16 + 1 + 1 + 1 is 16 or 18;
* more than 2048 dimensions panic in every query: the table for them is checked
  against a length it does not have (`BuildLutHighAcc`; the kernels it is meant for
  are never reached), and rows that are no multiple of 16 panic in their first scan
  (`WrongDimension`);
* below that, the sums of 16 bits may wrap from 1032 dimensions on
  (`NoWrap` of `DistancesClose`); at 2048 an average entry of 127 is enough;
* the code at `t_start` is never tried by the sweep, and is better than all it tries
  for about one in six small vectors at two extra bits; at one and three extra bits codes start full and
  scores are of codes that are cut later; vectors whose codes change together (`Plain`
  is false: magnitudes 3, 0, 4, 4, 9, 7 at four bits) can end with a factor that is not the best;
* a vector replicated to two lists takes two of the k places of an answer;
* a load between the two halves of an overwriting MSTG save has new lists and the
  old graph, and saving that index keeps the pair;
* a load that a save overtakes after its checksum can end with the lists of another index
  under its own directory; one overtaken after it mapped the file, or a search of a mapped
  index, can end in a bus error (`"sigbus"`);
* IVF training accepts 1 to 16 bits and panics for all but 1, 3 and 7, and packing
  panics for rows that are no multiple of 16; the IVF loader refuses clusters of more
  than a million rows that the save writes;
* `SplitPanics`: k-means is asked for more groups than a cluster has rows, and
  asserts; posting lists are filled past `max_posting_size` by replication.

### 3.1 Bounds, and why they are enough

* *Searches.* With k up to 2 (3 in the degenerate inputs) and up to 5 slots, a
  heap goes from empty to full to replacing entries, with ties; one bootstrap
  list and two parallel ones are the fewest for a seed that is stale in two
  scans at once. `BootstrapLimit` stands for the 8 of the code. The proofs lift
  all of these bounds for MstgSearch and IndexSearch, and the safety properties
  of `HnswCache`, `MstgIndex`, `MstgStore`, `RabitqFiles`, `KMeans` and `Quantizer` (all but
  `ExtraBitsHelp`) are free of the bounds below too.
* *HnswCache.* The deadlock of `hnsw_cold_batch` needs a builder, a thief of one of
  its insertions and a third party's query: three workers and three queries. Three
  callers are enough for two to lose the race to build. `hnsw_searches` starts
  batches only where the graph is there (`Sound` in `MCHnswCache`): without it a
  batch may not return.
* *MstgIndex.* Five rows split four ways, with groups that need more moves than the
  one allowed (`MoveLimit`, 10 in the code); six rows, clustered and built but not
  searched, are the fewest that give a split of a split. A cluster of three is over
  the limit and has too few rows for a split: the abort is one of the ends. With `PerCentroid`
  1 k-means trains on four rows, so five and six are sampled; four rows of `Skewed` are equal, and
  a sample of them leaves the cluster whole until the evening out takes a row away. Two replicas
  of three or more clusters make "take, then filter" and "filter, then take"
  different computations, and `ef` from one to all lists, with and without bounds,
  gives searches with bootstrap lists alone and with parallel ones.
* *K-means.* Three chunks are the fewest whose ranges split twice, and so merge in
  more than one order; five clusters of three values leave up to three of them empty,
  more than the `Reseeds` (2) of a chunk, in one chunk and in two; `<<0, 0, 5>>` may start with both
  centroids on one point, and is separated only by the assignment after the last update.
* *FastScan.* 31, 32 and 33 vectors are a batch that is nearly, exactly and more than
  full; 16 dimensions are two steps of the AVX2 loop and one of AVX-512's, 32 four and two; every width of extended code has its own format. The
  proofs lift the sizes for the sums.
* *Quantizer.* Magnitudes up to 7 in three coordinates pass every level of the codes of
  0 to 4 bits, with equal magnitudes, zeros and negative ones; codes change one
  by one and together.
* *Store.* Two indexes of different shapes, so that offsets of one are wrong for the
  other; `MaxSaves` 3 is an overwrite and a re-save of what it left, the fewest that save
  lists with another index's graph; two faults are a failed write
  and a power loss, or a death and another. Loads and searches that find their file overwritten,
  and a load of a mapped index's re-save, happen within these bounds; the properties of
  `mstg_store` say of which states they speak (2.1), and the refuted run makes
  the same statement of an index that was loaded mapped.
* *Files.* One of each width that is packed in its own way, rows of 4 to 65
  dimensions with and without padding, batches that are full, partial and both. Requests of 10 to 16
  bits are left out: the generic packing takes codes of at most 8 bits.
  Training stops being asked once saves and faults reach `MaxSaves`.

### 3.2 Fairness

`HnswCache` assumes weak fairness of each thread: a thread that can take a step
takes one, as the operating system's scheduler gives. A thread blocked on the
lock is not enabled, and nothing is assumed of who gets a lock first. The number
of searches is finite, so no writer waits for an endless stream of readers.
`MstgIndex` has weak fairness of its next step: the caller's thread clusters and
asks, and the threads of the pool that assign, collect and scan never block on
anything. The other specifications have no
liveness property, and no fairness.

Deadlock is checked in every run but `hnsw_cold_batch`, whose deadlock is the
point, and `fastscan`, which stops when it has returned. The other
runs end in an explicit final stuttering step. In `training` the quantizer and k-means share
nothing: one works through its inputs while the other rests at one it has nothing to do for.

A passing run checks the types of its modules with the invariant that says most of
the same variables (`Partition`, `Accounted`, `SumsExact`, `NothingLost` of
`IndexSearch`, `ReadersSeeWholeGraph`, `ListsWhole`), except where types are a theorem
or of interest of their own.

## 4. What is proved

`MstgSearchProofs` proves, for every value of the constants under their
assumptions (`InfAssumption`: infinity is no integer; `SearchAssumption`:
epsilon is a fraction, at least one bootstrap list, inputs well typed), for any
number of lists, vectors and workers:

* `TypeCorrect`: types, and at most top_k entries in every heap;
* `StaleSeeds`: a list not yet merged that was given a finite seed implies a full
  global heap with nothing beyond that seed;
* `NoLoss`: no candidate looked at whose bound is right is lost;
* `KthNeverGrows`: the k-th distance of the global heap only shrinks;
* `Refinement`: the search implements `TopK`.

The inductive invariant is

    IInv == TypeOK /\ HeapsOK /\ ControlOK /\ MergeOK /\ StaleSeedSafe /\ NothingLost

None of the three properties is inductive alone. `HeapsOK` says that what a heap
holds was scanned and has a finite distance; `ControlOK` ties phases to what is
left to do (a scan that has started belongs to a list in `todo`, the bootstrap
lists come first, "merge" finds every list exhausted); `MergeOK` says that what is
being merged is part of the local heap of the list being merged and is covered by
the global one. The argument for pruning: a slot is dropped when its bound is at
least the smaller of the local k-th distance and the seed. In the first case the
full local heap covers it and stays full; in the second `StaleSeedSafe` says that
the global heap is full within the seed, and pushes never make a full heap worse
(`PushOutcome`). `Refinement` needs `NothingLost` in the
last state, where every list is exhausted and merged. TLC checked `IInv` as an
invariant before it was proved.

`IndexSearchProofs` proves the same of the two other kinds of index, for every set of
clusters or vectors, every metric, nprobe, k and filter (`SearchAssumption`: inputs well
typed, ids that fit 32 bits, and no more vectors in a brute-force index than that):

* `NoLoss`: at most top_k entries in the heap, and no accepted vector of a cluster an IVF
  query has been through is lost, unless its bound was wrong;
* `BestProbes`: clusters are taken best first, and exactly min(max(nprobe, 1), nlist) of
  them by the end;
* `Refinement`: either search implements `TopK`, where what a brute-force search is offered
  is said with the filter and the whole id, not with the cut the code makes of it.

Its `IInv` is one invariant for each kind. `IvfInv` adds to the types and `NothingLost`
that a cluster not yet probed comes after all that have been, that a finished search has
probed all of `Probes` and lost nothing of `Offered`. `BestProbes` counts: the sort key
is a strict total order (`BeforeOrder`), so ranks tell clusters apart and are a bijection to
1 .. nlist (`ProbesCount`), and ties neither add a cluster nor drop one. `CoverKept`, from
`PushOutcome`, carries what is covered over a push.

`FastScanProofs` proves, for every dimension, number of vectors, width, query and
all three kernels, with no bound on anything (`InputAssumption` types the inputs):

* `TypeCorrect`: registers stay in their 16 bits, batches are scanned in whole columns,
  and there is one answer for each vector of the batches done and none for padding;
* `Refinement`: every scan, by whatever instructions, implements `BatchScan`: each slot
  has, modulo 2^16, the sum of the table entries its own code selects;
* `CodesComeBack` (`CodesBack`): what was packed is got back, signs and extended code, of every
  vector, in a full batch or a partial one, for each of the nine widths;
* `EveryDistanceClose` (`DistancesClose`): while sums fit their 16 bits, no distance is further from the
  exact one of its own vector than half a step of the table per row allows.

The inductive invariant `IInv` of that module adds to the types what a batch holds
(the packed codes of its slots), what the table is, and that the register an
instruction set does not use is zero. The argument: a word of `even` has gained the
entry of one slot and 256 times that of another, the same word of `odd` the latter
alone, so subtracting 256 times `odd` leaves the former, modulo 2^16
(`WordStep`, `LaneStep`); adding up two or four lanes adds up the columns the lanes were of
(`AddLanesStep`); and the permutation puts in each byte the nibbles of the slots that
byte is read for. The subtraction is where a proof is worth more than a run:
it is right only because both sides are taken modulo the same 2^16, whatever has wrapped.

`CodesBack` needs `CodesOK`: the extended codes kept so far are those of the vectors of the batches packed, in
order, the padding of a posting list included. Widths 2 and 6 are undone block by block. The
streams need no case per width: bit `p` of a stream is bit `p % w` of code `p \div w`, a code's bits
are found in two bytes as two divisions are one (`DivDiv`), and numbers whose first `w` bits
agree are equal modulo 2^w (`BitsTell`).

`DistancesClose` needs four more facts of every state (`DistancesOK`): the table is that of the query, the
sums are those of the columns scanned so far (`SumsOK`, step by step from `Refinement`), an estimate
is of the sums it was made from, and every answer so far is close. A row holds the sixteen sums a code
can select of four dimensions (`LutRowIs`), each rounded by half a step at most
(`EntryClose`), so the entries a code selects are as many half steps from its product with the query as
there are rows (`RowClose`, by induction over the rows). The refined distance adds a product of
its own: sums over dimensions are linear (`DotLinear`), and the extended part cancels exactly.
Sums over dimensions and entries of a row are recursive functions of the model; that they satisfy
their equations is proved (`DotIs`, `LutRowIs`), by induction over sets of naturals (`UpTo`).

`HnswCacheProofs` proves of the graph cache, for any number of workers, callers, batches,
leaves and searches a pool can take on:

* `OneGraph` (`BuiltOnce`), `WholeGraph` (`ReadersSeeWholeGraph`): at most one graph is built, and
  whoever reads the cache finds nothing or the whole of it;
* `WholeBatch` (`CollectedComplete`): a batch that returns has all its answers.

    IInv == StacksOK /\ PoolOK /\ CallersOK /\ LockOK /\ GraphOK /\ Covered

The hard part is that a worker's stack holds frames of unrelated calls, in whatever order it
stole them. `LockOK` says that the write lock belongs to the one thread with a frame that is
rechecking or publishing, and `GraphOK` that a build has begun only if there is a graph or such
a frame is about to publish one. `Covered` is what makes a join right: a leaf
owed to a frame that waits is finished, or a frame above it on the same stack sees to it.

`MstgIndexProofs` proves of clustering, building and searching as composed in `MstgIndex`, for
any data, any limits and any number of replicas and lists:

* `ClustersPartition` (`Partition`), `SplitsProgress` (`NeverWhole`): no row is lost or duplicated and
  the final clusters fit; no group of a split is the whole of the cluster, unless one value fills a
  sample k-means may train on, and not even then once the evening out has moved a row. The second
  assumes that a cluster is not split one way (`Branching # 1`): with one group the code
  does push back the cluster it popped;
* `ListsExact` (`ReplicasExact`): each vector is in exactly the lists the code takes for it: of those within
  the threshold the `MaxReplicas` nearest, though the code takes first and applies the threshold then;
* `FindsItselfAlways` (`FindsItself`): the nearest centroid has rank 0, so it is in every closure that takes
  at least one list (`MaxReplicas > 0`) and survives `dynamic_prune`, and the scan of its list loses no vector;
* `RoomForReplicas` (`NotCrowdedOut`): an entry of an answer is named by its id and the rank of
  its list in the closure, so entries nearer than a vector are at most `MaxReplicas` times
  the vectors nearer than it.

The invariant is `ClusterInv` (shapes, the partition across `active`, `groups` and `final`, and that a
split has at least two groups until they are pushed), `BuildOK` (each closure is what its vector's distances
give, each list what the closures give) and `QueryOK`, which holds the whole `IInv` of
`MstgSearchProofs` for the query being answered: its step lemma is used, not proved again. What
is said of all finite sets (a largest group, a nearest centroid, a pigeonhole) goes by `SetInduction`, a
lemma about sets of finite sets.

`MstgStoreProofs` proves, for any indexes, any number of saves, deaths, failed writes and power losses:

* `LoadedWhole` (`ListsWhole`), `SavedComesBack` (`LoadsWhatWasSaved`), `SavesLoad`
  (`SavedFromMemoryLoads`) and `ListsAreWhereTheDirectorySays` (`SearchesOwn`).

    IInv == FilesOK /\ SaverOK /\ GoodOK /\ IndexOK
            /\ HeadOK /\ SettledOK /\ WalkOK /\ CountsOK

`FilesOK` says that the file is always what *one* save wrote, cut short somewhere and with holes; `SaverOK`
that a save in progress has written exactly what it no longer has to write; `GoodOK` that a save that
returned left both files whole until something touches them. The other parts are about a load under
way. `HeadOK`: while it has got no further than its header, the two pieces of the header that are in the file
are no holes. `SettledOK`: since it found a `good` file and no save has begun, directory and length are those
of that file. `WalkOK`: since its checksum no save has begun, so the file is whole, and the load has read a first
part of the lists and stands where the next begins. A checksum that fits leaves no hole and no missing
piece (`SumProves`), except in a file without lists, whose checksum a re-save of a mapped
index also writes; `WalkReads` and `WalkEnds` follow the walk over the lengths. The offsets of the
directory are sums worked out twice, by the save and by the reader, in recursions over different things;
`DiskOffsetIs` makes them one.

`RabitqFilesProofs` proves the same shape of facts of IVF and brute-force files, for every
dimension, width, list of cluster sizes and rotator:

* `TypeCorrect` (`TypeOK`), `LoadsWhole` (`LoadedWhole`) and `SavesLoadBack` (`SavedLoadsBack`).

Sizes are worked out twice in the code, by what is written and by what is expected. `ImageFacts` shows them
equal for every width and dimension that training lets through, except in
one-bit brute-force indexes, which differ in the part `rabitq_one_bit` is about and
still have as many parts; this is where the rounding of the seven packings and of the padded
dimension has to agree for all dimensions, not those of a run. `LoadableIsWhole` then says
that a file a loader accepts is whole: its fields are there, its checksum leaves no hole, its
sizes leave no part missing.

`TrainingProofs` is about what is done to vectors before they are searched. For the quantizer it
assumes 0 to 15 extended bits (the code takes 0 to 15: `total_bits` is 1 to 16), integer residuals of
any dimension and size, and positive constants for the faster configuration; it proves, for every
vector and every outcome of a tie:

* `SumsAreExact` (`SumsExact`), `HeapIsExact` (`HeapExact`): at every turn the sums only ever added to are
  those of the codes the sweep is at, and no coordinate whose code changes before `t_end` is missing from the heap;
* `FactorIsBest` (`Implements`): a step of the sweep is one of `BestFactor`: the factor it ends with is of the range
  and, for data whose codes change one at a time, the best of all changes in it;
* `OrderIsKept` (`OrderKept`), `EstimatesAreExact` (`ExactAlongResidual`): codes keep sign and order
  whichever factor they came from, and both estimates are exact along the residual, in both metrics.

    IInv == InputOK /\ PhaseOK /\ FactorOK /\ SweepOK /\ HeapExact /\ EncodedOK

`HeapExact` is inductive with the types of the sweep; the sums need that one term changes at a time
(`SumPoint`), and the codes that the parts of a sum keep their sign. Sums are folds over finite sets, which
the provers know nothing of, so each is first shown to be `SumOver`, with an equation for the element taken
away first (`SumStep`), and everything after that is by `SetInduction` over subsets. `FactorIsBest`
has an invariant of its own, `FactorInv`: no change made comes after one still in the heap (`Behind`), so
the changes made are all those up to the current factor, the codes the sweep is at are those the
factor gives, and the best is the best of those tried.

For k-means it assumes `TrainingAssumption` (well typed inputs, and a `Unit` that every count divides,
so that means are exact) and, in all theorems but the first, `Fits`: the number of rows times the
greatest magnitude is below 2^`Mantissa`, for a `Mantissa` of 15 to 30 bits, so no sum is rounded. Where sums
are rounded they depend on the order of the additions (`Deterministic`, above), and nothing but
`ResultBelongsTogether` is claimed. The inputs of the run satisfy
`Fits` with the 24 bits of a float. For any number of rows, clusters, restarts, chunks and threads:

* `ResultBelongsTogether` (`Consistent`): a row of the result is assigned to the first of the nearest of
  the very centroids returned, and the objective is theirs;
* `ThreadsAccount` (`Accounted`): whatever ranges are halved, folded and merged, in whatever order, a state
  accounts for each row of its chunks once, and the states are of all chunks;
* `TrainingIsLloyd` (`IsLloyd`): training implements `Lloyd`;
* `IterationsDescend` (`Descends`): no iteration takes the centroids farther from the sample;
* `UnequalRowsSeparate` (`Separates`): when the rows trained on, all or a sample, are not all equal, the data
  do not all come back in one group.

The inductive invariant is `TrainInv`: the ranges of the states are disjoint and cover the chunks
(`StatesOK`), a state's `up` names the halvings that led to it (`Leads`), and it holds exactly what its rows
give (`Holds`: counts, sums, candidates, assignments). Two finished halves of a range are next to
each other, so what they hold adds up to what the range should (`SpanSplit`, `PartsAdd`), and under `Fits` no
partial sum is rounded (`SumFits`, `RunningSums`). That the candidates kept per chunk serve as all rows would
is `Reseeding`: a row that was not kept has `Reseeds` rows of its chunk before it, each at least as far.
`Descends` holds cluster by cluster: a mean is no farther from its points than the old centroid was
(`MeanIsNearest`), and a row's nearest centroid is no farther than that (`SumParts` adds up). `Separates` needs
an invariant about the last iteration and the best result (`SeparateInv`): a centroid nearest to every
row would be the mean of every cluster that has rows (`MeansMeet`); two such clusters lie on different
sides of a point, so their means differ (`MeansDiffer`); and if there is one only, an empty
cluster was given the farthest row, which would be the mean of all as well (`UpdateSeparates`). This is the
argument by which the split loop gets on; it is the reseeding, not the random start, that carries it.

In every one of these modules TLC checked the inductive invariant on the run of the module (`IInv`, `FactorInv`,
`TrainInv`; of `MstgStore` its parts, the lists of a file taken from a finite set, and two saves).

Only model-checked: liveness (`AllReturn`, `Completes`), which is out of the prover's reach, and `ExtraBitsHelp` of
the quantizer. That a vector is not rebuilt worse from its codes than from its signs compares two codes
of the same vector by squares of sums, and rests on which factors the sweep happens to try (the codes of
`t_start` are not among them); it holds for all the small vectors of the run, and no general argument was
found. The refuted statements are states TLC shows; nothing is proved of them.

## 5. What is not modelled

* Rotation: a fixed linear map, applied to data and queries alike; that it keeps
  norms and that its inverse undoes it is arithmetic over floats, which the unit tests
  check. Only its padding matters to other parts, and is in `RabitqFiles`: none for the matrix
  rotator, up to a multiple of 64 for the other.
* Distances and scalar quantization: pure functions of floats. Their results enter
  the models as free or exact inputs. The error of the estimator (`f_error`) is
  a probabilistic claim; bounds are right or wrong as the search models choose.
* Distances on ARM64, which `README.md:69` of the repository says come out wrong, for both metrics. It names
  no cause; the scalar scan is one of the three of `FastScan`, and is right there.
* SIMD variants of one function (inner products, packing) besides the three kernels of
  `FastScan`: they are meant to be equal to the scalar code up to rounding. In the AVX-512 code
  for one- and two-bit codes the remainder of a row that is no multiple of 64 is packed by whole bytes.
  Kernels for tables of high accuracy are not reachable.
* Graph search inside hnsw_rs: the centroids a query gets are an input.
* Python bindings, readers, configuration, prefetch: conversions and values.
* In modelled parts: the diagnostics counters of a search; the 4 GiB cut of a
  list's size in the directory; the two hnsw files one by one; concurrent saves
  to one path.

## 6. Plan

Built so far, in order of importance: searches of all three kinds, `TopK` and their proofs; the graph
cache and batches; clustering, building and their composition with the search;
persistence of all three indexes; FastScan with its proofs; k-means; the quantizer.
Next:

1. `ExtraBitsHelp` for vectors of any length, or a vector for which it fails.
2. Composition of `MstgStore` with `HnswCache` (a save builds the graph under the same lock).
