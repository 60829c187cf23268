------------------------------ MODULE HnswCache ------------------------------
(***************************************************************************)
(* The lazily built HNSW graph over the MSTG centroids, shared by every    *)
(* search of an index (CentroidIndex::ensure_hnsw_built and search).  The  *)
(* graph sits behind a parking_lot RwLock: the first search to find it     *)
(* missing takes the write lock, inserts the centroids IN PARALLEL on the  *)
(* rayon pool, and publishes it.  The same pool runs the queries of        *)
(* batch_search and the posting lists of a query's second stage, and a     *)
(* worker that waits for a part of its job that was stolen runs any other  *)
(* job it can find meanwhile -- whatever locks it holds.                   *)
(*                                                                         *)
(* Modelled from their use: rayon's join, its deques (a worker takes its   *)
(* own newest job, a thief another's oldest) and the queue for calls from  *)
(* outside the pool; hnsw_rs's parallel_insert, a par_iter over the        *)
(* centroids; the RwLock, which a thread cannot take twice and whose       *)
(* writer, once it has claimed the lock, keeps new readers out.            *)
(***************************************************************************)
EXTENDS Integers, Sequences, FiniteSets

CONSTANTS
  Workers,      \* the threads of the rayon pool
  Callers,      \* application threads outside the pool
  NQueries,     \* queries of a batch
  NCentroids,   \* centroids of the index
  NLists,       \* posting lists left to a query's parallel stage
  NoThread

Threads == Workers \cup Callers

ASSUME CacheAssumption ==
  /\ NQueries \in Nat \ {0} /\ NCentroids \in Nat \ {0} /\ NLists \in Nat
  /\ Workers \cap Callers = {}
  /\ NoThread \notin Threads

VARIABLES
  warm,       \* is the graph there from the start (load_from_path)?
  batchers,   \* the callers that call batch_search; the others call search
  cache,      \* hnsw_cache: is there a graph?
  inserted,   \* the centroids inserted in the graph under construction
  builds,     \* how many graphs have been started
  writer,     \* the thread that has claimed the write lock
  readers,    \* the threads that hold the read lock
  stack,      \* stack[t]: what thread t is in the middle of, innermost first
  deque,      \* deque[w]: the jobs worker w has set aside, oldest first
  injector,   \* jobs handed to the pool from outside
  done,       \* the stolen or injected jobs that are finished (their latches)
  returned    \* the queries answered

lock == <<writer, readers>>
graph == <<cache, inserted, builds>>
pool == <<deque, injector, done>>
calls == <<warm, batchers>>
vars == <<calls, graph, lock, stack, pool, returned>>

-----------------------------------------------------------------------------
(* Jobs are index ranges of a par_iter; frames are what a thread is in.    *)

Queries(c) == IF c \in batchers THEN {<<c, i>> : i \in 1 .. NQueries} ELSE {<<c, 0>>}

Job(kind, owner, lo, hi) == [kind |-> kind, owner |-> owner, lo |-> lo, hi |-> hi]
Mid(j) == j.lo + ((j.hi - j.lo + 1) \div 2) - 1     \* rayon: the left half is len / 2 long
Left(j) == [j EXCEPT !.hi = Mid(j)]
Right(j) == [j EXCEPT !.lo = Mid(j) + 1]

At(pc, q) == [op |-> pc, query |-> q]       \* a search, at pc
Run(j) == [op |-> "run", job |-> j]         \* about to run job j
Join(j) == [op |-> "join", job |-> j]       \* left half run, right half j open
Latch(j) == [op |-> "latch", job |-> j]     \* outside the pool, waiting for j
Stolen(j) == [op |-> "stolen", job |-> j]   \* sets j's latch when control returns

Top(t) == Head(stack[t])
Is(t, op) == stack[t] # <<>> /\ Top(t).op = op

Replace(t, frames) == stack' = [stack EXCEPT ![t] = frames \o Tail(@)]
Return(t) == stack' = [stack EXCEPT ![t] = Tail(@)]

\* par_iter: a worker runs it, any other thread hands it to the pool and waits.
Fork(t, next, j) ==
  IF t \in Workers
  THEN Replace(t, <<Run(j), next>>) /\ UNCHANGED pool
  ELSE /\ Replace(t, <<Latch(j), next>>)
       /\ injector' = Append(injector, j)
       /\ UNCHANGED <<deque, done>>

-----------------------------------------------------------------------------
\* (Fault: loading leaves the saved graph aside.)
GraphAside == FALSE
GraphThere == warm

Init ==
  /\ warm \in BOOLEAN /\ batchers \in SUBSET Callers
  /\ cache = GraphThere
  /\ inserted = IF GraphThere THEN 1 .. NCentroids ELSE {}
  /\ builds = 0
  /\ writer = NoThread
  /\ readers = {}
  /\ stack = [t \in Threads |->
                IF t \in batchers THEN <<[op |-> "batch"]>>
                ELSE IF t \in Callers THEN <<At("check", <<t, 0>>)>> ELSE <<>>]
  /\ deque = [w \in Workers |-> <<>>]
  /\ injector = <<>>
  /\ done = {}
  /\ returned = {}

\* (Fault: the last query of the batch is left out.)
CallBatchButLast(t) ==
  /\ Is(t, "batch")
  /\ Fork(t, [op |-> "collect"], Job("query", t, 1, NQueries - 1))
  /\ UNCHANGED <<graph, lock, returned>>

\* batch_search: queries.par_iter().
CallBatch(t) ==
  /\ Is(t, "batch")
  /\ Fork(t, [op |-> "collect"], Job("query", t, 1, NQueries))
  /\ UNCHANGED <<graph, lock, returned>>

Collect(t) ==
  /\ Is(t, "collect")
  /\ Return(t)
  /\ UNCHANGED <<graph, lock, pool, returned>>

\* With one centroid there is no graph; otherwise look for it, under the
\* read lock, which is released again.
Check(t) ==
  /\ Is(t, "check")
  /\ NCentroids >= 2 => writer = NoThread
  /\ LET q == Top(t).query
     IN  Replace(t, <<At(CASE NCentroids < 2          -> "lists"
                           [] NCentroids >= 2 /\ cache  -> "find"
                           [] NCentroids >= 2 /\ ~cache -> "write", q)>>)
  /\ UNCHANGED <<graph, lock, pool, returned>>

\* write() first claims the lock against readers and writers ...
Claim(t) ==
  /\ Is(t, "write")
  /\ writer = NoThread
  /\ writer' = t
  /\ Replace(t, <<At("recheck", Top(t).query)>>)
  /\ UNCHANGED <<graph, readers, pool, returned>>

\* (Fault: the second look at the cache is left out.)
BuildUnchecked(t) ==
  /\ Is(t, "recheck")
  /\ readers = {}
  /\ Fork(t, At("publish", Top(t).query), Job("insert", Top(t).query, 1, NCentroids))
  /\ inserted' = {} /\ builds' = builds + 1
  /\ UNCHANGED <<cache, lock, returned>>

\* (Fault: the graph is built with the lock released.)
BuildUnlocked(t) ==
  /\ Is(t, "recheck")
  /\ readers = {}
  /\ ~cache
  /\ Fork(t, At("publish", Top(t).query), Job("insert", Top(t).query, 1, NCentroids))
  /\ inserted' = {} /\ builds' = builds + 1
  /\ writer' = NoThread
  /\ UNCHANGED <<cache, readers, returned>>

\* ... and has it once the last reader is gone.  Someone may have built the
\* graph in the meantime; if not, build it with the write lock held.
Build(t) ==
  /\ Is(t, "recheck")
  /\ readers = {}
  /\ ~cache
  /\ Fork(t, At("publish", Top(t).query), Job("insert", Top(t).query, 1, NCentroids))
  /\ inserted' = {} /\ builds' = builds + 1
  /\ UNCHANGED <<cache, lock, returned>>

\* (Fault: the early return leaves the write lock taken.)
AlreadyBuiltKeeping(t) ==
  /\ Is(t, "recheck")
  /\ readers = {}
  /\ cache
  /\ Replace(t, <<At("find", Top(t).query)>>)
  /\ UNCHANGED <<graph, lock, pool, returned>>

AlreadyBuilt(t) ==
  /\ Is(t, "recheck")
  /\ readers = {}
  /\ cache
  /\ writer' = NoThread
  /\ Replace(t, <<At("find", Top(t).query)>>)
  /\ UNCHANGED <<graph, readers, pool, returned>>

\* *cache = Some(hnsw_index), and the write guard is dropped.
Publish(t) ==
  /\ Is(t, "publish")
  /\ cache' = TRUE
  /\ writer' = NoThread
  /\ Replace(t, <<At("find", Top(t).query)>>)
  /\ UNCHANGED <<inserted, builds, readers, pool, returned>>

\* read() for the search of the graph itself ...
Find(t) ==
  /\ Is(t, "find")
  /\ writer = NoThread
  /\ readers' = readers \cup {t}
  /\ Replace(t, <<At("probe", Top(t).query)>>)
  /\ UNCHANGED <<graph, writer, pool, returned>>

\* ... which the guard outlives by nothing.
Probe(t) ==
  /\ Is(t, "probe")
  /\ readers' = readers \ {t}
  /\ Replace(t, <<At("lists", Top(t).query)>>)
  /\ UNCHANGED <<graph, writer, pool, returned>>

\* remaining_centroids.par_iter(): no lock is held any more.
ScanLists(t) ==
  /\ Is(t, "lists")
  /\ IF NLists = 0
     THEN Replace(t, <<At("answer", Top(t).query)>>) /\ UNCHANGED pool
     ELSE Fork(t, At("answer", Top(t).query), Job("list", Top(t).query, 1, NLists))
  /\ UNCHANGED <<graph, lock, returned>>

Answer(t) ==
  /\ Is(t, "answer")
  /\ returned' = returned \cup {Top(t).query}
  /\ Return(t)
  /\ UNCHANGED <<graph, lock, pool>>

-----------------------------------------------------------------------------
(* The pool.                                                               *)

\* rayon::join splits a range: the right half is set aside, to be stolen.
Split(t) ==
  /\ Is(t, "run") /\ Top(t).job.lo < Top(t).job.hi
  /\ LET j == Top(t).job
     IN  /\ Replace(t, <<Run(Left(j)), Join(Right(j))>>)
         /\ deque' = [deque EXCEPT ![t] = Append(@, Right(j))]
  /\ UNCHANGED <<graph, lock, injector, done, returned>>

\* A range of one: the closure's body.
Leaf(t) ==
  /\ Is(t, "run") /\ Top(t).job.lo = Top(t).job.hi
  /\ LET j == Top(t).job
     IN  /\ IF j.kind = "query"
            THEN Replace(t, <<At("check", <<j.owner, j.lo>>)>>)
            ELSE Return(t)
         /\ inserted' = IF j.kind = "insert" THEN inserted \cup {j.lo} ELSE inserted
  /\ UNCHANGED <<cache, builds, lock, pool, returned>>

\* The left half is run and nobody has stolen the right one.
Resume(t) ==
  /\ Is(t, "join")
  /\ deque[t] # <<>> /\ deque[t][Len(deque[t])] = Top(t).job
  /\ Replace(t, <<Run(Top(t).job)>>)
  /\ deque' = [deque EXCEPT ![t] = SubSeq(@, 1, Len(@) - 1)]
  /\ UNCHANGED <<graph, lock, injector, done, returned>>

\* It was stolen (or handed to the pool) and is finished.
Joined(t) ==
  /\ Is(t, "join") \/ Is(t, "latch")
  /\ Top(t).job \in done
  /\ Return(t)
  /\ UNCHANGED <<graph, lock, pool, returned>>

SetLatch(t) ==
  /\ Is(t, "stolen")
  /\ done' = done \cup {Top(t).job}
  /\ Return(t)
  /\ UNCHANGED <<graph, lock, deque, injector, returned>>

\* An idle worker, or one whose right half is with another, looks for work.
Hungry(t) ==
  /\ t \in Workers
  /\ deque[t] = <<>>
  /\ stack[t] = <<>> \/ (Is(t, "join") /\ Top(t).job \notin done)

Start(t, j) == stack' = [stack EXCEPT ![t] = <<Run(j), Stolen(j)>> \o @]

Steal(t) ==
  /\ Hungry(t)
  /\ \/ \E v \in Workers \ {t} :
          /\ deque[v] # <<>>
          /\ Start(t, Head(deque[v]))
          /\ deque' = [deque EXCEPT ![v] = Tail(@)]
          /\ UNCHANGED injector
     \/ /\ injector # <<>>
        /\ Start(t, Head(injector))
        /\ injector' = Tail(injector)
        /\ UNCHANGED deque
  /\ UNCHANGED <<graph, lock, done, returned>>

-----------------------------------------------------------------------------
Search(t) ==
  \/ Check(t) \/ Claim(t) \/ Build(t) \/ AlreadyBuilt(t) \/ Publish(t)
  \/ Find(t) \/ Probe(t) \/ ScanLists(t) \/ Answer(t)

Pool(t) == Split(t) \/ Leaf(t) \/ Resume(t) \/ Joined(t) \/ SetLatch(t) \/ Steal(t)

Step(t) ==
  /\ CallBatch(t) \/ Collect(t) \/ Search(t) \/ Pool(t)
  /\ UNCHANGED calls

\* Every call has come back; the pool's threads stay idle.
Terminated == (\A t \in Threads : stack[t] = <<>>) /\ UNCHANGED vars

Next == (\E t \in Threads : Step(t)) \/ Terminated

\* Every thread that can run is scheduled.  A blocked one need not be: a
\* finite number of searches gives no reader the chance to barge for ever.
Fairness == \A t \in Threads : WF_vars(Step(t))

Spec == Init /\ [][Next]_vars
FairSpec == Spec /\ Fairness

-----------------------------------------------------------------------------
Frames(t) == {stack[t][i] : i \in DOMAIN stack[t]}
Pc(t) == {f.op : f \in Frames(t)}

TypeOK ==
  /\ cache \in BOOLEAN
  /\ inserted \subseteq 1 .. NCentroids
  /\ writer \in Threads \cup {NoThread}
  /\ readers = {t \in Threads : Is(t, "probe")}
  /\ builds \in Nat
  /\ returned \subseteq UNION {Queries(c) : c \in Callers}
  /\ \A t \in Threads : \A f \in Frames(t) :
       f.op \in {"batch", "collect", "check", "write", "recheck", "publish", "find",
                 "probe", "lists", "answer", "run", "join", "latch", "stolen"}

\* However many searches find the cache empty, one graph is built, and none
\* when it was loaded.
BuiltOnce == builds <= (IF warm THEN 0 ELSE 1)

\* The thread that builds has the lock to itself, and the unwrap() of a
\* search finds a graph that holds every centroid.  The readers of the lock are
\* the searches in the graph (TypeOK): no guard lives on.
ReadersSeeWholeGraph ==
  /\ TypeOK
  /\ readers # {} => cache /\ inserted = 1 .. NCentroids
  /\ \A t \in Threads : "publish" \in Pc(t) => writer = t /\ readers = {}

\* A latch is set only when the whole job is done: a search answers after
\* every one of its lists, and a batch is collected after every query.
CollectedComplete ==
  \A c \in Callers :
    (stack[c] = <<>> \/ Is(c, "collect")) => Queries(c) \subseteq returned

\* Every search and every batch comes back.
AllReturn == <>[](\A c \in Callers : stack[c] = <<>>)
=============================================================================
