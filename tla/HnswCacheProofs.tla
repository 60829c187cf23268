-------------------------- MODULE HnswCacheProofs --------------------------
(***************************************************************************)
(* The lazily built graph under its lock, with any number of workers,      *)
(* callers, queries, centroids and lists, cold or warm, whoever batches:   *)
(* one graph is built, it is whole when a search reads it, and a batch is  *)
(* collected when all its queries have answered.                           *)
(***************************************************************************)
EXTENDS HnswCache, SequenceTheorems, TLAPS

USE CacheAssumption

SearchOps == {"check", "write", "recheck", "publish", "find", "probe", "lists", "answer"}
JobOps == {"run", "join", "latch", "stolen"}
LockOps == {"recheck", "publish"}

AllQueries == UNION {Queries(c) : c \in Callers}
Jobs == [kind : {"query", "insert", "list"}, owner : Callers \cup (Callers \X Nat),
         lo : Nat, hi : Nat]
Frame == [op : SearchOps, query : Callers \X Nat] \cup [op : JobOps, job : Jobs]
         \cup [op : {"batch", "collect"}]

-----------------------------------------------------------------------------
(* What has to be done, and who answers for it.  A leaf is one insertion or *)
(* one query of a batch.                                                    *)

LeavesOf(j) ==
  CASE j.kind = "insert" -> {<<"insert", n>> : n \in j.lo .. j.hi}
    [] j.kind = "query"  -> {<<"query", <<j.owner, n>>>> : n \in j.lo .. j.hi}
    [] j.kind = "list"   -> {}

\* The leaves a frame will see to, or is waiting for.
Leaves(f) ==
  CASE f.op \in SearchOps              -> {<<"query", f.query>>}
    [] f.op \in {"run", "join", "latch"} -> LeavesOf(f.job)
    [] OTHER                            -> {}

\* The leaves that have to be done when control returns to a frame of thread t.
Owed(t, f) ==
  CASE f.op = "publish" -> {<<"insert", n>> : n \in 1 .. NCentroids}
    [] f.op = "stolen"  -> LeavesOf(f.job)
    [] f.op = "collect" -> {<<"query", <<t, n>>>> : n \in 1 .. NQueries}
    [] OTHER            -> {}

Finished == {<<"insert", n>> : n \in inserted} \cup {<<"query", q>> : q \in returned}

-----------------------------------------------------------------------------
(* The invariant.                                                          *)

\* A job is part of a range that was forked; insertions are forked by a build.
Good(j) ==
  /\ j \in Jobs
  /\ j.kind = "insert" => 1 <= j.lo /\ j.hi <= NCentroids /\ builds > 0
  /\ j.kind = "query" => j.owner \in batchers /\ 1 <= j.lo /\ j.hi <= NQueries

\* What a thread is in the middle of below the top frame is waiting.
GoodFrame(f) ==
  /\ f \in Frame
  /\ f.op \in JobOps => Good(f.job)
  /\ f.op \in SearchOps => f.query \in AllQueries

StacksOK ==
  /\ stack \in [Threads -> Seq(Frame)]
  /\ \A t \in Threads : \A p \in DOMAIN stack[t] :
       /\ GoodFrame(stack[t][p])
       /\ p > 1 => stack[t][p].op \in {"join", "publish", "collect", "answer", "stolen"}
       /\ stack[t][p].op \in {"batch", "collect"} => t \in batchers

PoolOK ==
  /\ deque \in [Workers -> Seq(Jobs)] /\ injector \in Seq(Jobs)
  /\ \A w \in Workers : \A p \in DOMAIN deque[w] : Good(deque[w][p])
  /\ \A p \in DOMAIN injector : Good(injector[p])
  /\ \A j \in done : Good(j) /\ LeavesOf(j) \subseteq Finished

\* A caller is in its call, waiting for the pool at most, or it is back.
Own(c, f) == IF c \in batchers THEN f.op \in {"batch", "collect"}
             ELSE f.op \in SearchOps /\ f.query = <<c, 0>>

CallersOK ==
  \A c \in Callers :
    /\ Len(stack[c]) <= 2
    /\ Len(stack[c]) = 0 => Queries(c) \subseteq returned
    /\ Len(stack[c]) = 1 => Own(c, stack[c][1])
    /\ Len(stack[c]) = 2 => stack[c][1].op = "latch" /\ Own(c, stack[c][2])

\* The write lock is with the one thread that looks again or builds.
LockOK ==
  /\ writer \in Threads \cup {NoThread}
  /\ readers = {t \in Threads : Is(t, "probe")}
  /\ \A t \in Threads : \A p \in DOMAIN stack[t] :
       /\ stack[t][p].op \in LockOps =>
            /\ writer = t
            /\ \A q \in DOMAIN stack[t] : stack[t][q].op \in LockOps => q = p
       /\ stack[t][p].op = "publish" => readers = {} /\ ~cache /\ builds > 0
       /\ stack[t][p].op \in {"find", "probe"} => cache

\* A graph is there, or on its way, or was never begun.
GraphOK ==
  /\ cache \in BOOLEAN /\ inserted \subseteq 1 .. NCentroids
  /\ warm => cache /\ builds = 0
  /\ builds \in {0, 1}
  /\ builds > 0 =>
       cache \/ \E t \in Threads : \E p \in DOMAIN stack[t] : stack[t][p].op = "publish"
  /\ cache => inserted = 1 .. NCentroids
  /\ ~cache /\ builds = 0 => inserted = {}
  /\ warm \in BOOLEAN /\ batchers \subseteq Callers
  /\ returned \subseteq AllQueries

\* What a frame is owed is done, or the frames above it see to it.
Covered ==
  \A t \in Threads : \A p \in DOMAIN stack[t] : \A x \in Owed(t, stack[t][p]) :
    x \in Finished \/ \E i \in 1 .. p - 1 : x \in Leaves(stack[t][i])

IInv == StacksOK /\ PoolOK /\ CallersOK /\ LockOK /\ GraphOK /\ Covered

-----------------------------------------------------------------------------
(* What an action does to the stacks.                                      *)

\* Thread t has dropped its d topmost frames and put fs on top.
Rewritten(t, d, fs) ==
  /\ stack' \in [Threads -> Seq(Frame)]
  /\ \A u \in Threads \ {t} : stack'[u] = stack[u]
  /\ d <= Len(stack[t]) /\ Len(stack'[t]) = Len(stack[t]) - d + Len(fs)
  /\ \A p \in 1 .. Len(fs) : stack'[t][p] = fs[p]
  /\ \A p \in Len(fs) + 1 .. Len(stack'[t]) : stack'[t][p] = stack[t][p - Len(fs) + d]

LEMMA ReplaceShape ==
  ASSUME StacksOK, NEW t \in Threads, stack[t] # <<>>, NEW fs \in Seq(Frame),
         Replace(t, fs)
  PROVE  Rewritten(t, 1, fs)
<1>1. /\ stack \in [Threads -> Seq(Frame)] /\ stack[t] \in Seq(Frame)
      /\ stack' = [stack EXCEPT ![t] = fs \o Tail(stack[t])]
  BY DEF StacksOK, Replace
<1>2. /\ Tail(stack[t]) \in Seq(Frame) /\ Len(Tail(stack[t])) = Len(stack[t]) - 1
      /\ \A i \in 1 .. Len(Tail(stack[t])) : Tail(stack[t])[i] = stack[t][i + 1]
      /\ Len(stack[t]) \in Nat \ {0}
  BY <1>1, HeadTailProperties
<1> DEFINE s == fs \o Tail(stack[t])
<1>3. /\ s \in Seq(Frame) /\ Len(s) = Len(fs) + Len(Tail(stack[t]))
      /\ \A i \in 1 .. Len(fs) : s[i] = fs[i]
      /\ \A i \in Len(fs) + 1 .. Len(s) : s[i] = Tail(stack[t])[i - Len(fs)]
  BY <1>2, ConcatProperties
<1>4. stack' \in [Threads -> Seq(Frame)] /\ stack'[t] = s
      /\ \A u \in Threads \ {t} : stack'[u] = stack[u]
  BY <1>1, <1>3
<1>5. Len(fs) \in Nat
  OBVIOUS
<1>6. ASSUME NEW p \in Len(fs) + 1 .. Len(s)
      PROVE  s[p] = stack[t][p - Len(fs) + 1]
  BY <1>2, <1>3, <1>5
<1> HIDE DEF s
<1> QED
  BY <1>2, <1>3, <1>4, <1>5, <1>6 DEF Rewritten

LEMMA ReturnShape ==
  ASSUME StacksOK, NEW t \in Threads, stack[t] # <<>>, Return(t)
  PROVE  Rewritten(t, 1, <<>>)
<1>1. /\ stack \in [Threads -> Seq(Frame)] /\ stack[t] \in Seq(Frame)
      /\ stack' = [stack EXCEPT ![t] = Tail(stack[t])]
  BY DEF StacksOK, Return
<1>2. /\ Tail(stack[t]) \in Seq(Frame) /\ Len(Tail(stack[t])) = Len(stack[t]) - 1
      /\ \A i \in 1 .. Len(Tail(stack[t])) : Tail(stack[t])[i] = stack[t][i + 1]
      /\ Len(stack[t]) \in Nat \ {0}
  BY <1>1, HeadTailProperties
<1> QED
  BY <1>1, <1>2 DEF Rewritten

LEMMA StartShape ==
  ASSUME StacksOK, NEW t \in Threads, NEW j \in Jobs, Start(t, j)
  PROVE  Rewritten(t, 0, <<Run(j), Stolen(j)>>)
<1> DEFINE fs == <<Run(j), Stolen(j)>>
           s == fs \o stack[t]
<1>1. /\ stack \in [Threads -> Seq(Frame)] /\ stack[t] \in Seq(Frame)
      /\ stack' = [stack EXCEPT ![t] = s]
  BY DEF StacksOK, Start
<1>2. fs \in Seq(Frame)
  BY DEF Run, Stolen, Frame, JobOps
<1>3. /\ s \in Seq(Frame) /\ Len(s) = Len(fs) + Len(stack[t])
      /\ \A i \in 1 .. Len(fs) : s[i] = fs[i]
      /\ \A i \in Len(fs) + 1 .. Len(s) : s[i] = stack[t][i - Len(fs)]
  BY <1>1, <1>2, ConcatProperties
<1>4. stack' \in [Threads -> Seq(Frame)] /\ stack'[t] = s
      /\ \A u \in Threads \ {t} : stack'[u] = stack[u]
  BY <1>1, <1>3
<1>5. Len(fs) \in Nat /\ Len(stack[t]) \in Nat
  BY <1>1, <1>2
<1>6. ASSUME NEW p \in Len(fs) + 1 .. Len(s)
      PROVE  s[p] = stack[t][p - Len(fs) + 0]
  BY <1>3, <1>5
<1> HIDE DEF s, fs
<1>7. Rewritten(t, 0, fs)
  BY <1>3, <1>4, <1>5, <1>6 DEF Rewritten
<1> QED
  BY <1>7 DEF fs

\* The top frame of a thread is the first of its stack.
LEMMA TopFrame ==
  ASSUME StacksOK, NEW t \in Threads, NEW op, Is(t, op)
  PROVE  /\ stack[t] # <<>> /\ Len(stack[t]) \in Nat /\ Len(stack[t]) >= 1
         /\ 1 \in DOMAIN stack[t] /\ DOMAIN stack[t] = 1 .. Len(stack[t])
         /\ Top(t) = stack[t][1] /\ Top(t).op = op /\ GoodFrame(Top(t))
         /\ op \in SearchOps =>
              Top(t) = At(op, Top(t).query) /\ Top(t).query \in AllQueries
         /\ op \in JobOps => Top(t) = [op |-> op, job |-> Top(t).job] /\ Good(Top(t).job)
<1>1. stack[t] \in Seq(Frame) /\ stack[t] # <<>> /\ Top(t).op = op
  BY DEF StacksOK, Is
<1>2. Len(stack[t]) \in Nat /\ Len(stack[t]) >= 1 /\ DOMAIN stack[t] = 1 .. Len(stack[t])
  BY <1>1
<1>3. Top(t) = stack[t][1] /\ 1 \in DOMAIN stack[t]
  BY <1>1, <1>2 DEF Top
<1>4. GoodFrame(Top(t))
  BY <1>3 DEF StacksOK
<1>5. /\ op \in SearchOps =>
           Top(t) = At(op, Top(t).query) /\ Top(t).query \in AllQueries
      /\ op \in JobOps => Top(t) = [op |-> op, job |-> Top(t).job] /\ Good(Top(t).job)
  BY <1>1, <1>4 DEF GoodFrame, Frame, SearchOps, JobOps, At
<1> QED
  BY <1>1, <1>2, <1>3, <1>4, <1>5

LEMMA ForkShape ==
  ASSUME StacksOK, NEW t \in Threads, stack[t] # <<>>, NEW next \in Frame,
         NEW j \in Jobs, Fork(t, next, j)
  PROVE  /\ \E f \in {Run(j), Latch(j)} :
              /\ Rewritten(t, 1, <<f, next>>)
              /\ t \in Callers => f = Latch(j)
         /\ injector' \in {injector, Append(injector, j)}
         /\ UNCHANGED <<deque, done>>
<1>1. Run(j) \in Frame /\ Latch(j) \in Frame
  BY DEF Run, Latch, Frame, JobOps
<1>2. <<Run(j), next>> \in Seq(Frame) /\ <<Latch(j), next>> \in Seq(Frame)
  BY <1>1
<1>3. CASE t \in Workers
  <2>1. Rewritten(t, 1, <<Run(j), next>>)
    BY <1>2, <1>3, ReplaceShape DEF Fork
  <2> QED
    BY <1>3, <2>1 DEF Fork, pool, Threads
<1>4. CASE t \notin Workers
  <2>1. Rewritten(t, 1, <<Latch(j), next>>)
    BY <1>2, <1>4, ReplaceShape DEF Fork
  <2> QED
    BY <1>4, <2>1 DEF Fork
<1> QED
  BY <1>3, <1>4

\* A frame afterwards is a new one, or was there and has not been dropped.
LEMMA FrameFrom ==
  ASSUME StacksOK, NEW t \in Threads, NEW d \in {0, 1}, NEW fs \in Seq(Frame),
         Rewritten(t, d, fs), NEW u \in Threads, NEW p \in DOMAIN stack'[u]
  PROVE  \/ u = t /\ p \in 1 .. Len(fs) /\ stack'[u][p] = fs[p]
         \/ \E q \in DOMAIN stack[u] :
              /\ stack'[u][p] = stack[u][q]
              /\ u = t => p = q + Len(fs) - d /\ q > d
              /\ u # t => q = p
<1>1. /\ stack[u] \in Seq(Frame) /\ stack'[u] \in Seq(Frame)
      /\ stack[t] \in Seq(Frame) /\ stack'[t] \in Seq(Frame)
  BY DEF StacksOK, Rewritten
<1>2. Len(fs) \in Nat
  OBVIOUS
<1>3. CASE u # t
  BY <1>1, <1>3 DEF Rewritten
<1>4. CASE u = t
  <2>1. p \in 1 .. Len(stack'[t])
    BY <1>1, <1>4
  <2>2. CASE p <= Len(fs)
    BY <1>2, <1>4, <2>1, <2>2 DEF Rewritten
  <2>3. CASE p > Len(fs)
    <3> DEFINE q == p - Len(fs) + d
    <3>1. p \in Len(fs) + 1 .. Len(stack'[t])
      BY <1>1, <1>2, <2>1, <2>3
    <3>2. stack'[t][p] = stack[t][q]
      BY <3>1 DEF Rewritten
    <3>3. Len(stack'[t]) = Len(stack[t]) - d + Len(fs) /\ d <= Len(stack[t])
      BY DEF Rewritten
    <3>4. q \in 1 .. Len(stack[t]) /\ p = q + Len(fs) - d /\ q > d
      <4>1. Len(stack[t]) \in Nat /\ Len(stack'[t]) \in Nat /\ d \in Nat /\ p \in Int
        BY <1>1, <3>1
      <4> QED
        BY <1>2, <3>1, <3>3, <4>1
    <3>5. q \in DOMAIN stack[t]
      BY <1>1, <3>4
    <3> HIDE DEF q
    <3> QED
      BY <1>4, <3>2, <3>4, <3>5
  <2> QED
    BY <1>2, <2>1, <2>2, <2>3
<1> QED
  BY <1>3, <1>4

\* And a frame that has not been dropped is there afterwards.
LEMMA FrameStays ==
  ASSUME StacksOK, NEW t \in Threads, NEW d \in {0, 1}, NEW fs \in Seq(Frame),
         Rewritten(t, d, fs), NEW u \in Threads, NEW q \in DOMAIN stack[u],
         u = t => q > d
  PROVE  \E p \in DOMAIN stack'[u] :
           /\ stack'[u][p] = stack[u][q]
           /\ u = t => p = q + Len(fs) - d
           /\ u # t => p = q
<1>1. /\ stack[u] \in Seq(Frame) /\ stack'[u] \in Seq(Frame)
      /\ stack[t] \in Seq(Frame) /\ stack'[t] \in Seq(Frame)
  BY DEF StacksOK, Rewritten
<1>2. Len(fs) \in Nat
  OBVIOUS
<1>3. CASE u # t
  BY <1>1, <1>3 DEF Rewritten
<1>4. CASE u = t
  <2> DEFINE p == q + Len(fs) - d
  <2>1. q \in 1 .. Len(stack[t]) /\ q > d
    BY <1>1, <1>4
  <2>2. Len(stack'[t]) = Len(stack[t]) - d + Len(fs) /\ d <= Len(stack[t])
    BY DEF Rewritten
  <2>3. p \in Len(fs) + 1 .. Len(stack'[t]) /\ p - Len(fs) + d = q
    BY <1>1, <1>2, <2>1, <2>2
  <2>4. stack'[t][p] = stack[t][q]
    BY <2>3 DEF Rewritten
  <2>5. p \in DOMAIN stack'[t]
    BY <1>1, <1>2, <2>3
  <2> HIDE DEF p
  <2>6. p = q + Len(fs) - d
    BY DEF p
  <2> QED
    BY <1>4, <2>4, <2>5, <2>6
<1> QED
  BY <1>3, <1>4

-----------------------------------------------------------------------------
(* What keeps each part of the invariant.                                  *)

Inner == {"join", "publish", "collect", "answer", "stolen"}

LEMMA GoodKept ==
  ASSUME UNCHANGED calls, builds > 0 => builds' > 0
  PROVE  /\ \A j : Good(j) => Good(j)'
         /\ \A f : GoodFrame(f) => GoodFrame(f)'
         /\ AllQueries' = AllQueries
<1>1. \A j : Good(j) => Good(j)'
  BY DEF Good, calls
<1>2. AllQueries' = AllQueries
  BY DEF AllQueries, Queries, calls
<1> QED
  BY <1>1, <1>2 DEF GoodFrame

LEMMA StacksKept ==
  ASSUME StacksOK, UNCHANGED calls, builds > 0 => builds' > 0,
         NEW t \in Threads, NEW d \in {0, 1}, NEW fs \in Seq(Frame), Rewritten(t, d, fs),
         \A p \in 1 .. Len(fs) :
           /\ GoodFrame(fs[p])'
           /\ p > 1 => fs[p].op \in Inner
           /\ fs[p].op \in {"batch", "collect"} => t \in batchers,
         d = 0 => \A p \in DOMAIN stack[t] : p = 1 => stack[t][p].op \in Inner
  PROVE  StacksOK'
<1>1. stack' \in [Threads -> Seq(Frame)]
  BY DEF Rewritten
<1>2. ASSUME NEW u \in Threads, NEW p \in DOMAIN stack'[u]
      PROVE  /\ GoodFrame(stack[u][p])'
             /\ p > 1 => stack'[u][p].op \in Inner
             /\ stack'[u][p].op \in {"batch", "collect"} => u \in batchers'
  <2>1. CASE u = t /\ p \in 1 .. Len(fs) /\ stack'[u][p] = fs[p]
    BY <2>1 DEF calls
  <2>2. ASSUME NEW q \in DOMAIN stack[u], stack'[u][p] = stack[u][q],
               u = t => p = q + Len(fs) - d /\ q > d, u # t => q = p
        PROVE  /\ GoodFrame(stack[u][p])'
               /\ p > 1 => stack'[u][p].op \in Inner
               /\ stack'[u][p].op \in {"batch", "collect"} => u \in batchers'
    <3>1. GoodFrame(stack[u][q]) /\ (q > 1 => stack[u][q].op \in Inner)
          /\ (stack[u][q].op \in {"batch", "collect"} => u \in batchers)
      BY DEF StacksOK, Inner
    <3>2. GoodFrame(stack[u][p])'
      BY <2>2, <3>1, GoodKept
    <3>3. ASSUME p > 1 PROVE stack[u][q].op \in Inner
      <4>1. CASE u # t
        BY <2>2, <3>1, <3>3, <4>1
      <4>2. CASE u = t /\ d = 0
        <5>1. q \in Nat /\ q >= 1
          BY DEF StacksOK
        <5> QED
          BY <3>1, <4>2, <5>1
      <4>3. CASE u = t /\ d = 1
        BY <2>2, <3>1, <4>3
      <4> QED
        BY <4>1, <4>2, <4>3
    <3> QED
      BY <2>2, <3>1, <3>2, <3>3 DEF calls
  <2> QED
    BY <2>1, <2>2, FrameFrom
<1> QED
  BY <1>1, <1>2 DEF StacksOK, Inner

\* Who is in the graph afterwards.
LEMMA ProbesFrom ==
  ASSUME StacksOK, NEW t \in Threads, NEW d \in {0, 1}, NEW fs \in Seq(Frame),
         Rewritten(t, d, fs), d = 0 => fs # <<>>
  PROVE  /\ \A u \in Threads \ {t} : Is(u, "probe")' <=> Is(u, "probe")
         /\ Is(t, "probe")' <=> fs # <<>> /\ fs[1].op = "probe"
<1>1. /\ stack[t] \in Seq(Frame) /\ stack'[t] \in Seq(Frame)
      /\ Len(stack'[t]) = Len(stack[t]) - d + Len(fs) /\ d <= Len(stack[t])
      /\ \A p \in 1 .. Len(fs) : stack'[t][p] = fs[p]
      /\ \A p \in Len(fs) + 1 .. Len(stack'[t]) : stack'[t][p] = stack[t][p - Len(fs) + d]
  BY DEF StacksOK, Rewritten
<1>2. \A u \in Threads \ {t} : Is(u, "probe")' <=> Is(u, "probe")
  BY DEF Rewritten, Is, Top
<1>3. CASE fs # <<>>
  <2>1. Len(fs) \in Nat /\ Len(fs) >= 1 /\ Len(stack[t]) \in Nat
    BY <1>1, <1>3
  <2>2. stack'[t] # <<>> /\ stack'[t][1] = fs[1]
    BY <1>1, <2>1
  <2> QED
    BY <1>1, <1>2, <1>3, <2>2 DEF Is, Top
<1>4. CASE fs = <<>>
  <2>1. d = 1 /\ Len(fs) = 0
    BY <1>4
  <2>2. ASSUME stack'[t] # <<>> PROVE stack'[t][1].op # "probe"
    <3>1. Len(stack'[t]) \in Nat /\ Len(stack'[t]) >= 1 /\ Len(stack[t]) \in Nat
      BY <1>1, <2>2
    <3>2. stack'[t][1] = stack[t][2] /\ 2 \in DOMAIN stack[t]
      BY <1>1, <2>1, <3>1
    <3> QED
      BY <3>2 DEF StacksOK
  <2> QED
    BY <1>1, <1>2, <1>4, <2>2 DEF Is, Top
<1> QED
  BY <1>3, <1>4

LEMMA CoverKept ==
  ASSUME StacksOK, Covered, Finished \subseteq Finished',
         NEW t \in Threads, NEW d \in {0, 1}, NEW fs \in Seq(Frame), Rewritten(t, d, fs),
         \A x : d = 1 /\ x \in Leaves(stack[t][1])
                  => x \in Finished' \/ \E i \in 1 .. Len(fs) : x \in Leaves(fs[i]),
         \A p \in 1 .. Len(fs) : \A x \in Owed(t, fs[p]) :
           x \in Finished' \/ \E i \in 1 .. p - 1 : x \in Leaves(fs[i])
  PROVE  Covered'
<1> SUFFICES ASSUME NEW u \in Threads, NEW p \in DOMAIN stack'[u],
                    NEW x \in Owed(u, stack'[u][p]), x \notin Finished'
             PROVE  \E i \in 1 .. p - 1 : x \in Leaves(stack'[u][i])
  BY DEF Covered, Owed
<1>0. Len(fs) \in Nat /\ stack[u] \in Seq(Frame) /\ stack'[u] \in Seq(Frame) /\ p \in Nat
  BY DEF StacksOK, Rewritten
<1>1. CASE u = t /\ p \in 1 .. Len(fs) /\ stack'[u][p] = fs[p]
  <2>1. PICK i \in 1 .. p - 1 : x \in Leaves(fs[i])
    BY <1>1
  <2>2. i \in 1 .. Len(fs)
    BY <1>0, <1>1, <2>1
  <2>3. stack'[t][i] = fs[i]
    BY <2>2 DEF Rewritten
  <2> QED
    BY <1>1, <2>1, <2>3
<1>2. ASSUME NEW q \in DOMAIN stack[u], stack'[u][p] = stack[u][q],
             u = t => p = q + Len(fs) - d /\ q > d, u # t => q = p
      PROVE  \E i \in 1 .. p - 1 : x \in Leaves(stack'[u][i])
  <2>1. PICK i \in 1 .. q - 1 : x \in Leaves(stack[u][i])
    BY <1>2 DEF Covered
  <2>2. i \in DOMAIN stack[u] /\ i \in Nat /\ q \in Nat /\ i < q /\ i >= 1
    BY <1>0, <2>1
  <2>3. CASE u # t
    BY <1>2, <2>1, <2>2, <2>3 DEF Rewritten
  <2>4. CASE u = t /\ i > d
    <3>1. PICK r \in DOMAIN stack'[u] : stack'[u][r] = stack[u][i] /\ r = i + Len(fs) - d
      BY <2>2, <2>4, FrameStays
    <3>2. r \in Nat /\ r >= 1 /\ r <= p - 1
      BY <1>0, <1>2, <2>2, <2>4, <3>1
    <3> QED
      BY <1>0, <2>1, <3>1, <3>2
  <2>5. CASE u = t /\ i <= d
    <3>1. d = 1 /\ i = 1
      BY <2>2, <2>5
    <3>2. PICK r \in 1 .. Len(fs) : x \in Leaves(fs[r])
      BY <2>1, <2>5, <3>1
    <3>3. stack'[t][r] = fs[r] /\ r \in 1 .. p - 1
      BY <1>0, <1>2, <2>2, <2>5, <3>1, <3>2 DEF Rewritten
    <3> QED
      BY <2>5, <3>2, <3>3
  <2> QED
    BY <2>2, <2>3, <2>4, <2>5
<1> QED
  BY <1>1, <1>2, FrameFrom

LEMMA LockKept ==
  ASSUME StacksOK, LockOK, UNCHANGED <<lock, cache>>, builds > 0 => builds' > 0,
         NEW t \in Threads, NEW d \in {0, 1}, NEW fs \in Seq(Frame), Rewritten(t, d, fs),
         \A p \in 1 .. Len(fs) :
           /\ fs[p].op \notin {"recheck", "publish", "probe"}
           /\ fs[p].op = "find" => cache,
         d = 0 => fs # <<>>, ~Is(t, "probe")
  PROVE  LockOK'
<1>1. writer' = writer /\ readers' = readers /\ cache' = cache
  BY DEF lock
<1>2. readers' = {u \in Threads : Is(u, "probe")'}
  <2>1. ~Is(t, "probe")'
    <3>1. CASE fs = <<>>
      BY <3>1, ProbesFrom
    <3>2. CASE fs # <<>>
      <4>1. 1 \in 1 .. Len(fs)
        BY <3>2
      <4> QED
        BY <4>1, ProbesFrom
    <3> QED
      BY <3>1, <3>2
  <2>2. \A u \in Threads : Is(u, "probe")' <=> Is(u, "probe")
    BY <2>1, ProbesFrom
  <2> QED
    BY <1>1, <2>2 DEF LockOK
<1>3. ASSUME NEW u \in Threads, NEW p \in DOMAIN stack'[u],
             stack'[u][p].op \in {"recheck", "publish", "probe"}
      PROVE  \E q \in DOMAIN stack[u] :
               /\ stack'[u][p] = stack[u][q]
               /\ u = t => p = q + Len(fs) - d
               /\ u # t => q = p
  BY <1>3, FrameFrom
<1>4. ASSUME NEW u \in Threads, NEW p \in DOMAIN stack'[u]
      PROVE  /\ stack'[u][p].op \in LockOps =>
                  /\ writer = u
                  /\ \A q \in DOMAIN stack'[u] : stack'[u][q].op \in LockOps => q = p
             /\ stack'[u][p].op = "publish" => readers = {} /\ ~cache /\ builds' > 0
             /\ stack'[u][p].op \in {"find", "probe"} => cache
  <2>1. ASSUME stack'[u][p].op \in LockOps
        PROVE  /\ writer = u
               /\ \A q \in DOMAIN stack'[u] : stack'[u][q].op \in LockOps => q = p
    <3>1. PICK q \in DOMAIN stack[u] :
            /\ stack'[u][p] = stack[u][q]
            /\ u = t => p = q + Len(fs) - d
            /\ u # t => q = p
      BY <1>3, <2>1 DEF LockOps
    <3>2. writer = u /\ \A r \in DOMAIN stack[u] : stack[u][r].op \in LockOps => r = q
      BY <2>1, <3>1 DEF LockOK
    <3>3. ASSUME NEW r \in DOMAIN stack'[u], stack'[u][r].op \in LockOps PROVE r = p
      <4>1. PICK s \in DOMAIN stack[u] :
              /\ stack'[u][r] = stack[u][s]
              /\ u = t => r = s + Len(fs) - d
              /\ u # t => s = r
        BY <1>3, <3>3 DEF LockOps
      <4>2. s = q
        BY <3>2, <3>3, <4>1
      <4> QED
        BY <3>1, <4>1, <4>2
    <3> QED
      BY <3>2, <3>3
  <2>2. ASSUME stack'[u][p].op = "publish" PROVE readers = {} /\ ~cache /\ builds' > 0
    <3>1. PICK q \in DOMAIN stack[u] : stack'[u][p] = stack[u][q]
      BY <1>3, <2>2
    <3> QED
      BY <2>2, <3>1 DEF LockOK
  <2>3. ASSUME stack'[u][p].op \in {"find", "probe"} PROVE cache
    <3>1. CASE u = t /\ p \in 1 .. Len(fs) /\ stack'[u][p] = fs[p]
      BY <2>3, <3>1
    <3>2. CASE \E q \in DOMAIN stack[u] : stack'[u][p] = stack[u][q]
      BY <2>3, <3>2 DEF LockOK
    <3> QED
      BY <3>1, <3>2, FrameFrom
  <2> QED
    BY <2>1, <2>2, <2>3
<1>5. writer \in Threads \cup {NoThread}
  BY DEF LockOK
<1> QED
  BY <1>1, <1>2, <1>4, <1>5 DEF LockOK

LEMMA CallerTop ==
  ASSUME StacksOK, CallersOK, NEW t \in Callers, stack[t] # <<>>
  PROVE  \/ Len(stack[t]) = 1 /\ Own(t, Top(t))
         \/ Len(stack[t]) = 2 /\ Top(t).op = "latch"
<1>1. stack[t] \in Seq(Frame) /\ Len(stack[t]) <= 2
  BY DEF StacksOK, CallersOK, Threads
<1>2. Len(stack[t]) \in Nat /\ Len(stack[t]) # 0
  BY <1>1
<1>3. Len(stack[t]) = 1 \/ Len(stack[t]) = 2
  <2>1. \A n \in Nat : n # 0 /\ n <= 2 => n = 1 \/ n = 2
    OBVIOUS
  <2> QED
    BY <1>1, <1>2, <2>1, Zenon
<1>4. Top(t) = stack[t][1]
  BY <1>1 DEF Top
<1> QED
  BY <1>3, <1>4 DEF CallersOK

LEMMA CallersKept ==
  ASSUME StacksOK, CallersOK, UNCHANGED calls, returned \subseteq returned',
         NEW t \in Threads, NEW d \in {0, 1}, NEW fs \in Seq(Frame), Rewritten(t, d, fs),
         t \in Callers =>
           /\ d = 1
           /\ \/ Len(stack[t]) = 2 /\ fs = <<>>
              \/ /\ Len(stack[t]) = 1
                 /\ \/ fs = <<>> /\ Queries(t) \subseteq returned'
                    \/ Len(fs) = 1 /\ Own(t, fs[1])
                    \/ Len(fs) = 2 /\ fs[1].op = "latch" /\ Own(t, fs[2])
  PROVE  CallersOK'
<1> DEFINE Fine(c, s) == /\ Len(s) <= 2
                         /\ Len(s) = 0 => Queries(c) \subseteq returned'
                         /\ Len(s) = 1 => Own(c, s[1])
                         /\ Len(s) = 2 => s[1].op = "latch" /\ Own(c, s[2])
<1>1. ASSUME NEW c \in Callers, c # t PROVE Fine(c, stack'[c])
  <2>1. stack'[c] = stack[c]
    BY <1>1 DEF Rewritten, Threads
  <2> QED
    BY <2>1 DEF CallersOK, Own
<1>2. ASSUME t \in Callers PROVE Fine(t, stack'[t])
  <2>1. /\ stack[t] \in Seq(Frame) /\ stack'[t] \in Seq(Frame)
        /\ Len(stack'[t]) = Len(stack[t]) - 1 + Len(fs)
        /\ \A p \in 1 .. Len(fs) : stack'[t][p] = fs[p]
        /\ \A p \in Len(fs) + 1 .. Len(stack'[t]) : stack'[t][p] = stack[t][p - Len(fs) + 1]
    BY <1>2 DEF StacksOK, Rewritten
  <2>2. CASE Len(stack[t]) = 2 /\ fs = <<>>
    <3>1. Own(t, stack[t][2])
      BY <1>2, <2>2 DEF CallersOK, Own
    <3>2. Len(stack'[t]) = 1 /\ stack'[t][1] = stack[t][2]
      BY <2>1, <2>2
    <3> QED
      BY <3>1, <3>2
  <2>3. CASE Len(stack[t]) = 1 /\ fs = <<>> /\ Queries(t) \subseteq returned'
    BY <2>1, <2>3
  <2>4. CASE Len(stack[t]) = 1 /\ Len(fs) = 1 /\ Own(t, fs[1])
    BY <2>1, <2>4
  <2>5. CASE Len(stack[t]) = 1 /\ Len(fs) = 2 /\ fs[1].op = "latch" /\ Own(t, fs[2])
    BY <2>1, <2>5
  <2> QED
    BY <1>2, <2>2, <2>3, <2>4, <2>5
<1>3. \A c \in Callers : Fine(c, stack'[c])
  BY <1>1, <1>2
<1>4. \A c : Queries(c)' = Queries(c) /\ batchers' = batchers
  BY DEF Queries, calls
<1> QED
  BY <1>3, <1>4 DEF CallersOK, Own

\* The parts of the graph's state a step leaves alone.
LEMMA GraphKept ==
  ASSUME StacksOK, GraphOK, UNCHANGED <<calls, cache, builds>>,
         inserted' = inserted \/ (inserted \subseteq inserted' /\ builds > 0),
         inserted' \subseteq 1 .. NCentroids, returned' \subseteq AllQueries,
         NEW t \in Threads, NEW d \in {0, 1}, NEW fs \in Seq(Frame), Rewritten(t, d, fs),
         ~Is(t, "publish")
  PROVE  GraphOK'
<1>1. ASSUME NEW u \in Threads, NEW q \in DOMAIN stack[u], stack[u][q].op = "publish"
      PROVE  \E p \in DOMAIN stack'[u] : stack'[u][p].op = "publish"
  <2>1. u = t => q > d
    <3>1. ASSUME u = t, q = 1 PROVE FALSE
      <4>1. stack[t] \in Seq(Frame)
        BY DEF StacksOK
      <4>2. stack[t] # <<>> /\ Top(t) = stack[t][1]
        BY <3>1, <4>1 DEF Top
      <4> QED
        BY <1>1, <3>1, <4>2 DEF Is
    <3>2. q \in Nat /\ q >= 1
      BY DEF StacksOK
    <3> QED
      BY <3>1, <3>2
  <2> QED
    BY <1>1, <2>1, FrameStays
<1>2. AllQueries' = AllQueries
  BY DEF AllQueries, Queries, calls
<1>3. /\ warm' = warm /\ batchers' = batchers /\ cache' = cache /\ builds' = builds
      /\ cache \in BOOLEAN /\ builds \in {0, 1} /\ (warm => cache /\ builds = 0)
      /\ warm \in BOOLEAN /\ batchers \subseteq Callers
  BY DEF GraphOK, calls
<1>4. builds > 0 =>
        cache \/ \E u \in Threads : \E p \in DOMAIN stack'[u] : stack'[u][p].op = "publish"
  BY <1>1 DEF GraphOK
<1>5. (cache => inserted' = 1 .. NCentroids) /\ (~cache /\ builds = 0 => inserted' = {})
  <2>1. builds = 0 => inserted' = inserted
    BY <1>3
  <2>2. inserted = 1 .. NCentroids => inserted' = 1 .. NCentroids
    OBVIOUS
  <2> QED
    BY <2>1, <2>2 DEF GraphOK
<1> QED
  BY <1>2, <1>3, <1>4, <1>5 DEF GraphOK

LEMMA PoolKept ==
  ASSUME PoolOK, UNCHANGED <<calls, pool>>, builds > 0 => builds' > 0,
         Finished \subseteq Finished'
  PROVE  PoolOK'
<1>1. \A j : Good(j) => Good(j)'
  BY GoodKept
<1>2. \A j \in done : Good(j)' /\ LeavesOf(j) \subseteq Finished'
  BY <1>1 DEF PoolOK
<1>3. \A j : LeavesOf(j)' = LeavesOf(j)
  BY DEF LeavesOf
<1> QED
  BY <1>1, <1>2, <1>3 DEF PoolOK, pool

\* The leaves of each kind of frame, and what is owed to it.
LEMMA FrameLeaves ==
  /\ \A op \in SearchOps : \A q : Leaves(At(op, q)) = {<<"query", q>>}
  /\ \A j : /\ Leaves(Run(j)) = LeavesOf(j)
            /\ Leaves(Join(j)) = LeavesOf(j)
            /\ Leaves(Latch(j)) = LeavesOf(j)
            /\ Leaves(Stolen(j)) = {}
  /\ \A f : f.op \in {"batch", "collect"} => Leaves(f) = {}
  /\ \A t, j : /\ Owed(t, Run(j)) = {}
               /\ Owed(t, Join(j)) = {}
               /\ Owed(t, Latch(j)) = {}
               /\ Owed(t, Stolen(j)) = LeavesOf(j)
  /\ \A t, q : \A op \in SearchOps \ {"publish"} : Owed(t, At(op, q)) = {}
  /\ \A t, q : Owed(t, At("publish", q)) = {<<"insert", n>> : n \in 1 .. NCentroids}
  /\ \A t : Owed(t, [op |-> "collect"]) = {<<"query", <<t, n>>>> : n \in 1 .. NQueries}
<1>1. ASSUME NEW op \in SearchOps, NEW q PROVE Leaves(At(op, q)) = {<<"query", q>>}
  <2>1. At(op, q).op \in SearchOps /\ At(op, q).query = q
    BY DEF At
  <2>2. At(op, q).op \notin {"run", "join", "latch"}
    BY <2>1 DEF SearchOps
  <2> QED
    BY <2>1, <2>2 DEF Leaves
<1>2. ASSUME NEW j
      PROVE  /\ Leaves(Run(j)) = LeavesOf(j)
             /\ Leaves(Join(j)) = LeavesOf(j)
             /\ Leaves(Latch(j)) = LeavesOf(j)
             /\ Leaves(Stolen(j)) = {}
  BY DEF Leaves, Run, Join, Latch, Stolen, SearchOps
<1>3. \A f : f.op \in {"batch", "collect"} => Leaves(f) = {}
  BY DEF Leaves, SearchOps
<1>4. ASSUME NEW t, NEW j
      PROVE  /\ Owed(t, Run(j)) = {}
             /\ Owed(t, Join(j)) = {}
             /\ Owed(t, Latch(j)) = {}
             /\ Owed(t, Stolen(j)) = LeavesOf(j)
  BY DEF Owed, Run, Join, Latch, Stolen
<1>5. \A t, q : \A op \in SearchOps \ {"publish"} : Owed(t, At(op, q)) = {}
  BY DEF Owed, At, SearchOps
<1>6. \A t, q : Owed(t, At("publish", q)) = {<<"insert", n>> : n \in 1 .. NCentroids}
  BY DEF Owed, At
<1>7. \A t : Owed(t, [op |-> "collect"]) = {<<"query", <<t, n>>>> : n \in 1 .. NQueries}
  BY DEF Owed
<1> QED
  BY <1>1, <1>2, <1>3, <1>4, <1>5, <1>6, <1>7

-----------------------------------------------------------------------------
(* The two shapes of a search's step: it moves on, or forks.               *)

LEMMA MovedKept ==
  ASSUME IInv, NEW t \in Threads, NEW op0 \in SearchOps, NEW op1 \in SearchOps \ {"publish"},
         Is(t, op0), Replace(t, <<At(op1, Top(t).query)>>),
         UNCHANGED <<calls, pool, returned, inserted>>, builds > 0 => builds' > 0
  PROVE  /\ Rewritten(t, 1, <<At(op1, Top(t).query)>>)
         /\ At(op1, Top(t).query) \in Frame
         /\ StacksOK' /\ PoolOK' /\ CallersOK' /\ Covered'
<1> DEFINE q == Top(t).query
           fs == <<At(op1, q)>>
<1>0. StacksOK /\ PoolOK /\ CallersOK /\ Covered
  BY DEF IInv
<1>1. /\ stack[t] # <<>> /\ Top(t) = stack[t][1] /\ Top(t) = At(op0, q)
      /\ q \in AllQueries /\ GoodFrame(Top(t)) /\ Top(t).op = op0
  BY <1>0, TopFrame
<1>2. q \in Callers \X Nat
  BY <1>1 DEF GoodFrame, Frame, At, SearchOps, JobOps
<1>3. At(op1, q) \in Frame /\ At(op1, q).op = op1 /\ At(op1, q).query = q
  BY <1>2 DEF Frame, At
<1>4. fs \in Seq(Frame) /\ Len(fs) = 1 /\ fs[1] = At(op1, q)
  BY <1>3
<1>5. Rewritten(t, 1, fs)
  BY <1>0, <1>1, <1>4, ReplaceShape
<1>6. Finished' = Finished
  BY DEF Finished
<1>7. GoodFrame(At(op1, q))
  BY <1>1, <1>3 DEF GoodFrame, SearchOps, JobOps
<1>8. \A f : f = At(op1, q) => GoodFrame(f)'
  BY <1>7, GoodKept
<1> HIDE DEF fs, q
<1>9. \A p \in 1 .. Len(fs) : p = 1 /\ fs[p] = At(op1, q)
  BY <1>4
<1>10. StacksOK'
  BY <1>0, <1>3, <1>4, <1>5, <1>8, <1>9, StacksKept DEF SearchOps
<1>11. PoolOK'
  BY <1>0, <1>6, PoolKept
<1>12. CallersOK'
  <2>1. ASSUME t \in Callers PROVE Len(stack[t]) = 1 /\ Len(fs) = 1 /\ Own(t, fs[1])
    <3>1. Len(stack[t]) = 1 /\ Own(t, At(op0, q))
      BY <1>0, <1>1, <2>1, CallerTop DEF SearchOps
    <3> QED
      BY <1>4, <3>1 DEF Own, At, SearchOps
  <2>2. 1 \in {0, 1} /\ returned \subseteq returned'
    OBVIOUS
  <2> QED
    BY <1>0, <1>4, <1>5, <2>1, <2>2, CallersKept
<1>13. Covered'
  <2>0. Leaves(At(op0, q)) = {<<"query", q>>} /\ Leaves(At(op1, q)) = {<<"query", q>>}
    BY FrameLeaves
  <2>1. Leaves(stack[t][1]) = {<<"query", q>>} /\ Leaves(fs[1]) = {<<"query", q>>}
    BY <1>1, <1>4, <2>0, Zenon
  <2>2. Owed(t, fs[1]) = {}
    BY <1>4, FrameLeaves
  <2>3. 1 \in {0, 1} /\ 1 \in 1 .. Len(fs)
    BY <1>4
  <2> QED
    BY <1>0, <1>4, <1>5, <1>6, <1>9, <2>1, <2>2, <2>3, CoverKept
<1> QED
  BY <1>3, <1>5, <1>10, <1>11, <1>12, <1>13 DEF fs, q

LEMMA ForkedKept ==
  ASSUME IInv, NEW t \in Threads, stack[t] # <<>>, NEW next \in Frame, NEW j \in Jobs,
         Fork(t, next, j),
         UNCHANGED <<calls, returned>>, builds > 0 => builds' > 0,
         Finished \subseteq Finished',
         GoodFrame(next), \A k : k = j => Good(k)',
         next.op \in {"publish", "collect", "answer"}, next.op = "collect" => t \in batchers,
         Top(t).op \in SearchOps \cup {"batch"},
         t \in Callers /\ Own(t, Top(t)) => Own(t, next),
         Owed(t, next) \subseteq LeavesOf(j), Leaves(Top(t)) \subseteq Leaves(next)
  PROVE  /\ \E f \in {Run(j), Latch(j)} :
              Rewritten(t, 1, <<f, next>>) /\ <<f, next>> \in Seq(Frame)
         /\ StacksOK' /\ PoolOK' /\ CallersOK' /\ Covered'
<1>0. StacksOK /\ PoolOK /\ CallersOK /\ Covered
  BY DEF IInv
<1>1. PICK f \in {Run(j), Latch(j)} :
        Rewritten(t, 1, <<f, next>>) /\ (t \in Callers => f = Latch(j))
  BY <1>0, ForkShape
<1>2. /\ injector' \in {injector, Append(injector, j)}
      /\ UNCHANGED <<deque, done>>
  BY <1>0, ForkShape
<1>3. f \in Frame /\ f.op \in {"run", "latch"} /\ f.job = j
  BY <1>1 DEF Run, Latch, Frame, JobOps
<1> DEFINE fs == <<f, next>>
<1>4. fs \in Seq(Frame) /\ Len(fs) = 2 /\ fs[1] = f /\ fs[2] = next
  BY <1>3
<1>5. 1 \in {0, 1} /\ \A p \in 1 .. 2 : p = 1 \/ p = 2
  OBVIOUS
<1>6. Rewritten(t, 1, fs)
  BY <1>1
<1>7. Top(t) = stack[t][1]
  BY <1>0 DEF StacksOK, Top
<1> HIDE DEF fs
<1>8. (\A g : g = f => GoodFrame(g)') /\ (\A g : g = next => GoodFrame(g)')
  <2>1. ASSUME NEW g, g = f PROVE GoodFrame(g)'
    BY <1>3, <2>1 DEF GoodFrame, SearchOps
  <2>2. ASSUME NEW g, g = next PROVE GoodFrame(g)'
    BY <2>2, GoodKept
  <2> QED
    BY <2>1, <2>2
<1>9. StacksOK'
  <2>1. \A p \in 1 .. Len(fs) :
          /\ GoodFrame(fs[p])'
          /\ p > 1 => fs[p].op \in Inner
          /\ fs[p].op \in {"batch", "collect"} => t \in batchers
    BY <1>3, <1>4, <1>5, <1>8 DEF Inner
  <2> QED
    BY <1>0, <1>4, <1>5, <1>6, <2>1, StacksKept
<1>10. PoolOK'
  <2>1. \A k : Good(k) => Good(k)'
    BY GoodKept
  <2>2. \A k \in done' : Good(k)' /\ LeavesOf(k) \subseteq Finished'
    BY <1>0, <1>2, <2>1 DEF PoolOK
  <2>3. injector' \in Seq(Jobs) /\ \A p \in DOMAIN injector' : Good(injector[p])'
    <3>1. CASE injector' = injector
      BY <1>0, <2>1, <3>1 DEF PoolOK
    <3>2. CASE injector' = Append(injector, j)
      <4>1. injector \in Seq(Jobs)
        BY <1>0 DEF PoolOK
      <4>2. /\ injector' \in Seq(Jobs) /\ Len(injector') = Len(injector) + 1
            /\ \A p \in 1 .. Len(injector) : injector'[p] = injector[p]
            /\ injector'[Len(injector) + 1] = j
        BY <3>2, <4>1, AppendProperties
      <4>3. ASSUME NEW p \in DOMAIN injector' PROVE Good(injector[p])'
        <5>1. Len(injector) \in Nat /\ p \in 1 .. Len(injector) + 1
          BY <4>1, <4>2
        <5>2. CASE p \in 1 .. Len(injector)
          <6>1. p \in DOMAIN injector
            BY <4>1, <5>2
          <6>2. injector'[p] = injector[p] /\ Good(injector[p])
            BY <1>0, <4>2, <5>2, <6>1 DEF PoolOK
          <6> QED
            BY <2>1, <6>2
        <5>3. CASE p = Len(injector) + 1
          BY <4>2, <5>3
        <5> QED
          BY <5>1, <5>2, <5>3
      <4> QED
        BY <4>2, <4>3
    <3> QED
      BY <1>2, <3>1, <3>2
  <2> QED
    BY <1>0, <1>2, <2>1, <2>2, <2>3 DEF PoolOK, LeavesOf
<1>11. CallersOK'
  <2>1. ASSUME t \in Callers
        PROVE  Len(stack[t]) = 1 /\ Len(fs) = 2 /\ fs[1].op = "latch" /\ Own(t, fs[2])
    <3>1. Len(stack[t]) = 1 /\ Own(t, Top(t))
      BY <1>0, <2>1, CallerTop DEF SearchOps
    <3> QED
      BY <1>1, <1>4, <2>1, <3>1 DEF Latch
  <2> QED
    BY <1>0, <1>4, <1>5, <1>6, <2>1, CallersKept
<1>12. Covered'
  <2>1. Owed(t, f) = {} /\ Leaves(f) = LeavesOf(j)
    BY <1>1, FrameLeaves
  <2>2. ASSUME NEW p \in 1 .. Len(fs), NEW x \in Owed(t, fs[p])
        PROVE  \E i \in 1 .. p - 1 : x \in Leaves(fs[i])
    BY <1>4, <1>5, <2>1
  <2>3. ASSUME NEW x \in Leaves(stack[t][1])
        PROVE  \E i \in 1 .. Len(fs) : x \in Leaves(fs[i])
    BY <1>4, <1>5, <1>7
  <2> QED
    BY <1>0, <1>4, <1>5, <1>6, <2>2, <2>3, CoverKept
<1> QED
  BY <1>1, <1>4, <1>9, <1>10, <1>11, <1>12 DEF fs

-----------------------------------------------------------------------------
(* The steps, one by one: a call, and the search of the graph.             *)

LEMMA CallBatchKept ==
  ASSUME IInv, UNCHANGED calls, NEW t \in Threads, CallBatch(t)
  PROVE  IInv'
<1> DEFINE next == [op |-> "collect"]
           j == Job("query", t, 1, NQueries)
<1>0. StacksOK /\ LockOK /\ GraphOK
  BY DEF IInv
<1>1. stack[t] # <<>> /\ Top(t) = stack[t][1] /\ Top(t).op = "batch" /\ 1 \in DOMAIN stack[t]
  BY <1>0, TopFrame DEF CallBatch
<1>2. t \in batchers /\ t \in Callers
  BY <1>0, <1>1 DEF StacksOK, GraphOK
<1>3. next \in Frame /\ next.op = "collect" /\ GoodFrame(next)
  BY DEF Frame, GoodFrame, JobOps, SearchOps
<1>4. /\ j \in Jobs /\ j.kind = "query" /\ j.owner = t /\ j.lo = 1 /\ j.hi = NQueries
  BY <1>2 DEF Job, Jobs
<1>5. \A k : k = j => Good(k)'
  BY <1>2, <1>4 DEF Good, calls
<1>6. LeavesOf(j) = Owed(t, next)
  BY <1>4, FrameLeaves DEF LeavesOf
<1>7. Leaves(Top(t)) = {}
  BY <1>1, FrameLeaves
<1>8. Fork(t, next, j) /\ UNCHANGED <<calls, graph, lock, returned>>
  BY DEF CallBatch
<1>9. Finished' = Finished /\ builds' = builds
  BY <1>8 DEF graph, Finished
<1>10. t \in Callers /\ Own(t, Top(t)) => Own(t, next)
  BY <1>2, <1>3 DEF Own
<1> HIDE DEF next, j
<1>11. /\ \E f \in {Run(j), Latch(j)} :
            Rewritten(t, 1, <<f, next>>) /\ <<f, next>> \in Seq(Frame)
       /\ StacksOK' /\ PoolOK' /\ CallersOK' /\ Covered'
  BY <1>1, <1>2, <1>3, <1>4, <1>5, <1>6, <1>7, <1>8, <1>9, <1>10, ForkedKept
<1>12. PICK f \in {Run(j), Latch(j)} :
            Rewritten(t, 1, <<f, next>>) /\ <<f, next>> \in Seq(Frame)
  BY <1>11
<1> DEFINE fs == <<f, next>>
<1>13. /\ 1 \in {0, 1} /\ fs \in Seq(Frame) /\ Rewritten(t, 1, fs) /\ Len(fs) = 2
       /\ \A p \in 1 .. Len(fs) : fs[p].op \in {"run", "latch", "collect"}
       /\ ~Is(t, "probe") /\ ~Is(t, "publish")
  BY <1>1, <1>3, <1>12 DEF Run, Latch, Is
<1> HIDE DEF fs
<1>14. LockOK'
  BY <1>0, <1>8, <1>9, <1>13, LockKept DEF graph
<1>15. GraphOK'
  <2>1. inserted' \subseteq 1 .. NCentroids /\ returned' \subseteq AllQueries
    BY <1>0, <1>8 DEF GraphOK, graph
  <2> QED
    BY <1>0, <1>8, <1>9, <1>13, <2>1, GraphKept DEF graph
<1> QED
  BY <1>11, <1>14, <1>15 DEF IInv

LEMMA ScanListsKept ==
  ASSUME IInv, UNCHANGED calls, NEW t \in Threads, ScanLists(t)
  PROVE  IInv'
<1> DEFINE q == Top(t).query
           next == At("answer", q)
           j == Job("list", q, 1, NLists)
<1>0. StacksOK /\ LockOK /\ GraphOK
  BY DEF IInv
<1>1. /\ stack[t] # <<>> /\ Top(t).op = "lists" /\ Top(t) = At("lists", q)
      /\ q \in AllQueries /\ GoodFrame(Top(t))
  BY <1>0, TopFrame DEF ScanLists, SearchOps
<1>2. q \in Callers \X Nat
  BY <1>1 DEF GoodFrame, Frame, SearchOps, JobOps, At
<1>3. next \in Frame /\ next.op = "answer" /\ next.query = q
  BY <1>2 DEF Frame, At, SearchOps
<1>4. GoodFrame(next)
  BY <1>1, <1>3 DEF GoodFrame, JobOps
<1>5. UNCHANGED <<calls, graph, lock, returned>> /\ UNCHANGED <<inserted, cache, builds>>
  BY DEF ScanLists, graph
<1>6. inserted' \subseteq 1 .. NCentroids /\ returned' \subseteq AllQueries
      /\ ~Is(t, "probe") /\ ~Is(t, "publish") /\ 1 \in {0, 1}
  BY <1>0, <1>1, <1>5 DEF GraphOK, Is
<1>7. CASE NLists = 0
  <2>1. Replace(t, <<next>>) /\ UNCHANGED pool
    BY <1>7 DEF ScanLists
  <2>2. Rewritten(t, 1, <<next>>) /\ StacksOK' /\ PoolOK' /\ CallersOK' /\ Covered'
    BY <1>5, <2>1, MovedKept DEF ScanLists, SearchOps
  <2> DEFINE fs == <<next>>
  <2>3. fs \in Seq(Frame) /\ \A p \in 1 .. Len(fs) : fs[p].op = "answer"
    BY <1>3
  <2>4. Rewritten(t, 1, fs)
    BY <2>2
  <2> HIDE DEF fs
  <2>5. LockOK'
    BY <1>0, <1>5, <1>6, <2>3, <2>4, LockKept
  <2>6. GraphOK'
    BY <1>0, <1>5, <1>6, <2>3, <2>4, GraphKept
  <2> QED
    BY <2>2, <2>5, <2>6 DEF IInv
<1>8. CASE NLists # 0
  <2>1. Fork(t, next, j)
    BY <1>8 DEF ScanLists
  <2>2. j \in Jobs /\ j.kind = "list"
    BY <1>2 DEF Job, Jobs
  <2>3. \A k : k = j => Good(k)'
    BY <2>2 DEF Good
  <2>4. Owed(t, next) = {}
    BY FrameLeaves DEF SearchOps
  <2>5. Leaves(Top(t)) = {<<"query", q>>} /\ Leaves(next) = {<<"query", q>>}
    <3>1. "lists" \in SearchOps /\ "answer" \in SearchOps
      BY DEF SearchOps
    <3>2. Leaves(At("lists", q)) = {<<"query", q>>} /\ Leaves(next) = {<<"query", q>>}
      BY <3>1, FrameLeaves
    <3> QED
      BY <1>1, <3>2, Zenon
  <2>6. Finished' = Finished /\ builds' = builds
    BY <1>5 DEF graph, Finished
  <2>7. t \in Callers /\ Own(t, Top(t)) => Own(t, next)
    BY <1>1, <1>3 DEF Own, SearchOps
  <2>8. Top(t).op \in SearchOps
    BY <1>1 DEF SearchOps
  <2> HIDE DEF next, j
  <2>9. /\ \E f \in {Run(j), Latch(j)} :
            Rewritten(t, 1, <<f, next>>) /\ <<f, next>> \in Seq(Frame)
        /\ StacksOK' /\ PoolOK' /\ CallersOK' /\ Covered'
    BY <1>1, <1>3, <1>4, <1>5, <2>1, <2>2, <2>3, <2>4, <2>5, <2>6, <2>7, <2>8, ForkedKept
  <2>10. PICK f \in {Run(j), Latch(j)} :
            Rewritten(t, 1, <<f, next>>) /\ <<f, next>> \in Seq(Frame)
    BY <2>9
  <2> DEFINE fs == <<f, next>>
  <2>11. /\ fs \in Seq(Frame) /\ Rewritten(t, 1, fs) /\ Len(fs) = 2
         /\ \A p \in 1 .. Len(fs) : fs[p].op \in {"run", "latch", "answer"}
    BY <1>3, <2>10 DEF Run, Latch
  <2> HIDE DEF fs
  <2>12. LockOK'
    BY <1>0, <1>5, <1>6, <2>11, LockKept
  <2>13. GraphOK'
    BY <1>0, <1>5, <1>6, <2>11, GraphKept
  <2> QED
    BY <2>9, <2>12, <2>13 DEF IInv
<1> QED
  BY <1>7, <1>8

\* One step back to the caller of a search or of a batch.
LEMMA ReturnKept ==
  ASSUME IInv, UNCHANGED calls, NEW t \in Threads, Collect(t) \/ Answer(t)
  PROVE  IInv'
<1>0. StacksOK /\ PoolOK /\ CallersOK /\ LockOK /\ GraphOK /\ Covered
  BY DEF IInv
<1>1. /\ Is(t, "collect") \/ Is(t, "answer")
      /\ Return(t) /\ UNCHANGED <<calls, graph, lock, pool>>
      /\ UNCHANGED <<calls, cache, builds>> /\ inserted' = inserted /\ builds' = builds
      /\ UNCHANGED <<lock, cache>> /\ UNCHANGED <<calls, pool>>
  BY DEF Collect, Answer, graph
<1> DEFINE fs == <<>>
<1>2. /\ Rewritten(t, 1, fs) /\ fs \in Seq(Frame) /\ 1 \in {0, 1}
      /\ \A p \in 1 .. Len(fs) : FALSE
  BY <1>0, <1>1, ReturnShape DEF Is
<1>2a. fs = <<>>
  OBVIOUS
<1>2b. builds > 0 => builds' > 0
  BY <1>1
<1> HIDE DEF fs
<1>3. /\ stack[t] # <<>> /\ Top(t) = stack[t][1] /\ Top(t).op \in {"collect", "answer"}
      /\ 1 \in DOMAIN stack[t] /\ GoodFrame(stack[t][1])
  BY <1>0, <1>1, TopFrame
<1>4. Is(t, "answer") =>
        Top(t) = At("answer", Top(t).query) /\ Top(t).query \in AllQueries
  BY <1>0, TopFrame DEF SearchOps
<1>5. returned' = IF Is(t, "answer") THEN returned \cup {Top(t).query} ELSE returned
  BY <1>1, <1>3 DEF Collect, Answer, Is
<1>6. returned \subseteq returned' /\ Finished \subseteq Finished'
      /\ returned' \subseteq AllQueries
  BY <1>0, <1>1, <1>4, <1>5 DEF GraphOK, Finished
<1>7. StacksOK'
  <2>1. \A p \in 1 .. Len(fs) :
          /\ GoodFrame(fs[p])'
          /\ p > 1 => fs[p].op \in Inner
          /\ fs[p].op \in {"batch", "collect"} => t \in batchers
    BY <1>2
  <2> QED
    BY <1>0, <1>1, <1>2, <1>2b, <2>1, StacksKept
<1>8. PoolOK'
  BY <1>0, <1>1, <1>6, PoolKept
<1>9. LockOK'
  <2>1. ~Is(t, "probe")
    BY <1>3 DEF Is
  <2>2. \A p \in 1 .. Len(fs) :
          /\ fs[p].op \notin {"recheck", "publish", "probe"}
          /\ fs[p].op = "find" => cache
    BY <1>2
  <2> QED
    BY <1>0, <1>1, <1>2, <2>1, <1>2b, <2>2, LockKept
<1>10. GraphOK'
  <2>1. ~Is(t, "publish")
    BY <1>3 DEF Is
  <2>2. inserted' \subseteq 1 .. NCentroids
    BY <1>0, <1>1 DEF GraphOK
  <2> QED
    BY <1>0, <1>1, <1>2, <1>6, <2>1, <2>2, GraphKept
<1>11. Covered'
  <2>1. ASSUME NEW x \in Leaves(stack[t][1]) PROVE x \in Finished'
    <3>1. CASE Is(t, "answer")
      <4>1. Leaves(stack[t][1]) = {<<"query", Top(t).query>>}
        BY <1>3, <1>4, <3>1, FrameLeaves DEF SearchOps
      <4> QED
        BY <1>5, <2>1, <3>1, <4>1 DEF Finished
    <3>2. CASE ~Is(t, "answer")
      BY <1>1, <1>3, <2>1, <3>2, FrameLeaves DEF Is
    <3> QED
      BY <3>1, <3>2
  <2> QED
    BY <1>0, <1>2, <1>6, <2>1, CoverKept
<1>12. CallersOK'
  <2>1. ASSUME t \in Callers PROVE Len(stack[t]) = 1 /\ Queries(t) \subseteq returned'
    <3>1. Len(stack[t]) = 1 /\ Own(t, Top(t))
      BY <1>0, <1>3, <2>1, CallerTop
    <3>2. CASE t \notin batchers
      <4>1. Is(t, "answer") /\ Top(t).query = <<t, 0>>
        BY <1>1, <1>3, <3>1, <3>2 DEF Own, SearchOps, Is
      <4> QED
        BY <1>5, <3>1, <3>2, <4>1 DEF Queries
    <3>3. CASE t \in batchers
      <4>1. Top(t).op = "collect"
        BY <1>3, <3>1, <3>3 DEF Own
      <4>2. Owed(t, stack[t][1]) = {<<"query", <<t, n>>>> : n \in 1 .. NQueries}
        BY <1>3, <4>1 DEF Owed
      <4>3. ASSUME NEW n \in 1 .. NQueries PROVE <<t, n>> \in returned
        <5>1. <<"query", <<t, n>>>> \in Finished
          BY <1>0, <1>3, <4>2 DEF Covered
        <5> QED
          BY <5>1 DEF Finished
      <4> QED
        BY <1>6, <3>1, <3>3, <4>3 DEF Queries
    <3> QED
      BY <3>2, <3>3
  <2> QED
    BY <1>0, <1>1, <1>2, <1>6, <1>2a, <2>1, CallersKept
<1> QED
  BY <1>7, <1>8, <1>9, <1>10, <1>11, <1>12 DEF IInv

LEMMA CheckKept ==
  ASSUME IInv, UNCHANGED calls, NEW t \in Threads, Check(t)
  PROVE  IInv'
<1> DEFINE q == Top(t).query
           op == CASE NCentroids < 2          -> "lists"
                   [] NCentroids >= 2 /\ cache  -> "find"
                   [] NCentroids >= 2 /\ ~cache -> "write"
           fs == <<At(op, q)>>
<1>0. StacksOK /\ LockOK /\ GraphOK
  BY DEF IInv
<1>1. /\ Is(t, "check") /\ Replace(t, fs)
      /\ UNCHANGED <<calls, pool, returned, inserted>> /\ UNCHANGED <<calls, cache, builds>>
      /\ UNCHANGED <<lock, cache>> /\ inserted' = inserted /\ returned' = returned
      /\ builds > 0 => builds' > 0
  BY DEF Check, graph
<1>2. op \in SearchOps \ {"publish"} /\ op \in {"lists", "find", "write"}
      /\ (op = "find" => cache)
  <2>1. cache \in BOOLEAN
    BY <1>0 DEF GraphOK
  <2> QED
    BY <2>1 DEF SearchOps
<1> HIDE DEF op
<1>3. "check" \in SearchOps
  BY DEF SearchOps
<1>4. /\ Rewritten(t, 1, fs) /\ At(op, q) \in Frame
      /\ StacksOK' /\ PoolOK' /\ CallersOK' /\ Covered'
  BY <1>1, <1>2, <1>3, MovedKept
<1>5. fs \in Seq(Frame) /\ \A p \in 1 .. Len(fs) : fs[p].op = op
  BY <1>4 DEF At
<1>6. ~Is(t, "probe") /\ ~Is(t, "publish") /\ 1 \in {0, 1}
  BY <1>1 DEF Is
<1> HIDE DEF fs
<1>7. LockOK'
  BY <1>0, <1>1, <1>2, <1>4, <1>5, <1>6, LockKept
<1>8. GraphOK'
  <2>1. inserted' \subseteq 1 .. NCentroids /\ returned' \subseteq AllQueries
    BY <1>0, <1>1 DEF GraphOK
  <2> QED
    BY <1>0, <1>1, <1>4, <1>5, <1>6, <2>1, GraphKept
<1> QED
  BY <1>4, <1>7, <1>8 DEF IInv

\* Where the frames on the lock are after a search has moved on.
LEMMA LockFrames ==
  ASSUME StacksOK, LockOK, NEW t \in Threads, NEW fs \in Seq(Frame), Rewritten(t, 1, fs),
         NEW u \in Threads, NEW p \in DOMAIN stack'[u],
         ~(u = t /\ p \in 1 .. Len(fs) /\ stack'[u][p] = fs[p])
  PROVE  /\ stack'[u][p].op \in LockOps => writer = u /\ (u = t => ~(Top(t).op \in LockOps))
         /\ stack'[u][p].op = "publish" => readers = {} /\ ~cache /\ builds > 0
         /\ stack'[u][p].op \in {"find", "probe"} => cache
<1>1. PICK q \in DOMAIN stack[u] :
        stack'[u][p] = stack[u][q] /\ (u = t => p = q + Len(fs) - 1 /\ q > 1)
  <2>1. 1 \in {0, 1}
    OBVIOUS
  <2> QED
    BY <2>1, FrameFrom
<1>2. ASSUME u = t, Top(t).op \in LockOps, stack'[u][p].op \in LockOps PROVE FALSE
  <2>1. stack[t] \in Seq(Frame) /\ q > 1 /\ q \in DOMAIN stack[t]
    BY <1>1, <1>2 DEF StacksOK
  <2>2. 1 \in DOMAIN stack[t] /\ Top(t) = stack[t][1]
    BY <2>1 DEF Top
  <2>3. stack[t][q].op \in LockOps => 1 = q
    BY <1>2, <2>1, <2>2 DEF LockOK
  <2> QED
    BY <1>1, <1>2, <2>1, <2>3
<1> QED
  BY <1>1, <1>2 DEF LockOK

LEMMA ClaimKept ==
  ASSUME IInv, UNCHANGED calls, NEW t \in Threads, Claim(t)
  PROVE  IInv'
<1> DEFINE q == Top(t).query
           fs == <<At("recheck", q)>>
<1>0. StacksOK /\ LockOK /\ GraphOK
  BY DEF IInv
<1>1. /\ Is(t, "write") /\ writer = NoThread /\ writer' = t /\ Replace(t, fs)
      /\ UNCHANGED <<calls, pool, returned, inserted>> /\ UNCHANGED <<calls, cache, builds>>
      /\ readers' = readers /\ cache' = cache /\ builds' = builds
      /\ inserted' = inserted /\ returned' = returned
  BY DEF Claim, graph
<1>2. "write" \in SearchOps /\ "recheck" \in SearchOps \ {"publish"}
  BY DEF SearchOps
<1>3. builds > 0 => builds' > 0
  BY <1>1
<1>4. /\ Rewritten(t, 1, fs) /\ At("recheck", q) \in Frame
      /\ StacksOK' /\ PoolOK' /\ CallersOK' /\ Covered'
  BY <1>1, <1>2, <1>3, MovedKept
<1>5. /\ fs \in Seq(Frame) /\ Len(fs) = 1 /\ fs[1].op = "recheck" /\ fs # <<>>
      /\ \A p \in 1 .. Len(fs) : p = 1 /\ fs[p].op = "recheck"
  BY <1>4 DEF At
<1>6. ~Is(t, "probe") /\ ~Is(t, "publish") /\ 1 \in {0, 1}
  BY <1>1 DEF Is
<1> HIDE DEF fs
<1>7. LockOK'
  <2>1. readers' = {u \in Threads : Is(u, "probe")'}
    <3>1. \A u \in Threads : Is(u, "probe")' <=> Is(u, "probe")
      BY <1>0, <1>4, <1>5, <1>6, ProbesFrom
    <3> QED
      BY <1>0, <1>1, <3>1 DEF LockOK
  <2>2. ASSUME NEW u \in Threads, NEW p \in DOMAIN stack'[u]
        PROVE  /\ stack'[u][p].op \in LockOps => u = t /\ p = 1
               /\ stack'[u][p].op # "publish"
               /\ stack'[u][p].op \in {"find", "probe"} => cache
    <3>1. CASE u = t /\ p \in 1 .. Len(fs) /\ stack'[u][p] = fs[p]
      BY <1>5, <3>1
    <3>2. CASE ~(u = t /\ p \in 1 .. Len(fs) /\ stack'[u][p] = fs[p])
      <4>1. /\ stack'[u][p].op \in LockOps => writer = u
            /\ stack'[u][p].op \in {"find", "probe"} => cache
        BY <1>0, <1>4, <1>5, <3>2, LockFrames
      <4>2. writer # u
        BY <1>1
      <4> QED
        BY <4>1, <4>2 DEF LockOps
    <3> QED
      BY <3>1, <3>2
  <2> QED
    BY <1>1, <2>1, <2>2 DEF LockOK
<1>8. GraphOK'
  <2>1. inserted' \subseteq 1 .. NCentroids /\ returned' \subseteq AllQueries
    BY <1>0, <1>1 DEF GraphOK
  <2> QED
    BY <1>0, <1>1, <1>4, <1>5, <1>6, <2>1, GraphKept
<1> QED
  BY <1>4, <1>7, <1>8 DEF IInv

LEMMA AlreadyBuiltKept ==
  ASSUME IInv, UNCHANGED calls, NEW t \in Threads, AlreadyBuilt(t)
  PROVE  IInv'
<1> DEFINE q == Top(t).query
           fs == <<At("find", q)>>
<1>0. StacksOK /\ LockOK /\ GraphOK
  BY DEF IInv
<1>1. /\ Is(t, "recheck") /\ cache /\ writer' = NoThread /\ Replace(t, fs)
      /\ UNCHANGED <<calls, pool, returned, inserted>> /\ UNCHANGED <<calls, cache, builds>>
      /\ readers' = readers /\ cache' = cache /\ builds' = builds
      /\ inserted' = inserted /\ returned' = returned
  BY DEF AlreadyBuilt, graph
<1>2. "recheck" \in SearchOps /\ "find" \in SearchOps \ {"publish"}
  BY DEF SearchOps
<1>3. builds > 0 => builds' > 0
  BY <1>1
<1>4. /\ Rewritten(t, 1, fs) /\ At("find", q) \in Frame
      /\ StacksOK' /\ PoolOK' /\ CallersOK' /\ Covered'
  BY <1>1, <1>2, <1>3, MovedKept
<1>5. /\ fs \in Seq(Frame) /\ Len(fs) = 1 /\ fs[1].op = "find" /\ fs # <<>>
      /\ \A p \in 1 .. Len(fs) : p = 1 /\ fs[p].op = "find"
  BY <1>4 DEF At
<1>6. ~Is(t, "probe") /\ ~Is(t, "publish") /\ 1 \in {0, 1}
  BY <1>1 DEF Is
<1> HIDE DEF fs
<1>7. LockOK'
  <2>0. writer = t /\ Top(t).op \in LockOps
    BY <1>0, <1>1, TopFrame DEF LockOK, LockOps
  <2>1. readers' = {u \in Threads : Is(u, "probe")'}
    <3>1. \A u \in Threads : Is(u, "probe")' <=> Is(u, "probe")
      BY <1>0, <1>4, <1>5, <1>6, ProbesFrom
    <3> QED
      BY <1>0, <1>1, <3>1 DEF LockOK
  <2>2. ASSUME NEW u \in Threads, NEW p \in DOMAIN stack'[u]
        PROVE  stack'[u][p].op \notin LockOps
    <3>1. CASE u = t /\ p \in 1 .. Len(fs) /\ stack'[u][p] = fs[p]
      BY <1>5, <3>1 DEF LockOps
    <3>2. CASE ~(u = t /\ p \in 1 .. Len(fs) /\ stack'[u][p] = fs[p])
      BY <1>0, <1>4, <1>5, <2>0, <3>2, LockFrames
    <3> QED
      BY <3>1, <3>2
  <2> QED
    BY <1>1, <2>1, <2>2 DEF LockOK, LockOps
<1>8. GraphOK'
  <2>1. inserted' \subseteq 1 .. NCentroids /\ returned' \subseteq AllQueries
    BY <1>0, <1>1 DEF GraphOK
  <2> QED
    BY <1>0, <1>1, <1>4, <1>5, <1>6, <2>1, GraphKept
<1> QED
  BY <1>4, <1>7, <1>8 DEF IInv

LEMMA PublishKept ==
  ASSUME IInv, UNCHANGED calls, NEW t \in Threads, Publish(t)
  PROVE  IInv'
<1> DEFINE q == Top(t).query
           fs == <<At("find", q)>>
<1>0. StacksOK /\ LockOK /\ GraphOK /\ Covered
  BY DEF IInv
<1>1. /\ Is(t, "publish") /\ cache' = TRUE /\ writer' = NoThread /\ Replace(t, fs)
      /\ UNCHANGED <<calls, pool, returned, inserted>>
      /\ readers' = readers /\ builds' = builds
      /\ inserted' = inserted /\ returned' = returned
  BY DEF Publish, graph
<1>2. "publish" \in SearchOps /\ "find" \in SearchOps \ {"publish"}
  BY DEF SearchOps
<1>3. builds > 0 => builds' > 0
  BY <1>1
<1>4. /\ Rewritten(t, 1, fs) /\ At("find", q) \in Frame
      /\ StacksOK' /\ PoolOK' /\ CallersOK' /\ Covered'
  BY <1>1, <1>2, <1>3, MovedKept
<1>5. /\ fs \in Seq(Frame) /\ Len(fs) = 1 /\ fs[1].op = "find" /\ fs # <<>>
      /\ \A p \in 1 .. Len(fs) : p = 1 /\ fs[p].op = "find"
  BY <1>4 DEF At
<1>6. ~Is(t, "probe") /\ 1 \in {0, 1}
  BY <1>1 DEF Is
<1> HIDE DEF fs
<1>7. 1 \in DOMAIN stack[t] /\ stack[t][1] = Top(t) /\ Top(t).op = "publish"
      /\ Top(t) = At("publish", q)
  BY <1>0, <1>1, <1>2, TopFrame
<1>8. LockOK'
  <2>0. writer = t /\ Top(t).op \in LockOps
    BY <1>0, <1>7 DEF LockOK, LockOps
  <2>1. readers' = {u \in Threads : Is(u, "probe")'}
    <3>1. \A u \in Threads : Is(u, "probe")' <=> Is(u, "probe")
      BY <1>0, <1>4, <1>5, <1>6, ProbesFrom
    <3> QED
      BY <1>0, <1>1, <3>1 DEF LockOK
  <2>2. ASSUME NEW u \in Threads, NEW p \in DOMAIN stack'[u]
        PROVE  stack'[u][p].op \notin LockOps
    <3>1. CASE u = t /\ p \in 1 .. Len(fs) /\ stack'[u][p] = fs[p]
      BY <1>5, <3>1 DEF LockOps
    <3>2. CASE ~(u = t /\ p \in 1 .. Len(fs) /\ stack'[u][p] = fs[p])
      BY <1>0, <1>4, <1>5, <2>0, <3>2, LockFrames
    <3> QED
      BY <3>1, <3>2
  <2> QED
    BY <1>1, <2>1, <2>2 DEF LockOK, LockOps
<1>9. GraphOK'
  <2>1. inserted = 1 .. NCentroids
    <3>1. Owed(t, stack[t][1]) = {<<"insert", n>> : n \in 1 .. NCentroids}
      <4>1. Owed(t, At("publish", q)) = {<<"insert", n>> : n \in 1 .. NCentroids}
        BY FrameLeaves
      <4> QED
        BY <1>7, <4>1, Zenon
    <3>2. ASSUME NEW n \in 1 .. NCentroids PROVE n \in inserted
      <4>1. <<"insert", n>> \in Finished
        BY <1>0, <1>7, <3>1 DEF Covered
      <4> QED
        BY <4>1 DEF Finished
    <3> QED
      BY <1>0, <3>2 DEF GraphOK
  <2>2. ~warm
    BY <1>0, <1>7 DEF LockOK, GraphOK
  <2>3. AllQueries' = AllQueries /\ warm' = warm /\ batchers' = batchers
    BY <1>3, GoodKept DEF calls
  <2> QED
    BY <1>0, <1>1, <2>1, <2>2, <2>3 DEF GraphOK
<1> QED
  BY <1>4, <1>8, <1>9 DEF IInv

LEMMA FindKept ==
  ASSUME IInv, UNCHANGED calls, NEW t \in Threads, Find(t)
  PROVE  IInv'
<1> DEFINE q == Top(t).query
           fs == <<At("probe", q)>>
<1>0. StacksOK /\ LockOK /\ GraphOK
  BY DEF IInv
<1>1. /\ Is(t, "find") /\ writer = NoThread /\ readers' = readers \cup {t} /\ Replace(t, fs)
      /\ UNCHANGED <<calls, pool, returned, inserted>> /\ UNCHANGED <<calls, cache, builds>>
      /\ writer' = writer /\ cache' = cache /\ builds' = builds
      /\ inserted' = inserted /\ returned' = returned
  BY DEF Find, graph
<1>2. "find" \in SearchOps /\ "probe" \in SearchOps \ {"publish"}
  BY DEF SearchOps
<1>3. builds > 0 => builds' > 0
  BY <1>1
<1>4. /\ Rewritten(t, 1, fs) /\ At("probe", q) \in Frame
      /\ StacksOK' /\ PoolOK' /\ CallersOK' /\ Covered'
  BY <1>1, <1>2, <1>3, MovedKept
<1>5. /\ fs \in Seq(Frame) /\ Len(fs) = 1 /\ fs[1].op = "probe" /\ fs # <<>>
      /\ \A p \in 1 .. Len(fs) : p = 1 /\ fs[p].op = "probe"
  BY <1>4 DEF At
<1>6. ~Is(t, "publish") /\ 1 \in {0, 1}
  BY <1>1 DEF Is
<1> HIDE DEF fs
<1>7. cache
  BY <1>0, <1>1, TopFrame DEF LockOK
<1>8. LockOK'
  <2>1. readers' = {u \in Threads : Is(u, "probe")'}
    <3>1. /\ \A u \in Threads \ {t} : Is(u, "probe")' <=> Is(u, "probe")
          /\ Is(t, "probe")'
      BY <1>0, <1>4, <1>5, <1>6, ProbesFrom
    <3> QED
      BY <1>0, <1>1, <3>1 DEF LockOK
  <2>2. ASSUME NEW u \in Threads, NEW p \in DOMAIN stack'[u]
        PROVE  stack'[u][p].op \notin LockOps
    <3>1. CASE u = t /\ p \in 1 .. Len(fs) /\ stack'[u][p] = fs[p]
      BY <1>5, <3>1 DEF LockOps
    <3>2. CASE ~(u = t /\ p \in 1 .. Len(fs) /\ stack'[u][p] = fs[p])
      <4>1. stack'[u][p].op \in LockOps => writer = u
        BY <1>0, <1>4, <1>5, <3>2, LockFrames
      <4> QED
        BY <1>1, <4>1
    <3> QED
      BY <3>1, <3>2
  <2> QED
    BY <1>1, <1>7, <2>1, <2>2 DEF LockOK, LockOps
<1>9. GraphOK'
  <2>1. inserted' \subseteq 1 .. NCentroids /\ returned' \subseteq AllQueries
    BY <1>0, <1>1 DEF GraphOK
  <2> QED
    BY <1>0, <1>1, <1>4, <1>5, <1>6, <2>1, GraphKept
<1> QED
  BY <1>4, <1>8, <1>9 DEF IInv

LEMMA ProbeKept ==
  ASSUME IInv, UNCHANGED calls, NEW t \in Threads, Probe(t)
  PROVE  IInv'
<1> DEFINE q == Top(t).query
           fs == <<At("lists", q)>>
<1>0. StacksOK /\ LockOK /\ GraphOK
  BY DEF IInv
<1>1. /\ Is(t, "probe") /\ readers' = readers \ {t} /\ Replace(t, fs)
      /\ UNCHANGED <<calls, pool, returned, inserted>> /\ UNCHANGED <<calls, cache, builds>>
      /\ writer' = writer /\ cache' = cache /\ builds' = builds
      /\ inserted' = inserted /\ returned' = returned
  BY DEF Probe, graph
<1>2. "probe" \in SearchOps /\ "lists" \in SearchOps \ {"publish"}
  BY DEF SearchOps
<1>3. builds > 0 => builds' > 0
  BY <1>1
<1>4. /\ Rewritten(t, 1, fs) /\ At("lists", q) \in Frame
      /\ StacksOK' /\ PoolOK' /\ CallersOK' /\ Covered'
  BY <1>1, <1>2, <1>3, MovedKept
<1>5. /\ fs \in Seq(Frame) /\ Len(fs) = 1 /\ fs[1].op = "lists" /\ fs # <<>>
      /\ \A p \in 1 .. Len(fs) : p = 1 /\ fs[p].op = "lists"
  BY <1>4 DEF At
<1>6. ~Is(t, "publish") /\ 1 \in {0, 1}
  BY <1>1 DEF Is
<1> HIDE DEF fs
<1>7. t \in readers
  BY <1>0, <1>1 DEF LockOK
<1>8. LockOK'
  <2>1. readers' = {u \in Threads : Is(u, "probe")'}
    <3>1. /\ \A u \in Threads \ {t} : Is(u, "probe")' <=> Is(u, "probe")
          /\ ~Is(t, "probe")'
      BY <1>0, <1>4, <1>5, <1>6, ProbesFrom
    <3> QED
      BY <1>0, <1>1, <3>1 DEF LockOK
  <2>2. ASSUME NEW u \in Threads, NEW p \in DOMAIN stack'[u]
        PROVE  /\ stack'[u][p].op # "publish"
               /\ stack'[u][p].op \in {"find", "probe"} => cache
               /\ stack'[u][p].op \in LockOps =>
                    /\ writer = u
                    /\ \E r \in DOMAIN stack[u] :
                         stack'[u][p] = stack[u][r] /\ (u # t => p = r) /\ (u = t => r = p)
    <3>1. CASE u = t /\ p \in 1 .. Len(fs) /\ stack'[u][p] = fs[p]
      BY <1>5, <3>1 DEF LockOps
    <3>2. CASE ~(u = t /\ p \in 1 .. Len(fs) /\ stack'[u][p] = fs[p])
      <4>1. /\ stack'[u][p].op \in LockOps => writer = u
            /\ stack'[u][p].op = "publish" => readers = {}
            /\ stack'[u][p].op \in {"find", "probe"} => cache
        BY <1>0, <1>4, <1>5, <3>2, LockFrames
      <4>2. PICK r \in DOMAIN stack[u] :
              stack'[u][p] = stack[u][r] /\ (u # t => p = r) /\ (u = t => p = r + Len(fs) - 1)
        <5>1. fs \in Seq(Frame)
          BY <1>5
        <5>2. \E r \in DOMAIN stack[u] :
                /\ stack'[u][p] = stack[u][r]
                /\ u = t => p = r + Len(fs) - 1 /\ r > 1
                /\ u # t => r = p
          BY <1>0, <1>4, <1>6, <3>2, <5>1, FrameFrom
        <5> QED
          BY <5>2
      <4>3. u = t => p = r
        <5>1. stack[u] \in Seq(Frame)
          BY <1>0 DEF StacksOK
        <5> QED
          BY <1>5, <4>2, <5>1
      <4> QED
        BY <1>7, <4>1, <4>2, <4>3
    <3> QED
      BY <3>1, <3>2
  <2>3. ASSUME NEW u \in Threads, NEW p \in DOMAIN stack'[u], NEW r \in DOMAIN stack'[u],
               stack'[u][p].op \in LockOps, stack'[u][r].op \in LockOps
        PROVE  r = p
    <3>1. /\ p \in DOMAIN stack[u] /\ stack'[u][p] = stack[u][p]
          /\ r \in DOMAIN stack[u] /\ stack'[u][r] = stack[u][r]
      BY <2>2, <2>3
    <3> QED
      BY <1>0, <2>3, <3>1 DEF LockOK
  <2>4. writer' \in Threads \cup {NoThread}
    BY <1>0, <1>1 DEF LockOK
  <2> QED
    BY <1>1, <2>1, <2>2, <2>3, <2>4 DEF LockOK
<1>9. GraphOK'
  <2>1. inserted' \subseteq 1 .. NCentroids /\ returned' \subseteq AllQueries
    BY <1>0, <1>1 DEF GraphOK
  <2> QED
    BY <1>0, <1>1, <1>4, <1>5, <1>6, <2>1, GraphKept
<1> QED
  BY <1>4, <1>8, <1>9 DEF IInv

\* The one that builds had the lock, so nothing had been built before.
LEMMA BuildKept ==
  ASSUME IInv, UNCHANGED calls, NEW t \in Threads, Build(t)
  PROVE  IInv'
<1> DEFINE q == Top(t).query
           next == At("publish", q)
           j == Job("insert", q, 1, NCentroids)
<1>0. StacksOK /\ LockOK /\ GraphOK
  BY DEF IInv
<1>1. /\ Is(t, "recheck") /\ readers = {} /\ ~cache /\ Fork(t, next, j)
      /\ inserted' = {} /\ builds' = builds + 1
      /\ UNCHANGED <<calls, returned>> /\ cache' = cache /\ writer' = writer
      /\ readers' = readers /\ returned' = returned
  BY DEF Build, lock
<1>2. /\ stack[t] # <<>> /\ Top(t).op = "recheck" /\ Top(t) = At("recheck", q)
      /\ Top(t) = stack[t][1] /\ 1 \in DOMAIN stack[t]
      /\ q \in AllQueries /\ GoodFrame(Top(t))
  BY <1>0, <1>1, TopFrame DEF SearchOps
<1>3. writer = t /\ Top(t).op \in LockOps
  BY <1>0, <1>2 DEF LockOK, LockOps
<1>4. builds = 0 /\ inserted = {} /\ ~warm
  <2>1. ASSUME NEW u \in Threads, NEW p \in DOMAIN stack[u], stack[u][p].op = "publish"
        PROVE  FALSE
    <3>1. u = t /\ p = 1
      BY <1>0, <1>2, <1>3, <2>1 DEF LockOK, LockOps
    <3> QED
      BY <1>2, <2>1, <3>1
  <2> QED
    BY <1>0, <1>1, <2>1 DEF GraphOK
<1>5. q \in Callers \X Nat
  BY <1>2 DEF GoodFrame, Frame, SearchOps, JobOps, At
<1>6. next \in Frame /\ next.op = "publish" /\ next.query = q
  BY <1>5 DEF Frame, At, SearchOps
<1>7. GoodFrame(next)
  BY <1>2, <1>6 DEF GoodFrame, JobOps
<1>8. builds' > 0 /\ (builds > 0 => builds' > 0) /\ builds' = 1
  BY <1>1, <1>4
<1>9. j \in Jobs /\ j.kind = "insert" /\ j.lo = 1 /\ j.hi = NCentroids
  BY <1>5 DEF Job, Jobs
<1>10. \A k : k = j => Good(k)'
  BY <1>8, <1>9 DEF Good
<1>11. Owed(t, next) \subseteq LeavesOf(j)
  <2>1. Owed(t, next) = {<<"insert", n>> : n \in 1 .. NCentroids}
    BY FrameLeaves
  <2> QED
    BY <1>9, <2>1 DEF LeavesOf
<1>12. Leaves(Top(t)) = {<<"query", q>>} /\ Leaves(next) = {<<"query", q>>}
  <2>1. "recheck" \in SearchOps /\ "publish" \in SearchOps
    BY DEF SearchOps
  <2>2. Leaves(At("recheck", q)) = {<<"query", q>>} /\ Leaves(next) = {<<"query", q>>}
    BY <2>1, FrameLeaves
  <2> QED
    BY <1>2, <2>2, Zenon
<1>13. Finished' = Finished
  BY <1>1, <1>4 DEF Finished
<1>14. t \in Callers /\ Own(t, Top(t)) => Own(t, next)
  BY <1>2, <1>6 DEF Own, SearchOps
<1>15. Top(t).op \in SearchOps
  BY <1>2 DEF SearchOps
<1> HIDE DEF next, j
<1>16. /\ \E f \in {Run(j), Latch(j)} :
            Rewritten(t, 1, <<f, next>>) /\ <<f, next>> \in Seq(Frame)
       /\ StacksOK' /\ PoolOK' /\ CallersOK' /\ Covered'
  BY <1>1, <1>2, <1>6, <1>7, <1>8, <1>9, <1>10, <1>11, <1>12, <1>13, <1>14, <1>15, ForkedKept
<1>17. PICK f \in {Run(j), Latch(j)} :
          Rewritten(t, 1, <<f, next>>) /\ <<f, next>> \in Seq(Frame)
  BY <1>16
<1> DEFINE fs == <<f, next>>
<1>18. /\ fs \in Seq(Frame) /\ Rewritten(t, 1, fs) /\ Len(fs) = 2 /\ fs # <<>>
       /\ fs[1].op \in {"run", "latch"} /\ fs[2].op = "publish"
       /\ ~Is(t, "probe") /\ 1 \in {0, 1} /\ 1 .. Len(fs) = {1, 2}
  BY <1>2, <1>6, <1>17 DEF Run, Latch, Is
<1> HIDE DEF fs
<1>19. LockOK'
  <2>1. readers' = {u \in Threads : Is(u, "probe")'}
    <3>1. \A u \in Threads : Is(u, "probe")' <=> Is(u, "probe")
      BY <1>0, <1>18, ProbesFrom
    <3> QED
      BY <1>0, <1>1, <3>1 DEF LockOK
  <2>2. ASSUME NEW u \in Threads, NEW p \in DOMAIN stack'[u]
        PROVE  /\ stack'[u][p].op \in LockOps => u = t /\ p = 2
               /\ stack'[u][p].op \notin {"find", "probe"}
    <3>1. CASE u = t /\ p \in 1 .. Len(fs) /\ stack'[u][p] = fs[p]
      BY <1>18, <3>1 DEF LockOps
    <3>2. CASE ~(u = t /\ p \in 1 .. Len(fs) /\ stack'[u][p] = fs[p])
      BY <1>0, <1>1, <1>3, <1>18, <3>2, LockFrames
    <3> QED
      BY <3>1, <3>2
  <2> QED
    BY <1>1, <1>3, <1>8, <2>1, <2>2 DEF LockOK
<1>20. GraphOK'
  <2>1. 2 \in DOMAIN stack'[t] /\ stack'[t][2].op = "publish"
    <3>1. /\ stack'[t] \in Seq(Frame) /\ stack[t] \in Seq(Frame) /\ 1 <= Len(stack[t])
          /\ Len(stack'[t]) = Len(stack[t]) - 1 + Len(fs)
      BY <1>0, <1>18 DEF Rewritten, StacksOK
    <3>2. stack'[t][2] = fs[2]
      BY <1>18 DEF Rewritten
    <3>3. 2 \in 1 .. Len(stack'[t])
      BY <1>18, <3>1
    <3> QED
      BY <1>18, <3>1, <3>2, <3>3
  <2>2. AllQueries' = AllQueries /\ warm' = warm /\ batchers' = batchers
    BY <1>8, GoodKept DEF calls
  <2> QED
    BY <1>0, <1>1, <1>4, <1>8, <2>1, <2>2 DEF GraphOK
<1> QED
  BY <1>16, <1>19, <1>20 DEF IInv

-----------------------------------------------------------------------------
(* The steps of the pool.                                                  *)

LEMMA PoolStepKept ==
  ASSUME IInv, UNCHANGED calls, UNCHANGED lock, cache' = cache, builds' = builds,
         returned' = returned,
         inserted' = inserted \/ (inserted \subseteq inserted' /\ builds > 0),
         inserted' \subseteq 1 .. NCentroids,
         NEW t \in Threads, NEW d \in {0, 1}, NEW fs \in Seq(Frame), Rewritten(t, d, fs),
         d = 0 => fs # <<>> /\ (stack[t] = <<>> \/ Is(t, "join")),
         d = 1 => stack[t] # <<>> /\ Top(t).op \in JobOps,
         \A p \in 1 .. Len(fs) :
           /\ GoodFrame(fs[p])
           /\ p > 1 => fs[p].op \in Inner
           /\ fs[p].op \in {"run", "join", "stolen", "check"},
         t \in Callers => d = 1 /\ fs = <<>> /\ Top(t).op = "latch",
         \A x : d = 1 /\ x \in Leaves(Top(t))
                  => x \in Finished' \/ \E i \in 1 .. Len(fs) : x \in Leaves(fs[i]),
         \A p \in 1 .. Len(fs) : \A x \in Owed(t, fs[p]) :
           x \in Finished' \/ \E i \in 1 .. p - 1 : x \in Leaves(fs[i])
  PROVE  StacksOK' /\ CallersOK' /\ LockOK' /\ GraphOK' /\ Covered'
<1>0. StacksOK /\ CallersOK /\ LockOK /\ GraphOK /\ Covered
  BY DEF IInv
<1>1. /\ UNCHANGED <<lock, cache>> /\ UNCHANGED <<calls, cache, builds>>
      /\ builds > 0 => builds' > 0
  OBVIOUS
<1>2. Finished \subseteq Finished' /\ returned' \subseteq AllQueries
      /\ returned \subseteq returned'
  BY <1>0 DEF Finished, GraphOK
<1>3. stack[t] # <<>> => Top(t) = stack[t][1] /\ 1 \in DOMAIN stack[t]
  BY <1>0 DEF StacksOK, Top
<1>4. ~Is(t, "probe") /\ ~Is(t, "publish")
  <2>1. CASE d = 0
    BY <2>1 DEF Is
  <2>2. CASE d = 1
    BY <2>2 DEF Is, JobOps
  <2> QED
    BY <2>1, <2>2
<1>5. StacksOK'
  <2>1. \A p \in 1 .. Len(fs) :
          /\ GoodFrame(fs[p])'
          /\ p > 1 => fs[p].op \in Inner
          /\ fs[p].op \in {"batch", "collect"} => t \in batchers
    BY <1>1, GoodKept
  <2>2. d = 0 => \A p \in DOMAIN stack[t] : p = 1 => stack[t][p].op \in Inner
    <3>1. CASE stack[t] = <<>>
      BY <3>1
    <3>2. CASE Is(t, "join")
      BY <1>3, <3>2 DEF Is, Inner
    <3> QED
      BY <3>1, <3>2
  <2> QED
    BY <1>0, <1>1, <2>1, <2>2, StacksKept
<1>6. CallersOK'
  <2>1. ASSUME t \in Callers PROVE d = 1 /\ Len(stack[t]) = 2 /\ fs = <<>>
    <3>1. Top(t).op = "latch" /\ stack[t] # <<>> /\ d = 1 /\ fs = <<>>
      BY <2>1
    <3>2. ~Own(t, Top(t))
      BY <3>1 DEF Own, SearchOps
    <3> QED
      BY <1>0, <2>1, <3>1, <3>2, CallerTop
  <2> QED
    BY <1>0, <1>2, <2>1, CallersKept
<1>7. LockOK'
  <2>1. \A p \in 1 .. Len(fs) :
          /\ fs[p].op \notin {"recheck", "publish", "probe"}
          /\ fs[p].op = "find" => cache
    OBVIOUS
  <2> QED
    BY <1>0, <1>1, <1>4, <2>1, LockKept
<1>8. GraphOK'
  BY <1>0, <1>1, <1>2, <1>4, GraphKept
<1>9. Covered'
  <2>1. \A x : d = 1 /\ x \in Leaves(stack[t][1])
                 => x \in Finished' \/ \E i \in 1 .. Len(fs) : x \in Leaves(fs[i])
    BY <1>3
  <2> QED
    BY <1>0, <1>2, <2>1, CoverKept
<1> QED
  BY <1>5, <1>6, <1>7, <1>8, <1>9

\* Only the pool runs jobs.
LEMMA WorkerTop ==
  ASSUME IInv, NEW t \in Threads, NEW op \in {"run", "join", "stolen"}, Is(t, op)
  PROVE  t \in Workers /\ t \notin Callers
<1>1. ASSUME t \in Callers PROVE FALSE
  <2>1. stack[t] # <<>> /\ Top(t).op = op
    BY DEF Is
  <2>2. ~Own(t, Top(t)) /\ Top(t).op # "latch"
    BY <2>1 DEF Own, SearchOps
  <2> QED
    BY <1>1, <2>1, <2>2, CallerTop DEF IInv
<1> QED
  BY <1>1 DEF Threads

LEMMA LeafKept ==
  ASSUME IInv, UNCHANGED calls, NEW t \in Threads, Leaf(t)
  PROVE  IInv'
<1> DEFINE j == Top(t).job
           at == At("check", <<j.owner, j.lo>>)
<1>0. StacksOK /\ PoolOK /\ LockOK /\ GraphOK /\ IInv
  BY DEF IInv
<1>1. /\ Is(t, "run") /\ j.lo = j.hi
      /\ IF j.kind = "query" THEN Replace(t, <<at>>) ELSE Return(t)
      /\ inserted' = IF j.kind = "insert" THEN inserted \cup {j.lo} ELSE inserted
      /\ UNCHANGED <<calls, pool>> /\ UNCHANGED lock /\ cache' = cache /\ builds' = builds
      /\ returned' = returned
  BY DEF Leaf
<1>2. /\ stack[t] # <<>> /\ Top(t).op = "run" /\ Top(t) = [op |-> "run", job |-> j]
      /\ Good(j)
  BY <1>0, <1>1, TopFrame DEF JobOps
<1>3. t \in Workers /\ t \notin Callers
  BY <1>0, <1>1, WorkerTop
<1>4. j \in Jobs /\ j.lo \in Nat /\ j.hi \in Nat /\ j.kind \in {"query", "insert", "list"}
  BY <1>2 DEF Good, Jobs
<1>5. /\ inserted' = inserted \/ (inserted \subseteq inserted' /\ builds > 0)
      /\ inserted' \subseteq 1 .. NCentroids
  <2>1. CASE j.kind = "insert"
    <3>1. j.lo \in 1 .. NCentroids /\ builds > 0
      BY <1>1, <1>2, <1>4, <2>1 DEF Good
    <3> QED
      BY <1>0, <1>1, <2>1, <3>1 DEF GraphOK
  <2>2. CASE j.kind # "insert"
    BY <1>0, <1>1, <2>2 DEF GraphOK
  <2> QED
    BY <2>1, <2>2
<1>6. Leaves(Top(t)) = LeavesOf(j)
  <2>1. Top(t) = Run(j)
    BY <1>2 DEF Run
  <2>2. Leaves(Run(j)) = LeavesOf(j)
    BY FrameLeaves
  <2> QED
    BY <2>1, <2>2, Zenon
<1>7. j.lo .. j.hi = {j.lo}
  BY <1>1, <1>4
<1>8. PoolOK'
  <2>1. Finished \subseteq Finished'
    BY <1>1, <1>5 DEF Finished
  <2>2. builds > 0 => builds' > 0
    BY <1>1
  <2> QED
    BY <1>0, <1>1, <2>1, <2>2, PoolKept
<1> HIDE DEF j
<1>9. CASE j.kind = "query"
  <2> DEFINE fs == <<at>>
  <2>1. <<j.owner, j.lo>> \in AllQueries /\ <<j.owner, j.lo>> \in Callers \X Nat
    <3>1. j.owner \in batchers /\ j.lo \in 1 .. NQueries
      BY <1>1, <1>2, <1>4, <1>9 DEF Good
    <3>2. j.owner \in Callers
      BY <1>0, <3>1 DEF GraphOK
    <3>3. <<j.owner, j.lo>> \in Queries(j.owner)
      BY <3>1 DEF Queries
    <3> QED
      BY <1>4, <3>2, <3>3 DEF AllQueries
  <2>2. at \in Frame /\ at.op = "check" /\ at.query = <<j.owner, j.lo>>
    BY <2>1 DEF At, Frame, SearchOps
  <2>3. GoodFrame(at)
    BY <2>1, <2>2 DEF GoodFrame, JobOps
  <2>4. /\ Leaves(at) = {<<"query", <<j.owner, j.lo>>>>}
        /\ Owed(t, at) = {}
    BY FrameLeaves DEF SearchOps
  <2>5. LeavesOf(j) = {<<"query", <<j.owner, j.lo>>>>}
    BY <1>7, <1>9 DEF LeavesOf
  <2> HIDE DEF at
  <2>6. fs \in Seq(Frame) /\ Len(fs) = 1 /\ fs[1] = at /\ fs # <<>>
    BY <2>2
  <2>7. Rewritten(t, 1, fs)
    BY <1>0, <1>1, <1>2, <1>9, <2>6, ReplaceShape
  <2> HIDE DEF fs
  <2>8. \A p \in 1 .. Len(fs) :
           /\ GoodFrame(fs[p])
           /\ p > 1 => fs[p].op \in Inner
           /\ fs[p].op \in {"run", "join", "stolen", "check"}
           /\ Owed(t, fs[p]) = {}
    BY <2>2, <2>3, <2>4, <2>6
  <2>9. /\ 1 \in {0, 1} /\ Top(t).op \in JobOps
        /\ \A x \in Leaves(Top(t)) : \E i \in 1 .. Len(fs) : x \in Leaves(fs[i])
    BY <1>2, <1>6, <2>4, <2>5, <2>6 DEF JobOps
  <2>10. StacksOK' /\ CallersOK' /\ LockOK' /\ GraphOK' /\ Covered'
    BY <1>0, <1>1, <1>2, <1>3, <1>5, <2>6, <2>7, <2>8, <2>9, PoolStepKept
  <2> QED
    BY <1>8, <2>10 DEF IInv
<1>10. CASE j.kind # "query"
  <2> DEFINE fs == <<>>
  <2>1. /\ fs \in Seq(Frame) /\ Rewritten(t, 1, fs) /\ 1 \in {0, 1}
        /\ \A p \in 1 .. Len(fs) : FALSE
    BY <1>0, <1>1, <1>2, <1>10, ReturnShape
  <2> HIDE DEF fs
  <2>2. \A p \in 1 .. Len(fs) :
           /\ GoodFrame(fs[p])
           /\ p > 1 => fs[p].op \in Inner
           /\ fs[p].op \in {"run", "join", "stolen", "check"}
           /\ Owed(t, fs[p]) = {}
    BY <2>1
  <2>3. ASSUME NEW x \in Leaves(Top(t)) PROVE x \in Finished'
    <3>1. CASE j.kind = "insert"
      <4>1. x = <<"insert", j.lo>>
        BY <1>6, <1>7, <2>3, <3>1 DEF LeavesOf
      <4> QED
        BY <1>1, <3>1, <4>1 DEF Finished
    <3>2. CASE j.kind = "list"
      BY <1>6, <2>3, <3>2 DEF LeavesOf
    <3> QED
      BY <1>4, <1>10, <3>1, <3>2
  <2>4. Top(t).op \in JobOps
    BY <1>2 DEF JobOps
  <2>5. StacksOK' /\ CallersOK' /\ LockOK' /\ GraphOK' /\ Covered'
    BY <1>0, <1>1, <1>2, <1>3, <1>5, <2>1, <2>2, <2>3, <2>4, PoolStepKept
  <2> QED
    BY <1>8, <2>5 DEF IInv
<1> QED
  BY <1>9, <1>10

LEMMA PoolChanged ==
  ASSUME UNCHANGED calls, builds > 0 => builds' > 0,
         deque' \in [Workers -> Seq(Jobs)], injector' \in Seq(Jobs),
         \A w \in Workers : \A p \in DOMAIN deque'[w] : Good(deque'[w][p]),
         \A p \in DOMAIN injector' : Good(injector'[p]),
         \A k \in done' : Good(k) /\ LeavesOf(k) \subseteq Finished'
  PROVE  PoolOK'
<1>1. \A k : Good(k) => Good(k)'
  BY GoodKept
<1>2. \A w \in Workers : \A p \in DOMAIN deque'[w] : Good(deque[w][p])'
  BY <1>1
<1>3. \A p \in DOMAIN injector' : Good(injector[p])'
  BY <1>1
<1>4. \A k \in done' : Good(k)' /\ LeavesOf(k) \subseteq Finished'
  BY <1>1
<1> QED
  BY <1>2, <1>3, <1>4 DEF PoolOK, LeavesOf

\* A range of two or more falls into two, with all its leaves.
LEMMA Halves ==
  ASSUME NEW j \in Jobs, j.lo < j.hi
  PROVE  /\ Left(j) \in Jobs /\ Right(j) \in Jobs
         /\ Left(j).kind = j.kind /\ Right(j).kind = j.kind
         /\ Left(j).owner = j.owner /\ Right(j).owner = j.owner
         /\ Left(j).lo = j.lo /\ Left(j).hi <= j.hi
         /\ j.lo <= Right(j).lo /\ Right(j).hi = j.hi
         /\ LeavesOf(j) = LeavesOf(Left(j)) \cup LeavesOf(Right(j))
<1> DEFINE m == Mid(j)
<1>1. j.lo \in Nat /\ j.hi \in Nat /\ j.kind \in {"query", "insert", "list"}
  BY DEF Jobs
<1>2. m \in Nat /\ j.lo <= m /\ m < j.hi
  BY <1>1 DEF Mid
<1> HIDE DEF m
<1>3. j.lo .. j.hi = (j.lo .. m) \cup (m + 1 .. j.hi)
  BY <1>1, <1>2
<1>4. /\ Left(j) = [kind |-> j.kind, owner |-> j.owner, lo |-> j.lo, hi |-> m]
      /\ Right(j) = [kind |-> j.kind, owner |-> j.owner, lo |-> m + 1, hi |-> j.hi]
  BY DEF Left, Right, Jobs, m
<1>5. j.owner \in Callers \cup (Callers \X Nat)
  BY DEF Jobs
<1>6. Left(j) \in Jobs /\ Right(j) \in Jobs
  BY <1>1, <1>2, <1>4, <1>5 DEF Jobs
<1>7. LeavesOf(j) = LeavesOf(Left(j)) \cup LeavesOf(Right(j))
  <2>1. CASE j.kind = "insert"
    BY <1>3, <1>4, <2>1 DEF LeavesOf
  <2>2. CASE j.kind = "query"
    BY <1>3, <1>4, <2>2 DEF LeavesOf
  <2>3. CASE j.kind = "list"
    BY <1>4, <2>3 DEF LeavesOf
  <2> QED
    BY <1>1, <2>1, <2>2, <2>3
<1>8. j.lo <= m + 1 /\ m <= j.hi
  BY <1>1, <1>2
<1> QED
  BY <1>4, <1>6, <1>7, <1>8

LEMMA SplitKept ==
  ASSUME IInv, UNCHANGED calls, NEW t \in Threads, Split(t)
  PROVE  IInv'
<1> DEFINE j == Top(t).job
           l == Left(j)
           r == Right(j)
<1>0. StacksOK /\ PoolOK /\ GraphOK
  BY DEF IInv
<1>1. /\ Is(t, "run") /\ j.lo < j.hi
      /\ Replace(t, <<Run(l), Join(r)>>)
      /\ deque' = [deque EXCEPT ![t] = Append(@, r)]
      /\ injector' = injector /\ done' = done
      /\ UNCHANGED lock /\ cache' = cache /\ builds' = builds
      /\ inserted' = inserted /\ returned' = returned
  BY DEF Split, graph
<1>2. /\ stack[t] # <<>> /\ Top(t).op = "run" /\ Top(t) = [op |-> "run", job |-> j]
      /\ Good(j)
  BY <1>0, <1>1, TopFrame DEF JobOps
<1>3. t \in Workers /\ t \notin Callers
  BY <1>1, WorkerTop
<1>4. j \in Jobs
  BY <1>2 DEF Good
<1> HIDE DEF j
<1>5. /\ l \in Jobs /\ r \in Jobs /\ LeavesOf(j) = LeavesOf(l) \cup LeavesOf(r)
  BY <1>1, <1>4, Halves
<1>6. Good(l) /\ Good(r)
  <2>1. /\ l.kind = j.kind /\ r.kind = j.kind /\ l.owner = j.owner /\ r.owner = j.owner
        /\ l.lo = j.lo /\ l.hi <= j.hi /\ j.lo <= r.lo /\ r.hi = j.hi
    BY <1>1, <1>4, Halves
  <2>2. j.lo \in Nat /\ j.hi \in Nat /\ l.hi \in Nat /\ r.lo \in Nat
    BY <1>4, <1>5 DEF Jobs
  <2> QED
    BY <1>2, <1>5, <2>1, <2>2 DEF Good
<1> HIDE DEF l, r
<1>7. /\ GoodFrame(Run(l)) /\ GoodFrame(Join(r)) /\ Run(l).op = "run" /\ Join(r).op = "join"
  BY <1>5, <1>6 DEF GoodFrame, Run, Join, Frame, JobOps, SearchOps
<1> DEFINE fs == <<Run(l), Join(r)>>
<1>8. fs \in Seq(Frame) /\ Len(fs) = 2 /\ fs[1] = Run(l) /\ fs[2] = Join(r) /\ fs # <<>>
  BY <1>7 DEF GoodFrame
<1>9. Rewritten(t, 1, fs)
  BY <1>0, <1>1, <1>2, <1>8, ReplaceShape
<1> HIDE DEF fs
<1>10. 1 \in {0, 1} /\ 1 .. Len(fs) = {1, 2}
  BY <1>8
<1>11. \A p \in 1 .. Len(fs) :
          /\ GoodFrame(fs[p])
          /\ p > 1 => fs[p].op \in Inner
          /\ fs[p].op \in {"run", "join", "stolen", "check"}
          /\ Owed(t, fs[p]) = {}
  <2>1. Owed(t, Run(l)) = {} /\ Owed(t, Join(r)) = {}
    BY FrameLeaves
  <2> QED
    BY <1>7, <1>8, <1>10, <2>1 DEF Inner
<1>12. \A x \in Leaves(Top(t)) : \E i \in 1 .. Len(fs) : x \in Leaves(fs[i])
  <2>1. Top(t) = Run(j)
    BY <1>2 DEF Run
  <2>2. /\ Leaves(Run(j)) = LeavesOf(j) /\ Leaves(Run(l)) = LeavesOf(l)
        /\ Leaves(Join(r)) = LeavesOf(r)
    BY FrameLeaves
  <2> QED
    BY <1>5, <1>8, <1>10, <2>1, <2>2
<1>13. /\ Top(t).op \in JobOps /\ inserted' \subseteq 1 .. NCentroids
  BY <1>0, <1>1, <1>2 DEF JobOps, GraphOK
<1>14. StacksOK' /\ CallersOK' /\ LockOK' /\ GraphOK' /\ Covered'
  <2>1. fs \in Seq(Frame) /\ 1 \in {0, 1}
    BY <1>8
  <2>2. UNCHANGED lock /\ cache' = cache /\ builds' = builds
        /\ inserted' = inserted /\ returned' = returned
    BY <1>1
  <2>3. \A p \in 1 .. Len(fs) : \A x \in Owed(t, fs[p]) :
          x \in Finished' \/ \E i \in 1 .. p - 1 : x \in Leaves(fs[i])
    BY <1>11
  <2>4. \A p \in 1 .. Len(fs) :
          /\ GoodFrame(fs[p])
          /\ p > 1 => fs[p].op \in Inner
          /\ fs[p].op \in {"run", "join", "stolen", "check"}
    BY <1>11
  <2>5. stack[t] # <<>>
    BY <1>2
  <2> QED
    BY <1>3, <1>9, <1>12, <1>13, <2>1, <2>2, <2>3, <2>4, <2>5, PoolStepKept
<1>15. PoolOK'
  <2>1. deque \in [Workers -> Seq(Jobs)] /\ deque[t] \in Seq(Jobs)
    BY <1>0, <1>3 DEF PoolOK
  <2> DEFINE s == Append(deque[t], r)
  <2>2. /\ s \in Seq(Jobs) /\ Len(s) = Len(deque[t]) + 1
        /\ \A p \in 1 .. Len(deque[t]) : s[p] = deque[t][p]
        /\ s[Len(deque[t]) + 1] = r
    BY <1>5, <2>1, AppendProperties
  <2>3. deque' = [deque EXCEPT ![t] = s]
    BY <1>1
  <2> HIDE DEF s
  <2>4. ASSUME NEW p \in DOMAIN s PROVE Good(s[p])
    <3>1. Len(deque[t]) \in Nat /\ p \in 1 .. Len(deque[t]) + 1
      BY <2>1, <2>2
    <3>2. CASE p \in 1 .. Len(deque[t])
      <4>1. p \in DOMAIN deque[t]
        BY <2>1, <3>2
      <4> QED
        BY <1>0, <1>3, <2>2, <3>2, <4>1 DEF PoolOK
    <3>3. CASE p = Len(deque[t]) + 1
      BY <1>6, <2>2, <3>3
    <3> QED
      BY <3>1, <3>2, <3>3
  <2>5. deque' \in [Workers -> Seq(Jobs)]
    BY <2>1, <2>2, <2>3
  <2>6. \A w \in Workers : \A p \in DOMAIN deque'[w] : Good(deque'[w][p])
    BY <1>0, <1>3, <2>1, <2>3, <2>4 DEF PoolOK
  <2>7. Finished' = Finished
    BY <1>1 DEF Finished
  <2>8. injector' \in Seq(Jobs) /\ \A p \in DOMAIN injector' : Good(injector'[p])
    BY <1>0, <1>1 DEF PoolOK
  <2>9. \A k \in done' : Good(k) /\ LeavesOf(k) \subseteq Finished'
    BY <1>0, <1>1, <2>7 DEF PoolOK
  <2> QED
    BY <1>1, <2>5, <2>6, <2>8, <2>9, PoolChanged
<1> QED
  BY <1>14, <1>15 DEF IInv

LEMMA ResumeKept ==
  ASSUME IInv, UNCHANGED calls, NEW t \in Threads, Resume(t)
  PROVE  IInv'
<1> DEFINE j == Top(t).job
           fs == <<Run(j)>>
<1>0. StacksOK /\ PoolOK /\ GraphOK
  BY DEF IInv
<1>1. /\ Is(t, "join") /\ deque[t] # <<>> /\ Replace(t, fs)
      /\ deque' = [deque EXCEPT ![t] = SubSeq(@, 1, Len(@) - 1)]
      /\ injector' = injector /\ done' = done
      /\ UNCHANGED lock /\ cache' = cache /\ builds' = builds
      /\ inserted' = inserted /\ returned' = returned
  BY DEF Resume, graph
<1>2. /\ stack[t] # <<>> /\ Top(t).op = "join" /\ Top(t) = [op |-> "join", job |-> j]
      /\ Good(j)
  BY <1>0, <1>1, TopFrame DEF JobOps
<1>3. t \in Workers /\ t \notin Callers
  BY <1>1, WorkerTop
<1> HIDE DEF j
<1>4. GoodFrame(Run(j)) /\ Run(j).op = "run" /\ Run(j) \in Frame
  BY <1>2 DEF GoodFrame, Run, Frame, JobOps, SearchOps, Good
<1>5. fs \in Seq(Frame) /\ Len(fs) = 1 /\ fs[1] = Run(j) /\ fs # <<>>
  BY <1>4
<1>6. Rewritten(t, 1, fs)
  BY <1>0, <1>1, <1>2, <1>5, ReplaceShape
<1> HIDE DEF fs
<1>7. \A p \in 1 .. Len(fs) :
          /\ GoodFrame(fs[p])
          /\ p > 1 => fs[p].op \in Inner
          /\ fs[p].op \in {"run", "join", "stolen", "check"}
          /\ Owed(t, fs[p]) = {}
  <2>1. Owed(t, Run(j)) = {}
    BY FrameLeaves
  <2> QED
    BY <1>4, <1>5, <2>1
<1>8. \A x \in Leaves(Top(t)) : \E i \in 1 .. Len(fs) : x \in Leaves(fs[i])
  <2>1. Top(t) = Join(j)
    BY <1>2 DEF Join
  <2>2. Leaves(Run(j)) = LeavesOf(j) /\ Leaves(Join(j)) = LeavesOf(j)
    BY FrameLeaves
  <2> QED
    BY <1>5, <2>1, <2>2
<1>9. /\ Top(t).op \in JobOps /\ inserted' \subseteq 1 .. NCentroids /\ 1 \in {0, 1}
  BY <1>0, <1>1, <1>2 DEF JobOps, GraphOK
<1>10. StacksOK' /\ CallersOK' /\ LockOK' /\ GraphOK' /\ Covered'
  BY <1>1, <1>2, <1>3, <1>5, <1>6, <1>7, <1>8, <1>9, PoolStepKept
<1>11. PoolOK'
  <2>1. deque \in [Workers -> Seq(Jobs)] /\ deque[t] \in Seq(Jobs)
    BY <1>0, <1>3 DEF PoolOK
  <2> DEFINE s == SubSeq(deque[t], 1, Len(deque[t]) - 1)
  <2>2. /\ s \in Seq(Jobs) /\ DOMAIN s = 1 .. Len(deque[t]) - 1
        /\ \A p \in DOMAIN s : s[p] = deque[t][p] /\ p \in DOMAIN deque[t]
    BY <1>1, <2>1
  <2>3. deque' = [deque EXCEPT ![t] = s]
    BY <1>1
  <2> HIDE DEF s
  <2>4. ASSUME NEW p \in DOMAIN s PROVE Good(s[p])
    BY <1>0, <1>3, <2>2 DEF PoolOK
  <2>5. deque' \in [Workers -> Seq(Jobs)]
    BY <2>1, <2>2, <2>3
  <2>6. \A w \in Workers : \A p \in DOMAIN deque'[w] : Good(deque'[w][p])
    BY <1>0, <1>3, <2>1, <2>3, <2>4 DEF PoolOK
  <2>7. Finished' = Finished
    BY <1>1 DEF Finished
  <2>8. injector' \in Seq(Jobs) /\ \A p \in DOMAIN injector' : Good(injector'[p])
    BY <1>0, <1>1 DEF PoolOK
  <2>9. \A k \in done' : Good(k) /\ LeavesOf(k) \subseteq Finished'
    BY <1>0, <1>1, <2>7 DEF PoolOK
  <2> QED
    BY <1>1, <2>5, <2>6, <2>8, <2>9, PoolChanged
<1> QED
  BY <1>10, <1>11 DEF IInv

\* The wait for a job is over, or its own latch is set: nothing is left on it.
LEMMA PopKept ==
  ASSUME IInv, UNCHANGED calls, NEW t \in Threads, Joined(t) \/ SetLatch(t)
  PROVE  IInv'
<1> DEFINE j == Top(t).job
<1>0. StacksOK /\ PoolOK /\ GraphOK /\ Covered
  BY DEF IInv
<1>1. /\ Is(t, "join") \/ Is(t, "latch") \/ Is(t, "stolen")
      /\ Return(t) /\ deque' = deque /\ injector' = injector
      /\ UNCHANGED lock /\ cache' = cache /\ builds' = builds
      /\ inserted' = inserted /\ returned' = returned
  BY DEF Joined, SetLatch, graph, pool
<1>2. /\ stack[t] # <<>> /\ Top(t).op \in {"join", "latch", "stolen"}
      /\ Top(t) = [op |-> Top(t).op, job |-> j] /\ Good(j)
      /\ Top(t) = stack[t][1] /\ 1 \in DOMAIN stack[t]
  BY <1>0, <1>1, TopFrame DEF JobOps
<1>3. /\ Top(t).op \in {"join", "latch"} => j \in done /\ done' = done
      /\ Top(t).op = "stolen" => done' = done \cup {j}
  BY <1>1, <1>2 DEF Joined, SetLatch, Is, pool
<1>4. t \in Callers => Top(t).op = "latch"
  BY <1>1, <1>2, WorkerTop DEF Is
<1> HIDE DEF j
<1> DEFINE fs == <<>>
<1>5. /\ fs \in Seq(Frame) /\ Rewritten(t, 1, fs) /\ 1 \in {0, 1}
      /\ \A p \in 1 .. Len(fs) : FALSE
  BY <1>0, <1>1, <1>2, ReturnShape
<1>6. fs = <<>>
  OBVIOUS
<1> HIDE DEF fs
<1>7. Finished' = Finished
  BY <1>1 DEF Finished
<1>8. LeavesOf(j) \subseteq Finished
  <2>1. CASE Top(t).op \in {"join", "latch"}
    BY <1>0, <1>3, <2>1 DEF PoolOK
  <2>2. CASE Top(t).op = "stolen"
    <3>1. Top(t) = Stolen(j)
      BY <1>2, <2>2 DEF Stolen
    <3>2. Owed(t, Stolen(j)) = LeavesOf(j)
      BY FrameLeaves
    <3>3. ASSUME NEW x \in LeavesOf(j) PROVE x \in Finished
      <4>1. x \in Owed(t, stack[t][1])
        BY <1>2, <3>1, <3>2, <3>3
      <4>2. \A i : ~(i \in 1 .. 1 - 1)
        OBVIOUS
      <4> QED
        BY <1>0, <1>2, <4>1, <4>2 DEF Covered
    <3> QED
      BY <3>3
  <2> QED
    BY <1>2, <2>1, <2>2
<1>9. \A x \in Leaves(Top(t)) : x \in Finished'
  <2>1. Top(t) \in {Join(j), Latch(j), Stolen(j)}
    BY <1>2 DEF Join, Latch, Stolen
  <2>2. Leaves(Join(j)) = LeavesOf(j) /\ Leaves(Latch(j)) = LeavesOf(j)
        /\ Leaves(Stolen(j)) = {}
    BY FrameLeaves
  <2>3. Leaves(Top(t)) \subseteq LeavesOf(j)
    <3>1. CASE Top(t) = Join(j)
      BY <2>2, <3>1
    <3>2. CASE Top(t) = Latch(j)
      BY <2>2, <3>2
    <3>3. CASE Top(t) = Stolen(j)
      BY <2>2, <3>3
    <3> QED
      BY <2>1, <3>1, <3>2, <3>3
  <2> QED
    BY <1>7, <1>8, <2>3
<1>10. /\ Top(t).op \in JobOps /\ inserted' \subseteq 1 .. NCentroids
  BY <1>0, <1>1, <1>2 DEF JobOps, GraphOK
<1>11. StacksOK' /\ CallersOK' /\ LockOK' /\ GraphOK' /\ Covered'
  <2>1. fs \in Seq(Frame) /\ 1 \in {0, 1} /\ Rewritten(t, 1, fs)
    BY <1>5
  <2>2. UNCHANGED lock /\ cache' = cache /\ builds' = builds
        /\ inserted' = inserted /\ returned' = returned
    BY <1>1
  <2>3. \A p \in 1 .. Len(fs) : \A x \in Owed(t, fs[p]) :
          x \in Finished' \/ \E i \in 1 .. p - 1 : x \in Leaves(fs[i])
    BY <1>5
  <2>4. \A p \in 1 .. Len(fs) :
          /\ GoodFrame(fs[p])
          /\ p > 1 => fs[p].op \in Inner
          /\ fs[p].op \in {"run", "join", "stolen", "check"}
    BY <1>5
  <2>5. stack[t] # <<>> /\ (t \in Callers => 1 = 1 /\ fs = <<>> /\ Top(t).op = "latch")
    BY <1>2, <1>4, <1>6
  <2>6. \A x : 1 = 1 /\ x \in Leaves(Top(t))
               => x \in Finished' \/ \E i \in 1 .. Len(fs) : x \in Leaves(fs[i])
    BY <1>9
  <2> QED
    BY <1>10, <2>1, <2>2, <2>3, <2>4, <2>5, <2>6, PoolStepKept
<1>12. PoolOK'
  <2>1. /\ deque' \in [Workers -> Seq(Jobs)] /\ injector' \in Seq(Jobs)
        /\ \A w \in Workers : \A p \in DOMAIN deque'[w] : Good(deque'[w][p])
        /\ \A p \in DOMAIN injector' : Good(injector'[p])
    BY <1>0, <1>1 DEF PoolOK
  <2>2. ASSUME NEW k \in done' PROVE Good(k) /\ LeavesOf(k) \subseteq Finished'
    <3>1. k \in done \/ k = j
      BY <1>2, <1>3, <2>2
    <3> QED
      BY <1>0, <1>2, <1>7, <1>8, <3>1 DEF PoolOK
  <2> QED
    BY <1>1, <2>1, <2>2, PoolChanged
<1> QED
  BY <1>11, <1>12 DEF IInv

LEMMA StealKept ==
  ASSUME IInv, UNCHANGED calls, NEW t \in Threads, Steal(t)
  PROVE  IInv'
<1>0. StacksOK /\ PoolOK /\ GraphOK
  BY DEF IInv
<1>1. /\ t \in Workers /\ t \notin Callers
      /\ stack[t] = <<>> \/ Is(t, "join")
      /\ UNCHANGED lock /\ cache' = cache /\ builds' = builds
      /\ inserted' = inserted /\ returned' = returned /\ done' = done
  BY DEF Steal, Hungry, graph
<1>2. PICK j : /\ Start(t, j) /\ Good(j)
               /\ \/ /\ injector' = injector
                     /\ \E v \in Workers : /\ deque[v] # <<>>
                                           /\ deque' = [deque EXCEPT ![v] = Tail(@)]
                  \/ injector # <<>> /\ injector' = Tail(injector) /\ deque' = deque
  <2>1. CASE \E v \in Workers \ {t} : /\ deque[v] # <<>>
                                      /\ Start(t, Head(deque[v]))
                                      /\ deque' = [deque EXCEPT ![v] = Tail(@)]
                                      /\ UNCHANGED injector
    <3>1. PICK v \in Workers \ {t} : /\ deque[v] # <<>>
                                     /\ Start(t, Head(deque[v]))
                                     /\ deque' = [deque EXCEPT ![v] = Tail(@)]
                                     /\ UNCHANGED injector
      BY <2>1
    <3>2. deque[v] \in Seq(Jobs)
      BY <1>0 DEF PoolOK
    <3>3. Head(deque[v]) = deque[v][1] /\ 1 \in DOMAIN deque[v]
      BY <3>1, <3>2
    <3>4. Good(Head(deque[v]))
      BY <1>0, <3>3 DEF PoolOK
    <3> QED
      BY <3>1, <3>4
  <2>2. CASE injector # <<>> /\ Start(t, Head(injector)) /\ injector' = Tail(injector)
             /\ UNCHANGED deque
    <3>1. Head(injector) = injector[1] /\ 1 \in DOMAIN injector
      BY <1>0, <2>2 DEF PoolOK
    <3>2. Good(Head(injector))
      BY <1>0, <3>1 DEF PoolOK
    <3> QED
      BY <2>2, <3>2
  <2> QED
    BY <2>1, <2>2 DEF Steal
<1>3. j \in Jobs
  BY <1>2 DEF Good
<1> DEFINE fs == <<Run(j), Stolen(j)>>
<1>4. /\ GoodFrame(Run(j)) /\ GoodFrame(Stolen(j))
      /\ Run(j).op = "run" /\ Stolen(j).op = "stolen"
  BY <1>2, <1>3 DEF GoodFrame, Run, Stolen, Frame, JobOps, SearchOps
<1>5. fs \in Seq(Frame) /\ Len(fs) = 2 /\ fs[1] = Run(j) /\ fs[2] = Stolen(j) /\ fs # <<>>
  BY <1>4 DEF GoodFrame
<1>6. Rewritten(t, 0, fs)
  BY <1>0, <1>2, <1>3, StartShape
<1> HIDE DEF fs
<1>7. \A p \in 1 .. Len(fs) : p = 1 \/ p = 2
  BY <1>5
<1>8. \A p \in 1 .. Len(fs) :
          /\ GoodFrame(fs[p])
          /\ p > 1 => fs[p].op \in Inner
          /\ fs[p].op \in {"run", "join", "stolen", "check"}
  BY <1>4, <1>5, <1>7 DEF Inner
<1>9. \A p \in 1 .. Len(fs) : \A x \in Owed(t, fs[p]) :
        x \in Finished' \/ \E i \in 1 .. p - 1 : x \in Leaves(fs[i])
  <2>1. /\ Owed(t, Run(j)) = {} /\ Owed(t, Stolen(j)) = LeavesOf(j)
        /\ Leaves(Run(j)) = LeavesOf(j)
    BY FrameLeaves
  <2>2. ASSUME NEW p \in 1 .. Len(fs), NEW x \in Owed(t, fs[p])
        PROVE  \E i \in 1 .. p - 1 : x \in Leaves(fs[i])
    <3>1. p = 2 /\ x \in Leaves(fs[1]) /\ 1 \in 1 .. p - 1
      BY <1>5, <1>7, <2>1, <2>2
    <3> QED
      BY <3>1
  <2> QED
    BY <2>2
<1>10. inserted' \subseteq 1 .. NCentroids /\ 0 \in {0, 1} /\ fs \in Seq(Frame) /\ fs # <<>>
  BY <1>0, <1>1, <1>5 DEF GraphOK
<1>11. StacksOK' /\ CallersOK' /\ LockOK' /\ GraphOK' /\ Covered'
  BY <1>1, <1>6, <1>8, <1>9, <1>10, PoolStepKept
<1>12. PoolOK'
  <2>1. Finished' = Finished
    BY <1>1 DEF Finished
  <2>2. \A k \in done' : Good(k) /\ LeavesOf(k) \subseteq Finished'
    BY <1>0, <1>1, <2>1 DEF PoolOK
  <2>3. CASE injector' = injector /\ \E v \in Workers :
               deque[v] # <<>> /\ deque' = [deque EXCEPT ![v] = Tail(@)]
    <3>1. PICK v \in Workers : deque[v] # <<>> /\ deque' = [deque EXCEPT ![v] = Tail(@)]
      BY <2>3
    <3>2. deque \in [Workers -> Seq(Jobs)] /\ deque[v] \in Seq(Jobs)
      BY <1>0 DEF PoolOK
    <3> DEFINE s == Tail(deque[v])
    <3>3. /\ s \in Seq(Jobs) /\ Len(deque[v]) \in Nat \ {0} /\ DOMAIN s = 1 .. Len(deque[v]) - 1
          /\ \A p \in 1 .. Len(deque[v]) - 1 : s[p] = deque[v][p + 1]
          /\ DOMAIN deque[v] = 1 .. Len(deque[v])
      BY <3>1, <3>2
    <3>4. deque' = [deque EXCEPT ![v] = s]
      BY <3>1
    <3> HIDE DEF s
    <3>5. ASSUME NEW p \in DOMAIN s PROVE Good(s[p])
      <4>1. p + 1 \in DOMAIN deque[v] /\ s[p] = deque[v][p + 1]
        BY <3>3
      <4> QED
        BY <1>0, <4>1 DEF PoolOK
    <3>6. deque' \in [Workers -> Seq(Jobs)]
      BY <3>2, <3>3, <3>4
    <3>7. \A w \in Workers : \A p \in DOMAIN deque'[w] : Good(deque'[w][p])
      BY <1>0, <3>2, <3>4, <3>5 DEF PoolOK
    <3>8. injector' \in Seq(Jobs) /\ \A p \in DOMAIN injector' : Good(injector'[p])
      BY <1>0, <2>3 DEF PoolOK
    <3> QED
      BY <1>1, <2>2, <3>6, <3>7, <3>8, PoolChanged
  <2>4. CASE injector # <<>> /\ injector' = Tail(injector) /\ deque' = deque
    <3>1. injector \in Seq(Jobs) /\ Len(injector) \in Nat \ {0}
      BY <1>0, <2>4 DEF PoolOK
    <3>2. /\ injector' \in Seq(Jobs) /\ DOMAIN injector' = 1 .. Len(injector) - 1
          /\ \A p \in 1 .. Len(injector) - 1 : injector'[p] = injector[p + 1]
          /\ DOMAIN injector = 1 .. Len(injector)
      BY <2>4, <3>1
    <3>3. ASSUME NEW p \in DOMAIN injector' PROVE Good(injector'[p])
      <4>1. p + 1 \in DOMAIN injector /\ injector'[p] = injector[p + 1]
        BY <3>2
      <4> QED
        BY <1>0, <4>1 DEF PoolOK
    <3>4. /\ deque' \in [Workers -> Seq(Jobs)]
          /\ \A w \in Workers : \A p \in DOMAIN deque'[w] : Good(deque'[w][p])
      BY <1>0, <2>4 DEF PoolOK
    <3> QED
      BY <1>1, <2>2, <3>2, <3>3, <3>4, PoolChanged
  <2> QED
    BY <1>2, <2>3, <2>4
<1> QED
  BY <1>11, <1>12 DEF IInv

-----------------------------------------------------------------------------
(* The theorems.                                                           *)

\* Nothing has been forked at the start, and a graph is there whole or not at all.
LEMMA InitIInv == Init => IInv
<1> SUFFICES ASSUME Init PROVE IInv
  OBVIOUS
<1>1. /\ warm \in BOOLEAN /\ batchers \subseteq Callers /\ cache = warm /\ builds = 0
      /\ inserted = IF warm THEN 1 .. NCentroids ELSE {}
      /\ writer = NoThread /\ readers = {} /\ done = {} /\ returned = {}
      /\ deque = [w \in Workers |-> <<>>] /\ injector = <<>>
      /\ stack = [t \in Threads |->
                    IF t \in batchers THEN <<[op |-> "batch"]>>
                    ELSE IF t \in Callers THEN <<At("check", <<t, 0>>)>> ELSE <<>>]
  BY DEF Init, GraphThere
<1> DEFINE b == [op |-> "batch"]
           at(t) == At("check", <<t, 0>>)
<1>2. GoodFrame(b) /\ b \in Frame
  BY DEF GoodFrame, Frame, JobOps, SearchOps
<1>3. ASSUME NEW t \in Callers \ batchers
      PROVE  GoodFrame(at(t)) /\ at(t) \in Frame
  <2>1. <<t, 0>> \in AllQueries /\ <<t, 0>> \in Callers \X Nat
    BY <1>3 DEF AllQueries, Queries
  <2> QED
    BY <2>1 DEF GoodFrame, Frame, JobOps, SearchOps, At
<1>4. ASSUME NEW t \in Threads
      PROVE  \/ t \in batchers /\ stack[t] = <<b>>
             \/ t \in Callers \ batchers /\ stack[t] = <<at(t)>>
             \/ t \notin Callers /\ stack[t] = <<>>
  BY <1>1
<1>5. ASSUME NEW t \in Threads
      PROVE  /\ stack[t] \in Seq(Frame)
             /\ \A p \in DOMAIN stack[t] :
                  /\ p = 1 /\ GoodFrame(stack[t][p])
                  /\ stack[t][p].op \in {"batch", "check"}
                  /\ stack[t][p].op = "batch" => t \in batchers
  <2>1. CASE t \in batchers /\ stack[t] = <<b>>
    BY <1>2, <2>1
  <2>2. CASE t \in Callers \ batchers /\ stack[t] = <<at(t)>>
    BY <1>3, <2>2 DEF At
  <2>3. CASE t \notin Callers /\ stack[t] = <<>>
    BY <2>3
  <2> QED
    BY <1>4, <2>1, <2>2, <2>3
<1>6. StacksOK
  <2>1. stack \in [Threads -> Seq(Frame)]
    BY <1>1, <1>5
  <2> QED
    BY <1>5, <2>1 DEF StacksOK
<1>7. PoolOK
  BY <1>1 DEF PoolOK
<1>8. CallersOK
  <2> SUFFICES ASSUME NEW c \in Callers
               PROVE  Len(stack[c]) = 1 /\ Own(c, stack[c][1])
    <3>1. \A n : n = 1 => n <= 2 /\ n # 0 /\ n # 2
      OBVIOUS
    <3> QED
      BY <3>1, Zenon DEF CallersOK
  <2>1. CASE c \in batchers /\ stack[c] = <<b>>
    BY <2>1 DEF Own
  <2>2. CASE c \in Callers \ batchers /\ stack[c] = <<at(c)>>
    BY <2>2 DEF Own, At, SearchOps
  <2> QED
    BY <1>4, <2>1, <2>2 DEF Threads
<1>9. LockOK
  <2>1. \A t \in Threads : ~Is(t, "probe")
    <3> SUFFICES ASSUME NEW t \in Threads, stack[t] # <<>> PROVE Top(t).op # "probe"
      BY DEF Is
    <3>1. Top(t) = stack[t][1] /\ 1 \in DOMAIN stack[t]
      BY <1>5 DEF Top
    <3> QED
      BY <1>5, <3>1
  <2> QED
    BY <1>1, <1>5, <2>1 DEF LockOK, LockOps
<1>10. GraphOK
  BY <1>1 DEF GraphOK
<1>11. Covered
  <2> SUFFICES ASSUME NEW t \in Threads, NEW p \in DOMAIN stack[t]
               PROVE  Owed(t, stack[t][p]) = {}
    BY DEF Covered
  <2> QED
    BY <1>5 DEF Owed
<1> QED
  BY <1>6, <1>7, <1>8, <1>9, <1>10, <1>11 DEF IInv

\* Each of the actions keeps the invariant.
LEMMA StepIInv == IInv /\ [Next]_vars => IInv'
<1> SUFFICES ASSUME IInv, [Next]_vars PROVE IInv'
  OBVIOUS
<1>1. ASSUME NEW t \in Threads, Step(t) PROVE IInv'
  <2>1. UNCHANGED calls
    BY <1>1 DEF Step
  <2>2. CASE CallBatch(t)
    BY <2>1, <2>2, CallBatchKept
  <2>3. CASE Collect(t) \/ Answer(t)
    BY <2>1, <2>3, ReturnKept
  <2>4. CASE Check(t)
    BY <2>1, <2>4, CheckKept
  <2>5. CASE Claim(t)
    BY <2>1, <2>5, ClaimKept
  <2>6. CASE Build(t)
    BY <2>1, <2>6, BuildKept
  <2>7. CASE AlreadyBuilt(t)
    BY <2>1, <2>7, AlreadyBuiltKept
  <2>8. CASE Publish(t)
    BY <2>1, <2>8, PublishKept
  <2>9. CASE Find(t)
    BY <2>1, <2>9, FindKept
  <2>10. CASE Probe(t)
    BY <2>1, <2>10, ProbeKept
  <2>11. CASE ScanLists(t)
    BY <2>1, <2>11, ScanListsKept
  <2>12. CASE Split(t)
    BY <2>1, <2>12, SplitKept
  <2>13. CASE Leaf(t)
    BY <2>1, <2>13, LeafKept
  <2>14. CASE Resume(t)
    BY <2>1, <2>14, ResumeKept
  <2>15. CASE Joined(t) \/ SetLatch(t)
    BY <2>1, <2>15, PopKept
  <2>16. CASE Steal(t)
    BY <2>1, <2>16, StealKept
  <2> QED
    BY <1>1, <2>2, <2>3, <2>4, <2>5, <2>6, <2>7, <2>8, <2>9, <2>10, <2>11, <2>12, <2>13,
       <2>14, <2>15, <2>16 DEF Step, Search, Pool
<1>2. CASE UNCHANGED vars
  <2>1. /\ warm' = warm /\ batchers' = batchers /\ cache' = cache /\ inserted' = inserted
        /\ builds' = builds /\ writer' = writer /\ readers' = readers /\ stack' = stack
        /\ deque' = deque /\ injector' = injector /\ done' = done /\ returned' = returned
    BY <1>2 DEF vars, calls, graph, lock, pool
  <2>2. StacksOK' <=> StacksOK
    BY <2>1 DEF StacksOK, GoodFrame, Good, AllQueries, Queries
  <2>3. PoolOK' <=> PoolOK
    BY <2>1 DEF PoolOK, Good, Finished
  <2>4. CallersOK' <=> CallersOK
    BY <2>1 DEF CallersOK, Own, Queries
  <2>5. LockOK' <=> LockOK
    BY <2>1 DEF LockOK, Is, Top
  <2>6. GraphOK' <=> GraphOK
    BY <2>1 DEF GraphOK, AllQueries, Queries
  <2>7. Covered' <=> Covered
    BY <2>1 DEF Covered, Finished
  <2> QED
    BY <2>2, <2>3, <2>4, <2>5, <2>6, <2>7 DEF IInv
<1> QED
  BY <1>1, <1>2 DEF Next, Terminated

THEOREM Invariance == Spec => []IInv
<1> QED
  BY InitIInv, StepIInv, PTL DEF Spec

\* However many searches, on however many threads, find the cache empty at
\* once, a cold index builds one graph and a loaded one none: the second look
\* under the write lock is enough (CentroidIndex::ensure_hnsw_built).
THEOREM OneGraph == Spec => []BuiltOnce
<1>1. IInv => BuiltOnce
  BY DEF IInv, GraphOK, BuiltOnce
<1> QED
  BY <1>1, Invariance, PTL

\* A search reads the graph only when every centroid is in it, although they
\* were inserted by whatever workers the pool had, and the thread that builds
\* it shares the lock with nobody.
THEOREM WholeGraph == Spec => []ReadersSeeWholeGraph
<1>1. IInv => ReadersSeeWholeGraph
  <2> SUFFICES ASSUME IInv PROVE ReadersSeeWholeGraph
    OBVIOUS
  <2>0. StacksOK /\ LockOK /\ GraphOK
    BY DEF IInv
  <2>1. ASSUME NEW t \in Threads, NEW f \in Frames(t)
        PROVE  \E p \in DOMAIN stack[t] : f = stack[t][p]
    BY DEF Frames
  <2>2. TypeOK
    <3>1. ASSUME NEW t \in Threads, NEW f \in Frames(t)
          PROVE f.op \in {"batch", "collect", "check", "write", "recheck", "publish", "find",
                          "probe", "lists", "answer", "run", "join", "latch", "stolen"}
      <4>1. f \in Frame
        BY <2>0, <2>1 DEF StacksOK
      <4> QED
        BY <4>1 DEF Frame, SearchOps, JobOps
    <3> QED
      BY <2>0, <3>1 DEF TypeOK, LockOK, GraphOK, AllQueries
  <2>3. ASSUME NEW t \in readers PROVE cache
    <3>1. t \in Threads /\ Is(t, "probe")
      BY <2>0 DEF LockOK
    <3> QED
      BY <2>0, <3>1, TopFrame DEF LockOK
  <2>4. readers # {} => cache /\ inserted = 1 .. NCentroids
    BY <2>0, <2>3 DEF GraphOK
  <2>5. ASSUME NEW t \in Threads, "publish" \in Pc(t) PROVE writer = t /\ readers = {}
    <3>1. PICK p \in DOMAIN stack[t] : stack[t][p].op = "publish"
      BY <2>1, <2>5 DEF Pc
    <3> QED
      BY <2>0, <3>1 DEF LockOK, LockOps
  <2> QED
    BY <2>2, <2>4, <2>5 DEF ReadersSeeWholeGraph
<1> QED
  BY <1>1, Invariance, PTL

\* A batch is collected, and a call comes back, when each of its queries has
\* answered, wherever in the pool its pieces were run, stolen and joined
\* (batch_search's collect, and the par_iter of a search's second stage).
THEOREM WholeBatch == Spec => []CollectedComplete
<1>1. IInv => CollectedComplete
  <2> SUFFICES ASSUME IInv, NEW c \in Callers, stack[c] = <<>> \/ Is(c, "collect")
               PROVE  Queries(c) \subseteq returned
    BY DEF CollectedComplete
  <2>0. StacksOK /\ CallersOK /\ Covered /\ c \in Threads
    BY DEF IInv, Threads
  <2>1. CASE stack[c] = <<>>
    BY <2>0, <2>1 DEF CallersOK
  <2>2. CASE Is(c, "collect")
    <3>1. Top(c) = stack[c][1] /\ 1 \in DOMAIN stack[c] /\ Top(c).op = "collect"
      BY <2>0, <2>2, TopFrame
    <3>2. c \in batchers
      BY <2>0, <3>1 DEF StacksOK
    <3>3. Owed(c, stack[c][1]) = {<<"query", <<c, n>>>> : n \in 1 .. NQueries}
      BY <3>1 DEF Owed
    <3>4. ASSUME NEW n \in 1 .. NQueries PROVE <<c, n>> \in returned
      <4>1. <<"query", <<c, n>>>> \in Finished
        BY <2>0, <3>1, <3>3 DEF Covered
      <4> QED
        BY <4>1 DEF Finished
    <3> QED
      BY <3>2, <3>4 DEF Queries
  <2> QED
    BY <2>1, <2>2
<1> QED
  BY <1>1, Invariance, PTL
=============================================================================
