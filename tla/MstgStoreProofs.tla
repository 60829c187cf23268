-------------------------- MODULE MstgStoreProofs --------------------------
(***************************************************************************)
(* An MSTG index on disk, for indexes of any number and shape and any      *)
(* number of saves and faults: what a load has read behind its checksum is *)
(* all the file holds, what was saved is what loads, what was saved from   *)
(* memory does load, and a search of a mapped index finds its lists where  *)
(* the directory says.                                                     *)
(***************************************************************************)
EXTENDS MstgStore, FunctionTheorems, FiniteSetTheorems, SequenceTheorems, TLAPS

-----------------------------------------------------------------------------
(* Recursions over numbers.                                                *)

\* Induction over numbers, for a set: what has 0 and with n also n + 1.
LEMMA SetInduction ==
  ASSUME NEW T, T \subseteq Nat, 0 \in T, \A n \in T : n + 1 \in T
  PROVE  T = Nat
<1> SUFFICES ASSUME NEW m \in Nat, m \notin T PROVE FALSE
  OBVIOUS
<1> DEFINE f == [n \in 0..m |-> IF n \in T THEN n + 1 ELSE n]
<1>1. f \in Injection(0..m, 0..m)
  <2>1. f \in [0..m -> 0..m]
    OBVIOUS
  <2>2. \A x, y \in 0..m : f[x] = f[y] => x = y
    OBVIOUS
  <2> QED
    BY <2>1, <2>2 DEF Injection, IsInjective
<1>2. f \in Surjection(0..m, 0..m)
  BY <1>1, FS_Interval, FS_Injection
<1>3. \E n \in 0..m : f[n] = 0
  <2> HIDE DEF f
  <2>1. 0 \in 0..m
    OBVIOUS
  <2> QED
    BY <1>2, <2>1 DEF Surjection
<1> QED
  BY <1>3

\* Two functions that agree at 1, and at n + 1 if they do at n.
LEMMA Agree ==
  ASSUME NEW m \in Nat, NEW f, NEW h, m >= 1 => f[1] = h[1],
         \A n \in 1..m : n + 1 <= m /\ f[n] = h[n] => f[n + 1] = h[n + 1]
  PROVE  \A n \in 1..m : f[n] = h[n]
<1> DEFINE T == {n \in Nat : n + 1 <= m => f[n + 1] = h[n + 1]}
<1>1. 0 \in T
  OBVIOUS
<1>2. ASSUME NEW n \in T PROVE n + 1 \in T
  <2>1. n + 1 + 1 <= m => n + 1 \in 1..m
    OBVIOUS
  <2> QED
    BY <2>1
<1>3. T = Nat
  <2> HIDE DEF T
  <2>1. T \subseteq Nat
    BY DEF T
  <2> QED
    BY <1>1, <1>2, <2>1, SetInduction
<1> SUFFICES ASSUME NEW n \in 1..m PROVE f[n] = h[n]
  OBVIOUS
<1>4. n - 1 \in T
  <2> HIDE DEF T
  <2> QED
    BY <1>3
<1> QED
  BY <1>4

\* Where the lists begin that have s[i] pieces behind their length.
Begins(s, off) ==
  /\ off \in [1 .. Len(s) + 1 -> Nat]
  /\ off[1] = 0
  /\ \A i \in 1 .. Len(s) : off[i + 1] = off[i] + s[i] + 1

BeginsUpto(s, n, off) ==
  /\ off \in [1 .. n + 1 -> Nat] /\ off[1] = 0
  /\ \A i \in 1 .. n : off[i + 1] = off[i] + s[i] + 1

LEMMA BeginsExists ==
  ASSUME NEW s \in Seq(Nat)
  PROVE  \E off : Begins(s, off)
<1> DEFINE T == {n \in Nat : n <= Len(s) => \E off : BeginsUpto(s, n, off)}
<1>0. Len(s) \in Nat /\ \A i \in 1 .. Len(s) : s[i] \in Nat
  BY LenProperties, ElementOfSeq
<1>1. 0 \in T
  <2>1. BeginsUpto(s, 0, [n \in 1..1 |-> 0])
    BY DEF BeginsUpto
  <2> QED
    BY <2>1
<1>2. ASSUME NEW n \in T PROVE n + 1 \in T
  <2>1. n \in Nat
    OBVIOUS
  <2>2. ASSUME n + 1 <= Len(s)
        PROVE  \E off : BeginsUpto(s, n + 1, off)
    <3>1. PICK off : BeginsUpto(s, n, off)
      BY <1>0, <2>1, <2>2
    <3>2. s[n + 1] \in Nat /\ off \in [1 .. n + 1 -> Nat] /\ off[1] = 0
      BY <1>0, <2>1, <2>2, <3>1 DEF BeginsUpto
    <3> DEFINE more == [i \in 1 .. n + 2 |-> IF i = n + 2 THEN off[n + 1] + s[n + 1] + 1
                                             ELSE off[i]]
    <3>3. off[n + 1] \in Nat /\ \A i \in 1 .. n + 1 : off[i] \in Nat
      BY <2>1, <3>2
    <3>4. more \in [1 .. n + 2 -> Nat] /\ more[1] = 0
      BY <2>1, <3>2, <3>3
    <3>5. \A i \in 1 .. n + 1 : more[i + 1] = more[i] + s[i] + 1
      <4> SUFFICES ASSUME NEW i \in 1 .. n + 1
                   PROVE  more[i + 1] = more[i] + s[i] + 1
        OBVIOUS
      <4>1. i \in 1 .. n + 2 /\ i + 1 \in 1 .. n + 2 /\ i # n + 2
        BY <2>1
      <4>2. CASE i = n + 1
        BY <2>1, <4>1, <4>2
      <4>3. CASE i # n + 1
        <5>1. i \in 1 .. n
          BY <2>1, <4>3
        <5>2. off[i + 1] = off[i] + s[i] + 1
          BY <3>1, <5>1 DEF BeginsUpto
        <5> QED
          BY <2>1, <4>1, <4>3, <5>2
      <4> QED
        BY <4>2, <4>3
    <3>6. n + 2 = n + 1 + 1
      BY <2>1
    <3> HIDE DEF more
    <3> QED
      BY <3>4, <3>5, <3>6 DEF BeginsUpto
  <2> QED
    BY <2>1, <2>2
<1>3. T = Nat
  <2> HIDE DEF T
  <2>1. T \subseteq Nat
    BY DEF T
  <2> QED
    BY <1>1, <1>2, <2>1, SetInduction
<1>4. PICK n \in T : n = Len(s)
  <2> HIDE DEF T
  <2> QED
    BY <1>0, <1>3
<1> QED
  BY <1>4 DEF Begins, BeginsUpto

LEMMA SizesFacts ==
  ASSUME NEW v \in Versions
  PROVE  /\ Sizes[v] \in Seq(Nat) /\ Len(Sizes[v]) \in Nat
         /\ DOMAIN Sizes[v] = 1 .. Len(Sizes[v])
         /\ \A i \in DOMAIN Sizes[v] : Sizes[v][i] \in Nat /\ Sizes[v][i] >= 1
<1>1. Sizes[v] \in Seq(Nat \ {0})
  BY StoreAssumption
<1>2. Sizes[v] \in Seq(Nat)
  BY <1>1, SeqMonotonic, Nat \ {0} \subseteq Nat
<1> QED
  BY <1>1, <1>2, LenProperties, ElementOfSeq

\* The offset of a list in the directory is where it begins.
LEMMA DiskOffsetIs ==
  ASSUME NEW v \in Versions, NEW off, Begins(Sizes[v], off), NEW i \in DOMAIN Sizes[v]
  PROVE  DiskOffset(v, i) = off[i]
<1> DEFINE f == CHOOSE f : f = [n \in 1..i |->
                                  IF n = 1 THEN 0 ELSE f[n - 1] + Sizes[v][n - 1] + 1]
<1>0. i \in Nat /\ i >= 1 /\ i <= Len(Sizes[v]) /\ Len(Sizes[v]) \in Nat
  BY SizesFacts
<1>1. DiskOffset(v, i) = f[i]
  BY Zenon DEF DiskOffset
<1>2. PICK h : h = [n \in 1..i |-> off[n]]
  OBVIOUS
<1>3. h = [n \in 1..i |-> IF n = 1 THEN 0 ELSE h[n - 1] + Sizes[v][n - 1] + 1]
  <2> SUFFICES ASSUME NEW n \in 1..i
               PROVE  off[n] = IF n = 1 THEN 0 ELSE h[n - 1] + Sizes[v][n - 1] + 1
    BY <1>2
  <2>1. CASE n = 1
    BY <2>1 DEF Begins
  <2>2. CASE n # 1
    <3>1. PICK k \in 1 .. Len(Sizes[v]) : n = k + 1 /\ n - 1 = k /\ k \in 1..i
      BY <1>0, <2>2
    <3>2. off[k + 1] = off[k] + Sizes[v][k] + 1
      BY DEF Begins
    <3> QED
      BY <1>2, <2>2, <3>1, <3>2
  <2> QED
    BY <2>1, <2>2
<1>4. PICK g : DiskOffset(v, i) = g[i] /\ g = [n \in 1..i |->
                                IF n = 1 THEN 0 ELSE g[n - 1] + Sizes[v][n - 1] + 1]
  <2>1. f = [n \in 1..i |-> IF n = 1 THEN 0 ELSE f[n - 1] + Sizes[v][n - 1] + 1]
    BY <1>3
  <2> QED
    BY <1>1, <2>1
<1> HIDE DEF f
<1>5. g[1] = h[1]
  BY <1>0, <1>3, <1>4
<1>6. ASSUME NEW n \in 1..i, n + 1 <= i, g[n] = h[n]
      PROVE  g[n + 1] = h[n + 1]
  <2>1. PICK m \in 1..i : m = n + 1 /\ m # 1 /\ m - 1 = n
    BY <1>0, <1>6
  <2>2. g[m] = g[m - 1] + Sizes[v][m - 1] + 1
    BY <1>4, <2>1
  <2>3. h[m] = h[m - 1] + Sizes[v][m - 1] + 1
    BY <1>3, <2>1
  <2> QED
    BY <1>6, <2>1, <2>2, <2>3
<1>7. \A n \in 1..i : g[n] = h[n]
  <2>1. i >= 1 => g[1] = h[1]
    BY <1>5
  <2>2. \A n \in 1..i : n + 1 <= i /\ g[n] = h[n] => g[n + 1] = h[n + 1]
    BY <1>6
  <2> QED
    BY <1>0, <2>1, <2>2, Agree, SMTT(60)
<1> QED
  BY <1>0, <1>2, <1>4, <1>7

-----------------------------------------------------------------------------
(* What a save writes.                                                     *)

Turn(seqs, m, g) ==
  g = [i \in 1..m |-> IF i = 1 THEN seqs[i] ELSE g[i - 1] \o seqs[i]]

LEMMA FlattenExists ==
  ASSUME NEW seqs, NEW m \in Nat
  PROVE  \E g : Turn(seqs, m, g)
<1> DEFINE T == {n \in Nat : \E g : Turn(seqs, n, g)}
<1>1. 0 \in T
  <2>1. Turn(seqs, 0, [n \in 1..0 |-> 0])
    BY DEF Turn
  <2> QED
    BY <2>1
<1>2. ASSUME NEW n \in T PROVE n + 1 \in T
  <2>1. n \in Nat
    OBVIOUS
  <2>2. PICK g : Turn(seqs, n, g)
    OBVIOUS
  <2>3. PICK s : s = IF n = 0 THEN seqs[1] ELSE g[n] \o seqs[n + 1]
    OBVIOUS
  <2>4. PICK h : h = [i \in 1 .. n + 1 |-> IF i = n + 1 THEN s ELSE g[i]]
    OBVIOUS
  <2>5. ASSUME NEW i \in 1 .. n + 1
        PROVE  h[i] = IF i = 1 THEN seqs[i] ELSE h[i - 1] \o seqs[i]
    <3>1. CASE i = n + 1 /\ n = 0
      BY <2>3, <2>4, <3>1
    <3>2. CASE i = n + 1 /\ n # 0
      <4>1. i - 1 = n /\ n \in 1 .. n + 1 /\ n # n + 1 /\ i # 1
        BY <2>1, <3>2
      <4>2. h[i - 1] = g[n] /\ h[i] = g[n] \o seqs[n + 1]
        BY <2>3, <2>4, <3>2, <4>1
      <4> QED
        BY <3>2, <4>1, <4>2
    <3>3. CASE i # n + 1
      <4>1. i \in 1 .. n
        BY <2>1, <3>3
      <4>2. g[i] = IF i = 1 THEN seqs[i] ELSE g[i - 1] \o seqs[i]
        BY <2>2, <4>1 DEF Turn
      <4>3. i # 1 => i - 1 \in 1 .. n + 1 /\ i - 1 # n + 1
        BY <2>1, <4>1
      <4> QED
        BY <2>4, <3>3, <4>2, <4>3
    <3> QED
      BY <3>1, <3>2, <3>3
  <2>6. Turn(seqs, n + 1, h)
    <3>1. h = [i \in 1 .. n + 1 |-> h[i]]
      BY <2>4
    <3> QED
      BY <2>5, <3>1 DEF Turn
  <2> QED
    BY <2>1, <2>6
<1>3. T = Nat
  <2> HIDE DEF T
  <2>1. T \subseteq Nat
    BY DEF T
  <2> QED
    BY <1>1, <1>2, <2>1, SetInduction
<1>4. m \in T
  <2> HIDE DEF T
  <2> QED
    BY <1>3
<1> QED
  BY <1>4

\* Two sequences in a row.
LEMMA InARow ==
  ASSUME NEW S, NEW s \in Seq(S), NEW t \in Seq(S), NEW m \in Nat, NEW n \in Nat,
         Len(s) = m, Len(t) = n
  PROVE  /\ s \o t \in Seq(S) /\ Len(s \o t) = m + n
         /\ \A i \in 1..m : (s \o t)[i] = s[i]
         /\ \A i \in 1..n : (s \o t)[m + i] = t[i]
<1>1. /\ s \o t \in Seq(S) /\ Len(s \o t) = Len(s) + Len(t)
      /\ \A i \in 1 .. Len(s) + Len(t) :
           (s \o t)[i] = IF i <= Len(s) THEN s[i] ELSE t[i - Len(s)]
  BY ConcatProperties
<1>2. ASSUME NEW i \in 1..n PROVE (s \o t)[m + i] = t[i]
  <2>1. PICK j \in 1 .. m + n : j = m + i /\ j - m = i /\ ~(j <= m)
    OBVIOUS
  <2> QED
    BY <1>1, <2>1
<1> QED
  BY <1>1, <1>2

\* The pieces of a list, those of a file but for its checksum, and all of them.
Data == {Hole} \cup ({"list"} \X Versions \X Nat)
Content ==
  Data \cup {<<"magic">>, <<"count">>} \cup ({"directory"} \X Versions) \cup ({"length"} \X Nat)
Pieces == Content \cup ({"checksum"} \X Seq(Content))

LEMMA DataIsContent == Seq(Data) \subseteq Seq(Content)
<1>1. Data \subseteq Content
  BY DEF Content
<1> QED
  BY <1>1, SeqMonotonic

\* Lists as they are in memory, and how long each is.
InMemory == Seq(Seq(Data))
Lengths(lists) == [i \in DOMAIN lists |-> Len(lists[i])]

LEMMA InMemoryFacts ==
  ASSUME NEW lists \in InMemory
  PROVE  /\ Len(lists) \in Nat /\ DOMAIN lists = 1 .. Len(lists)
         /\ \A i \in 1 .. Len(lists) : /\ lists[i] \in Seq(Data) /\ lists[i] \in Seq(Content)
                                       /\ Len(lists[i]) \in Nat
         /\ Lengths(lists) \in Seq(Nat) /\ Len(Lengths(lists)) = Len(lists)
         /\ \A i \in 1 .. Len(lists) : Lengths(lists)[i] = Len(lists[i])
<1>1. PICK m \in Nat : m = Len(lists) /\ DOMAIN lists = 1..m
  BY LenProperties DEF InMemory
<1>2. \A i \in 1..m : lists[i] \in Seq(Data) /\ lists[i] \in Seq(Content)
  <2>1. \A i \in 1..m : lists[i] \in Seq(Data)
    BY <1>1, ElementOfSeq DEF InMemory
  <2> QED
    BY <2>1, DataIsContent
<1>3. \A i \in 1..m : Len(lists[i]) \in Nat
  BY <1>2, LenProperties
<1>4. PICK s : s = [i \in 1..m |-> Len(lists[i])]
  OBVIOUS
<1>5. s \in Seq(Nat) /\ Len(s) = m
  <2>1. \A i \in 1..m : s[i] \in Nat
    BY <1>3, <1>4
  <2>2. [i \in 1..m |-> s[i]] \in Seq(Nat) /\ Len([i \in 1..m |-> s[i]]) = m
    BY <2>1, IsASeq
  <2>3. s = [i \in 1..m |-> s[i]]
    BY <1>4
  <2> QED
    BY <2>2, <2>3
<1>6. Lengths(lists) = s
  BY <1>1, <1>4 DEF Lengths
<1> QED
  BY <1>1, <1>2, <1>3, <1>4, <1>5, <1>6

LEMMA OwnFacts ==
  ASSUME NEW v \in Versions
  PROVE  /\ Own(v) \in InMemory /\ Len(Own(v)) = Len(Sizes[v]) /\ Lengths(Own(v)) = Sizes[v]
         /\ DOMAIN Own(v) = DOMAIN Sizes[v]
<1>1. PICK m \in Nat : m = Len(Sizes[v]) /\ DOMAIN Sizes[v] = 1..m
  BY SizesFacts
<1>2. ASSUME NEW i \in 1..m
      PROVE  Own(v)[i] \in Seq(Data) /\ Len(Own(v)[i]) = Sizes[v][i]
  <2>1. PICK size \in Nat : size = Sizes[v][i]
    BY <1>1, SizesFacts
  <2>2. <<"list", v, i>> \in Data
    BY <1>1 DEF Data
  <2>3. PICK s : s = [n \in 1..size |-> <<"list", v, i>>]
    OBVIOUS
  <2>4. s \in Seq(Data) /\ Len(s) = size
    BY <2>2, <2>3, IsASeq
  <2>5. Own(v)[i] = s
    BY <1>1, <2>1, <2>3 DEF Own
  <2> QED
    BY <2>1, <2>4, <2>5
<1>3. PICK o : o = Own(v)
  OBVIOUS
<1>4. o = [i \in 1..m |-> o[i]]
  BY <1>1, <1>3 DEF Own
<1>5. o \in Seq(Seq(Data)) /\ Len(o) = m
  <2>1. \A i \in 1..m : o[i] \in Seq(Data)
    BY <1>2, <1>3
  <2>2. [i \in 1..m |-> o[i]] \in Seq(Seq(Data)) /\ Len([i \in 1..m |-> o[i]]) = m
    BY <2>1, IsASeq
  <2> QED
    BY <1>4, <2>2
<1>6. Lengths(o) = Sizes[v]
  <2>1. DOMAIN o = 1..m
    BY <1>4
  <2>2. Lengths(o) = [i \in 1..m |-> Len(o[i])]
    BY <2>1 DEF Lengths
  <2>3. \A i \in 1..m : Len(o[i]) = Sizes[v][i]
    BY <1>2, <1>3
  <2>4. PICK z : z = Sizes[v] /\ z = [i \in 1..m |-> z[i]]
    <3>1. Sizes[v] \in Seq(Nat)
      BY SizesFacts
    <3> QED
      BY <1>1, <3>1
  <2> QED
    BY <2>2, <2>3, <2>4
<1> QED
  BY <1>1, <1>3, <1>4, <1>5, <1>6 DEF InMemory

\* Sequence s is the first n of the lists, each where off says.
Listing(lists, off, n, s) ==
  /\ s \in Seq(Content) /\ Len(s) = off[n + 1]
  /\ \A i \in 1..n :
       /\ off[i] + Len(lists[i]) < Len(s)
       /\ s[off[i] + 1] = <<"length", Len(lists[i])>>
       /\ \A k \in 1 .. Len(lists[i]) : s[off[i] + 1 + k] = lists[i][k]
  /\ \A p \in 1 .. Len(s) : s[p] \in Data \/ \E i \in 1..n : p = off[i] + 1

LEMMA PrefixedFacts ==
  ASSUME NEW list \in Seq(Content)
  PROVE  /\ Prefixed(list) \in Seq(Content) /\ Len(Prefixed(list)) = Len(list) + 1
         /\ Prefixed(list)[1] = <<"length", Len(list)>>
         /\ \A k \in 1 .. Len(list) : Prefixed(list)[1 + k] = list[k]
<1>1. PICK m \in Nat : m = Len(list)
  BY LenProperties
<1>2. PICK one : one = <<<<"length", m>>>>
  OBVIOUS
<1>3. <<"length", m>> \in Content
  BY DEF Content
<1>4. one \in Seq(Content) /\ Len(one) = 1 /\ one[1] = <<"length", m>>
  BY <1>2, <1>3
<1>5. /\ one \o list \in Seq(Content) /\ Len(one \o list) = 1 + m
      /\ \A k \in 1..1 : (one \o list)[k] = one[k]
      /\ \A k \in 1..m : (one \o list)[1 + k] = list[k]
  <2>1. one \in Seq(Content) /\ list \in Seq(Content)
    BY <1>4
  <2>2. /\ one \o list \in Seq(Content) /\ Len(one \o list) = Len(one) + Len(list)
        /\ \A i \in 1 .. Len(one) + Len(list) :
             (one \o list)[i] = IF i <= Len(one) THEN one[i] ELSE list[i - Len(one)]
    BY <2>1, ConcatProperties
  <2>3. /\ one \o list \in Seq(Content) /\ Len(one \o list) = 1 + m
        /\ \A i \in 1 .. 1 + m : (one \o list)[i] = IF i <= 1 THEN one[i] ELSE list[i - 1]
    BY <1>1, <1>4, <2>2
  <2>4. ASSUME NEW k \in 1..m PROVE (one \o list)[1 + k] = list[k]
    <3>1. PICK i \in 1 .. 1 + m : i = 1 + k /\ ~(i <= 1) /\ i - 1 = k
      OBVIOUS
    <3> QED
      BY <2>3, <3>1
  <2>5. \A k \in 1..1 : k \in 1 .. 1 + m /\ k <= 1
    OBVIOUS
  <2> QED
    BY <2>3, <2>4, <2>5
<1>6. Prefixed(list) = one \o list
  BY <1>1, <1>2 DEF Prefixed
<1> QED
  BY <1>1, <1>4, <1>5, <1>6

\* The lists, one after the other.
Flat(lists) == FlattenSeq([i \in DOMAIN lists |-> Prefixed(lists[i])])

LEMMA FlatFacts ==
  ASSUME NEW lists \in InMemory, NEW off, Begins(Lengths(lists), off)
  PROVE  Listing(lists, off, Len(lists), Flat(lists))
<1>0. PICK m \in Nat : m = Len(lists) /\ DOMAIN lists = 1..m
  BY InMemoryFacts
<1>1. PICK seqs : seqs = [i \in DOMAIN lists |-> Prefixed(lists[i])]
  OBVIOUS
<1>2. Flat(lists) = FlattenSeq(seqs)
  BY <1>1 DEF Flat
<1>3. Len(seqs) = m
  <2>1. \A i \in 1..m : seqs[i] \in Seq(Content)
    <3>1. \A i \in 1..m : lists[i] \in Seq(Content)
      BY <1>0, InMemoryFacts
    <3> QED
      BY <1>0, <1>1, <3>1, PrefixedFacts
  <2> QED
    BY <1>0, <1>1, <2>1, IsASeq
<1>4. CASE m = 0
  <2>1. Flat(lists) = seqs /\ seqs = <<>>
    <3>1. seqs = [i \in 1..0 |-> Prefixed(lists[i])]
      BY <1>0, <1>1, <1>4
    <3>2. seqs = <<>>
      BY <3>1
    <3> QED
      BY <1>2, <1>3, <1>4, <3>2 DEF FlattenSeq
  <2> QED
    BY <1>0, <1>4, <2>1, EmptySeq DEF Listing, Begins
<1>5. CASE m > 0
  <2>1. PICK g : Flat(lists) = g[m] /\ Turn(seqs, m, g)
    <3> DEFINE f == CHOOSE f : f = [i \in 1 .. Len(seqs) |->
                                      IF i = 1 THEN seqs[i] ELSE f[i - 1] \o seqs[i]]
    <3>1. FlattenSeq(seqs) = IF Len(seqs) = 0 THEN seqs ELSE f[Len(seqs)]
      BY Zenon DEF FlattenSeq
    <3>2. f = [i \in 1 .. Len(seqs) |-> IF i = 1 THEN seqs[i] ELSE f[i - 1] \o seqs[i]]
      BY <1>3, FlattenExists DEF Turn
    <3>3. PICK g : g = f
      OBVIOUS
    <3> HIDE DEF f
    <3>4. g = [i \in 1..m |-> IF i = 1 THEN seqs[i] ELSE g[i - 1] \o seqs[i]]
      BY <1>3, <3>2, <3>3
    <3>5. Flat(lists) = g[m]
      BY <1>2, <1>3, <1>5, <3>1, <3>3
    <3> QED
      BY <3>4, <3>5 DEF Turn
  <2> DEFINE T == {n \in Nat : n + 1 <= m => Listing(lists, off, n + 1, g[n + 1])}
  <2>2. off \in [1 .. m + 1 -> Nat] /\ off[1] = 0
        /\ \A i \in 1..m : off[i + 1] = off[i] + Len(lists[i]) + 1
    <3>1. Len(Lengths(lists)) = m /\ \A i \in 1..m : Lengths(lists)[i] = Len(lists[i])
      BY <1>0, InMemoryFacts
    <3>2. PICK z : z = Lengths(lists)
      OBVIOUS
    <3> QED
      BY <3>1, <3>2 DEF Begins
  <2>3. 0 \in T
    <3>1. g[1] = Prefixed(lists[1])
      BY <1>0, <1>1, <1>5, <2>1 DEF Turn
    <3>2. off[2] = Len(lists[1]) + 1 /\ off[1] = 0 /\ Len(lists[1]) \in Nat
      BY <1>0, <1>5, <2>2, InMemoryFacts
    <3>3. Listing(lists, off, 1, g[1])
      <4>1. PICK one, len : one = lists[1] /\ len = Len(lists[1]) /\ len \in Nat
        BY <3>2
      <4>2. one \in Seq(Content) /\ \A k \in 1..len : one[k] \in Data
        BY <1>0, <1>5, <4>1, InMemoryFacts, ElementOfSeq
      <4>3. PICK s : s = g[1]
        OBVIOUS
      <4>4. /\ s \in Seq(Content) /\ Len(s) = len + 1 /\ s[1] = <<"length", len>>
            /\ \A k \in 1..len : s[1 + k] = one[k]
        BY <3>1, <4>1, <4>2, <4>3, PrefixedFacts
      <4>5. ASSUME NEW p \in 1 .. Len(s), p # 1 PROVE s[p] \in Data
        <5>1. PICK k \in 1..len : p = 1 + k
          <6>1. p - 1 \in 1..len /\ p = 1 + (p - 1)
            BY <4>1, <4>4, <4>5
          <6> QED
            BY <6>1
        <5> QED
          BY <4>2, <4>4, <5>1
      <4>6. Listing(lists, off, 1, s)
        BY <3>2, <4>1, <4>4, <4>5 DEF Listing
      <4> QED
        BY <4>3, <4>6
    <3> QED
      BY <3>3
  <2>4. ASSUME NEW n \in T PROVE n + 1 \in T
    <3>1. n \in Nat
      OBVIOUS
    <3> SUFFICES ASSUME n + 2 <= m PROVE Listing(lists, off, n + 2, g[n + 2])
      BY <3>1
    <3>2. Listing(lists, off, n + 1, g[n + 1])
      BY <1>0, <3>1
    <3> HIDE DEF T
    <3>3. PICK j \in 1..m : j = n + 1 /\ j + 1 \in 1..m /\ j + 1 = n + 2
      BY <1>0, <3>1
    <3>4. g[j + 1] = g[j] \o Prefixed(lists[j + 1])
      <4>1. PICK k \in 1..m : k = j + 1 /\ k # 1 /\ k - 1 = j
        BY <3>3
      <4> QED
        BY <1>0, <1>1, <2>1, <4>1 DEF Turn
    <3>5. PICK size \in Nat : size = Len(lists[j + 1])
      BY <1>0, <3>3, InMemoryFacts
    <3>6. PICK next : next = Prefixed(lists[j + 1])
      OBVIOUS
    <3>7. /\ next \in Seq(Content) /\ Len(next) = size + 1
          /\ next[1] = <<"length", Len(lists[j + 1])>>
          /\ \A k \in 1..size : next[1 + k] = lists[j + 1][k]
      <4>1. PICK list : list = lists[j + 1]
        OBVIOUS
      <4>2. list \in Seq(Content) /\ Len(list) = size /\ next = Prefixed(list)
        BY <1>0, <3>3, <3>5, <3>6, <4>1, InMemoryFacts
      <4>3. /\ next \in Seq(Content) /\ Len(next) = size + 1
            /\ next[1] = <<"length", Len(list)>>
            /\ \A k \in 1..size : next[1 + k] = list[k]
        BY <4>2, PrefixedFacts
      <4> QED
        BY <4>1, <4>3
    <3>8. PICK len \in Nat : len = off[j + 1] /\ off[j + 2] = len + size + 1
      <4>1. off[j + 1] \in Nat
        BY <2>2, <3>3
      <4>2. PICK k \in 1..m : k = j + 1
        BY <3>3
      <4>3. off[k + 1] = off[k] + Len(lists[k]) + 1 /\ k + 1 = j + 2
        BY <2>2, <4>2
      <4> QED
        BY <3>5, <4>1, <4>2, <4>3
    <3>9. g[j] \in Seq(Content) /\ Len(g[j]) = len
      BY <3>2, <3>3, <3>8 DEF Listing
    <3>10. PICK s : s = g[j + 1]
      OBVIOUS
    <3>11. /\ s \in Seq(Content) /\ Len(s) = len + (size + 1)
           /\ \A i \in 1..len : s[i] = g[j][i]
           /\ \A i \in 1 .. size + 1 : s[len + i] = next[i]
      <4>1. PICK old, more : old = g[j] /\ more = size + 1 /\ more \in Nat
        OBVIOUS
      <4>2. s = old \o next
        BY <3>4, <3>6, <3>10, <4>1
      <4>3. old \in Seq(Content) /\ Len(old) = len
        BY <3>9, <4>1
      <4>4. next \in Seq(Content) /\ Len(next) = more /\ more \in Nat
        BY <3>7, <4>1
      <4>5. /\ old \o next \in Seq(Content) /\ Len(old \o next) = len + more
            /\ \A i \in 1..len : (old \o next)[i] = old[i]
            /\ \A i \in 1..more : (old \o next)[len + i] = next[i]
        BY ONLY len \in Nat, <4>3, <4>4, InARow, SMTT(60)
      <4> QED
        BY <4>1, <4>2, <4>5
    <3>12. ASSUME NEW i \in 1..j
           PROVE  /\ off[i] + Len(lists[i]) < Len(s)
                  /\ s[off[i] + 1] = <<"length", Len(lists[i])>>
                  /\ \A k \in 1 .. Len(lists[i]) : s[off[i] + 1 + k] = lists[i][k]
      <4>1. /\ off[i] + Len(lists[i]) < len
            /\ g[j][off[i] + 1] = <<"length", Len(lists[i])>>
            /\ \A k \in 1 .. Len(lists[i]) : g[j][off[i] + 1 + k] = lists[i][k]
        BY <3>2, <3>3, <3>9 DEF Listing
      <4>2. PICK at \in Nat : at = off[i]
        <5>1. i \in 1 .. m + 1
          BY <3>3
        <5> QED
          BY <2>2, <5>1
      <4>3. PICK sz \in Nat : sz = Len(lists[i])
        BY <1>0, <3>3, InMemoryFacts
      <4>4. at + 1 \in 1..len /\ \A k \in 1..sz : at + 1 + k \in 1..len
        <5>1. at + sz < len
          BY <4>1, <4>2, <4>3
        <5> QED
          BY <5>1
      <4>5. s[at + 1] = g[j][at + 1] /\ \A k \in 1..sz : s[at + 1 + k] = g[j][at + 1 + k]
        BY <3>11, <4>4
      <4>6. at + sz < Len(s)
        BY <3>11, <4>1, <4>2, <4>3
      <4> QED
        BY <4>1, <4>2, <4>3, <4>5, <4>6
    <3>13. /\ off[j + 1] + Len(lists[j + 1]) < Len(s)
           /\ s[off[j + 1] + 1] = <<"length", Len(lists[j + 1])>>
           /\ \A k \in 1 .. Len(lists[j + 1]) : s[off[j + 1] + 1 + k] = lists[j + 1][k]
      <4>1. \A k \in 1..size : 1 + k \in 1 .. size + 1 /\ len + 1 + k = len + (1 + k)
        OBVIOUS
      <4>2. \A k \in 1..size : s[len + 1 + k] = lists[j + 1][k]
        BY <3>7, <3>11, <4>1
      <4>3. s[len + 1] = <<"length", Len(lists[j + 1])>>
        BY <3>7, <3>11
      <4> QED
        BY <3>5, <3>8, <3>11, <4>2, <4>3
    <3>14. Listing(lists, off, j + 1, s)
      <4>1. j + 1 + 1 = j + 2 /\ \A i \in 1 .. j + 1 : i \in 1..j \/ i = j + 1
        BY <3>3
      <4>2. Len(s) = off[j + 1 + 1]
        <5>1. PICK k : k = j + 2 /\ k = j + 1 + 1
          BY <4>1
        <5>2. off[k] = len + size + 1
          BY <3>8, <5>1
        <5>3. Len(s) = off[k]
          BY <3>11, <5>2
        <5> QED
          BY <5>1, <5>3
      <4>3. ASSUME NEW p \in 1 .. Len(s)
            PROVE  s[p] \in Data \/ \E i \in 1 .. j + 1 : p = off[i] + 1
        <5>1. CASE p <= len
          <6>1. p \in 1..len /\ s[p] = g[j][p]
            BY <3>11, <5>1
          <6>2. g[j][p] \in Data \/ \E i \in 1..j : p = off[i] + 1
            BY <3>2, <3>3, <3>9, <6>1 DEF Listing
          <6> QED
            BY <3>3, <6>1, <6>2
        <5>2. CASE p = len + 1
          BY <3>3, <3>8, <5>2
        <5>3. CASE p > len + 1
          <6>1. PICK k \in 1..size : p = len + (1 + k) /\ 1 + k \in 1 .. size + 1
            <7>1. /\ p - len - 1 \in 1..size /\ p = len + (1 + (p - len - 1))
                  /\ 1 + (p - len - 1) \in 1 .. size + 1
              BY <3>11, <5>3
            <7> QED
              BY <7>1
          <6>2. s[p] = lists[j + 1][k]
            BY <3>7, <3>11, <6>1
          <6>3. PICK list : list = lists[j + 1] /\ list \in Seq(Data) /\ Len(list) = size
            BY <1>0, <3>3, <3>5, InMemoryFacts
          <6>4. list[k] \in Data
            BY <6>3, ElementOfSeq
          <6> QED
            BY <6>2, <6>3, <6>4
        <5> QED
          BY <3>11, <5>1, <5>2, <5>3
      <4> QED
        BY <3>11, <3>12, <3>13, <4>1, <4>2, <4>3 DEF Listing
    <3> QED
      BY <3>3, <3>10, <3>14
  <2>5. T = Nat
    <3> HIDE DEF T
    <3>1. T \subseteq Nat
      BY DEF T
    <3> QED
      BY <2>3, <2>4, <3>1, SetInduction
  <2>6. PICK n \in T : n + 1 = m
    <3> HIDE DEF T
    <3>1. m - 1 \in Nat /\ m - 1 + 1 = m
      BY <1>5
    <3> QED
      BY <2>5, <3>1
  <2>7. Listing(lists, off, m, g[m])
    BY <1>0, <2>6
  <2> QED
    BY <1>0, <2>1, <2>7
<1> QED
  BY <1>0, <1>4, <1>5

\* What a file holds, and where.
Written(v, lists, body, img, n) ==
  /\ n \in Nat /\ Len(Flat(lists)) = n
  /\ body \in Seq(Content) /\ Len(body) = n + 3
  /\ body[1] = <<"magic">> /\ body[2] = <<"directory", v>> /\ body[3] = <<"count">>
  /\ \A i \in 1..n : body[3 + i] = Flat(lists)[i]
  /\ img \in Seq(Pieces) /\ Len(img) = n + 4
  /\ \A i \in 1 .. n + 3 : img[i] = body[i]
  /\ img[n + 4] = Checksum(body)

LEMMA ImageFacts ==
  ASSUME NEW v \in Versions, NEW lists \in InMemory
  PROVE  \E body, n : Written(v, lists, body, Image(v, lists), n)
<1>1. PICK off : Begins(Lengths(lists), off)
  BY InMemoryFacts, BeginsExists
<1>2. PICK flat, n : flat = Flat(lists) /\ n = Len(flat)
  OBVIOUS
<1>3. flat \in Seq(Content) /\ n \in Nat
  <2>1. flat \in Seq(Content)
    BY <1>1, <1>2, FlatFacts DEF Listing
  <2> QED
    BY <1>2, <2>1, LenProperties
<1>4. PICK head, count, front : /\ head = Header(v) /\ count = <<<<"count">>>>
                                /\ front = head \o count
  OBVIOUS
<1>5. /\ head \in Seq(Content) /\ Len(head) = 2 /\ head[1] = <<"magic">>
      /\ head[2] = <<"directory", v>>
      /\ count \in Seq(Content) /\ Len(count) = 1 /\ count[1] = <<"count">>
  <2>1. <<"magic">> \in Content /\ <<"directory", v>> \in Content /\ <<"count">> \in Content
    BY DEF Content
  <2> QED
    BY <1>4, <2>1 DEF Header
<1>6. /\ front \in Seq(Content) /\ Len(front) = 3 /\ front[1] = <<"magic">>
      /\ front[2] = <<"directory", v>> /\ front[3] = <<"count">>
  <2>1. head \in Seq(Content) /\ count \in Seq(Content)
    BY <1>5
  <2>2. /\ head \o count \in Seq(Content) /\ Len(head \o count) = Len(head) + Len(count)
        /\ \A i \in 1 .. Len(head) + Len(count) :
             (head \o count)[i] = IF i <= Len(head) THEN head[i] ELSE count[i - Len(head)]
    BY <2>1, ConcatProperties
  <2>3. Len(head) + Len(count) = 3 /\ 1 \in 1..3 /\ 2 \in 1..3 /\ 3 \in 1..3 /\ 3 - Len(head) = 1
    BY <1>5
  <2> QED
    BY <1>4, <1>5, <2>2, <2>3
<1>7. PICK body : body = Body(v, lists) /\ body = front \o flat
  <2>1. Body(v, lists) = Header(v) \o <<<<"count">>>> \o Flat(lists)
    BY Zenon DEF Body, Flat
  <2> QED
    BY <1>2, <1>4, <2>1
<1>8. /\ body \in Seq(Content) /\ Len(body) = 3 + n
      /\ \A i \in 1 .. 3 + n : body[i] = IF i <= 3 THEN front[i] ELSE flat[i - 3]
  <2>1. /\ front \o flat \in Seq(Content) /\ Len(front \o flat) = Len(front) + Len(flat)
        /\ \A i \in 1 .. Len(front) + Len(flat) :
             (front \o flat)[i] = IF i <= Len(front) THEN front[i] ELSE flat[i - Len(front)]
    <3>1. front \in Seq(Content) /\ flat \in Seq(Content)
      BY <1>3, <1>6
    <3> QED
      BY <3>1, ConcatProperties
  <2> QED
    BY <1>2, <1>6, <1>7, <2>1
<1>9. /\ body[1] = <<"magic">> /\ body[2] = <<"directory", v>> /\ body[3] = <<"count">>
      /\ \A i \in 1..n : body[3 + i] = flat[i]
  <2>1. ASSUME NEW i \in 1..n PROVE body[3 + i] = flat[i]
    <3>1. PICK j \in 1 .. 3 + n : j = 3 + i /\ ~(j <= 3) /\ j - 3 = i
      BY <1>3
    <3> QED
      BY <1>8, <3>1
  <2>2. 1 \in 1 .. 3 + n /\ 2 \in 1 .. 3 + n /\ 3 \in 1 .. 3 + n
    BY <1>3
  <2> QED
    BY <1>6, <1>8, <2>1, <2>2
<1>10. PICK sum : sum = Checksum(body)
  OBVIOUS
<1>11. sum \in Pieces /\ body \in Seq(Pieces)
  <2>1. PICK len \in Nat : len = Len(body)
    BY <1>3, <1>8
  <2>2. \A i \in 2..len : body[i] \in Content
    BY <1>8, <2>1, ElementOfSeq
  <2>3. SubSeq(body, 2, len) \in Seq(Content)
    BY <2>1, <2>2, SubSeqProperties
  <2>4. sum = <<"checksum", SubSeq(body, 2, len)>>
    BY <1>10, <2>1 DEF Checksum
  <2>5. Content \subseteq Pieces
    BY DEF Pieces
  <2>6. sum \in Pieces
    BY <2>3, <2>4 DEF Pieces
  <2>7. body \in Seq(Pieces)
    BY <1>8, <2>5, SeqMonotonic
  <2> QED
    BY <2>6, <2>7
<1>12. PICK img : img = Image(v, lists) /\ img = Append(body, sum)
  BY <1>7, <1>10 DEF Image
<1>13. /\ img \in Seq(Pieces) /\ Len(img) = Len(body) + 1
       /\ \A i \in 1 .. Len(body) : img[i] = body[i]
       /\ img[Len(body) + 1] = sum
  BY <1>11, <1>12, AppendProperties
<1>14. Len(body) = n + 3 /\ Len(body) + 1 = n + 4
  BY <1>3, <1>8
<1>15. Written(v, lists, body, img, n)
  BY <1>2, <1>3, <1>8, <1>9, <1>10, <1>13, <1>14 DEF Written
<1> QED
  BY <1>12, <1>15

\* A piece of a body is no checksum.
LEMMA BodyPieces ==
  ASSUME NEW c \in Content
  PROVE  c[1] # "checksum"
BY DEF Content, Data, Hole

-----------------------------------------------------------------------------
(* What a load finds.                                                      *)

\* The file is what a save of v and these lists writes, cut short and with holes.
Torn(m, v, lists) ==
  /\ m \in Seq(Pieces) /\ Len(m) <= Len(Image(v, lists))
  /\ \A n \in DOMAIN m : m[n] = Image(v, lists)[n] \/ m[n] = Hole

\* What verify_checksum sums: the header as it was read, before what is mapped.
SummedAs(m, l, v, t) ==
  /\ t \in Seq(Pieces) /\ Len(t) = l - 1
  /\ t[1] = <<"magic">> /\ t[2] = <<"directory", v>>
  /\ \A n \in 3 .. l - 1 : t[n] = m[n]

LEMMA Summed ==
  ASSUME NEW m \in Seq(Pieces), NEW l \in Nat, l >= 3, l <= Len(m), NEW v \in Versions
  PROVE  SummedAs(m, l, v, Header(v) \o SubSeq(m, Base + 1, l - 1))
<1>0. Base = 2
  BY DEF Base, Header
<1>1. PICK k \in Nat : l = k + 3 /\ l - 1 = k + 2 /\ Base + 1 = 3
  <2>1. l - 3 \in Nat /\ l = l - 3 + 3 /\ l - 1 = l - 3 + 2
    OBVIOUS
  <2> QED
    BY <1>0, <2>1
<1>2. PICK head, rest : head = Header(v) /\ rest = SubSeq(m, 3, k + 2)
  OBVIOUS
<1>3. /\ head \in Seq(Pieces) /\ Len(head) = 2 /\ head[1] = <<"magic">>
      /\ head[2] = <<"directory", v>>
  <2>1. <<"magic">> \in Pieces /\ <<"directory", v>> \in Pieces
    BY DEF Pieces, Content
  <2> QED
    BY <1>2, <2>1 DEF Header
<1>4. rest \in Seq(Pieces) /\ Len(rest) = k /\ \A n \in 1..k : rest[n] = m[n + 2]
  <2>1. 3 \in Int /\ k + 2 \in Int /\ \A n \in 3 .. k + 2 : m[n] \in Pieces
    <3>1. Len(m) \in Nat /\ \A n \in 3 .. k + 2 : n \in 1 .. Len(m)
      BY <1>1, LenProperties
    <3> QED
      BY <3>1, ElementOfSeq
  <2>2. /\ SubSeq(m, 3, k + 2) \in Seq(Pieces)
        /\ Len(SubSeq(m, 3, k + 2)) = IF 3 <= k + 2 THEN k + 2 - 3 + 1 ELSE 0
        /\ \A n \in 1 .. k + 2 - 3 + 1 : SubSeq(m, 3, k + 2)[n] = m[3 + n - 1]
    BY <2>1, SubSeqProperties
  <2>3. k + 2 - 3 + 1 = k /\ (~(3 <= k + 2) => k = 0) /\ \A n \in 1..k : 3 + n - 1 = n + 2
    OBVIOUS
  <2> QED
    BY <1>2, <2>2, <2>3
<1>5. PICK t : t = head \o rest
  OBVIOUS
<1>6. /\ t \in Seq(Pieces) /\ Len(t) = 2 + k
      /\ \A n \in 1 .. 2 + k : t[n] = IF n <= 2 THEN head[n] ELSE rest[n - 2]
  <2>1. /\ head \o rest \in Seq(Pieces) /\ Len(head \o rest) = Len(head) + Len(rest)
        /\ \A n \in 1 .. Len(head) + Len(rest) :
             (head \o rest)[n] = IF n <= Len(head) THEN head[n] ELSE rest[n - Len(head)]
    <3>1. head \in Seq(Pieces) /\ rest \in Seq(Pieces)
      BY <1>3, <1>4
    <3> QED
      BY <3>1, ConcatProperties
  <2> QED
    BY <1>3, <1>4, <1>5, <2>1
<1>7. t[1] = <<"magic">> /\ t[2] = <<"directory", v>>
  <2>1. 1 \in 1 .. 2 + k /\ 2 \in 1 .. 2 + k
    OBVIOUS
  <2> QED
    BY <1>3, <1>6, <2>1
<1>8. ASSUME NEW n \in 3 .. l - 1 PROVE t[n] = m[n]
  <2>1. n \in 1 .. 2 + k /\ ~(n <= 2)
    BY <1>1
  <2>2. PICK j \in 1..k : n - 2 = j /\ j + 2 = n
    <3>1. n - 2 \in 1..k /\ n - 2 + 2 = n
      BY <1>1
    <3> QED
      BY <3>1
  <2> QED
    BY <1>4, <1>6, <2>1, <2>2
<1>9. t = Header(v) \o SubSeq(m, Base + 1, l - 1)
  BY <1>1, <1>2, <1>5
<1>10. SummedAs(m, l, v, t)
  <2>1. Len(t) = l - 1
    BY <1>1, <1>6
  <2> QED
    BY <1>6, <1>7, <1>8, <2>1 DEF SummedAs
<1> QED
  BY <1>9, <1>10

\* A mapping whose checksum matches is a whole file: what it was torn from.
LEMMA SumProves ==
  ASSUME NEW v \in Versions, NEW lists \in InMemory, Torn(main, v, lists),
         index.of \in Versions, index.length \in Nat, ~(index.length - 1 < Base),
         ~(index.length > Len(main)), main[1] # Hole, main[2] # Hole, ChecksumMatches
  PROVE  index.of = v /\ index.length = Len(main) /\ main = Image(v, lists)
<1>0. Base = 2
  BY DEF Base, Header
<1>1. PICK img : img = Image(v, lists)
  OBVIOUS
<1>2. PICK body, n : Written(v, lists, body, img, n)
  BY <1>1, ImageFacts
<1>3. PICK len \in Nat : len = n + 3 /\ len >= 3 /\ len + 1 = n + 4
  BY <1>2 DEF Written
<1>4. /\ body \in Seq(Content) /\ Len(body) = len
      /\ body[1] = <<"magic">> /\ body[2] = <<"directory", v>>
      /\ img \in Seq(Pieces) /\ Len(img) = len + 1
      /\ \A i \in 1..len : img[i] = body[i]
      /\ img[len + 1] = Checksum(body)
  BY <1>2, <1>3 DEF Written
<1>5. PICK k \in Nat : k = Len(main) /\ DOMAIN main = 1..k
  BY LenProperties DEF Torn
<1>6. PICK l \in Nat : l = index.length
  OBVIOUS
<1>7. l >= 3 /\ l <= k /\ k <= len + 1
  BY <1>0, <1>1, <1>4, <1>5, <1>6 DEF Torn
<1>8. \A i \in 1..k : main[i] = img[i] \/ main[i] = Hole
  BY <1>1, <1>5 DEF Torn
<1>8a. PICK u : u = index.of /\ u \in Versions
  OBVIOUS
<1>8b. PICK t : t = Header(u) \o SubSeq(main, Base + 1, l - 1) /\ SummedAs(main, l, u, t)
  <2>1. main \in Seq(Pieces) /\ l >= 3 /\ l <= Len(main)
    BY <1>5, <1>7 DEF Torn
  <2> QED
    BY <1>8a, <2>1, Summed
<1>9. /\ t \in Seq(Pieces) /\ Len(t) = l - 1 /\ t[2] = <<"directory", u>>
      /\ \A i \in 3 .. l - 1 : t[i] = main[i]
  BY <1>8b DEF SummedAs
<1>10. main[l] = <<"checksum", SubSeq(t, 2, l - 1)>>
  BY <1>6, <1>9, <1>8a, <1>8b DEF ChecksumMatches, Checksum
<1>11. main[l] = img[l]
  BY <1>7, <1>8, <1>10 DEF Hole
<1>12. l = len + 1 /\ k = len + 1
  <2>1. ASSUME l <= len PROVE FALSE
    <3>1. l \in 1..len
      BY <1>7, <2>1
    <3>2. body[l] \in Content /\ body[l][1] = "checksum"
      BY <1>4, <1>10, <1>11, <3>1, ElementOfSeq
    <3> QED
      BY <3>2, BodyPieces
  <2> QED
    BY <1>7, <2>1
<1>13. SubSeq(t, 2, len) = SubSeq(body, 2, len)
  <2>1. img[len + 1] = <<"checksum", SubSeq(body, 2, len)>>
    BY <1>4 DEF Checksum
  <2>2. l - 1 = len
    BY <1>12
  <2>3. <<"checksum", SubSeq(t, 2, len)>> = <<"checksum", SubSeq(body, 2, len)>>
    BY <1>10, <1>11, <1>12, <2>1, <2>2
  <2> QED
    BY <2>3
<1>14. ASSUME NEW i \in 2..len PROVE t[i] = body[i]
  <2>1. PICK j \in 1 .. len - 2 + 1 : i = 2 + j - 1
    <3>1. i - 1 \in 1 .. len - 2 + 1 /\ i = 2 + (i - 1) - 1
      BY <1>3
    <3> QED
      BY <3>1
  <2>2. SubSeq(t, 2, len)[j] = t[i]
    <3>1. \A x \in 2..len : t[x] \in Pieces
      <4>1. Len(t) = len /\ t \in Seq(Pieces)
        BY <1>9, <1>12
      <4> QED
        BY <4>1, ElementOfSeq
    <3> QED
      BY <2>1, <3>1, SubSeqProperties
  <2>3. SubSeq(body, 2, len)[j] = body[i]
    <3>1. \A x \in 2..len : body[x] \in Content
      BY <1>4, ElementOfSeq
    <3> QED
      BY <2>1, <3>1, SubSeqProperties
  <2> QED
    BY <1>13, <2>2, <2>3
<1>15. index.of = v
  <2>1. t[2] = body[2]
    BY <1>3, <1>14
  <2>2. <<"directory", u>> = <<"directory", v>>
    BY <1>4, <1>9, <2>1
  <2> QED
    BY <1>8a, <2>2
<1>16. ASSUME NEW i \in 1 .. len + 1 PROVE main[i] = img[i]
  <2>1. CASE i \in {1, 2}
    BY <1>8, <1>12, <2>1
  <2>2. CASE i \in 3..len
    <3>1. i \in 2..len /\ i \in 1..len /\ i \in 3 .. l - 1
      BY <1>12, <2>2
    <3>2. t[i] = main[i] /\ t[i] = body[i] /\ img[i] = body[i]
      BY <1>4, <1>9, <1>14, <3>1
    <3> QED
      BY <3>2
  <2>3. CASE i = len + 1
    BY <1>11, <1>12, <2>3
  <2> QED
    BY <1>3, <2>1, <2>2, <2>3
<1>17. main = img
  <2>1. main \in Seq(Pieces) /\ Len(main) = len + 1
    BY <1>5, <1>12 DEF Torn
  <2> QED
    BY <1>4, <1>16, <2>1, SeqEqual
<1> QED
  BY <1>1, <1>5, <1>6, <1>12, <1>15, <1>17

\* The checksum of a file that is whole matches.
LEMMA WholeSums ==
  ASSUME index.of \in Versions, NEW lists \in InMemory, main = Image(index.of, lists),
         index.length = Len(main)
  PROVE  /\ ~(index.length - 1 < Base) /\ ~(index.length > Len(main)) /\ ChecksumMatches
<1>0. Base = 2
  BY DEF Base, Header
<1>1. PICK v \in Versions : v = index.of
  OBVIOUS
<1>2. PICK body, n : Written(v, lists, body, main, n)
  BY <1>1, ImageFacts
<1>3. PICK l \in Nat : l = n + 4 /\ l - 1 = n + 3 /\ l >= 3 /\ l = Len(main) /\ l = index.length
  BY <1>2 DEF Written
<1>4. main \in Seq(Pieces)
  BY <1>2 DEF Written
<1>4a. PICK t : t = Header(v) \o SubSeq(main, Base + 1, l - 1) /\ SummedAs(main, l, v, t)
  <2>1. l <= Len(main)
    BY <1>3
  <2> QED
    BY <1>3, <1>4, <2>1, Summed
<1>5. /\ t \in Seq(Pieces) /\ Len(t) = l - 1
      /\ t[1] = <<"magic">> /\ t[2] = <<"directory", v>>
      /\ \A i \in 3 .. l - 1 : t[i] = main[i]
  BY <1>4a DEF SummedAs
<1>6. body \in Seq(Pieces) /\ Len(body) = l - 1
  <2>1. Content \subseteq Pieces
    BY DEF Pieces
  <2>2. body \in Seq(Content)
    BY <1>2 DEF Written
  <2>3. body \in Seq(Pieces)
    BY <2>1, <2>2, SeqMonotonic
  <2> QED
    BY <1>2, <1>3, <2>3 DEF Written
<1>7. ASSUME NEW i \in 1 .. l - 1 PROVE t[i] = body[i]
  <2>1. CASE i \in {1, 2}
    BY <1>2, <1>5, <2>1 DEF Written
  <2>2. CASE i \in 3 .. l - 1
    BY <1>2, <1>3, <1>5, <2>2 DEF Written
  <2> QED
    BY <1>3, <2>1, <2>2
<1>8. t = body
  BY <1>5, <1>6, <1>7, SeqEqual
<1>9. main[l] = Checksum(t)
  BY <1>2, <1>3, <1>8 DEF Written
<1>10. ChecksumMatches
  BY <1>1, <1>3, <1>9, <1>4a DEF ChecksumMatches
<1> QED
  BY <1>0, <1>3, <1>10

\* There a list can be read.
HoldsAt(m, at, list) ==
  /\ at \in Nat /\ Len(list) \in Nat /\ Len(m) \in Nat
  /\ m[at] = <<"length", Len(list)>> /\ at + Len(list) < Len(m)
  /\ SubSeq(m, at + 1, at + Len(list)) = list

\* Of such a file the next list is read where the last one ended ...
LEMMA WholeReads ==
  ASSUME NEW v \in Versions, NEW lists \in InMemory,
         NEW off, Begins(Lengths(lists), off), NEW n \in 1 .. Len(lists)
  PROVE  /\ off[n] \in Nat /\ Len(lists[n]) \in Nat
         /\ off[n + 1] = off[n] + Len(lists[n]) + 1
         /\ HoldsAt(Image(v, lists), 4 + off[n], lists[n])
<1>0. PICK m : m = Image(v, lists)
  OBVIOUS
<1>1. PICK body, k : Written(v, lists, body, m, k)
  BY <1>0, ImageFacts
<1>2. PICK flat : flat = Flat(lists)
  OBVIOUS
<1>3. Listing(lists, off, Len(lists), flat)
  BY <1>2, FlatFacts
<1>4. PICK list : list = lists[n] /\ list \in Seq(Data) /\ list \in Seq(Pieces)
  <2>1. Content \subseteq Pieces
    BY DEF Pieces
  <2>2. lists[n] \in Seq(Data) /\ lists[n] \in Seq(Content)
    BY InMemoryFacts
  <2>3. lists[n] \in Seq(Pieces)
    BY <2>1, <2>2, SeqMonotonic
  <2> QED
    BY <2>2, <2>3
<1>5. PICK size \in Nat : size = Len(list) /\ size = Len(lists[n])
  BY <1>4, LenProperties
<1>6. PICK o \in Nat : o = off[n] /\ off[n + 1] = o + size + 1
  <2>1. PICK z : z = Lengths(lists) /\ Len(z) = Len(lists) /\ z[n] = size /\ Len(z) \in Nat
    BY <1>5, InMemoryFacts
  <2>2. n \in 1 .. Len(z) /\ n \in 1 .. Len(z) + 1
    BY <2>1
  <2>3. off \in [1 .. Len(z) + 1 -> Nat] /\ off[n + 1] = off[n] + z[n] + 1
    BY <2>1, <2>2 DEF Begins
  <2> QED
    BY <2>1, <2>2, <2>3
<1>7. /\ k \in Nat /\ Len(flat) = k /\ m \in Seq(Pieces) /\ Len(m) = k + 4
      /\ \A i \in 1..k : m[3 + i] = flat[i]
  <2>1. \A i \in 1..k : 3 + i \in 1 .. k + 3
    BY <1>1 DEF Written
  <2> QED
    BY <1>1, <1>2, <2>1 DEF Written
<1>8. o + size < k /\ flat[o + 1] = <<"length", size>>
      /\ \A j \in 1..size : flat[o + 1 + j] = list[j]
  BY <1>3, <1>4, <1>5, <1>6, <1>7 DEF Listing
<1>9. m[4 + o] = <<"length", size>>
  <2>1. o + 1 \in 1..k /\ 3 + (o + 1) = 4 + o
    BY <1>7, <1>8
  <2> QED
    BY <1>7, <1>8, <2>1
<1>10. ASSUME NEW j \in 1..size PROVE m[4 + o + j] = list[j]
  <2>1. PICK i \in 1..k : i = o + 1 + j /\ 3 + i = 4 + o + j
    <3>1. o + 1 + j \in 1..k /\ 3 + (o + 1 + j) = 4 + o + j
      BY <1>7, <1>8
    <3> QED
      BY <3>1
  <2> QED
    BY <1>7, <1>8, <2>1
<1>11. PICK a \in Nat, b \in Nat : a = 4 + o + 1 /\ b = 4 + o + size
  OBVIOUS
<1>12. SubSeq(m, a, b) = list
  <2>1. \A i \in a..b : m[i] \in Pieces
    <3>1. \A i \in a..b : i \in 1 .. Len(m)
      BY <1>7, <1>8, <1>11
    <3> QED
      BY <1>7, <3>1, ElementOfSeq
  <2>2. PICK s : s = SubSeq(m, a, b)
    OBVIOUS
  <2>3. /\ s \in Seq(Pieces) /\ Len(s) = (IF a <= b THEN b - a + 1 ELSE 0)
        /\ \A i \in 1 .. b - a + 1 : s[i] = m[a + i - 1]
    BY <2>1, <2>2, SubSeqProperties
  <2>4. b - a + 1 = size /\ (~(a <= b) => size = 0)
    BY <1>11
  <2>5. Len(s) = size
    BY <2>3, <2>4
  <2>6. ASSUME NEW i \in 1..size PROVE s[i] = list[i]
    <3>1. a + i - 1 = 4 + o + i
      BY <1>11
    <3> QED
      BY <1>10, <2>3, <2>4, <3>1
  <2> QED
    BY <1>4, <1>5, <2>2, <2>3, <2>5, <2>6, SeqEqual
<1>13. PICK at \in Nat : at = 4 + o /\ at + 1 = a /\ at + size = b
  BY <1>11
<1>14. HoldsAt(m, at, list)
  <2>1. at + size < Len(m) /\ Len(m) \in Nat
    BY <1>7, <1>8, <1>13
  <2> QED
    BY <1>5, <1>9, <1>12, <1>13, <2>1 DEF HoldsAt
<1> QED
  BY <1>0, <1>4, <1>5, <1>6, <1>13, <1>14

\* ... until the last one ended at the checksum.
LEMMA WholeEnds ==
  ASSUME NEW v \in Versions, NEW lists \in InMemory, NEW off, Begins(Lengths(lists), off)
  PROVE  off[Len(lists) + 1] \in Nat /\ Len(Image(v, lists)) = 4 + off[Len(lists) + 1]
<1>1. PICK body, n : Written(v, lists, body, Image(v, lists), n)
  BY ImageFacts
<1>2. Len(Flat(lists)) = off[Len(lists) + 1]
  BY FlatFacts DEF Listing
<1>3. n \in Nat /\ n = off[Len(lists) + 1] /\ Len(Image(v, lists)) = n + 4
  BY <1>1, <1>2 DEF Written
<1> QED
  BY <1>3

\* What is read as a list is one, whatever has become of the file since.
LEMMA TornReads ==
  ASSUME NEW v \in Versions, NEW lists \in InMemory, NEW m, Torn(m, v, lists),
         NEW at \in Nat, at >= 4, at <= Len(m), m[at][1] = "length"
  PROVE  /\ m[at][2] \in Nat
         /\ at + m[at][2] <= Len(m) => SubSeq(m, at + 1, at + m[at][2]) \in Seq(Data)
<1>1. PICK img : img = Image(v, lists)
  OBVIOUS
<1>2. PICK body, k : Written(v, lists, body, img, k)
  BY <1>1, ImageFacts
<1>3. PICK off : Begins(Lengths(lists), off)
  BY InMemoryFacts, BeginsExists
<1>4. PICK flat : flat = Flat(lists) /\ Listing(lists, off, Len(lists), flat)
  BY <1>3, FlatFacts
<1>5. PICK l \in Nat : l = Len(m) /\ DOMAIN m = 1..l
  BY LenProperties DEF Torn
<1>6. /\ k \in Nat /\ Len(flat) = k /\ l <= k + 4 /\ img[k + 4] = Checksum(body)
      /\ \A i \in 1..k : img[3 + i] = flat[i]
      /\ \A i \in 1..l : m[i] = img[i] \/ m[i] = Hole
  <2>1. \A i \in 1..k : 3 + i \in 1 .. k + 3
    BY <1>2 DEF Written
  <2> QED
    BY <1>1, <1>2, <1>4, <1>5, <2>1 DEF Written, Torn
<1>7. m[at] = img[at]
  BY <1>5, <1>6 DEF Hole
<1>8. at # k + 4
  BY <1>6, <1>7 DEF Checksum
<1>9. PICK p \in 1..k : at = 3 + p
  <2>1. at - 3 \in 1..k /\ at = 3 + (at - 3)
    BY <1>5, <1>6, <1>8
  <2> QED
    BY <2>1
<1>10. flat[p][1] = "length"
  BY <1>6, <1>7, <1>9
<1>11. PICK i \in 1 .. Len(lists) : p = off[i] + 1
  <2>1. flat[p] \notin Data
    BY <1>10 DEF Data, Hole
  <2> QED
    BY <1>4, <1>6, <2>1 DEF Listing
<1>12. off[i] \in Nat /\ Len(lists[i]) \in Nat /\ HoldsAt(img, 4 + off[i], lists[i])
  BY <1>1, <1>3, WholeReads
<1>13. PICK size \in Nat : size = Len(lists[i]) /\ m[at][2] = size
  <2>1. at = 4 + off[i]
    BY <1>9, <1>11, <1>12
  <2>2. img[at] = <<"length", Len(lists[i])>>
    BY <1>12, <2>1 DEF HoldsAt
  <2> QED
    BY <1>7, <1>12, <2>2
<1>14. ASSUME at + size <= l PROVE SubSeq(m, at + 1, at + size) \in Seq(Data)
  <2>1. ASSUME NEW x \in at + 1 .. at + size PROVE m[x] \in Data
    <3>1. PICK j \in 1..size : x = at + j /\ x \in 1..l
      <4>1. x - at \in 1..size /\ x = at + (x - at) /\ x \in 1..l
        BY <1>14
      <4> QED
        BY <4>1
    <3>2. PICK o \in Nat : o = off[i] /\ p = o + 1
      BY <1>11, <1>12
    <3>3. flat[o + 1 + j] = lists[i][j] /\ o + size < k
      BY <1>4, <1>6, <1>13, <3>2 DEF Listing
    <3>4. o + 1 + j \in 1..k /\ x = 3 + (o + 1 + j)
      <4>1. o + size < k /\ k \in Nat /\ x = at + j /\ at = 3 + (o + 1)
        BY <1>6, <1>9, <3>1, <3>2, <3>3
      <4> QED
        BY <4>1
    <3>5. img[x] = lists[i][j]
      BY <1>6, <3>3, <3>4
    <3>6. PICK list : list = lists[i] /\ list \in Seq(Data) /\ Len(list) = size
      BY <1>13, InMemoryFacts
    <3>7. list[j] \in Data
      BY <3>6, ElementOfSeq
    <3> QED
      BY <1>6, <3>1, <3>5, <3>6, <3>7 DEF Data
  <2> QED
    BY <2>1, SubSeqProperties
<1> QED
  BY <1>5, <1>13, <1>14

\* The directory of a file that is whole says where the lists are.
LEMMA WholeMaps ==
  ASSUME index.of \in Versions, main = Image(index.of, Own(index.of)),
         index.length = Len(main), NEW i \in DOMAIN Sizes[index.of]
  PROVE  Mapped(i) = "ok"
<1>0. Base = 2
  BY DEF Base, Header
<1>1. PICK v, lists : v = index.of /\ lists = Own(v)
  OBVIOUS
<1>2. /\ v \in Versions /\ lists \in InMemory /\ Lengths(lists) = Sizes[v]
      /\ i \in 1 .. Len(lists)
  BY <1>1, OwnFacts, SizesFacts
<1>3. PICK off : Begins(Lengths(lists), off)
  BY <1>2, InMemoryFacts, BeginsExists
<1>4. DiskOffset(v, i) = off[i]
  BY <1>1, <1>2, <1>3, DiskOffsetIs
<1>5. off[i] \in Nat /\ HoldsAt(Image(v, lists), 4 + off[i], lists[i])
  BY <1>2, <1>3, WholeReads
<1>6. PICK at \in Nat : at = 4 + off[i] /\ Base + 1 + DiskOffset(index.of, i) + 1 = at
  <2>1. PICK o \in Nat : o = off[i] /\ DiskOffset(index.of, i) = o
    BY <1>1, <1>4, <1>5
  <2> QED
    BY <1>0, <2>1
<1>7. PICK size \in Nat : size = Len(lists[i]) /\ HoldsAt(main, at, lists[i])
  <2>1. HoldsAt(main, at, lists[i])
    BY <1>1, <1>5, <1>6
  <2> QED
    BY <2>1 DEF HoldsAt
<1>8. /\ main[at][1] = "length" /\ main[at][2] = size
      /\ ~(at > Len(main)) /\ ~(at + size > Len(main))
      /\ SubSeq(main, at + 1, at + size) = Own(index.of)[i]
  BY <1>1, <1>7 DEF HoldsAt
<1> QED
  BY <1>6, <1>8 DEF Mapped

-----------------------------------------------------------------------------
(* The inductive invariant.  Neither the file nor the checksum in it says  *)
(* who wrote it when: what the proofs need to remember is that a file is   *)
(* always what ONE save wrote, cut short and with holes (FilesOK), that a  *)
(* save in progress has written exactly what it has no longer to write     *)
(* (SaverOK), that a save which returned left both files whole (GoodOK),   *)
(* and how far a load has come in a file that no save has begun to         *)
(* overwrite since (SettledOK, WalkOK).                                    *)

Graphs == Versions \cup {NoVersion}

\* What can be saved: an index and its lists, or a mapped index and none.
Savable ==
  {x \in [of : Versions, mapped : BOOLEAN, lists : InMemory, graph : Graphs] :
     IF x.mapped THEN x.lists = <<>> ELSE Len(x.lists) = Len(Sizes[x.of])}

FilesOK ==
  /\ graph \in [of : Graphs, whole : BOOLEAN]
  /\ main = <<>> \/ \E x \in Savable : Torn(main, x.of, x.lists)

Saving(s, m, g) ==
  /\ s \in [pc : {"main", "hnsw"}, by : {"builder", "server"}, what : Savable,
            left : Seq(Pieces)]
  /\ m \in Seq(Pieces) /\ m \o s.left = Image(s.what.of, s.what.lists)
  /\ s.pc = "hnsw" => s.left = <<>> /\ g.of = s.what.graph

SaverOK == saver = Idle \/ (good = Nothing /\ Saving(saver, main, graph))

\* Both files are those of a save that returned.
Kept(x, m, g) ==
  /\ x \in Savable /\ m = Image(x.of, x.lists) /\ g = [of |-> x.graph, whole |-> TRUE]

GoodOK == good = Nothing \/ (saver = Idle /\ Kept(good, main, graph))

\* An index that is loaded, or as far as it is.
Held(x, n) ==
  /\ x \in [pc : {"header", "mapped", "lists", "loaded"}, of : Versions, mapped : BOOLEAN,
            length : Nat, at : Nat, lists : InMemory, graph : Graphs, settled : Nat,
            summed : Nat]
  /\ x.settled <= n /\ x.summed <= n
  /\ x.pc \in {"header", "mapped"} => x.lists = <<>>
  /\ x.pc = "lists" => x.at >= 4
  /\ x.pc = "loaded" => Len(x.lists) = Len(Sizes[x.of])

IndexOK ==
  \/ index = NoIndex
  \/ /\ Held(index, saves)
     /\ IF index.pc = "loaded" THEN result \in {"ok", "missing", "foreign"} ELSE result = "none"

\* What a load has read of the header, is there.
HeadOK ==
  index.pc \in {"header", "mapped", "lists"} =>
    \A n \in {1, 2} \cap DOMAIN main : main[n] # Hole

\* A load of what the last save left, that no save has overtaken.
SettledOK ==
  index.pc # "none" /\ index.settled = saves =>
    /\ good # Nothing /\ index.of = good.of
    /\ index.pc \in {"mapped", "lists"} => index.length = Len(main)
    /\ index.pc = "lists" => index.summed = saves

\* A load that no save has overtaken since its checksum was verified: it has the
\* first lists of the file, and the next is where it has come to.
Walking(x, y, m, off) ==
  /\ y.of = x.of /\ m = Image(y.of, y.lists) /\ x.length = Len(m)
  /\ Begins(Lengths(y.lists), off) /\ x.at = 4 + off[Len(x.lists) + 1]
  /\ Len(x.lists) <= Len(y.lists)
  /\ \A n \in 1 .. Len(x.lists) : x.lists[n] = y.lists[n]

WalkOK ==
  index.pc = "lists" /\ index.summed = saves =>
    \E y \in Savable : \E off : /\ Walking(index, y, main, off)
                                /\ index.settled = saves => y = good

CountsOK ==
  /\ result \in Results /\ saves \in 0..MaxSaves /\ faults \in 0..MaxFaults
  /\ main # <<>> \/ index.pc # "none" \/ saver # Idle => saves > 0

IInv ==
  /\ FilesOK /\ SaverOK /\ GoodOK /\ IndexOK /\ HeadOK /\ SettledOK /\ WalkOK /\ CountsOK

LEMMA SavableFacts ==
  ASSUME NEW x \in Savable
  PROVE  /\ x.of \in Versions /\ x.mapped \in BOOLEAN /\ x.lists \in InMemory
         /\ x.graph \in Graphs /\ x = Saved(x.of, x.mapped, x.lists, x.graph)
         /\ x.lists = <<>> \/ Len(x.lists) = Len(Sizes[x.of])
         /\ ~x.mapped => Len(x.lists) = Len(Sizes[x.of])
BY DEF Savable, Saved

\* Where nothing is loading the parts about loading say nothing.
LEMMA NoLoad ==
  ASSUME index' = NoIndex, result' \in Results,
         saves' \in 0..MaxSaves, faults' \in 0..MaxFaults, main' # <<>> \/ saver' # Idle => saves' > 0
  PROVE  IndexOK' /\ HeadOK' /\ SettledOK' /\ WalkOK' /\ CountsOK'
BY DEF IndexOK, HeadOK, SettledOK, WalkOK, CountsOK, NoIndex

-----------------------------------------------------------------------------
(* The steps of a save.                                                    *)

\* One piece moved from what is left to the file.
LEMMA OneMore ==
  ASSUME NEW S, NEW s \in Seq(S), NEW t \in Seq(S), t # <<>>
  PROVE  /\ Append(s, Head(t)) \in Seq(S) /\ Tail(t) \in Seq(S)
         /\ Append(s, Head(t)) \o Tail(t) = s \o t
<1>1. PICK h, r : h = Head(t) /\ r = Tail(t)
  OBVIOUS
<1>2. h \in S /\ r \in Seq(S) /\ Len(r) = Len(t) - 1 /\ \A i \in 1 .. Len(r) : r[i] = t[i + 1]
  BY <1>1, HeadTailProperties
<1>3. t[1] = h
  BY <1>1
<1>4. PICK one : one = <<h>>
  OBVIOUS
<1>5. one \in Seq(S) /\ Len(one) = 1 /\ one[1] = h
  BY <1>2, <1>4
<1>6. PICK m \in Nat : m = Len(r) /\ Len(t) = 1 + m
  BY <1>2, LenProperties
<1>7. /\ one \o r \in Seq(S) /\ Len(one \o r) = 1 + m
      /\ \A i \in 1 .. 1 + m : (one \o r)[i] = IF i <= 1 THEN one[i] ELSE r[i - 1]
  <2>1. /\ one \o r \in Seq(S) /\ Len(one \o r) = Len(one) + Len(r)
        /\ \A i \in 1 .. Len(one) + Len(r) :
             (one \o r)[i] = IF i <= Len(one) THEN one[i] ELSE r[i - Len(one)]
    <3>1. one \in Seq(S) /\ r \in Seq(S)
      BY <1>2, <1>5
    <3> QED
      BY <3>1, ConcatProperties
  <2> QED
    BY <1>5, <1>6, <2>1
<1>8. one \o r = t
  <2>1. ASSUME NEW i \in 1 .. 1 + m PROVE (one \o r)[i] = t[i]
    <3>1. CASE i = 1
      BY <1>3, <1>5, <1>7, <3>1
    <3>2. CASE i # 1
      <4>1. PICK k \in 1..m : i = k + 1 /\ i - 1 = k /\ ~(i <= 1)
        BY <3>2
      <4> QED
        BY <1>2, <1>6, <1>7, <4>1
    <3> QED
      BY <3>1, <3>2
  <2> QED
    BY <1>6, <1>7, <2>1, SeqEqual
<1>9. Append(s, h) = s \o one /\ Append(s, h) \in Seq(S)
  BY <1>2, <1>4, AppendIsConcat, AppendProperties
<1>10. (s \o one) \o r = s \o t
  <2>1. (s \o one) \o r = s \o (one \o r)
    BY <1>2, <1>5, ConcatAssociative
  <2> QED
    BY <1>8, <2>1
<1> QED
  BY <1>1, <1>2, <1>9, <1>10

\* What a save has written so far is torn, its header without a hole.
LEMMA WritingTorn ==
  ASSUME NEW v \in Versions, NEW lists \in InMemory, NEW m \in Seq(Pieces),
         NEW left \in Seq(Pieces), m \o left = Image(v, lists)
  PROVE  Torn(m, v, lists) /\ \A n \in {1, 2} \cap DOMAIN m : m[n] # Hole
<1>1. PICK a \in Nat : a = Len(m) /\ DOMAIN m = 1..a
  BY LenProperties
<1>2. PICK b \in Nat : b = Len(left)
  BY LenProperties
<1>3. PICK img : img = Image(v, lists)
  OBVIOUS
<1>4. Len(img) = a + b /\ \A i \in 1..a : img[i] = m[i]
  BY <1>1, <1>2, <1>3, InARow
<1>5. Len(m) <= Len(img) /\ \A n \in DOMAIN m : m[n] = img[n]
  BY <1>1, <1>4
<1>6. PICK body, n : Written(v, lists, body, img, n)
  BY <1>3, ImageFacts
<1>7. img[1] # Hole /\ img[2] # Hole
  <2>1. img[1] = <<"magic">> /\ img[2] = <<"directory", v>>
    BY <1>6 DEF Written
  <2> QED
    BY <2>1 DEF Hole
<1> QED
  BY <1>3, <1>5, <1>7 DEF Torn

\* What a save has not yet written to the end is no whole file.
LEMMA UnfinishedIsNotWhole ==
  ASSUME NEW v \in Versions, NEW lists \in InMemory, NEW m \in Seq(Pieces),
         NEW left \in Seq(Pieces), m \o left = Image(v, lists), left # <<>>,
         NEW u \in Versions, NEW others \in InMemory
  PROVE  m # Image(u, others)
<1> SUFFICES ASSUME m = Image(u, others) PROVE FALSE
  OBVIOUS
<1>1. PICK img : img = Image(v, lists)
  OBVIOUS
<1>2. PICK body, n : Written(v, lists, body, img, n)
  BY <1>1, ImageFacts
<1>3. PICK other, k : Written(u, others, other, m, k)
  BY ImageFacts
<1>4. PICK b \in Nat : b = Len(left) /\ b > 0
  <2>1. Len(left) \in Nat /\ Len(left) # 0
    BY LenProperties, EmptySeq
  <2> QED
    BY <2>1
<1>5. PICK l \in Nat : l = k + 4 /\ l = Len(m) /\ m[l] = Checksum(other)
  BY <1>3 DEF Written
<1>6. Len(img) = l + b /\ \A i \in 1..l : img[i] = m[i]
  <2>1. /\ m \in Seq(Pieces) /\ left \in Seq(Pieces) /\ l \in Nat /\ b \in Nat
        /\ Len(m) = l /\ Len(left) = b
    BY <1>4, <1>5
  <2>2. Len(m \o left) = l + b /\ \A i \in 1..l : (m \o left)[i] = m[i]
    BY ONLY <2>1, InARow
  <2> QED
    BY <1>1, <2>2
<1>7. l \in 1 .. n + 3 /\ body \in Seq(Content) /\ Len(body) = n + 3 /\ img[l] = body[l]
  <2>1. n \in Nat /\ k \in Nat /\ Len(img) = n + 4
    BY <1>2, <1>3 DEF Written
  <2>2. l \in 1 .. n + 3
    BY <1>4, <1>5, <1>6, <2>1
  <2> QED
    BY <1>2, <2>2 DEF Written
<1>8. body[l] \in Content
  BY <1>7, ElementOfSeq
<1>9. l \in 1..l
  BY <1>3, <1>5 DEF Written
<1>10. body[l][1] = "checksum"
  BY <1>5, <1>6, <1>7, <1>9 DEF Checksum
<1> QED
  BY <1>8, <1>10, BodyPieces

LEMMA Starts ==
  ASSUME IInv, NEW who \in {"builder", "server"}, NEW x \in Savable, SaveStarts(who, x)
  PROVE  IInv'
<1>1. FilesOK' /\ GoodOK'
  BY DEF IInv, FilesOK, GoodOK, SaveStarts, files
<1>2. SaverOK'
  <2>1. PICK img : img = Image(x.of, x.lists)
    OBVIOUS
  <2>2. PICK body, n : Written(x.of, x.lists, body, img, n)
    BY <2>1, SavableFacts, ImageFacts
  <2>3. img \in Seq(Pieces) /\ <<>> \in Seq(Pieces) /\ <<>> \o img = img
    BY <2>2, EmptySeq, ConcatEmptySeq DEF Written
  <2>4. /\ saver' = [pc |-> "main", by |-> who, what |-> x, left |-> img]
        /\ main' = <<>> /\ good' = Nothing
    BY <2>1 DEF SaveStarts
  <2>5. Saving(saver', main', graph')
    BY <2>1, <2>3, <2>4 DEF Saving
  <2> QED
    BY <2>4, <2>5 DEF SaverOK
<1>3. saves \in Nat /\ saves' = saves + 1 /\ saves' \in 0..MaxSaves
  BY StoreAssumption DEF IInv, CountsOK, SaveStarts
<1>4. CASE index = NoIndex
  <2>1. IndexOK' /\ HeadOK' /\ SettledOK' /\ WalkOK' /\ CountsOK'
    BY <1>3, <1>4, NoLoad DEF IInv, CountsOK, SaveStarts
  <2> QED
    BY <1>1, <1>2, <2>1 DEF IInv
<1>5. CASE index # NoIndex
  <2>1. Held(index, saves) /\ index' = index /\ result' = result
    BY <1>5 DEF IInv, IndexOK, SaveStarts
  <2>2. index.settled \in Nat /\ index.summed \in Nat /\ index.settled <= saves
        /\ index.summed <= saves
    BY <2>1 DEF Held
  <2>3. Held(index', saves')
    BY <1>3, <2>1, <2>2 DEF Held
  <2>4. IndexOK'
    BY <1>5, <2>1, <2>3 DEF IInv, IndexOK
  <2>5. SettledOK' /\ WalkOK'
    BY <1>3, <2>1, <2>2 DEF SettledOK, WalkOK
  <2>6. HeadOK'
    BY DEF HeadOK, SaveStarts
  <2>7. CountsOK'
    BY <1>3 DEF IInv, CountsOK, SaveStarts
  <2> QED
    BY <1>1, <1>2, <2>4, <2>5, <2>6, <2>7 DEF IInv
<1> QED
  BY <1>4, <1>5

\* The steps that touch neither what is loaded nor the main file.
LEMMA LoadStands ==
  ASSUME IInv, UNCHANGED <<index, main, saves>>, result' = result, faults' \in 0..MaxFaults,
         good = Nothing \/ good' = good, saver' = Idle \/ saver # Idle
  PROVE  IndexOK' /\ HeadOK' /\ SettledOK' /\ WalkOK' /\ CountsOK'
<1>1. IndexOK' /\ HeadOK' /\ CountsOK'
  BY DEF IInv, IndexOK, HeadOK, CountsOK
<1>2. SettledOK'
  BY DEF IInv, SettledOK
<1>3. WalkOK'
  <2> SUFFICES ASSUME index.pc = "lists", index.summed = saves
               PROVE  \E y \in Savable : \E off : /\ Walking(index, y, main, off)
                                                  /\ index.settled = saves => y = good'
    BY DEF WalkOK
  <2>1. PICK y, off : /\ y \in Savable /\ Walking(index, y, main, off)
                      /\ index.settled = saves => y = good
    BY DEF IInv, WalkOK
  <2>2. index.settled = saves => good # Nothing
    BY DEF IInv, SettledOK
  <2> QED
    BY <2>1, <2>2
<1> QED
  BY <1>1, <1>2, <1>3

LEMMA Writes ==
  ASSUME IInv, WriteMain
  PROVE  IInv'
<1>1. saver # Idle /\ good = Nothing /\ Saving(saver, main, graph)
  BY DEF IInv, SaverOK, WriteMain, Idle
<1>2. PICK x, left, v, lists : /\ x = saver.what /\ left = saver.left
                               /\ v = x.of /\ lists = x.lists
  OBVIOUS
<1>3. /\ x \in Savable /\ v \in Versions /\ lists \in InMemory /\ left # <<>>
      /\ main \in Seq(Pieces) /\ left \in Seq(Pieces) /\ main \o left = Image(v, lists)
  <2>1. x \in Savable
    BY <1>1, <1>2 DEF Saving
  <2> QED
    BY <1>1, <1>2, <2>1, SavableFacts DEF Saving, WriteMain
<1>4. PICK m, r : m = Append(main, Head(left)) /\ r = Tail(left)
  OBVIOUS
<1>5. m \in Seq(Pieces) /\ r \in Seq(Pieces) /\ m \o r = Image(v, lists)
  <2>1. main \in Seq(Pieces) /\ left \in Seq(Pieces) /\ left # <<>>
    BY <1>3
  <2>2. /\ Append(main, Head(left)) \in Seq(Pieces) /\ Tail(left) \in Seq(Pieces)
        /\ Append(main, Head(left)) \o Tail(left) = main \o left
    BY ONLY <2>1, OneMore
  <2> QED
    BY <1>3, <1>4, <2>2
<1>6. /\ main' = m /\ saver' = [saver EXCEPT !.left = r]
      /\ graph' = graph /\ good' = good /\ index' = index /\ saves' = saves
      /\ result' = result /\ faults' = faults
  BY <1>2, <1>4 DEF WriteMain
<1>7. FilesOK' /\ \A n \in {1, 2} \cap DOMAIN main' : main'[n] # Hole
  <2>1. Torn(m, v, lists) /\ \A n \in {1, 2} \cap DOMAIN m : m[n] # Hole
    BY <1>3, <1>5, WritingTorn
  <2> QED
    BY <1>2, <1>3, <1>6, <2>1 DEF IInv, FilesOK
<1>8. SaverOK'
  <2>1. saver.pc = "main"
    BY DEF WriteMain
  <2>2. saver'.pc = "main" /\ saver'.what = x /\ saver'.left = r
        /\ saver' \in [pc : {"main", "hnsw"}, by : {"builder", "server"}, what : Savable,
                       left : Seq(Pieces)]
    BY <1>1, <1>2, <1>5, <1>6, <2>1 DEF Saving
  <2>3. Saving(saver', main', graph')
    BY <1>2, <1>5, <1>6, <2>2 DEF Saving
  <2> QED
    BY <1>1, <1>6, <2>3 DEF SaverOK
<1>9. GoodOK'
  BY <1>1, <1>6 DEF GoodOK
<1>10. IndexOK' /\ HeadOK' /\ SettledOK'
  BY <1>1, <1>6, <1>7 DEF IInv, IndexOK, HeadOK, SettledOK
<1>11. WalkOK'
  <2> SUFFICES ASSUME index.pc = "lists", index.summed = saves PROVE FALSE
    BY <1>6 DEF WalkOK
  <2>1. PICK y, off : y \in Savable /\ Walking(index, y, main, off)
    BY DEF IInv, WalkOK
  <2>2. PICK u, others : u = y.of /\ others = y.lists
    OBVIOUS
  <2>3. u \in Versions /\ others \in InMemory /\ main = Image(u, others)
    BY <2>1, <2>2, SavableFacts DEF Walking
  <2> QED
    BY <1>3, <2>3, UnfinishedIsNotWhole
<1>12. CountsOK'
  BY <1>1, <1>6 DEF IInv, CountsOK
<1> QED
  BY <1>7, <1>8, <1>9, <1>10, <1>11, <1>12 DEF IInv

LEMMA Dumps ==
  ASSUME IInv, DumpStarts
  PROVE  IInv'
<1>1. saver # Idle /\ good = Nothing /\ Saving(saver, main, graph)
  BY DEF IInv, SaverOK, DumpStarts, Idle
<1>2. PICK x : x = saver.what /\ x \in Savable /\ x.graph \in Graphs
  BY <1>1, SavableFacts DEF Saving
<1>3. /\ main' = main /\ saver' = [saver EXCEPT !.pc = "hnsw"] /\ saver.left = <<>>
      /\ graph' = [of |-> x.graph, whole |-> FALSE] /\ good' = good /\ index' = index
      /\ saves' = saves /\ result' = result /\ faults' = faults
  BY <1>2 DEF DumpStarts, Dumped
<1>4. FilesOK' /\ GoodOK'
  BY <1>1, <1>2, <1>3 DEF IInv, FilesOK, GoodOK
<1>5. SaverOK'
  <2>1. saver'.pc = "hnsw" /\ saver'.what = x /\ saver'.left = saver.left
        /\ saver' \in [pc : {"main", "hnsw"}, by : {"builder", "server"}, what : Savable,
                       left : Seq(Pieces)]
    BY <1>1, <1>2, <1>3 DEF Saving
  <2>2. Saving(saver', main', graph')
    BY <1>1, <1>2, <1>3, <2>1 DEF Saving
  <2> QED
    BY <1>1, <1>3, <2>2 DEF SaverOK
<1>6. IndexOK' /\ HeadOK' /\ SettledOK' /\ WalkOK' /\ CountsOK'
  <2>1. faults' \in 0..MaxFaults
    BY <1>3 DEF IInv, CountsOK
  <2> QED
    BY <1>1, <1>3, <2>1, LoadStands
<1> QED
  BY <1>4, <1>5, <1>6 DEF IInv

LEMMA Returns ==
  ASSUME IInv, SaveReturns
  PROVE  IInv'
<1>1. saver # Idle /\ good = Nothing /\ Saving(saver, main, graph)
  BY DEF IInv, SaverOK, SaveReturns, Idle
<1>2. PICK x : x = saver.what
  OBVIOUS
<1>3. x \in Savable /\ saver.left = <<>> /\ graph.of = x.graph /\ main \in Seq(Pieces)
      /\ main \o saver.left = Image(x.of, x.lists)
  BY <1>1, <1>2 DEF Saving, SaveReturns
<1>4. main = Image(x.of, x.lists)
  BY <1>3, ConcatEmptySeq
<1>5. graph \in [of : Graphs, whole : BOOLEAN]
  BY DEF IInv, FilesOK
<1>6. /\ main' = main /\ graph' = [of |-> x.graph, whole |-> TRUE] /\ good' = x
      /\ saver' = Idle /\ index' = index
      /\ saves' = saves /\ result' = result /\ faults' = faults
  BY <1>2, <1>3, <1>5 DEF SaveReturns
<1>7. FilesOK'
  BY <1>3, <1>6, SavableFacts DEF IInv, FilesOK
<1>8. SaverOK'
  BY <1>6 DEF SaverOK
<1>9. GoodOK'
  <2>1. Kept(good', main', graph')
    BY <1>3, <1>4, <1>6 DEF Kept
  <2> QED
    BY <1>6, <2>1 DEF GoodOK
<1>10. IndexOK' /\ HeadOK' /\ SettledOK' /\ WalkOK' /\ CountsOK'
  <2>1. faults' \in 0..MaxFaults
    BY <1>6 DEF IInv, CountsOK
  <2> QED
    BY <1>1, <1>6, <2>1, LoadStands
<1> QED
  BY <1>7, <1>8, <1>9, <1>10 DEF IInv

LEMMA Stops ==
  ASSUME IInv, SaveStops
  PROVE  IInv'
<1>1. FilesOK' /\ SaverOK'
  BY DEF IInv, FilesOK, SaverOK, SaveStops
<1>2. good = Nothing /\ good' = Nothing
  BY DEF IInv, SaverOK, SaveStops
<1>3. GoodOK'
  BY <1>2 DEF GoodOK
<1>4. IndexOK' /\ HeadOK' /\ SettledOK' /\ WalkOK' /\ CountsOK'
  <2>1. faults' \in 0..MaxFaults
    BY StoreAssumption DEF IInv, CountsOK, SaveStops
  <2> QED
    BY <1>2, <2>1, LoadStands DEF SaveStops
<1> QED
  BY <1>1, <1>3, <1>4 DEF IInv

-----------------------------------------------------------------------------
(* The steps of a load, and the rest.                                      *)

LEMMA StopsLoad ==
  ASSUME IInv, NEW how \in {"error", "panic", "sigbus"}, LoadStops(how), LoadStepLeaves
  PROVE  IInv'
<1>1. FilesOK' /\ SaverOK' /\ GoodOK'
  BY DEF IInv, FilesOK, SaverOK, GoodOK, LoadStepLeaves, files
<1>2. IndexOK' /\ HeadOK' /\ SettledOK' /\ WalkOK' /\ CountsOK'
  <2>1. index' = NoIndex /\ result' \in Results
    BY DEF LoadStops, Results
  <2>2. /\ saves' \in 0..MaxSaves /\ faults' \in 0..MaxFaults
        /\ main' # <<>> \/ saver' # Idle => saves' > 0
    BY DEF IInv, CountsOK, LoadStepLeaves, files
  <2> QED
    BY <2>1, <2>2, NoLoad
<1> QED
  BY <1>1, <1>2 DEF IInv

\* A step of a load that goes on leaves all that is not its own.
LEMMA LoadGoesOn ==
  ASSUME IInv, LoadStepLeaves, IndexOK', HeadOK', SettledOK', WalkOK',
         result' \in Results, saves > 0
  PROVE  IInv'
<1>1. FilesOK' /\ SaverOK' /\ GoodOK'
  BY DEF IInv, FilesOK, SaverOK, GoodOK, LoadStepLeaves, files
<1>2. CountsOK'
  BY DEF IInv, CountsOK, LoadStepLeaves
<1> QED
  BY <1>1, <1>2 DEF IInv

\* The header of a file with a header.
LEMMA HeaderFacts ==
  ASSUME IInv, HeaderReads
  PROVE  /\ main # <<>> /\ main[1] # Hole /\ main[2] # Hole
         /\ main[Base][2] \in Versions
         /\ good # Nothing => main[Base][2] = good.of
<1>0. Base = 2
  BY DEF Base, Header
<1>1. main[1] # Hole /\ main[2] # Hole /\ Len(main) >= 2
  BY <1>0 DEF HeaderReads
<1>2. main # <<>>
  BY <1>1
<1>3. PICK x \in Savable : Torn(main, x.of, x.lists)
  BY <1>2 DEF IInv, FilesOK
<1>4. ASSUME NEW y \in Savable, NEW img, img = Image(y.of, y.lists)
      PROVE  img[2] = <<"directory", y.of>>
  <2>1. PICK body, n : Written(y.of, y.lists, body, img, n)
    BY <1>4, ImageFacts, SavableFacts
  <2> QED
    BY <2>1 DEF Written
<1>5. 2 \in DOMAIN main
  BY <1>1, <1>3, LenProperties DEF Torn
<1>6. main[2] = <<"directory", x.of>>
  BY <1>1, <1>3, <1>4, <1>5 DEF Torn
<1>7. ASSUME good # Nothing PROVE main[2] = <<"directory", good.of>>
  BY <1>4, <1>7 DEF IInv, GoodOK, Kept
<1> QED
  BY <1>0, <1>1, <1>2, <1>6, <1>7, SavableFacts

LEMMA LoadsHeader ==
  ASSUME IInv, NEW mapped \in BOOLEAN, LoadHeader(mapped)
  PROVE  IInv'
<1>1. LoadStepLeaves
  BY DEF LoadHeader
<1>2. CASE ~HeaderReads
  BY <1>1, <1>2, StopsLoad DEF LoadHeader
<1>3. CASE HeaderReads
  <2>1. PICK of, settled : of = main[Base][2] /\ settled = IF good = Nothing THEN 0 ELSE saves
    OBVIOUS
  <2>2. /\ index' = [pc |-> "header", of |-> of, mapped |-> mapped, length |-> 0, at |-> 0,
                     lists |-> <<>>, graph |-> NoVersion, settled |-> settled, summed |-> 0]
        /\ result' = "none"
    BY <1>3, <2>1 DEF LoadHeader, NoIndex
  <2>3. /\ of \in Versions /\ main # <<>> /\ main[1] # Hole /\ main[2] # Hole
        /\ good # Nothing => of = good.of
    BY <1>3, <2>1, HeaderFacts
  <2>4. saves \in Nat /\ saves > 0
    BY <2>3, StoreAssumption DEF IInv, CountsOK
  <2>5. settled \in Nat /\ settled <= saves /\ (settled = saves => good # Nothing)
    BY <2>1, <2>4
  <2>6. <<>> \in InMemory
    BY EmptySeq DEF InMemory
  <2>7. Held(index', saves)
    BY <2>2, <2>3, <2>4, <2>5, <2>6 DEF Held, Graphs
  <2>8. IndexOK' /\ HeadOK' /\ SettledOK' /\ WalkOK' /\ result' \in Results
    <3>1. main' = main /\ saves' = saves /\ good' = good
      BY <1>1 DEF LoadStepLeaves, files
    <3>2. index'.pc = "header" /\ index'.of = of /\ index'.settled = settled
      BY <2>2
    <3>3. IndexOK'
      BY <2>2, <2>7, <3>1, <3>2 DEF IndexOK
    <3>4. HeadOK'
      BY <2>3, <3>1 DEF HeadOK
    <3>5. SettledOK' /\ WalkOK' /\ result' \in Results
      BY <2>2, <2>3, <2>5, <3>1, <3>2 DEF SettledOK, WalkOK, Results
    <3> QED
      BY <3>3, <3>4, <3>5
  <2> QED
    BY <1>1, <2>4, <2>8, LoadGoesOn
<1> QED
  BY <1>2, <1>3

\* What is known of a load that is under way.
LEMMA HeldFacts ==
  ASSUME IInv, index.pc # "none"
  PROVE  /\ Held(index, saves) /\ index # NoIndex /\ index.of \in Versions
         /\ saves \in Nat /\ saves > 0
         /\ index.pc # "loaded" => result = "none"
<1>1. index # NoIndex
  BY DEF NoIndex
<1>2. Held(index, saves) /\ (index.pc # "loaded" => result = "none")
  BY <1>1 DEF IInv, IndexOK
<1>3. saves \in Nat /\ saves > 0
  BY StoreAssumption DEF IInv, CountsOK
<1> QED
  BY <1>1, <1>2, <1>3 DEF Held

LEMMA Maps ==
  ASSUME IInv, MapMain
  PROVE  IInv'
<1>1. LoadStepLeaves /\ index.pc = "header" /\ result' = result
  BY DEF MapMain
<1>2. Held(index, saves) /\ saves > 0 /\ result = "none"
  BY <1>1, HeldFacts
<1>3. PICK len : len = Len(main)
  OBVIOUS
<1>4. len \in Nat
  <2>1. CASE main = <<>>
    BY <1>3, <2>1
  <2>2. CASE main # <<>>
    BY <1>3, <2>2, LenProperties DEF IInv, FilesOK, Torn
  <2> QED
    BY <2>1, <2>2
<1>5. index' = [index EXCEPT !.pc = "mapped", !.length = len]
  BY <1>3 DEF MapMain
<1>6. /\ index'.pc = "mapped" /\ index'.of = index.of /\ index'.settled = index.settled
      /\ index'.length = len /\ Held(index', saves)
  BY <1>1, <1>2, <1>4, <1>5 DEF Held
<1>7. main' = main /\ saves' = saves /\ good' = good
  BY <1>1 DEF LoadStepLeaves, files
<1>8. IndexOK' /\ HeadOK' /\ WalkOK' /\ result' \in Results
  BY <1>1, <1>2, <1>6, <1>7 DEF IInv, IndexOK, HeadOK, WalkOK, Results
<1>9. SettledOK'
  BY <1>1, <1>3, <1>6, <1>7 DEF IInv, SettledOK
<1> QED
  BY <1>1, <1>2, <1>8, <1>9, LoadGoesOn

\* What verify_checksum lets through is one whole file, and of a settled load it
\* lets everything through.
LEMMA VerifyFacts ==
  ASSUME IInv, index.pc = "mapped"
  PROVE  /\ /\ ~(index.length - 1 < Base) /\ ~(index.length > Len(main)) /\ ChecksumMatches
            => \E y \in Savable : /\ y.of = index.of /\ main = Image(y.of, y.lists)
                                  /\ index.length = Len(main)
                                  /\ index.settled = saves => y = good
         /\ index.settled = saves
            => ~(index.length - 1 < Base) /\ ~(index.length > Len(main)) /\ ChecksumMatches
<1>0. Base = 2
  BY DEF Base, Header
<1>1. Held(index, saves) /\ index.of \in Versions
  BY HeldFacts
<1>2. index.length \in Nat
  BY <1>1 DEF Held
<1>3. ASSUME index.settled = saves
      PROVE  /\ good \in Savable /\ good.of = index.of /\ main = Image(good.of, good.lists)
             /\ index.length = Len(main)
  BY <1>3 DEF IInv, SettledOK, GoodOK, Kept
<1>4. ASSUME index.settled = saves
      PROVE  ~(index.length - 1 < Base) /\ ~(index.length > Len(main)) /\ ChecksumMatches
  <2>1. PICK lists : lists = good.lists /\ lists \in InMemory
    BY <1>3, <1>4, SavableFacts
  <2>2. main = Image(index.of, lists) /\ index.length = Len(main)
    BY <1>3, <1>4, <2>1
  <2> QED
    BY <1>1, <2>1, <2>2, WholeSums
<1>5. ASSUME ~(index.length - 1 < Base), ~(index.length > Len(main)), ChecksumMatches
      PROVE  \E y \in Savable : /\ y.of = index.of /\ main = Image(y.of, y.lists)
                                /\ index.length = Len(main)
                                /\ index.settled = saves => y = good
  <2>1. CASE index.settled = saves
    BY <1>3, <2>1
  <2>2. CASE index.settled # saves
    <3>1. main # <<>>
      BY <1>0, <1>2, <1>5
    <3>2. PICK x \in Savable : Torn(main, x.of, x.lists)
      BY <3>1 DEF IInv, FilesOK
    <3>3. PICK l \in Nat : l = Len(main) /\ DOMAIN main = 1..l /\ l >= 3
      BY <1>0, <1>2, <1>5, <3>2, LenProperties DEF Torn
    <3>4. main[1] # Hole /\ main[2] # Hole
      BY <3>3 DEF IInv, HeadOK
    <3>5. PICK v, lists : v = x.of /\ lists = x.lists /\ v \in Versions /\ lists \in InMemory
      BY SavableFacts
    <3>6. index.of = v /\ index.length = Len(main) /\ main = Image(v, lists)
      <4>1. Torn(main, v, lists)
        BY <3>2, <3>5
      <4> QED
        BY <1>1, <1>2, <1>5, <3>4, <3>5, <4>1, SumProves
    <3> QED
      BY <2>2, <3>5, <3>6
  <2> QED
    BY <2>1, <2>2
<1> QED
  BY <1>4, <1>5

LEMMA Verifies ==
  ASSUME IInv, VerifyChecksum
  PROVE  IInv'
<1>0. Base = 2
  BY DEF Base, Header
<1>1. LoadStepLeaves /\ index.pc = "mapped"
  BY DEF VerifyChecksum
<1>2. CASE \E how \in {"error", "panic", "sigbus"} : LoadStops(how)
  BY <1>1, <1>2, StopsLoad
<1>3. CASE /\ ~(index.length - 1 < Base) /\ ~(index.length > Len(main)) /\ ChecksumMatches
           /\ index' = [index EXCEPT !.pc = "lists", !.at = Base + 2, !.summed = saves]
           /\ result' = result
  <2>1. /\ Held(index, saves) /\ saves \in Nat /\ saves > 0 /\ result = "none"
        /\ index.of \in Versions
    BY <1>1, HeldFacts
  <2>2. index' = [index EXCEPT !.pc = "lists", !.at = 4, !.summed = saves]
    BY <1>0, <1>3
  <2>3. index.lists = <<>>
    BY <1>1, <2>1 DEF Held
  <2>4. /\ index'.pc = "lists" /\ index'.of = index.of /\ index'.settled = index.settled
        /\ index'.length = index.length /\ index'.lists = <<>> /\ index'.at = 4
        /\ index'.summed = saves
    BY <2>1, <2>2, <2>3 DEF Held
  <2>5. Held(index', saves)
    <3>1. index' \in [pc : {"header", "mapped", "lists", "loaded"}, of : Versions,
                      mapped : BOOLEAN, length : Nat, at : Nat, lists : InMemory,
                      graph : Graphs, settled : Nat, summed : Nat]
      BY <2>1, <2>2 DEF Held
    <3> QED
      BY <2>1, <2>4, <3>1 DEF Held
  <2>6. main' = main /\ saves' = saves /\ good' = good
    BY <1>1 DEF LoadStepLeaves, files
  <2>7. IndexOK' /\ HeadOK' /\ result' \in Results
    BY <1>1, <1>3, <2>1, <2>4, <2>5, <2>6 DEF IInv, IndexOK, HeadOK, Results
  <2>8. SettledOK'
    BY <1>1, <2>4, <2>6 DEF IInv, SettledOK
  <2>9. WalkOK'
    <3>1. PICK y \in Savable : /\ y.of = index.of /\ main = Image(y.of, y.lists)
                               /\ index.length = Len(main)
                               /\ index.settled = saves => y = good
      BY <1>1, <1>3, VerifyFacts
    <3>2. y.lists \in InMemory
      BY SavableFacts
    <3>3. PICK off : Begins(Lengths(y.lists), off)
      BY <3>2, InMemoryFacts, BeginsExists
    <3>4. off[1] = 0 /\ Len(y.lists) \in Nat
      BY <3>2, <3>3, InMemoryFacts DEF Begins
    <3>5. Len(index'.lists) = 0
      BY <2>4
    <3>6. Walking(index', y, main, off)
      BY <2>4, <3>1, <3>3, <3>4, <3>5 DEF Walking
    <3> QED
      BY <2>4, <2>6, <3>1, <3>6 DEF WalkOK
  <2> QED
    BY <1>1, <2>1, <2>7, <2>8, <2>9, LoadGoesOn
<1> QED
  BY <1>2, <1>3 DEF VerifyChecksum, ReadsPastEnd

\* A walk that no save has overtaken reads the list it is at, unless it has read
\* them all.
NextIs(x, y, m, off, n) ==
  /\ n + 1 \in 1 .. Len(y.lists) /\ HoldsAt(m, x.at, y.lists[n + 1])
  /\ off[n + 2] = off[n + 1] + Len(y.lists[n + 1]) + 1
  /\ off[n + 1] \in Nat /\ x.at = 4 + off[n + 1] /\ x.length = Len(m)

LEMMA WalkReads ==
  ASSUME NEW x, NEW y \in Savable, NEW m, NEW off, NEW n \in Nat, Walking(x, y, m, off),
         n = Len(x.lists), ~(x.at >= x.length) \/ n # Len(y.lists)
  PROVE  NextIs(x, y, m, off, n)
<1>1. PICK v, lists : /\ v = y.of /\ lists = y.lists /\ v \in Versions /\ lists \in InMemory
                      /\ Len(lists) \in Nat
  BY SavableFacts, InMemoryFacts
<1>2. /\ m = Image(v, lists) /\ x.length = Len(m) /\ Begins(Lengths(lists), off)
      /\ x.at = 4 + off[n + 1] /\ n <= Len(lists)
  BY <1>1 DEF Walking
<1>3. n # Len(lists)
  <2> SUFFICES ASSUME n = Len(lists) PROVE x.at >= x.length
    BY <1>1
  <2>1. off[n + 1] \in Nat /\ Len(m) = 4 + off[n + 1]
    BY <1>1, <1>2, WholeEnds
  <2> QED
    BY <1>2, <2>1
<1>4. PICK j \in 1 .. Len(lists) : j = n + 1 /\ j + 1 = n + 2
  <2>1. n + 1 \in 1 .. Len(lists) /\ n + 1 + 1 = n + 2
    BY <1>1, <1>2, <1>3
  <2> QED
    BY <2>1
<1>5. /\ off[j] \in Nat /\ off[j + 1] = off[j] + Len(lists[j]) + 1
      /\ HoldsAt(m, 4 + off[j], lists[j])
  BY <1>1, <1>2, WholeReads
<1> QED
  BY <1>1, <1>2, <1>4, <1>5 DEF NextIs

\* One more list read, behind the ones that were.
LEMMA ReadsOn ==
  ASSUME IInv, index.pc = "lists", LoadStepLeaves, NEW size, NEW end,
         ~(index.at >= index.length), ~(index.at > Len(main)), main[index.at][1] = "length",
         size = main[index.at][2], end = index.at + size,
         ~(end >= index.length), ~(end > Len(main)),
         index' = [index EXCEPT !.at = end + 1,
                                !.lists = Append(@, SubSeq(main, index.at + 1, end))],
         result' = result
  PROVE  IInv'
<1>1. /\ Held(index, saves) /\ saves \in Nat /\ saves > 0 /\ result = "none"
      /\ index.of \in Versions
  BY HeldFacts
<1>2. PICK at, lists, len : /\ at = index.at /\ lists = index.lists /\ len = index.length
                            /\ at \in Nat /\ at >= 4 /\ lists \in InMemory /\ len \in Nat
  BY <1>1 DEF Held
<1>3. main # <<>>
  BY <1>2
<1>4. PICK z \in Savable : Torn(main, z.of, z.lists)
  BY <1>3 DEF IInv, FilesOK
<1>5. PICK l \in Nat : l = Len(main)
  BY <1>4, LenProperties DEF Torn
<1>6. PICK list : list = SubSeq(main, at + 1, end)
  OBVIOUS
<1>7. size \in Nat /\ list \in Seq(Data)
  <2>1. z.of \in Versions /\ z.lists \in InMemory /\ at <= Len(main) /\ main[at][1] = "length"
    BY <1>2, <1>5, SavableFacts
  <2>2. size \in Nat
    BY <1>2, <1>4, <2>1, TornReads
  <2>3. at + size <= Len(main)
    BY <1>2, <1>5, <2>2
  <2>4. SubSeq(main, at + 1, at + main[at][2]) \in Seq(Data)
    BY <1>2, <1>4, <2>1, <2>3, TornReads
  <2> QED
    BY <1>2, <1>6, <2>2, <2>4
<1>8. PICK n \in Nat : n = Len(lists)
  BY <1>2, InMemoryFacts
<1>9. PICK more : more = Append(lists, list)
  OBVIOUS
<1>10. /\ more \in InMemory /\ Len(more) = n + 1 /\ more[n + 1] = list
       /\ \A i \in 1..n : more[i] = lists[i]
  <2>1. lists \in Seq(Seq(Data))
    BY <1>2 DEF InMemory
  <2>2. /\ Append(lists, list) \in Seq(Seq(Data)) /\ Len(Append(lists, list)) = Len(lists) + 1
        /\ \A i \in 1 .. Len(lists) : Append(lists, list)[i] = lists[i]
        /\ Append(lists, list)[Len(lists) + 1] = list
    BY <1>7, <2>1, AppendProperties
  <2> QED
    BY <1>8, <1>9, <2>2 DEF InMemory
<1>11. PICK next \in Nat : next = end + 1 /\ next >= 4
  BY <1>2, <1>7
<1>12. index' = [index EXCEPT !.at = next, !.lists = more]
  BY <1>2, <1>6, <1>9, <1>11
<1>13. /\ index'.pc = "lists" /\ index'.of = index.of /\ index'.settled = index.settled
       /\ index'.length = len /\ index'.lists = more /\ index'.at = next
       /\ index'.summed = index.summed
       /\ index' \in [pc : {"header", "mapped", "lists", "loaded"}, of : Versions,
                      mapped : BOOLEAN, length : Nat, at : Nat, lists : InMemory,
                      graph : Graphs, settled : Nat, summed : Nat]
  BY <1>1, <1>2, <1>10, <1>12 DEF Held
<1>14. Held(index', saves)
  BY <1>1, <1>11, <1>13 DEF Held
<1>15. main' = main /\ saves' = saves /\ good' = good
  BY DEF LoadStepLeaves, files
<1>16. IndexOK' /\ HeadOK' /\ result' \in Results
  BY <1>1, <1>13, <1>14, <1>15 DEF IInv, IndexOK, HeadOK, Results
<1>17. SettledOK'
  BY <1>2, <1>13, <1>15 DEF IInv, SettledOK
<1>18. WalkOK'
  <2> SUFFICES ASSUME index.summed = saves
               PROVE  \E y \in Savable : \E off : /\ Walking(index', y, main, off)
                                                  /\ index.settled = saves => y = good
    BY <1>13, <1>15 DEF WalkOK
  <2>1. PICK y, off : /\ y \in Savable /\ Walking(index, y, main, off)
                      /\ index.settled = saves => y = good
    BY DEF IInv, WalkOK
  <2>2. PICK x : x = index
    OBVIOUS
  <2>3. /\ n = Len(x.lists) /\ ~(x.at >= x.length) /\ Walking(x, y, main, off)
        /\ n \in Nat /\ y \in Savable
    BY <1>2, <1>8, <2>1, <2>2
  <2>n. NextIs(x, y, main, off, n)
    BY ONLY <2>3, WalkReads
  <2>4. /\ n + 1 \in 1 .. Len(y.lists) /\ HoldsAt(main, x.at, y.lists[n + 1])
        /\ off[n + 2] = off[n + 1] + Len(y.lists[n + 1]) + 1
        /\ off[n + 1] \in Nat /\ x.at = 4 + off[n + 1] /\ x.length = Len(main)
    BY <2>n DEF NextIs
  <2>5. PICK found : found = y.lists[n + 1]
    OBVIOUS
  <2>6. Len(found) \in Nat /\ size = Len(found) /\ list = found
    <3>1. /\ Len(found) \in Nat /\ main[at] = <<"length", Len(found)>>
          /\ SubSeq(main, at + 1, at + Len(found)) = found
      BY <1>2, <2>2, <2>4, <2>5 DEF HoldsAt
    <3>2. size = Len(found)
      BY <1>2, <3>1
    <3> QED
      BY <1>2, <1>6, <3>1, <3>2
  <2>7. next = 4 + off[n + 2]
    <3>1. PICK o \in Nat : o = off[n + 1]
      BY <2>4
    <3>2. off[n + 2] = o + size + 1 /\ at = 4 + o
      BY <1>2, <2>2, <2>4, <2>5, <2>6, <3>1
    <3>3. PICK a, s, e : a = at /\ s = size /\ e = off[n + 2]
      OBVIOUS
    <3>4. a \in Nat /\ s \in Nat /\ next = a + s + 1
      BY <1>2, <1>7, <1>11, <3>3
    <3>5. e = o + s + 1 /\ a = 4 + o
      BY <3>2, <3>3
    <3>6. next = 4 + e
      BY ONLY <3>1, <3>4, <3>5
    <3> QED
      BY <3>3, <3>6
  <2>8. ASSUME NEW i \in 1 .. n + 1 PROVE more[i] = y.lists[i]
    <3>1. CASE i = n + 1
      BY <1>10, <2>5, <2>6, <3>1
    <3>2. CASE i # n + 1
      <4>1. i \in 1..n
        BY <3>2, SMTT(60)
      <4> QED
        BY <1>2, <1>8, <1>10, <2>1, <4>1 DEF Walking
    <3> QED
      BY <3>1, <3>2
  <2>9. Walking(index', y, main, off)
    <3>1. n + 1 + 1 = n + 2 /\ n + 1 <= Len(y.lists)
      BY <2>4
    <3>2. PICK k : k = n + 2 /\ k = Len(more) + 1
      BY <1>10, <3>1
    <3>3. next = 4 + off[k] /\ next = 4 + off[Len(more) + 1]
      BY <2>7, <3>2
    <3>4. y.of = index.of /\ main = Image(y.of, y.lists) /\ len = Len(main)
          /\ Begins(Lengths(y.lists), off)
      BY <1>2, <2>1 DEF Walking
    <3>5. Len(more) <= Len(y.lists) /\ \A i \in 1 .. Len(more) : more[i] = y.lists[i]
      BY <1>10, <2>8, <3>1
    <3> QED
      BY <1>13, <3>3, <3>4, <3>5 DEF Walking
  <2> QED
    BY <2>1, <2>9
<1> QED
  BY <1>1, <1>16, <1>17, <1>18, LoadGoesOn

LEMMA ReadsList ==
  ASSUME IInv, ReadList
  PROVE  IInv'
<1>1. LoadStepLeaves /\ index.pc = "lists"
  BY DEF ReadList
<1>2. CASE \E how \in {"error", "panic", "sigbus"} : LoadStops(how)
  BY <1>1, <1>2, StopsLoad
<1>3. PICK size, end : size = main[index.at][2] /\ end = index.at + size
  OBVIOUS
<1>4. CASE /\ ~(index.at >= index.length) /\ ~(index.at > Len(main))
           /\ main[index.at][1] = "length"
           /\ ~(end >= index.length) /\ ~(end > Len(main))
           /\ index' = [index EXCEPT !.at = end + 1,
                                     !.lists = Append(@, SubSeq(main, index.at + 1, end))]
           /\ result' = result
  BY <1>1, <1>3, <1>4, ReadsOn
<1> QED
  BY <1>2, <1>3, <1>4 DEF ReadList, ReadsPastEnd, Misreads

LEMMA LoadsHnsw ==
  ASSUME IInv, LoadHnsw
  PROVE  IInv'
<1>1. LoadStepLeaves /\ index.pc = "lists"
  BY DEF LoadHnsw
<1>2. CASE LoadStops("error")
  BY <1>1, <1>2, StopsLoad
<1>3. CASE /\ index' = [index EXCEPT !.pc = "loaded", !.graph = graph.of]
           /\ result' = "ok"
  <2>1. Held(index, saves) /\ saves > 0
    BY <1>1, HeldFacts
  <2>2. graph.of \in Graphs
    BY DEF IInv, FilesOK
  <2>3. Len(index.lists) = Len(Sizes[index.of])
    BY DEF LoadHnsw, AllRead
  <2>4. /\ index'.pc = "loaded" /\ index'.of = index.of /\ index'.settled = index.settled
        /\ index'.lists = index.lists
    BY <1>3, <2>1 DEF Held
  <2>5. Held(index', saves)
    BY <1>1, <1>3, <2>1, <2>2, <2>3, <2>4 DEF Held
  <2>6. main' = main /\ saves' = saves /\ good' = good
    BY <1>1 DEF LoadStepLeaves, files
  <2>7. IndexOK' /\ HeadOK' /\ WalkOK' /\ result' \in Results
    BY <1>3, <2>4, <2>5, <2>6 DEF IndexOK, HeadOK, WalkOK, Results
  <2>8. SettledOK'
    BY <1>1, <2>4, <2>6 DEF IInv, SettledOK
  <2> QED
    BY <1>1, <2>1, <2>7, <2>8, LoadGoesOn
<1> QED
  BY <1>2, <1>3 DEF LoadHnsw

LEMMA Unloads ==
  ASSUME IInv, Unload
  PROVE  IInv'
<1>1. FilesOK' /\ SaverOK' /\ GoodOK'
  BY DEF IInv, FilesOK, SaverOK, GoodOK, Unload, LoadStepLeaves, files
<1>2. IndexOK' /\ HeadOK' /\ SettledOK' /\ WalkOK' /\ CountsOK'
  <2>1. /\ index' = NoIndex /\ result' \in Results
        /\ saves' \in 0..MaxSaves /\ faults' \in 0..MaxFaults
        /\ main' # <<>> \/ saver' # Idle => saves' > 0
    BY DEF IInv, CountsOK, Unload, LoadStepLeaves, files, Results
  <2> QED
    BY <2>1, NoLoad
<1> QED
  BY <1>1, <1>2 DEF IInv

LEMMA MappedResults ==
  ASSUME NEW i
  PROVE  Mapped(i) \in {"ok", "missing", "foreign", "sigbus"}
BY DEF Mapped

LEMMA Searches ==
  ASSUME IInv, Search
  PROVE  IInv'
<1>1. result' \in {"ok", "missing", "foreign", "sigbus"}
  BY MappedResults DEF Search
<1>2. FilesOK' /\ GoodOK'
  BY DEF IInv, FilesOK, GoodOK, Search, files
<1>3. SaverOK'
  BY DEF IInv, SaverOK, Search, files
<1>4. IndexOK' /\ HeadOK' /\ SettledOK' /\ WalkOK' /\ CountsOK'
  <2>1. CASE result' = "sigbus"
    <3>1. /\ index' = NoIndex /\ result' \in Results
          /\ saves' \in 0..MaxSaves /\ faults' \in 0..MaxFaults
          /\ main' # <<>> \/ saver' # Idle => saves' > 0
      BY <2>1 DEF IInv, CountsOK, Search, files, Results
    <3> QED
      BY <3>1, NoLoad
  <2>2. CASE result' # "sigbus"
    <3>1. index' = index /\ index.pc = "loaded" /\ saver' = saver
          /\ main' = main /\ saves' = saves /\ good' = good /\ faults' = faults
      BY <2>2 DEF Search, files
    <3>2. Held(index, saves)
      BY <3>1, HeldFacts
    <3>3. IndexOK' /\ HeadOK' /\ WalkOK'
      BY <1>1, <2>2, <3>1, <3>2 DEF IndexOK, HeadOK, WalkOK
    <3>4. SettledOK' /\ CountsOK'
      BY <1>1, <3>1 DEF IInv, SettledOK, CountsOK, Results
    <3> QED
      BY <3>3, <3>4
  <2> QED
    BY <2>1, <2>2
<1> QED
  BY <1>2, <1>3, <1>4 DEF IInv

LEMMA Dies ==
  ASSUME IInv, ServerDies
  PROVE  IInv'
<1>1. FilesOK' /\ SaverOK' /\ GoodOK'
  BY DEF IInv, FilesOK, SaverOK, GoodOK, ServerDies, files
<1>2. IndexOK' /\ HeadOK' /\ SettledOK' /\ WalkOK' /\ CountsOK'
  <2>1. /\ index' = NoIndex /\ result' \in Results
        /\ saves' \in 0..MaxSaves /\ faults' \in 0..MaxFaults
        /\ main' # <<>> \/ saver' # Idle => saves' > 0
    BY StoreAssumption DEF IInv, CountsOK, ServerDies, files, Results
  <2> QED
    BY <2>1, NoLoad
<1> QED
  BY <1>1, <1>2 DEF IInv

\* What a loss of power leaves of a torn file is torn.
LEMMA LossTears ==
  ASSUME NEW v \in Versions, NEW lists \in InMemory, NEW m, Torn(m, v, lists), NEW lost
  PROVE  Torn([n \in DOMAIN m |-> IF n \in lost THEN Hole ELSE m[n]], v, lists)
<1>1. PICK len \in Nat : len = Len(m) /\ DOMAIN m = 1..len
  BY LenProperties DEF Torn
<1>2. PICK img : img = Image(v, lists)
  OBVIOUS
<1>3. \A n \in 1..len : m[n] \in Pieces
  BY <1>1, ElementOfSeq DEF Torn
<1>4. PICK t : t = [n \in 1..len |-> IF n \in lost THEN Hole ELSE m[n]]
  OBVIOUS
<1>5. \A n \in 1..len : t[n] \in Pieces
  BY <1>3, <1>4 DEF Pieces, Content, Data
<1>6. t \in Seq(Pieces) /\ Len(t) = len /\ DOMAIN t = 1..len
  <2>1. [n \in 1..len |-> t[n]] \in Seq(Pieces)
    BY <1>5, IsASeq
  <2>2. t = [n \in 1..len |-> t[n]]
    BY <1>4
  <2> QED
    BY <1>4, <2>1, <2>2
<1>7. Len(m) <= Len(img) /\ \A n \in 1..len : m[n] = img[n] \/ m[n] = Hole
  BY <1>1, <1>2 DEF Torn
<1>8. Torn(t, v, lists)
  <2>1. Len(t) <= Len(img)
    BY <1>1, <1>6, <1>7
  <2>2. \A n \in DOMAIN t : t[n] = img[n] \/ t[n] = Hole
    BY <1>4, <1>6, <1>7
  <2> QED
    BY <1>2, <1>6, <2>1, <2>2 DEF Torn
<1> QED
  BY <1>1, <1>4, <1>8

LEMMA Loses ==
  ASSUME IInv, PowerLoss
  PROVE  IInv'
<1>1. PICK lost \in SUBSET DOMAIN main :
        main' = [n \in DOMAIN main |-> IF n \in lost THEN Hole ELSE main[n]]
  BY DEF PowerLoss
<1>2. CASE main = <<>>
  <2>1. DOMAIN main = {}
    BY <1>2
  <2>2. main' = <<>>
    BY <1>1, <1>2, <2>1
  <2>3. FilesOK' /\ SaverOK' /\ GoodOK'
    <3>1. graph' \in [of : Graphs, whole : BOOLEAN]
      BY DEF IInv, FilesOK, PowerLoss
    <3> QED
      BY <2>2, <3>1 DEF FilesOK, SaverOK, GoodOK, PowerLoss
  <2>4. IndexOK' /\ HeadOK' /\ SettledOK' /\ WalkOK' /\ CountsOK'
    <3>1. /\ index' = NoIndex /\ result' \in Results
          /\ saves' \in 0..MaxSaves /\ faults' \in 0..MaxFaults
          /\ main' # <<>> \/ saver' # Idle => saves' > 0
      BY <2>2, StoreAssumption DEF IInv, CountsOK, PowerLoss, Results
    <3> QED
      BY <3>1, NoLoad
  <2> QED
    BY <2>3, <2>4 DEF IInv
<1>3. CASE main # <<>>
  <2>1. PICK x \in Savable : Torn(main, x.of, x.lists)
    BY <1>3 DEF IInv, FilesOK
  <2>2. Torn(main', x.of, x.lists)
    BY <1>1, <2>1, SavableFacts, LossTears
  <2>3. graph' \in [of : Graphs, whole : BOOLEAN]
    BY DEF IInv, FilesOK, PowerLoss
  <2>4. FilesOK' /\ SaverOK' /\ GoodOK'
    BY <2>2, <2>3 DEF FilesOK, SaverOK, GoodOK, PowerLoss
  <2>5. IndexOK' /\ HeadOK' /\ SettledOK' /\ WalkOK' /\ CountsOK'
    <3>1. /\ index' = NoIndex /\ result' \in Results
          /\ saves' \in 0..MaxSaves /\ faults' \in 0..MaxFaults
          /\ main' # <<>> \/ saver' # Idle => saves' > 0
      BY <1>3, StoreAssumption DEF IInv, CountsOK, PowerLoss, Results
    <3> QED
      BY <3>1, NoLoad
  <2> QED
    BY <2>4, <2>5 DEF IInv
<1> QED
  BY <1>2, <1>3

-----------------------------------------------------------------------------
(* The theorems.                                                           *)

LEMMA InitIInv ==
  ASSUME Init
  PROVE  IInv
<1>1. FilesOK /\ SaverOK /\ GoodOK
  BY DEF Init, FilesOK, SaverOK, GoodOK, Graphs
<1>2. IndexOK /\ HeadOK /\ SettledOK /\ WalkOK
  BY DEF Init, IndexOK, HeadOK, SettledOK, WalkOK, NoIndex
<1>3. CountsOK
  BY StoreAssumption DEF Init, CountsOK, Results, NoIndex
<1> QED
  BY <1>1, <1>2, <1>3 DEF IInv

LEMMA OwnSavable ==
  ASSUME NEW v \in Versions
  PROVE  Saved(v, FALSE, Own(v), v) \in Savable
BY OwnFacts DEF Savable, Saved, Graphs

LEMMA StepIInv ==
  ASSUME IInv, [Next]_vars
  PROVE  IInv'
<1>1. CASE SaveBuilt
  BY <1>1, OwnSavable, Starts DEF SaveBuilt
<1>2. CASE SaveLoaded
  <2>1. PICK lists : lists = IF index.mapped THEN <<>> ELSE index.lists
    OBVIOUS
  <2>2. Held(index, saves) /\ index.pc = "loaded"
    BY <1>2, HeldFacts DEF SaveLoaded
  <2>3. /\ index.of \in Versions /\ index.mapped \in BOOLEAN /\ index.graph \in Graphs
        /\ index.lists \in InMemory /\ Len(index.lists) = Len(Sizes[index.of])
    BY <2>2 DEF Held
  <2>4. <<>> \in InMemory
    BY EmptySeq DEF InMemory
  <2>5. PICK x : x = Saved(index.of, index.mapped, lists, index.graph)
    OBVIOUS
  <2>6. x \in Savable
    BY <2>1, <2>3, <2>4, <2>5 DEF Savable, Saved
  <2>7. SaveStarts("server", x)
    BY <1>2, <2>1, <2>5 DEF SaveLoaded
  <2> QED
    BY <2>6, <2>7, Starts
<1>3. CASE WriteMain \/ DumpStarts \/ SaveReturns
  BY <1>3, Writes, Dumps, Returns
<1>4. CASE Load
  BY <1>4, LoadsHeader, Maps, Verifies, ReadsList, LoadsHnsw, Unloads DEF Load
<1>5. CASE Search
  BY <1>5, Searches
<1>6. CASE Fault
  BY <1>6, Stops, Dies, Loses DEF Fault
<1>7. CASE UNCHANGED vars
  BY <1>7 DEF IInv, FilesOK, SaverOK, GoodOK, IndexOK, HeadOK, SettledOK, WalkOK, CountsOK,
              vars
<1> QED
  BY <1>1, <1>2, <1>3, <1>4, <1>5, <1>6, <1>7 DEF Next, Save

LEMMA Invariance == Spec => []IInv
<1>1. Init => IInv
  BY InitIInv
<1>2. IInv /\ [Next]_vars => IInv'
  BY StepIInv
<1> QED
  BY <1>1, <1>2, PTL DEF Spec

\* A load that has read as many lists as the directory has, and that no save has
\* overtaken since its checksum, has all the lists of the file.
LEMMA WalkEnds ==
  ASSUME IInv, index.pc = "lists", AllRead, index.summed = saves
  PROVE  \E y \in Savable : /\ index.of = y.of /\ index.lists = y.lists
                            /\ main = Image(y.of, y.lists)
                            /\ index.settled = saves => y = good
<1>1. PICK y, off : /\ y \in Savable /\ Walking(index, y, main, off)
                    /\ index.settled = saves => y = good
  BY DEF IInv, WalkOK
<1>2. PICK lists, all : lists = index.lists /\ all = y.lists
  OBVIOUS
<1>3. lists \in InMemory /\ all \in InMemory
  <2>1. Held(index, saves)
    BY HeldFacts
  <2> QED
    BY <1>1, <1>2, <2>1, SavableFacts DEF Held
<1>4. /\ y.of = index.of /\ main = Image(y.of, all) /\ Len(lists) <= Len(all)
      /\ \A n \in 1 .. Len(lists) : lists[n] = all[n]
  BY <1>1, <1>2 DEF Walking
<1>5. Len(lists) \in Nat /\ Len(all) \in Nat
  BY <1>3, InMemoryFacts
<1>6. Len(lists) = Len(all)
  <2>1. all = <<>> \/ Len(all) = Len(Sizes[y.of])
    BY <1>1, <1>2, SavableFacts
  <2>2. CASE all = <<>>
    BY <1>4, <1>5, <2>2
  <2>3. CASE Len(all) = Len(Sizes[y.of])
    BY <1>2, <1>4, <2>3 DEF AllRead
  <2> QED
    BY <2>1, <2>2, <2>3
<1>7. lists = all
  BY <1>3, <1>4, <1>6, SeqEqual DEF InMemory
<1> QED
  BY <1>1, <1>2, <1>4, <1>7

\* Whatever was cut short, lost or overwritten before its checksum was verified
\* (save_main_index, load_from_path_mmap), what a load has then read are all the
\* lists of the file, piece for piece: a file is always what one save wrote, the
\* checksum is the last thing it writes, and the lists are read as far as the
\* directory counts them.  And the program's state is one of those it is meant
\* to have.
THEOREM LoadedWhole == Spec => []ListsWhole
<1>1. IInv => ListsWhole
  <2> SUFFICES ASSUME IInv PROVE ListsWhole
    OBVIOUS
  <2>1. ASSUME index.pc = "lists", AllRead, index.summed = saves
        PROVE  main = Image(index.of, index.lists)
    BY <2>1, WalkEnds
  <2>2. graph.of \in Versions \cup {NoVersion} /\ graph.whole \in BOOLEAN
    BY DEF IInv, FilesOK, Graphs
  <2>3. saver.pc \in {"idle", "main", "hnsw"} /\ saver.by \in {"builder", "server"}
    <3>1. CASE saver = Idle
      BY <3>1 DEF Idle
    <3>2. CASE saver # Idle
      BY <3>2 DEF IInv, SaverOK, Saving
    <3> QED
      BY <3>1, <3>2
  <2>4. saves \in Nat /\ saves \in 0..MaxSaves /\ faults \in 0..MaxFaults /\ result \in Results
    BY StoreAssumption DEF IInv, CountsOK
  <2>5. /\ index.mapped \in BOOLEAN /\ index.settled \in 0..saves /\ index.summed \in 0..saves
        /\ \/ index = NoIndex
           \/ index.pc \in {"header", "mapped", "lists"} /\ result = "none"
           \/ index.pc = "loaded" /\ result \in {"ok", "missing", "foreign"}
    <3>1. CASE index = NoIndex
      BY <2>4, <3>1 DEF NoIndex
    <3>2. CASE index # NoIndex
      BY <2>4, <3>2 DEF IInv, IndexOK, Held
    <3> QED
      BY <3>1, <3>2
  <2>6. good # Nothing => good.of \in Versions /\ good.mapped \in BOOLEAN
    BY SavableFacts DEF IInv, GoodOK, Kept
  <2> QED
    BY <2>1, <2>2, <2>3, <2>4, <2>5, <2>6 DEF ListsWhole, TypeOK
<1> QED
  BY <1>1, Invariance, PTL

\* The one step that ends a load.
LEMMA LoadEnds ==
  ASSUME Next, index.pc = "lists", index'.pc = "loaded"
  PROVE  LoadHnsw /\ index' = [index EXCEPT !.pc = "loaded", !.graph = graph.of]
<1>1. index' # index /\ index' # NoIndex
  BY DEF NoIndex
<1>2. \A how : ~LoadStops(how)
  BY <1>1 DEF LoadStops
<1>3. LoadHnsw
  <2>1. ~Save
    BY <1>1 DEF Save, SaveBuilt, SaveLoaded, SaveStarts, WriteMain, DumpStarts, SaveReturns
  <2>2. ~Fault
    BY <1>1 DEF Fault, SaveStops, ServerDies, PowerLoss
  <2>3. ~Unload /\ ~Search /\ ~MapMain /\ ~VerifyChecksum
        /\ \A mapped \in BOOLEAN : ~LoadHeader(mapped)
    BY DEF Unload, Search, MapMain, VerifyChecksum, LoadHeader
  <2>4. ~ReadList
    <3> SUFFICES ASSUME ReadList PROVE FALSE
      OBVIOUS
    <3>1. PICK at, lists : index' = [index EXCEPT !.at = at, !.lists = lists]
      BY <1>2 DEF ReadList, ReadsPastEnd, Misreads
    <3>2. index'.pc = index.pc
      BY <3>1
    <3> QED
      BY <3>2
  <2> QED
    BY <2>1, <2>2, <2>3, <2>4 DEF Next, Load
<1> QED
  BY <1>2, <1>3 DEF LoadHnsw

\* A load that began after a save had returned, and that no other save has
\* overtaken, gets back what that save was given (save_to_path, load_from_path):
\* its lists, and of the graphs that were dumped at the path the one of that save,
\* although nothing the loader checks ties the graph to the lists.
THEOREM SavedComesBack == Spec => LoadsWhatWasSaved
<1>1. IInv /\ [Next]_vars
        => [index.pc = "lists" /\ index'.pc = "loaded" /\ index.settled = saves
              => Saved(index'.of, good.mapped, index'.lists, index'.graph) = good]_vars
  <2> SUFFICES ASSUME IInv, Next, index.pc = "lists", index'.pc = "loaded",
                      index.settled = saves
               PROVE  Saved(index'.of, good.mapped, index'.lists, index'.graph) = good
    BY DEF vars
  <2>1. AllRead /\ index' = [index EXCEPT !.pc = "loaded", !.graph = graph.of]
    BY LoadEnds DEF LoadHnsw
  <2>2. good # Nothing /\ index.summed = saves
    BY DEF IInv, SettledOK
  <2>3. good \in Savable /\ graph.of = good.graph
    BY <2>2 DEF IInv, GoodOK, Kept
  <2>4. index.of = good.of /\ index.lists = good.lists
    BY <2>1, <2>2, WalkEnds
  <2>5. Held(index, saves)
    BY HeldFacts
  <2>6. index'.of = index.of /\ index'.lists = index.lists /\ index'.graph = graph.of
    BY <2>1, <2>5 DEF Held
  <2> QED
    BY <2>3, <2>4, <2>6, SavableFacts
<1> QED
  BY <1>1, Invariance, PTL DEF Spec, LoadsWhatWasSaved

\* Of a file that a save has left, the next list is there to be read.
LEMMA SettledReads ==
  ASSUME IInv, index.pc = "lists", ~AllRead, index.settled = saves, ~good.mapped
  PROVE  /\ ~(index.at >= index.length) /\ ~(index.at > Len(main))
         /\ main[index.at][1] = "length"
         /\ ~(index.at + main[index.at][2] >= index.length)
         /\ ~(index.at + main[index.at][2] > Len(main))
         /\ index.summed = saves
<1>1. index.summed = saves /\ good # Nothing
  BY DEF IInv, SettledOK
<1>2. PICK off : good \in Savable /\ Walking(index, good, main, off)
  BY <1>1 DEF IInv, WalkOK
<1>3. PICK n \in Nat : n = Len(index.lists)
  BY HeldFacts, InMemoryFacts DEF Held
<1>4. n # Len(good.lists)
  <2>1. Len(good.lists) = Len(Sizes[good.of]) /\ good.of = index.of
    BY <1>2, SavableFacts DEF Walking
  <2> QED
    BY <1>3, <2>1 DEF AllRead
<1>5. PICK x, y : x = index /\ y = good
  OBVIOUS
<1>6. /\ HoldsAt(main, x.at, y.lists[n + 1]) /\ x.length = Len(main)
  BY <1>2, <1>3, <1>4, <1>5, WalkReads DEF NextIs
<1>7. PICK at, list : at = index.at /\ list = y.lists[n + 1]
  OBVIOUS
<1>8. /\ at \in Nat /\ Len(list) \in Nat /\ Len(main) \in Nat
      /\ main[at] = <<"length", Len(list)>> /\ at + Len(list) < Len(main)
      /\ index.length = Len(main)
  BY <1>5, <1>6, <1>7 DEF HoldsAt
<1>9. /\ main[at][1] = "length" /\ main[at][2] = Len(list)
      /\ ~(at >= Len(main)) /\ ~(at > Len(main))
      /\ ~(at + Len(list) >= Len(main)) /\ ~(at + Len(list) > Len(main))
  BY <1>8
<1> QED
  BY <1>1, <1>7, <1>8, <1>9

\* What save_to_path returned Ok for, of an index in memory, and no other save has
\* touched since, is loaded without an error and without a panic.
THEOREM SavesLoad == Spec => SavedFromMemoryLoads
<1>1. IInv /\ [Next]_vars
        => [Settled /\ ~good.mapped /\ result' # result
              => result' \notin {"error", "panic"}]_vars
  <2> SUFFICES ASSUME IInv, Next, Settled, ~good.mapped, result' # result
               PROVE  result' \notin {"error", "panic"}
    BY DEF vars
  <2>1. good \in Savable /\ main = Image(good.of, good.lists) /\ graph.whole
    BY DEF IInv, GoodOK, Kept, Settled
  <2>2. ASSUME NEW mapped \in BOOLEAN, LoadHeader(mapped) PROVE result' = "none"
    <3>1. PICK body, n : Written(good.of, good.lists, body, main, n)
      BY <2>1, ImageFacts, SavableFacts
    <3>2. main[1] = <<"magic">> /\ main[2] = <<"directory", good.of>> /\ Len(main) >= 2
      BY <3>1 DEF Written
    <3>3. Base = 2
      BY DEF Base, Header
    <3>4. HeaderReads
      BY <3>2, <3>3 DEF HeaderReads, Hole
    <3> QED
      BY <2>2, <3>4 DEF LoadHeader
  <2>3. ~MapMain
    BY DEF MapMain
  <2>4. ASSUME VerifyChecksum PROVE FALSE
    <3>1. index.pc = "mapped" /\ index.settled = saves
      BY <2>4 DEF VerifyChecksum, Settled
    <3>2. ~(index.length - 1 < Base) /\ ~(index.length > Len(main)) /\ ChecksumMatches
      BY <3>1, VerifyFacts
    <3> QED
      BY <2>4, <3>2 DEF VerifyChecksum
  <2>5. ASSUME ReadList PROVE FALSE
    <3>1. index.pc = "lists" /\ ~AllRead /\ index.settled = saves
      BY <2>5 DEF ReadList, Settled
    <3> QED
      BY <2>5, <3>1, SettledReads DEF ReadList
  <2>6. LoadHnsw => result' = "ok"
    BY <2>1 DEF LoadHnsw, GraphLoads
  <2>7. Search => result' \in {"ok", "missing", "foreign", "sigbus"}
    BY MappedResults DEF Search
  <2>8. ~Save
    BY DEF Save, SaveBuilt, SaveLoaded, SaveStarts, WriteMain, DumpStarts, SaveReturns
  <2>9. Unload \/ Fault => result' = "none"
    BY DEF Unload, Fault, SaveStops, ServerDies, PowerLoss
  <2> QED
    BY <2>2, <2>3, <2>4, <2>5, <2>6, <2>7, <2>8, <2>9 DEF Next, Load
<1> QED
  BY <1>1, Invariance, PTL DEF Spec, SavedFromMemoryLoads

\* A search of a mapped index finds the list it asks for, as long as the file is
\* that of its index and as long as it was: disk_offset, worked out by the
\* builder, is where save_main_index put the list.
THEOREM ListsAreWhereTheDirectorySays == Spec => SearchesOwn
<1>1. IInv /\ [Next]_vars
        => [/\ index.pc = "loaded" /\ index.mapped /\ result' # result
            /\ good.of = index.of /\ good.lists = Own(good.of) /\ index.length = Len(main)
            => result' \notin {"missing", "foreign", "sigbus"}]_vars
  <2> SUFFICES ASSUME IInv, Next, index.pc = "loaded", index.mapped, result' # result,
                      good.of = index.of, good.lists = Own(good.of),
                      index.length = Len(main)
               PROVE  result' \notin {"missing", "foreign", "sigbus"}
    BY DEF vars
  <2>1. index.of \in Versions
    BY HeldFacts
  <2>2. good # Nothing
    BY <2>1, StoreAssumption DEF Nothing, Saved
  <2>3. main = Image(index.of, Own(index.of))
    BY <2>2 DEF IInv, GoodOK, Kept
  <2>4. ASSUME NEW i \in DOMAIN Sizes[index.of] PROVE Mapped(i) = "ok"
    BY <2>1, <2>3, WholeMaps
  <2>5. Search => result' = "ok"
    BY <2>4 DEF Search
  <2>6. Load => result' = "none"
    BY DEF Load, LoadHeader, MapMain, VerifyChecksum, ReadList, LoadHnsw, Unload
  <2>7. ~Save
    BY DEF Save, SaveBuilt, SaveLoaded, SaveStarts, WriteMain, DumpStarts, SaveReturns
  <2>8. Fault => result' = "none"
    BY DEF Fault, SaveStops, ServerDies, PowerLoss
  <2> QED
    BY <2>5, <2>6, <2>7, <2>8 DEF Next
<1> QED
  BY <1>1, Invariance, PTL DEF Spec, SearchesOwn
=============================================================================
