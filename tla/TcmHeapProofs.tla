---------------------------- MODULE TcmHeapProofs ----------------------------
(***************************************************************************)
(* The heap in tightly coupled memory, for any heap of whole granules: its *)
(* free list and its blocks tile it, no two free chunks touch, and so it   *)
(* keeps the promise of TcmAlloc.                                          *)
(***************************************************************************)
EXTENDS TcmHeap, NatLemmas, SequenceTheorems

(***************************************************************************)
(* Lists of chunks, like FreeList: whole granules inside the heap, apart   *)
(* from each other, in order.                                              *)
(***************************************************************************)
Chunks ==
  {c \in [at : 0 .. HeapSize, size : 1 .. HeapSize] :
     c.at % Granule = 0 /\ c.size % Granule = 0 /\ End(c) <= HeapSize}

Apart(list) == \A i, j \in 1 .. Len(list) : i < j => End(list[i]) < list[j].at

\* Apart, but that chunk k may touch the next.
ApartBut(list, k) ==
  \A i, j \in 1 .. Len(list) :
     i < j => \/ End(list[i]) < list[j].at
              \/ i = k /\ j = k + 1 /\ End(list[i]) = list[j].at

In(c, n) == c.at <= n /\ n < End(c)
Covers(list, n) == \E i \in 1 .. Len(list) : In(list[i], n)
-----------------------------------------------------------------------------
\* What RemoveAt and InsertAt of SequencesExt return, place by place.
LEMMA RemoveAtIs ==
  ASSUME NEW S, NEW s \in Seq(S), NEW i \in 1 .. Len(s)
  PROVE  /\ RemoveAt(s, i) \in Seq(S) /\ Len(RemoveAt(s, i)) = Len(s) - 1
         /\ \A j \in 1 .. (Len(s) - 1) :
              RemoveAt(s, i)[j] = IF j < i THEN s[j] ELSE s[j + 1]
<1> DEFINE a == SubSeq(s, 1, i - 1)
           b == SubSeq(s, i + 1, Len(s))
           n == Len(s)
<1>1. n \in Nat /\ i \in 1 .. n /\ \A j \in 1 .. n : s[j] \in S
  BY ElementOfSeq
<1>2. a \in Seq(S) /\ Len(a) = i - 1 /\ \A j \in 1 .. (i - 1) : a[j] = s[j]
  <2>1. \A j \in 1 .. (i - 1) : s[j] \in S
    BY <1>1
  <2>2. /\ a \in Seq(S) /\ Len(a) = IF 1 <= i - 1 THEN (i - 1) - 1 + 1 ELSE 0
        /\ \A j \in 1 .. ((i - 1) - 1 + 1) : a[j] = s[1 + j - 1]
    BY <2>1, SubSeqProperties
  <2> HIDE DEF a
  <2> QED BY <1>1, <2>2
<1>3. b \in Seq(S) /\ Len(b) = n - i /\ \A j \in 1 .. (n - i) : b[j] = s[i + j]
  <2>1. \A j \in (i + 1) .. n : s[j] \in S
    BY <1>1
  <2>2. /\ b \in Seq(S) /\ Len(b) = IF i + 1 <= n THEN n - (i + 1) + 1 ELSE 0
        /\ \A j \in 1 .. (n - (i + 1) + 1) : b[j] = s[(i + 1) + j - 1]
    BY <1>1, <2>1, SubSeqProperties
  <2> HIDE DEF b, n
  <2> QED BY <1>1, <2>2
<1>4. RemoveAt(s, i) = a \o b
  BY DEF RemoveAt
<1> HIDE DEF a, b, n
<1>5. /\ a \o b \in Seq(S) /\ Len(a \o b) = Len(a) + Len(b)
      /\ \A j \in 1 .. (Len(a) + Len(b)) : (a \o b)[j] = IF j <= Len(a) THEN a[j] ELSE b[j - Len(a)]
  BY <1>2, <1>3, ConcatProperties
<1> QED BY <1>1, <1>2, <1>3, <1>4, <1>5 DEF n

LEMMA InsertAtIs ==
  ASSUME NEW S, NEW s \in Seq(S), NEW i \in 1 .. (Len(s) + 1), NEW e \in S
  PROVE  /\ InsertAt(s, i, e) \in Seq(S) /\ Len(InsertAt(s, i, e)) = Len(s) + 1
         /\ \A j \in 1 .. (Len(s) + 1) :
              InsertAt(s, i, e)[j] = IF j < i THEN s[j] ELSE IF j = i THEN e ELSE s[j - 1]
<1> DEFINE a == SubSeq(s, 1, i - 1)
           b == SubSeq(s, i, Len(s))
           n == Len(s)
<1>1. n \in Nat /\ i \in 1 .. (n + 1) /\ \A j \in 1 .. n : s[j] \in S
  BY ElementOfSeq
<1>2. a \in Seq(S) /\ Len(a) = i - 1 /\ \A j \in 1 .. (i - 1) : a[j] = s[j]
  <2>1. \A j \in 1 .. (i - 1) : s[j] \in S
    BY <1>1
  <2>2. /\ a \in Seq(S) /\ Len(a) = IF 1 <= i - 1 THEN (i - 1) - 1 + 1 ELSE 0
        /\ \A j \in 1 .. ((i - 1) - 1 + 1) : a[j] = s[1 + j - 1]
    BY <2>1, SubSeqProperties
  <2> HIDE DEF a
  <2> QED BY <1>1, <2>2
<1>3. b \in Seq(S) /\ Len(b) = n - i + 1 /\ \A j \in 1 .. (n - i + 1) : b[j] = s[i + j - 1]
  <2>1. \A j \in i .. n : s[j] \in S
    BY <1>1
  <2>2. /\ b \in Seq(S) /\ Len(b) = IF i <= n THEN n - i + 1 ELSE 0
        /\ \A j \in 1 .. (n - i + 1) : b[j] = s[i + j - 1]
    BY <1>1, <2>1, SubSeqProperties
  <2> HIDE DEF b, n
  <2> QED BY <1>1, <2>2
<1>4. InsertAt(s, i, e) = (a \o <<e>>) \o b
  BY DEF InsertAt
<1> HIDE DEF a, b, n
<1> DEFINE c == a \o <<e>>
<1>5. c \in Seq(S) /\ Len(c) = i /\ \A j \in 1 .. i : c[j] = IF j < i THEN a[j] ELSE e
  <2>1. <<e>> \in Seq(S) /\ Len(<<e>>) = 1 /\ <<e>>[1] = e
    OBVIOUS
  <2>2. /\ c \in Seq(S) /\ Len(c) = Len(a) + 1
        /\ \A j \in 1 .. (Len(a) + 1) : c[j] = IF j <= Len(a) THEN a[j] ELSE <<e>>[j - Len(a)]
    BY <1>2, <2>1, ConcatProperties
  <2> HIDE DEF c
  <2> QED BY <1>1, <1>2, <2>1, <2>2
<1> HIDE DEF c
<1>6. /\ c \o b \in Seq(S) /\ Len(c \o b) = Len(c) + Len(b)
      /\ \A j \in 1 .. (Len(c) + Len(b)) : (c \o b)[j] = IF j <= Len(c) THEN c[j] ELSE b[j - Len(c)]
  BY <1>3, <1>5, ConcatProperties
<1>7. InsertAt(s, i, e) = c \o b
  BY <1>4 DEF c
<1> QED BY <1>1, <1>2, <1>3, <1>5, <1>6, <1>7 DEF n
-----------------------------------------------------------------------------
LEMMA SizesAre == Granule \in Nat \ {0} /\ HeapSize \in Nat \ {0} /\ IntSize \in Nat
BY HeapAssumption

\* A chunk is an interval of the heap that is not empty.
LEMMA ChunkIs ==
  ASSUME NEW c \in Chunks
  PROVE  /\ c.at \in Nat /\ c.size \in Nat \ {0} /\ End(c) = c.at + c.size
         /\ End(c) \in Nat /\ c.at < End(c) /\ End(c) <= HeapSize
         /\ c.at % Granule = 0 /\ c.size % Granule = 0
BY SizesAre DEF Chunks, End

LEMMA ChunkMade ==
  ASSUME NEW at \in Nat, NEW size \in Nat \ {0}, at + size <= HeapSize,
         at % Granule = 0, size % Granule = 0
  PROVE  [at |-> at, size |-> size] \in Chunks
BY SizesAre DEF Chunks, End

\* What is reserved for a request: whole granules, at least one.
LEMMA RoundedIs ==
  ASSUME NEW size \in Nat
  PROVE  Rounded(size) \in Nat \ {0} /\ Rounded(size) % Granule = 0
<1> DEFINE q == (size + Granule - 1) \div Granule
<1>1. q \in Nat
  <2>1. size + Granule - 1 \in Nat
    BY SizesAre
  <2> QED BY <2>1, SizesAre, Division
<1> HIDE DEF q
<1>2. (q * Granule) % Granule = 0 /\ q * Granule \in Nat
  BY <1>1, SizesAre, MultipleProduct
<1>3. Granule % Granule = 0
  <2>1. (1 * Granule) % Granule = 0 /\ 1 * Granule = Granule
    BY SizesAre, MultipleProduct
  <2> QED BY <2>1
<1>4. Rounded(size) = IF q * Granule = 0 THEN Granule ELSE q * Granule
  BY DEF Rounded, q
<1> QED BY <1>2, <1>3, <1>4, SizesAre
-----------------------------------------------------------------------------
(***************************************************************************)
(* The operations on the list.                                             *)
(***************************************************************************)
\* A block cut from the end of a chunk.
LEMMA CutIs ==
  ASSUME FreeList \in Seq(Chunks), Apart(FreeList),
         NEW i \in 1 .. Len(FreeList), NEW length \in 1 .. FreeList[i].size,
         length % Granule = 0
  PROVE  /\ Cut(i, length) \in Seq(Chunks) /\ Apart(Cut(i, length))
         /\ \A n \in Nat : Covers(Cut(i, length), n) <=>
              Covers(FreeList, n) /\ ~(End(FreeList[i]) - length <= n /\ n < End(FreeList[i]))
<1> DEFINE f == FreeList
           z == Len(f)
           cut == End(f[i]) - length
<1>1. z \in Nat /\ i \in 1 .. z /\ \A j \in 1 .. z : f[j] \in Chunks
  BY ElementOfSeq
<1>2. \A j \in 1 .. z : /\ f[j].at \in Nat /\ f[j].size \in Nat \ {0} /\ End(f[j]) \in Nat
                        /\ End(f[j]) = f[j].at + f[j].size /\ f[j].at < End(f[j])
  BY <1>1, ChunkIs
<1>3. /\ f[i].at \in Nat /\ f[i].size \in Nat /\ length \in Nat \ {0} /\ length <= f[i].size
      /\ End(f[i]) = f[i].at + f[i].size /\ End(f[i]) <= HeapSize
      /\ cut \in Nat /\ f[i].at <= cut /\ cut < End(f[i])
  <2> DEFINE a == f[i].at
             l == f[i].size
             e == End(f[i])
  <2>1. f[i] \in Chunks
    BY <1>1
  <2>2. /\ a \in Nat /\ l \in Nat \ {0} /\ e = a + l /\ e <= HeapSize /\ length \in 1 .. l
    BY <2>1, ChunkIs
  <2> HIDE DEF a, l, e
  <2>3. /\ length \in Nat \ {0} /\ length <= l
        /\ e - length \in Nat /\ a <= e - length /\ e - length < e
    BY <2>2
  <2> QED BY <2>2, <2>3 DEF a, l, e
<1>4. \A j \in 1 .. z, n \in Nat : j # i /\ In(f[j], n) => ~In(f[i], n)
  BY <1>2 DEF Apart, In
<1>5. CASE f[i].size = length
  <2> DEFINE g == RemoveAt(f, i)
  <2>1. /\ g \in Seq(Chunks) /\ Len(g) = z - 1
        /\ \A j \in 1 .. (z - 1) : g[j] = IF j < i THEN f[j] ELSE f[j + 1]
    BY RemoveAtIs
  <2>2. Cut(i, length) = g
    BY <1>5 DEF Cut
  <2> DEFINE old(j) == IF j < i THEN j ELSE j + 1
  <2>3. \A j \in 1 .. (z - 1) : old(j) \in 1 .. z /\ old(j) # i /\ g[j] = f[old(j)]
    BY <1>1, <2>1
  <2>4. \A j, k \in 1 .. (z - 1) : j < k => old(j) < old(k)
    BY <1>1
  <2>5. \A j \in 1 .. z : j # i => \E k \in 1 .. (z - 1) : old(k) = j
    <3>1. \A j \in 1 .. z : j < i => j \in 1 .. (z - 1) /\ old(j) = j
      BY <1>1
    <3>2. \A j \in 1 .. z : j > i => j - 1 \in 1 .. (z - 1) /\ old(j - 1) = j
      BY <1>1
    <3> HIDE DEF old
    <3> QED BY <3>1, <3>2, <1>1
  <2>6. cut = f[i].at
    BY <1>2, <1>5
  <2> HIDE DEF f, g, z, cut, old
  <2>7. Apart(g)
    BY <2>1, <2>3, <2>4 DEF Apart, f, z
  <2>8. \A n \in Nat : Covers(g, n) <=> \E j \in 1 .. z : j # i /\ In(f[j], n)
    <3>1. SUFFICES ASSUME NEW n \in Nat
                   PROVE  Covers(g, n) <=> \E j \in 1 .. z : j # i /\ In(f[j], n)
      OBVIOUS
    <3>2. Covers(g, n) <=> \E k \in 1 .. (z - 1) : In(g[k], n)
      BY <2>1 DEF Covers
    <3>3. ASSUME NEW k \in 1 .. (z - 1), In(g[k], n)
          PROVE  \E j \in 1 .. z : j # i /\ In(f[j], n)
      BY <2>3, <3>3
    <3>4. ASSUME NEW j \in 1 .. z, j # i, In(f[j], n)
          PROVE  \E k \in 1 .. (z - 1) : In(g[k], n)
      BY <2>3, <2>5, <3>4
    <3> QED BY <3>2, <3>3, <3>4
  <2>9. \A n \in Nat : In(f[i], n) <=> cut <= n /\ n < End(f[i])
    BY <2>6 DEF In
  <2>10. \A n \in Nat : Covers(g, n) <=> Covers(f, n) /\ ~(cut <= n /\ n < End(f[i]))
    BY <1>4, <2>8, <2>9 DEF Covers, z
  <2> QED BY <2>1, <2>2, <2>7, <2>10 DEF f, cut
<1>6. CASE f[i].size # length
  <2> DEFINE c == [at |-> f[i].at, size |-> f[i].size - length]
             g == [f EXCEPT ![i] = c]
  <2>1. c \in Chunks /\ c.at = f[i].at /\ End(c) = cut
    <3>1. /\ f[i].size - length \in Nat \ {0} /\ length \in 0 .. f[i].size /\ length \in Nat
          /\ f[i].at + (f[i].size - length) <= HeapSize
      <4> DEFINE a == f[i].at
                 l == f[i].size
                 e == End(f[i])
      <4>1. /\ a \in Nat /\ l \in Nat /\ length \in Nat \ {0} /\ length <= l /\ l # length
            /\ e = a + l /\ e <= HeapSize
        BY <1>3, <1>6
      <4> HIDE DEF a, l, e
      <4>2. /\ l - length \in Nat \ {0} /\ length \in 0 .. l /\ length \in Nat
            /\ a + (l - length) <= HeapSize
        BY <4>1, SizesAre
      <4> QED BY <4>2 DEF a, l
    <3>2. (f[i].size - length) % Granule = 0 /\ f[i].at % Granule = 0
      BY <1>1, <1>2, <3>1, ChunkIs, SizesAre, MultipleDifference
    <3>3. c \in Chunks
      BY <1>2, <3>1, <3>2, ChunkMade
    <3>4. c.at = f[i].at /\ c.size = f[i].size - length
      OBVIOUS
    <3>5. End(c) = c.at + c.size
      BY DEF End
    <3>6. cut = f[i].at + (f[i].size - length)
      <4> DEFINE a == f[i].at
                 l == f[i].size
                 e == End(f[i])
      <4>1. a \in Nat /\ l \in Nat /\ length \in Nat /\ e = a + l
        BY <1>3
      <4> HIDE DEF a, l, e
      <4>2. e - length = a + (l - length)
        BY <4>1
      <4> QED BY <4>2 DEF a, l, e
    <3> HIDE DEF c, cut
    <3> QED BY <3>3, <3>4, <3>5, <3>6
  <2>2. Cut(i, length) = g
    <3>1. Cut(i, length) = [f EXCEPT ![i].size = @ - length]
      BY <1>6 DEF Cut
    <3>2. f[i] = [at |-> f[i].at, size |-> f[i].size]
      BY <1>1 DEF Chunks
    <3> QED BY <3>1, <3>2
  <2>3. /\ g \in Seq(Chunks) /\ Len(g) = z
        /\ \A j \in 1 .. z : g[j] = IF j = i THEN c ELSE f[j]
    BY <2>1, ExceptSeq
  <2> HIDE DEF f, g, c, z, cut
  <2>4. Apart(g)
    <3>1. SUFFICES ASSUME NEW j \in 1 .. z, NEW k \in 1 .. z, j < k
                   PROVE  End(g[j]) < g[k].at
      BY <2>3 DEF Apart
    <3>2. End(g[j]) <= End(f[j]) /\ g[k].at = f[k].at /\ End(g[j]) \in Nat
      <4>1. ASSUME j = i PROVE End(g[j]) <= End(f[j]) /\ End(g[j]) \in Nat
        <5>1. End(g[j]) = cut /\ End(f[j]) = End(f[i])
          BY <2>1, <2>3, <4>1
        <5>2. cut \in Nat /\ cut < End(f[i]) /\ End(f[i]) \in Nat
          BY <1>2, <1>3
        <5> QED BY <5>1, <5>2
      <4>2. ASSUME j # i PROVE End(g[j]) <= End(f[j]) /\ End(g[j]) \in Nat
        <5>1. g[j] = f[j] /\ End(f[j]) \in Nat
          BY <1>2, <2>3, <4>2
        <5> QED BY <5>1
      <4>3. g[k].at = f[k].at
        BY <2>1, <2>3
      <4>4. End(g[j]) <= End(f[j]) /\ End(g[j]) \in Nat
        BY <4>1, <4>2
      <4> QED BY <4>3, <4>4
    <3>3. End(f[j]) < f[k].at
      BY <3>1 DEF Apart, f, z
    <3> QED BY <1>2, <3>2, <3>3
  <2>5. ASSUME NEW n \in Nat
        PROVE  Covers(g, n) <=> Covers(f, n) /\ ~(cut <= n /\ n < End(f[i]))
    <3>1. In(g[i], n) <=> In(f[i], n) /\ ~(cut <= n /\ n < End(f[i]))
      <4>1. g[i] = c
        BY <1>1, <2>3
      <4> QED BY <1>3, <2>1, <4>1 DEF In
    <3>2. \A j \in 1 .. z : j # i => (In(g[j], n) <=> In(f[j], n))
      BY <2>3
    <3>3. cut <= n /\ n < End(f[i]) => In(f[i], n)
      BY <1>3 DEF In
    <3> QED BY <1>4, <2>3, <3>1, <3>2, <3>3 DEF Covers, z
  <2> QED BY <2>2, <2>3, <2>4, <2>5 DEF f, cut
<1> QED BY <1>5, <1>6

\* The merge of a chunk with the next, when they touch.
LEMMA MergeNextIs ==
  ASSUME NEW s \in Seq(Chunks), NEW k \in 1 .. Len(s), ApartBut(s, k)
  PROVE  /\ MergeNext(s, k) \in Seq(Chunks) /\ Apart(MergeNext(s, k))
         /\ \A n \in Nat : Covers(MergeNext(s, k), n) <=> Covers(s, n)
<1> DEFINE z == Len(s)
           touch == k < z /\ End(s[k]) = s[k + 1].at
<1>1. z \in Nat /\ \A j \in 1 .. z : s[j] \in Chunks
  BY ElementOfSeq
<1>2. \A j \in 1 .. z : /\ s[j].at \in Nat /\ s[j].size \in Nat \ {0} /\ End(s[j]) \in Nat
                        /\ End(s[j]) = s[j].at + s[j].size /\ s[j].at < End(s[j])
  BY <1>1, ChunkIs
<1>3. CASE ~touch
  <2>1. MergeNext(s, k) = s
    BY <1>3 DEF MergeNext
  <2>2. Apart(s)
    <3>1. SUFFICES ASSUME NEW i \in 1 .. z, NEW j \in 1 .. z, i < j
                   PROVE  End(s[i]) < s[j].at
      BY DEF Apart
    <3>2. \/ End(s[i]) < s[j].at
          \/ i = k /\ j = k + 1 /\ End(s[i]) = s[j].at
      BY <3>1 DEF ApartBut
    <3>3. i = k /\ j = k + 1 => k < z
      BY <1>1, <3>1
    <3> QED BY <1>3, <3>2, <3>3
  <2> QED BY <2>1, <2>2
<1>4. CASE touch
  <2>1. k \in 1 .. z /\ k + 1 \in 1 .. z /\ End(s[k]) = s[k + 1].at
    BY <1>1, <1>4
  <2> DEFINE c == [at |-> s[k].at, size |-> s[k].size + s[k + 1].size]
             t == [s EXCEPT ![k] = c]
             g == RemoveAt(t, k + 1)
  <2>2. c \in Chunks /\ c.at = s[k].at /\ End(c) = End(s[k + 1])
    <3>1. /\ s[k].at \in Nat /\ s[k].size \in Nat \ {0} /\ s[k + 1].size \in Nat \ {0}
          /\ s[k].size + s[k + 1].size \in Nat \ {0}
          /\ s[k].at + (s[k].size + s[k + 1].size) = End(s[k + 1])
      <4>1. s[k] \in Chunks /\ s[k + 1] \in Chunks
        BY <1>1, <2>1
      <4> DEFINE a == s[k].at
                 l == s[k].size
                 b == s[k + 1].at
                 m == s[k + 1].size
      <4>2. /\ a \in Nat /\ l \in Nat \ {0} /\ m \in Nat \ {0} /\ b = a + l
            /\ End(s[k + 1]) = b + m
        BY <2>1, <4>1, ChunkIs
      <4> HIDE DEF a, l, b, m
      <4>3. l + m \in Nat \ {0} /\ a + (l + m) = b + m
        BY <4>2
      <4> QED BY <4>2, <4>3 DEF a, l, m
    <3>2. (s[k].size + s[k + 1].size) % Granule = 0
      BY <1>1, <2>1, <3>1, ChunkIs, SizesAre, MultipleSum
    <3>3. End(s[k + 1]) <= HeapSize /\ s[k].at % Granule = 0
      BY <1>1, <2>1, ChunkIs
    <3>4. c \in Chunks
      BY <3>1, <3>2, <3>3, ChunkMade
    <3> QED BY <3>1, <3>4, ChunkIs
  <2>3. MergeNext(s, k) = g
    <3>1. s[k] = [at |-> s[k].at, size |-> s[k].size]
      <4>1. s[k] \in [at : 0 .. HeapSize, size : 1 .. HeapSize]
        BY <1>1, <2>1 DEF Chunks
      <4> QED BY <4>1
    <3>2. [s EXCEPT ![k].size = @ + s[k + 1].size] = t
      <4>1. [s[k] EXCEPT !.size = s[k].size + s[k + 1].size] = c
        BY <3>1
      <4> QED BY <4>1
    <3> HIDE DEF t
    <3> QED BY <1>4, <3>2 DEF MergeNext
  <2>4. /\ t \in Seq(Chunks) /\ Len(t) = z
        /\ \A j \in 1 .. z : t[j] = IF j = k THEN c ELSE s[j]
    BY <2>2, ExceptSeq
  <2> HIDE DEF t
  <2>5. /\ g \in Seq(Chunks) /\ Len(g) = z - 1
        /\ \A j \in 1 .. (z - 1) : g[j] = IF j < k + 1 THEN t[j] ELSE t[j + 1]
    <3> HIDE DEF c, z
    <3>1. k + 1 \in 1 .. Len(t)
      BY <2>1, <2>4
    <3>2. /\ g \in Seq(Chunks) /\ Len(g) = Len(t) - 1
          /\ \A j \in 1 .. (Len(t) - 1) : g[j] = IF j < k + 1 THEN t[j] ELSE t[j + 1]
      BY <2>4, <3>1, RemoveAtIs
    <3> QED BY <2>4, <3>2
  <2> HIDE DEF g, c
  \* The first and the last of the chunks a chunk is made of.
  <2> DEFINE first(j) == IF j <= k THEN j ELSE j + 1
             last(j) == IF j < k THEN j ELSE j + 1
  <2>6. \A j \in 1 .. (z - 1) : /\ first(j) \in 1 .. z /\ last(j) \in 1 .. z
                                /\ g[j].at = s[first(j)].at /\ End(g[j]) = End(s[last(j)])
    <3>1. ASSUME NEW j \in 1 .. (z - 1)
          PROVE  /\ first(j) \in 1 .. z /\ last(j) \in 1 .. z
                 /\ g[j].at = s[first(j)].at /\ End(g[j]) = End(s[last(j)])
      <4>1. CASE j < k
        <5>1. g[j] = s[j]
          BY <1>1, <2>4, <2>5, <4>1
        <5> QED BY <1>1, <4>1, <5>1
      <4>2. CASE j = k
        <5>1. g[j] = c
          BY <1>1, <2>4, <2>5, <4>2
        <5> QED BY <1>1, <2>2, <4>2, <5>1
      <4>3. CASE j > k
        <5>1. g[j] = s[j + 1]
          BY <1>1, <2>4, <2>5, <4>3
        <5> QED BY <1>1, <4>3, <5>1
      <4> QED BY <1>1, <4>1, <4>2, <4>3
    <3> QED BY <3>1
  <2>7. Apart(g)
    <3>1. SUFFICES ASSUME NEW i \in 1 .. (z - 1), NEW j \in 1 .. (z - 1), i < j
                   PROVE  End(g[i]) < g[j].at
      BY <2>5 DEF Apart
    <3>2. /\ last(i) \in 1 .. z /\ first(j) \in 1 .. z /\ last(i) < first(j)
          /\ ~(last(i) = k /\ first(j) = k + 1)
      BY <1>1, <2>1, <3>1
    <3>3. End(s[last(i)]) < s[first(j)].at
      BY <3>2 DEF ApartBut
    <3> QED BY <2>6, <3>3
  <2>8. ASSUME NEW n \in Nat PROVE Covers(g, n) <=> Covers(s, n)
    <3>1. \A j \in 1 .. (z - 1) : j # k => (In(g[j], n) <=> In(s[first(j)], n))
      BY <1>1, <2>6 DEF In
    <3>2. In(g[k], n) <=> In(s[k], n) \/ In(s[k + 1], n)
      <4>1. k \in 1 .. (z - 1) /\ g[k].at = s[k].at /\ End(g[k]) = End(s[k + 1])
        BY <1>1, <2>1, <2>6
      <4> QED BY <1>2, <2>1, <4>1 DEF In
    <3>3. \A j \in 1 .. (z - 1) : first(j) \in 1 .. z
      BY <2>6
    <3>4. k \in 1 .. (z - 1)
      BY <1>1, <2>1
    <3>5. \A i \in 1 .. z : i = k \/ i = k + 1 \/ \E j \in 1 .. (z - 1) : j # k /\ first(j) = i
      <4>1. ASSUME NEW i \in 1 .. z, i < k PROVE i \in 1 .. (z - 1) /\ i # k /\ first(i) = i
        BY <1>1, <4>1
      <4>2. ASSUME NEW i \in 1 .. z, i > k + 1
            PROVE  i - 1 \in 1 .. (z - 1) /\ i - 1 # k /\ first(i - 1) = i
        BY <1>1, <4>2
      <4> HIDE DEF first
      <4> QED BY <1>1, <4>1, <4>2
    <3> HIDE DEF first, z
    <3>6. Covers(g, n) <=> \E j \in 1 .. (z - 1) : In(g[j], n)
      BY <2>5 DEF Covers
    <3>7. Covers(s, n) <=> \E i \in 1 .. z : In(s[i], n)
      BY DEF Covers, z
    <3>8. k + 1 \in 1 .. z
      BY <2>1
    <3>9. ASSUME NEW j \in 1 .. (z - 1), In(g[j], n) PROVE \E i \in 1 .. z : In(s[i], n)
      BY <2>1, <3>1, <3>2, <3>3, <3>9
    <3>10. ASSUME NEW i \in 1 .. z, In(s[i], n) PROVE \E j \in 1 .. (z - 1) : In(g[j], n)
      BY <3>1, <3>2, <3>4, <3>5, <3>10
    <3> QED BY <3>6, <3>7, <3>9, <3>10
  <2> QED BY <2>3, <2>5, <2>7, <2>8
<1> QED BY <1>3, <1>4

\* The place the walk of tcm_heap_freemem stops at.
LEMMA PassedIs ==
  ASSUME NEW s \in Seq(Chunks), Apart(s), NEW mem \in Nat,
         \A j \in 1 .. Len(s) : s[j].at # mem
  PROVE  /\ Passed(s, mem) \in 0 .. Len(s)
         /\ \A j \in 1 .. Len(s) : j <= Passed(s, mem) => s[j].at < mem
         /\ \A j \in 1 .. Len(s) : j > Passed(s, mem) => mem < s[j].at
<1> DEFINE z == Len(s)
<1>1. z \in Nat /\ \A j \in 1 .. z : s[j] \in Chunks
  BY ElementOfSeq
<1>2. \A j \in 1 .. z : s[j].at \in Nat /\ End(s[j]) \in Nat /\ s[j].at < End(s[j])
  BY <1>1, ChunkIs
<1>3. \A i, j \in 1 .. z : i < j => s[i].at < s[j].at
  BY <1>2 DEF Apart
<1>4. CASE s = <<>> \/ mem < s[1].at
  <2>1. Passed(s, mem) = 0
    BY <1>4 DEF Passed
  <2>2. ASSUME NEW j \in 1 .. z PROVE mem < s[j].at
    <3>1. 1 \in 1 .. z /\ z # 0 /\ (j = 1 \/ 1 < j)
      BY <1>1
    <3>2. s # <<>>
      BY <3>1
    <3>3. s[1].at <= s[j].at /\ s[1].at \in Nat /\ s[j].at \in Nat
      BY <1>2, <1>3, <3>1
    <3> QED BY <1>4, <3>2, <3>3
  <2> QED BY <1>1, <2>1, <2>2
<1>5. CASE ~(s = <<>> \/ mem < s[1].at)
  <2>1. 1 \in 1 .. z /\ s[1].at < mem
    <3>1. 1 \in 1 .. z
      BY <1>1, <1>5, EmptySeq
    <3> QED BY <1>2, <1>5, <3>1
  <2> DEFINE Stop(k) == /\ \A j \in 2 .. k : s[j].at < mem
                        /\ k < Len(s) => s[k + 1].at >= mem
             T == {k \in 1 .. z : \A j \in 2 .. k : s[j].at < mem}
  <2>2. \E k \in 1 .. z : Stop(k)
    <3>1. 1 \in T /\ T \in SUBSET (0 .. z)
      BY <1>1, <2>1
    <3>2. PICK k \in T : \A l \in T : l <= k
      <4> HIDE DEF T, z
      <4> QED BY <1>1, <3>1, NatMax
    <3>3. k \in 1 .. z /\ \A j \in 2 .. k : s[j].at < mem
      BY <3>1
    <3>4. ASSUME k < z PROVE s[k + 1].at >= mem
      <4>1. k + 1 \in 1 .. z /\ k + 1 \notin T
        BY <1>1, <3>2, <3>3, <3>4
      <4>2. PICK j \in 2 .. (k + 1) : ~(s[j].at < mem)
        BY <4>1
      <4>3. j = k + 1
        BY <3>3, <4>2
      <4> QED BY <1>2, <4>1, <4>2, <4>3
    <3> QED BY <3>3, <3>4
  <2>3. DOMAIN s = 1 .. z
    OBVIOUS
  <2>4. Passed(s, mem) = CHOOSE k \in 1 .. z : Stop(k)
    BY <1>5, <2>3 DEF Passed
  <2> DEFINE k == CHOOSE l \in 1 .. z : Stop(l)
  <2>5. k \in 1 .. z /\ Stop(k)
    <3> HIDE DEF Stop
    <3> QED BY <2>2
  <2> HIDE DEF k
  <2>6. \A j \in 1 .. z : j <= k => s[j].at < mem
    <3>1. \A j \in 1 .. z : j = 1 \/ j \in 2 .. z
      BY <1>1
    <3> QED BY <1>1, <2>1, <2>5, <3>1
  <2>7. ASSUME NEW j \in 1 .. z, j > k PROVE mem < s[j].at
    <3>1. k + 1 \in 1 .. z /\ s[k + 1].at >= mem /\ (j = k + 1 \/ k + 1 < j)
      BY <1>1, <2>5, <2>7
    <3>2. s[k + 1].at \in Nat /\ s[j].at \in Nat /\ s[k + 1].at <= s[j].at
      BY <1>2, <1>3, <3>1
    <3> QED BY <3>1, <3>2
  <2>8. Passed(s, mem) = k
    BY <2>4 DEF k
  <2> HIDE DEF Stop
  <2>9. k \in 0 .. z
    BY <1>1, <2>5
  <2> QED BY <2>6, <2>7, <2>8, <2>9
<1> QED BY <1>4, <1>5

\* A block put back: what the list covers now is what it covered, and the block.
LEMMA InsertIs ==
  ASSUME NEW s \in Seq(Chunks), Apart(s), NEW mem \in Nat, NEW length \in Nat \ {0},
         mem % Granule = 0, length % Granule = 0, mem + length <= HeapSize,
         \A n \in Nat : mem <= n /\ n < mem + length => ~Covers(s, n)
  PROVE  /\ Insert(s, mem, length) \in Seq(Chunks) /\ Apart(Insert(s, mem, length))
         /\ \A n \in Nat : Covers(Insert(s, mem, length), n) <=>
              Covers(s, n) \/ (mem <= n /\ n < mem + length)
<1> DEFINE z == Len(s)
           k == Passed(s, mem)
           chunk == [at |-> mem, size |-> length]
           upto == mem + length
<1>1. z \in Nat /\ \A j \in 1 .. z : s[j] \in Chunks
  BY ElementOfSeq
<1>2. \A j \in 1 .. z : /\ s[j].at \in Nat /\ s[j].size \in Nat \ {0} /\ End(s[j]) \in Nat
                        /\ End(s[j]) = s[j].at + s[j].size /\ s[j].at < End(s[j])
  BY <1>1, ChunkIs
<1>3. chunk \in Chunks /\ chunk.at = mem /\ End(chunk) = upto /\ upto \in Nat /\ mem < upto
  <2>1. chunk \in Chunks
    BY ChunkMade
  <2> QED BY <2>1 DEF End
<1>4. \A j \in 1 .. z, n \in Nat : mem <= n /\ n < upto => ~In(s[j], n)
  BY DEF Covers
<1>5. \A j \in 1 .. z : s[j].at # mem
  BY <1>2, <1>3, <1>4 DEF In
<1>6. /\ k \in 0 .. z
      /\ \A j \in 1 .. z : j <= k => s[j].at < mem
      /\ \A j \in 1 .. z : j > k => mem < s[j].at
  BY <1>5, PassedIs
<1> HIDE DEF k, chunk, upto
<1>7. \A j \in 1 .. z : j <= k => End(s[j]) <= mem
  <2>1. SUFFICES ASSUME NEW j \in 1 .. z, j <= k, mem < End(s[j]) PROVE FALSE
    BY <1>2
  <2>2. In(s[j], mem)
    BY <1>2, <1>6, <2>1 DEF In
  <2>3. mem <= mem /\ mem < upto
    BY <1>3
  <2> HIDE DEF z
  <2> QED BY <1>4, <2>1, <2>2, <2>3
<1>8. \A j \in 1 .. z : j > k => upto <= s[j].at
  <2>1. SUFFICES ASSUME NEW j \in 1 .. z, j > k, s[j].at < upto PROVE FALSE
    BY <1>2, <1>3
  <2>2. In(s[j], s[j].at) /\ s[j].at \in Nat /\ mem <= s[j].at
    BY <1>2, <1>6, <2>1 DEF In
  <2> QED BY <1>4, <2>1, <2>2
<1>9. \A i, j \in 1 .. z : i < j => End(s[i]) < s[j].at
  BY DEF Apart
<1>10. CASE k > 0 /\ End(s[k]) = mem
  <2>1. k \in 1 .. z
    BY <1>6, <1>10
  <2> DEFINE c == [at |-> s[k].at, size |-> s[k].size + length]
             t == [s EXCEPT ![k] = c]
  <2>2. c \in Chunks /\ c.at = s[k].at /\ End(c) = upto
    <3> DEFINE a == s[k].at
               l == s[k].size
    <3>1. /\ a \in Nat /\ l \in Nat \ {0} /\ mem = a + l /\ a % Granule = 0 /\ l % Granule = 0
      BY <1>1, <1>10, <2>1, ChunkIs
    <3> HIDE DEF a, l
    <3>2. l + length \in Nat \ {0} /\ a + (l + length) = upto /\ a + (l + length) <= HeapSize
      BY <3>1, SizesAre DEF upto
    <3>3. (l + length) % Granule = 0
      BY <3>1, SizesAre, MultipleSum
    <3>4. [at |-> a, size |-> l + length] \in Chunks
      BY <3>1, <3>2, <3>3, ChunkMade
    <3>5. c = [at |-> a, size |-> l + length]
      BY DEF a, l
    <3> HIDE DEF c
    <3>6. c \in Chunks /\ c.at = a /\ End(c) = upto
      BY <3>2, <3>4, <3>5 DEF End
    <3> QED BY <3>6 DEF a
  <2>3. Insert(s, mem, length) = MergeNext(t, k)
    <3>1. s[k] = [at |-> s[k].at, size |-> s[k].size]
      <4>1. s[k] \in [at : 0 .. HeapSize, size : 1 .. HeapSize]
        BY <1>1, <2>1 DEF Chunks
      <4> QED BY <4>1
    <3>2. [s EXCEPT ![k].size = @ + length] = t
      <4>1. [s[k] EXCEPT !.size = s[k].size + length] = c
        BY <3>1
      <4> QED BY <4>1
    <3> HIDE DEF t
    <3> QED BY <1>10, <3>2 DEF Insert, k
  <2>4. /\ t \in Seq(Chunks) /\ Len(t) = z
        /\ \A j \in 1 .. z : t[j] = IF j = k THEN c ELSE s[j]
    BY <2>1, <2>2, ExceptSeq
  <2> HIDE DEF t, c
  <2>5. ApartBut(t, k)
    <3>1. SUFFICES ASSUME NEW i \in 1 .. z, NEW j \in 1 .. z, i < j
                   PROVE  \/ End(t[i]) < t[j].at
                          \/ i = k /\ j = k + 1 /\ End(t[i]) = t[j].at
      BY <2>4 DEF ApartBut
    <3>2. t[j].at = s[j].at
      BY <2>2, <2>4
    <3>3. CASE i # k
      BY <1>9, <2>4, <3>1, <3>2, <3>3
    <3>4. CASE i = k
      <4>1. End(t[i]) = upto /\ upto <= s[j].at /\ s[j].at \in Nat
        BY <1>2, <1>8, <2>2, <2>4, <3>1, <3>4
      <4>2. CASE j = k + 1
        BY <1>3, <3>2, <3>4, <4>1, <4>2
      <4>3. CASE j # k + 1
        <5>1. k + 1 \in 1 .. z /\ k + 1 < j /\ k + 1 > k
          BY <1>1, <2>1, <3>1, <3>4, <4>3
        <5>2. upto <= s[k + 1].at /\ s[k + 1].at < s[j].at /\ s[k + 1].at \in Nat
          BY <1>2, <1>8, <1>9, <5>1
        <5> QED BY <1>2, <1>3, <3>2, <4>1, <5>2
      <4> QED BY <4>2, <4>3
    <3> QED BY <3>3, <3>4
  <2>6. ASSUME NEW n \in Nat
        PROVE  Covers(t, n) <=> Covers(s, n) \/ (mem <= n /\ n < upto)
    <3>1. In(t[k], n) <=> In(s[k], n) \/ (mem <= n /\ n < upto)
      <4>1. t[k] = c /\ s[k].at \in Nat /\ s[k].at < mem
        BY <1>2, <1>6, <2>1, <2>4
      <4> QED BY <1>3, <1>10, <2>2, <4>1 DEF In
    <3>2. \A j \in 1 .. z : j # k => t[j] = s[j]
      BY <2>4
    <3> HIDE DEF z
    <3>3. Covers(t, n) <=> \E j \in 1 .. z : In(t[j], n)
      BY <2>4 DEF Covers
    <3>4. Covers(s, n) <=> \E j \in 1 .. z : In(s[j], n)
      BY DEF Covers, z
    <3> QED BY <2>1, <3>1, <3>2, <3>3, <3>4
  <2>7. /\ MergeNext(t, k) \in Seq(Chunks) /\ Apart(MergeNext(t, k))
        /\ \A n \in Nat : Covers(MergeNext(t, k), n) <=> Covers(t, n)
    <3>1. k \in 1 .. Len(t)
      BY <2>1, <2>4
    <3> QED BY <2>4, <2>5, <3>1, MergeNextIs
  <2> QED BY <2>3, <2>6, <2>7 DEF upto
<1>11. CASE ~(k > 0 /\ End(s[k]) = mem)
  <2> DEFINE p == k + 1
             t == InsertAt(s, p, chunk)
  <2>1. p \in 1 .. (z + 1) /\ k \in Nat
    BY <1>1, <1>6
  <2>2. /\ t \in Seq(Chunks) /\ Len(t) = z + 1
        /\ \A j \in 1 .. (z + 1) : t[j] = IF j < p THEN s[j] ELSE IF j = p THEN chunk ELSE s[j - 1]
    <3> HIDE DEF p
    <3>1. p \in 1 .. (Len(s) + 1) /\ chunk \in Chunks
      BY <1>3, <2>1
    <3> HIDE DEF z
    <3>2. /\ InsertAt(s, p, chunk) \in Seq(Chunks) /\ Len(InsertAt(s, p, chunk)) = Len(s) + 1
          /\ \A j \in 1 .. (Len(s) + 1) :
               InsertAt(s, p, chunk)[j] = IF j < p THEN s[j] ELSE IF j = p THEN chunk ELSE s[j - 1]
      BY <3>1, InsertAtIs
    <3> HIDE DEF t
    <3> QED BY <3>2 DEF t, z
  <2>3. Insert(s, mem, length) = MergeNext(t, p)
    BY <1>11 DEF Insert, k, chunk
  <2> HIDE DEF t
  <2>4. \A j \in 1 .. (z + 1) : j < p => j \in 1 .. z /\ j <= k /\ t[j] = s[j]
    BY <1>1, <2>1, <2>2
  <2>5. \A j \in 1 .. (z + 1) : j > p => j - 1 \in 1 .. z /\ j - 1 > k /\ t[j] = s[j - 1]
    BY <1>1, <2>1, <2>2
  <2>6. t[p] = chunk /\ p \in 1 .. (z + 1)
    BY <2>1, <2>2
  <2>7. \A j \in 1 .. z : j <= k => End(s[j]) < mem
    <3>1. SUFFICES ASSUME NEW j \in 1 .. z, j <= k PROVE End(s[j]) < mem
      OBVIOUS
    <3>2. CASE j = k
      <4>1. k > 0 /\ End(s[k]) # mem
        BY <1>11, <3>2
      <4> QED BY <1>2, <1>7, <3>2, <4>1
    <3>3. CASE j # k
      <4>1. k \in 1 .. z /\ j < k
        BY <1>6, <3>1, <3>3
      <4>2. End(s[j]) < s[k].at /\ s[k].at < mem /\ s[k].at \in Nat
        BY <1>2, <1>6, <1>9, <4>1
      <4> QED BY <1>2, <4>2
    <3> QED BY <3>2, <3>3
  <2>8. ApartBut(t, p)
    <3>1. SUFFICES ASSUME NEW i \in 1 .. (z + 1), NEW j \in 1 .. (z + 1), i < j
                   PROVE  \/ End(t[i]) < t[j].at
                          \/ i = p /\ j = p + 1 /\ End(t[i]) = t[j].at
      BY <2>2 DEF ApartBut
    <3>2. CASE i < p /\ j < p
      BY <1>9, <2>4, <3>1, <3>2
    <3>3. CASE i < p /\ j = p
      BY <1>3, <2>4, <2>6, <2>7, <3>3
    <3>4. CASE i < p /\ j > p
      <4>1. i \in 1 .. z /\ j - 1 \in 1 .. z /\ i < j - 1 /\ t[i] = s[i] /\ t[j] = s[j - 1]
        BY <2>1, <2>4, <2>5, <3>4
      <4> QED BY <1>9, <4>1
    <3>5. CASE i = p
      <4>1. j - 1 \in 1 .. z /\ j - 1 > k /\ t[j] = s[j - 1] /\ End(t[i]) = upto
        BY <1>3, <2>1, <2>5, <2>6, <3>1, <3>5
      <4>2. upto <= t[j].at /\ t[j].at \in Nat
        BY <1>2, <1>8, <4>1
      <4>3. CASE j = p + 1
        BY <1>3, <3>5, <4>1, <4>2, <4>3
      <4>4. CASE j # p + 1
        <5>1. k + 1 \in 1 .. z /\ k + 1 < j - 1 /\ k + 1 > k
          BY <1>1, <2>1, <3>1, <3>5, <4>1, <4>4
        <5> DEFINE a == s[k + 1].at
                   b == s[j - 1].at
        <5>2. upto <= a /\ a \in Nat /\ b \in Nat
          BY <1>2, <1>8, <4>1, <5>1
        <5>3. End(s[k + 1]) < b /\ a < End(s[k + 1]) /\ End(s[k + 1]) \in Nat
          BY <1>2, <1>9, <4>1, <5>1
        <5>4. t[j].at = b
          BY <4>1
        <5> HIDE DEF a, b
        <5>5. upto < b
          BY <1>3, <5>2, <5>3
        <5> QED BY <4>1, <5>4, <5>5
      <4> QED BY <4>3, <4>4
    <3>6. CASE i > p
      <4>1. i - 1 \in 1 .. z /\ j - 1 \in 1 .. z /\ i - 1 < j - 1
            /\ t[i] = s[i - 1] /\ t[j] = s[j - 1]
        BY <2>1, <2>5, <3>1, <3>6
      <4> QED BY <1>9, <4>1
    <3>7. i < p \/ i = p \/ i > p
      BY <2>1
    <3>8. j < p \/ j = p \/ j > p
      BY <2>1
    <3> QED BY <3>2, <3>3, <3>4, <3>5, <3>6, <3>7, <3>8
  <2>9. ASSUME NEW n \in Nat
        PROVE  Covers(t, n) <=> Covers(s, n) \/ (mem <= n /\ n < upto)
    <3>1. In(t[p], n) <=> mem <= n /\ n < upto
      BY <1>3, <2>6 DEF In
    <3>2. Covers(t, n) <=> \E j \in 1 .. (z + 1) : In(t[j], n)
      BY <2>2 DEF Covers
    <3>3. Covers(s, n) <=> \E j \in 1 .. z : In(s[j], n)
      BY DEF Covers
    <3>4. ASSUME NEW j \in 1 .. z, In(s[j], n) PROVE \E i \in 1 .. (z + 1) : In(t[i], n)
      <4>1. CASE j <= k
        <5>1. j \in 1 .. (z + 1) /\ t[j] = s[j]
          BY <1>1, <2>1, <2>4, <4>1
        <5> QED BY <3>4, <5>1
      <4>2. CASE j > k
        <5>1. j + 1 \in 1 .. (z + 1) /\ t[j + 1] = s[j]
          BY <1>1, <2>1, <2>2, <4>2
        <5> QED BY <3>4, <5>1
      <4> QED BY <2>1, <4>1, <4>2
    <3>5. ASSUME NEW i \in 1 .. (z + 1), In(t[i], n), i # p PROVE \E j \in 1 .. z : In(s[j], n)
      <4>1. CASE i < p
        BY <2>4, <3>5, <4>1
      <4>2. CASE i > p
        BY <2>5, <3>5, <4>2
      <4> QED BY <2>1, <3>5, <4>1, <4>2
    <3> HIDE DEF z, p
    <3> QED BY <2>6, <3>1, <3>2, <3>3, <3>4, <3>5
  <2>10. /\ MergeNext(t, p) \in Seq(Chunks) /\ Apart(MergeNext(t, p))
         /\ \A n \in Nat : Covers(MergeNext(t, p), n) <=> Covers(t, n)
    <3>1. p \in 1 .. Len(t)
      BY <2>1, <2>2
    <3> QED BY <2>2, <2>8, <3>1, MergeNextIs
  <2> QED BY <2>3, <2>9, <2>10 DEF upto
<1> QED BY <1>10, <1>11
-----------------------------------------------------------------------------
(***************************************************************************)
(* The invariant: chunks and blocks have their types and tile the heap, no *)
(* two chunks touch.  It is inductive as it is: each of the three is what   *)
(* makes the walk of a free end at the right place.                        *)
(***************************************************************************)
BlockOK(b) ==
  /\ b.at \in 0 .. HeapSize /\ b.at % Granule = 0
  /\ b.size \in Nat /\ b.at + Rounded(b.size) <= HeapSize

Used(n) == \E b \in blocks : InBlock(b, n)
Single(n) == \A b, c \in blocks : InBlock(b, n) /\ InBlock(c, n) => b = c

HeapInv ==
  /\ FreeList \in Seq(Chunks) /\ Apart(FreeList)
  /\ \A b \in blocks : BlockOK(b)
  /\ refused \in BOOLEAN
  /\ \A n \in 0 .. HeapSize - 1 : (Covers(FreeList, n) <=> ~Used(n)) /\ Single(n)

LEMMA HeapInvMeans == HeapInv => TypeOK /\ Tiled /\ Coalesced
<1> SUFFICES ASSUME HeapInv PROVE TypeOK /\ Tiled /\ Coalesced
  OBVIOUS
<1>1. DOMAIN FreeList = 1 .. Len(FreeList) /\ \A i \in 1 .. Len(FreeList) : FreeList[i] \in Chunks
  BY ElementOfSeq, LenProperties DEF HeapInv
<1>2. FreeList \in Seq([at : 0 .. HeapSize, size : 1 .. HeapSize])
  <2>1. FreeList \in [1 .. Len(FreeList) -> Chunks] /\ Len(FreeList) \in Nat
    BY LenProperties DEF HeapInv
  <2>2. Chunks \subseteq [at : 0 .. HeapSize, size : 1 .. HeapSize]
    BY DEF Chunks
  <2>3. FreeList \in [1 .. Len(FreeList) -> [at : 0 .. HeapSize, size : 1 .. HeapSize]]
    BY <2>1, <2>2
  <2> DEFINE R == [at : 0 .. HeapSize, size : 1 .. HeapSize]
             z == Len(FreeList)
  <2>4. FreeList \in [1 .. z -> R] /\ z \in Nat
    BY <2>1, <2>3
  <2> HIDE DEF R, z
  <2>5. FreeList \in Seq(R)
    BY <2>4, SeqDef
  <2> QED BY <2>5 DEF R
<1>3. TypeOK
  BY <1>1, <1>2 DEF TypeOK, HeapInv, BlockOK, Chunks
<1>4. Coalesced
  BY <1>1 DEF Coalesced, HeapInv, Apart
<1>5. Tiled
  <2>1. SUFFICES ASSUME NEW n \in 0 .. HeapSize - 1
                 PROVE  /\ (\E i \in DOMAIN FreeList : InChunk(i, n)) # (\E b \in blocks : InBlock(b, n))
                        /\ Single(n)
    BY DEF Tiled, Single
  <2>2. Covers(FreeList, n) <=> \E i \in DOMAIN FreeList : InChunk(i, n)
    BY <1>1 DEF Covers, In, InChunk
  <2>3. (Covers(FreeList, n) <=> ~Used(n)) /\ Single(n)
    BY DEF HeapInv
  <2>4. (\E i \in DOMAIN FreeList : InChunk(i, n)) <=> ~(\E b \in blocks : InBlock(b, n))
    BY <2>2, <2>3 DEF Used
  <2> QED BY <2>3, <2>4
<1> QED BY <1>3, <1>4, <1>5

LEMMA HeapInvInitially == Init => HeapInv
<1> SUFFICES ASSUME Init PROVE HeapInv
  OBVIOUS
<1> DEFINE c == [at |-> 0, size |-> HeapSize]
<1>1. c \in Chunks /\ End(c) = HeapSize /\ c.at = 0
  <2>1. 0 % Granule = 0
    <3>1. (0 * Granule) % Granule = 0 /\ 0 * Granule = 0
      BY SizesAre, MultipleProduct
    <3> QED BY <3>1
  <2>2. c \in Chunks
    BY <2>1, HeapAssumption, ChunkMade
  <2> QED BY <2>2, SizesAre DEF End
<1> HIDE DEF c
<1>2. FreeList \in Seq(Chunks) /\ Len(FreeList) = 1 /\ FreeList[1] = c
  BY <1>1 DEF Init, c
<1>3. Apart(FreeList)
  BY <1>2 DEF Apart
<1>4. \A n \in 0 .. HeapSize - 1 : In(c, n)
  BY <1>1, SizesAre DEF In
<1>5. \A n \in 0 .. HeapSize - 1 : Covers(FreeList, n)
  BY <1>2, <1>4 DEF Covers
<1>6. blocks = {} /\ refused \in BOOLEAN
  BY DEF Init
<1> QED BY <1>2, <1>3, <1>5, <1>6 DEF HeapInv, Used, Single

\* The bytes of a block.
LEMMA BlockIs ==
  ASSUME NEW b, BlockOK(b)
  PROVE  /\ b.at \in Nat /\ Rounded(b.size) \in Nat \ {0} /\ Rounded(b.size) % Granule = 0
         /\ b.at + Rounded(b.size) <= HeapSize /\ b.at % Granule = 0
         /\ \A n \in Nat : InBlock(b, n) => n \in 0 .. HeapSize - 1
BY RoundedIs, SizesAre DEF BlockOK, InBlock

\* What is cut for a request, and from which chunk.
LEMMA AllocmemIs ==
  ASSUME HeapInv, NEW size \in Nat, Allocmem(size)
  PROVE  \E i \in 1 .. Len(FreeList) :
            LET b == [at |-> End(FreeList[i]) - Rounded(size), size |-> size]
            IN /\ FreeList' = Cut(i, Rounded(size))
               /\ Rounded(size) \in 1 .. FreeList[i].size
               /\ blocks' = blocks \cup {b} /\ BlockOK(b)
               /\ \A n \in Nat : InBlock(b, n) <=> b.at <= n /\ n < End(FreeList[i])
               /\ \A n \in Nat : InBlock(b, n) => In(FreeList[i], n)
<1> DEFINE i == FirstFit(size)
           l == Rounded(size)
           b == [at |-> End(FreeList[i]) - Rounded(size), size |-> size]
<1>1. l \in Nat \ {0} /\ l % Granule = 0
  BY RoundedIs
<1>2. i \in Fits(size)
  <2>1. Fits(size) \subseteq Nat /\ Fits(size) # {}
    <3>1. DOMAIN FreeList = 1 .. Len(FreeList)
      BY LenProperties DEF HeapInv
    <3> QED BY <3>1 DEF Allocmem, Fits
  <2>2. \E k \in Fits(size) : \A j \in Fits(size) : k <= j
    BY <2>1, NatMin
  <2> QED BY <2>2 DEF FirstFit
<1> HIDE DEF l
<1>3. i \in 1 .. Len(FreeList) /\ FreeList[i] \in Chunks /\ FreeList[i].size >= l
  BY <1>2, ElementOfSeq, LenProperties DEF HeapInv, Fits, l
<1>4. FreeList' = Cut(i, l) /\ blocks' = blocks \cup {b}
  BY DEF Allocmem, l
<1> HIDE DEF i
<1> DEFINE c == FreeList[i]
<1>5. /\ c.at \in Nat /\ c.size \in Nat \ {0} /\ End(c) = c.at + c.size /\ End(c) <= HeapSize
      /\ c.at % Granule = 0 /\ c.size % Granule = 0
  BY <1>3, ChunkIs
<1>6. l \in 1 .. c.size /\ l \in 0 .. End(c) /\ End(c) \in Nat /\ c.at <= End(c) - l
  BY <1>1, <1>3, <1>5
<1>7. End(c) % Granule = 0
  BY <1>5, SizesAre, MultipleSum
<1>8. (End(c) - l) % Granule = 0
  BY <1>1, <1>6, <1>7, SizesAre, MultipleDifference
<1> DEFINE e == End(c)
<1>9. b.at = e - l /\ b.size = size /\ Rounded(b.size) = l
  BY DEF l
<1> HIDE DEF b, c, e
<1>10. BlockOK(b)
  <2>1. e \in Nat /\ e <= HeapSize /\ l \in 1 .. e /\ (e - l) % Granule = 0
    BY <1>1, <1>5, <1>6, <1>8 DEF e
  <2> QED BY <1>9, <2>1, SizesAre DEF BlockOK
<1>11. \A n \in Nat : InBlock(b, n) <=> b.at <= n /\ n < e
  <2>1. e \in Nat /\ l \in 1 .. e
    BY <1>1, <1>6 DEF e
  <2>2. b.at + Rounded(b.size) = e
    BY <1>9, <2>1
  <2> QED BY <2>2 DEF InBlock
<1>12. \A n \in Nat : InBlock(b, n) => In(c, n)
  <2>1. b.at \in Nat /\ c.at \in Nat /\ c.at <= b.at
    BY <1>1, <1>5, <1>6, <1>9 DEF e
  <2> QED BY <1>11, <2>1 DEF In, e
<1> QED
  BY <1>3, <1>4, <1>6, <1>10, <1>11, <1>12 DEF b, c, e, l

LEMMA AllocmemKeeps ==
  ASSUME HeapInv, NEW size \in Nat, Allocmem(size)
  PROVE  HeapInv'
<1>1. PICK i \in 1 .. Len(FreeList) :
        LET b == [at |-> End(FreeList[i]) - Rounded(size), size |-> size]
        IN /\ FreeList' = Cut(i, Rounded(size))
           /\ Rounded(size) \in 1 .. FreeList[i].size
           /\ blocks' = blocks \cup {b} /\ BlockOK(b)
           /\ \A n \in Nat : InBlock(b, n) <=> b.at <= n /\ n < End(FreeList[i])
           /\ \A n \in Nat : InBlock(b, n) => In(FreeList[i], n)
  BY AllocmemIs
<1> DEFINE b == [at |-> End(FreeList[i]) - Rounded(size), size |-> size]
<1>2. /\ FreeList' \in Seq(Chunks) /\ Apart(FreeList')
      /\ \A n \in Nat : Covers(FreeList', n) <=>
           Covers(FreeList, n) /\ ~(End(FreeList[i]) - Rounded(size) <= n /\ n < End(FreeList[i]))
  BY <1>1, CutIs, RoundedIs DEF HeapInv
<1>3. b.at = End(FreeList[i]) - Rounded(size)
  OBVIOUS
<1>4. /\ blocks' = blocks \cup {b} /\ BlockOK(b)
      /\ \A n \in Nat : InBlock(b, n) => Covers(FreeList, n)
      /\ \A n \in Nat : Covers(FreeList', n) <=> Covers(FreeList, n) /\ ~InBlock(b, n)
  <2>1. \A n \in Nat : InBlock(b, n) <=> End(FreeList[i]) - Rounded(size) <= n /\ n < End(FreeList[i])
    BY <1>1, <1>3
  <2>2. \A n \in Nat : InBlock(b, n) => Covers(FreeList, n)
    BY <1>1 DEF Covers
  <2>3. blocks' = blocks \cup {b} /\ BlockOK(b)
    BY <1>1
  <2> HIDE DEF b
  <2> QED BY <1>2, <2>1, <2>2, <2>3
<1> HIDE DEF b
<1>5. ASSUME NEW n \in 0 .. HeapSize - 1
      PROVE  (Covers(FreeList', n) <=> ~Used(n)') /\ Single(n)'
  <2>1. (Covers(FreeList, n) <=> ~Used(n)) /\ Single(n) /\ n \in Nat
    BY SizesAre DEF HeapInv
  <2>2. Used(n)' <=> Used(n) \/ InBlock(b, n)
    BY <1>4 DEF Used, InBlock
  <2>3. Single(n)'
    BY <1>4, <2>1 DEF Single, Used, InBlock
  <2> QED BY <1>4, <2>1, <2>2, <2>3
<1>6. (\A d \in blocks : BlockOK(d))' /\ refused' \in BOOLEAN
  BY <1>4 DEF HeapInv, Allocmem, BlockOK
<1> QED BY <1>2, <1>5, <1>6 DEF HeapInv

LEMMA FreememKeeps ==
  ASSUME HeapInv, NEW b \in blocks, Freemem(b)
  PROVE  HeapInv'
<1> DEFINE l == Rounded(b.size)
<1>1. /\ b.at \in Nat /\ l \in Nat \ {0} /\ l % Granule = 0 /\ b.at + l <= HeapSize
      /\ b.at % Granule = 0 /\ \A n \in Nat : InBlock(b, n) => n \in 0 .. HeapSize - 1
  BY BlockIs DEF HeapInv
<1>2. \A n \in Nat : InBlock(b, n) <=> b.at <= n /\ n < b.at + l
  BY DEF InBlock
<1>3. \A n \in Nat : b.at <= n /\ n < b.at + l => ~Covers(FreeList, n)
  BY <1>1, <1>2 DEF HeapInv, Used
<1> HIDE DEF l
<1>4. FreeList' = Insert(FreeList, b.at, l) /\ blocks' = blocks \ {b} /\ refused' = FALSE
  BY DEF Freemem, l
<1>5. /\ FreeList' \in Seq(Chunks) /\ Apart(FreeList')
      /\ \A n \in Nat : Covers(FreeList', n) <=> Covers(FreeList, n) \/ InBlock(b, n)
  BY <1>1, <1>2, <1>3, <1>4, InsertIs DEF HeapInv
<1>6. ASSUME NEW n \in 0 .. HeapSize - 1
      PROVE  (Covers(FreeList', n) <=> ~Used(n)') /\ Single(n)'
  <2>1. (Covers(FreeList, n) <=> ~Used(n)) /\ Single(n) /\ n \in Nat
    BY SizesAre DEF HeapInv
  <2>2. Used(n)' <=> Used(n) /\ ~InBlock(b, n)
    BY <1>4, <2>1 DEF Used, Single, InBlock
  <2>3. Single(n)'
    BY <1>4, <2>1 DEF Single, InBlock
  <2> QED BY <1>5, <2>1, <2>2, <2>3
<1>7. (\A d \in blocks : BlockOK(d))' /\ refused' \in BOOLEAN
  BY <1>4 DEF HeapInv, BlockOK
<1> QED BY <1>5, <1>6, <1>7 DEF HeapInv

LEMMA HeapInvStep == HeapInv /\ [Next]_vars => HeapInv'
<1> SUFFICES ASSUME HeapInv, [Next]_vars PROVE HeapInv'
  OBVIOUS
<1>1. \A size \in Sizes : size \in Nat /\ size + IntSize \in Nat
  BY HeapAssumption
<1>2. ASSUME NEW size \in Nat, Allocmem(size) PROVE HeapInv'
  BY <1>2, AllocmemKeeps
<1>3. ASSUME NEW size \in Nat, AllocmemFails(size) PROVE HeapInv'
  BY <1>3 DEF AllocmemFails, HeapInv, Used, Single, InBlock, BlockOK
<1>4. ASSUME NEW b \in blocks, Freemem(b) PROVE HeapInv'
  BY <1>4, FreememKeeps
<1>5. CASE UNCHANGED vars
  BY <1>5 DEF vars, HeapInv, Used, Single, InBlock, BlockOK
<1> QED BY <1>1, <1>2, <1>3, <1>4, <1>5 DEF Next, Malloc

THEOREM HeapInvariant == Spec => []HeapInv
BY HeapInvInitially, HeapInvStep, PTL DEF Spec

\* Chunks and blocks are whole granules inside the heap.
THEOREM HeapTypeCorrect == Spec => []TypeOK
BY HeapInvariant, HeapInvMeans, PTL

\* Free chunks and blocks in use tile the heap, for any heap and any sizes
\* asked for: no byte is lost, none is owned twice.
THEOREM HeapTiled == Spec => []Tiled
BY HeapInvariant, HeapInvMeans, PTL

\* No two free chunks touch, so that one merge after a free is enough.
THEOREM HeapCoalesced == Spec => []Coalesced
BY HeapInvariant, HeapInvMeans, PTL
-----------------------------------------------------------------------------
(***************************************************************************)
(* The promise of TcmAlloc.                                                *)
(***************************************************************************)
Lengths == {Rounded(size) : size \in Sizes \cup {s + IntSize : s \in Sizes}}
Taken == {[from |-> b.at, upto |-> b.at + Rounded(b.size)] : b \in blocks}

\* Every request is a number, with the size word before it or without.
LEMMA RequestIs ==
  ASSUME NEW size \in Sizes \cup {s + IntSize : s \in Sizes}
  PROVE  size \in Nat
<1>1. \A s \in Sizes : s \in Nat /\ s + IntSize \in Nat
  BY HeapAssumption
<1>2. size \in Sizes \/ \E s \in Sizes : size = s + IntSize
  OBVIOUS
<1> QED BY <1>1, <1>2

LEMMA AllocmemTakes ==
  ASSUME HeapInv, NEW size \in Sizes \cup {s + IntSize : s \in Sizes}, Allocmem(size)
  PROVE  Alloc!Next
<1>0. size \in Nat /\ Rounded(size) \in Nat \ {0}
  <2>1. size \in Nat
    BY RequestIs
  <2> QED BY <2>1, RoundedIs
<1>1. PICK i \in 1 .. Len(FreeList) :
        LET b == [at |-> End(FreeList[i]) - Rounded(size), size |-> size]
        IN /\ FreeList' = Cut(i, Rounded(size))
           /\ Rounded(size) \in 1 .. FreeList[i].size
           /\ blocks' = blocks \cup {b} /\ BlockOK(b)
           /\ \A n \in Nat : InBlock(b, n) <=> b.at <= n /\ n < End(FreeList[i])
           /\ \A n \in Nat : InBlock(b, n) => In(FreeList[i], n)
  BY <1>0, AllocmemIs
<1> DEFINE b == [at |-> End(FreeList[i]) - Rounded(size), size |-> size]
           from == b.at
           l == Rounded(size)
<1>2. /\ blocks' = blocks \cup {b} /\ BlockOK(b) /\ b.size = size
      /\ \A n \in Nat : InBlock(b, n) => Covers(FreeList, n)
  BY <1>1 DEF Covers
<1> HIDE DEF b
<1>3. /\ from \in 0 .. HeapSize /\ from + l <= HeapSize
      /\ \A n \in Nat : InBlock(b, n) => n \in 0 .. HeapSize - 1
      /\ \A n \in Nat : InBlock(b, n) <=> from <= n /\ n < from + l
  BY <1>2, BlockIs DEF BlockOK, InBlock
<1>4. ASSUME NEW d \in blocks PROVE d.at + Rounded(d.size) <= from \/ from + l <= d.at
  <2> DEFINE m == Rounded(d.size)
             a == d.at
  <2>1. a \in Nat /\ m \in Nat \ {0} /\ \A n \in Nat : InBlock(d, n) <=> a <= n /\ n < a + m
    BY BlockIs DEF HeapInv, InBlock
  <2>2. \A n \in Nat : ~(InBlock(b, n) /\ InBlock(d, n))
    BY <1>2, <1>3 DEF HeapInv, Used
  <2> HIDE DEF a, m, from, l
  <2>3. from \in Nat /\ l \in Nat \ {0}
    BY <1>0, <1>3, SizesAre DEF l
  <2>4. ~(InBlock(b, from) /\ InBlock(d, from)) /\ ~(InBlock(b, a) /\ InBlock(d, a))
    BY <2>1, <2>2, <2>3
  <2>5. a + m <= from \/ from + l <= a
    BY <1>3, <2>1, <2>3, <2>4
  <2> QED BY <2>5 DEF a, m
<1>5. Alloc!Gap(from, from + l)
  BY <1>3, <1>4 DEF Alloc!Gap
<1>6. Taken' = Taken \cup {[from |-> from, upto |-> from + l]}
  BY <1>2 DEF Taken
<1>7. Alloc!Take(l)
  BY <1>3, <1>5, <1>6 DEF Alloc!Take, Taken, Allocmem
<1>8. l \in Lengths
  BY DEF Lengths
<1> QED BY <1>7, <1>8 DEF Alloc!Next, Lengths

\* A gap between blocks is inside one chunk, because no two chunks touch.
LEMMA AllocmemFailsRefuses ==
  ASSUME HeapInv, NEW size \in Sizes \cup {s + IntSize : s \in Sizes}, AllocmemFails(size)
  PROVE  Alloc!Next
<1> DEFINE l == Rounded(size)
           z == Len(FreeList)
<1>1. l \in Nat \ {0}
  <2>1. size \in Nat
    BY RequestIs
  <2> QED BY <2>1, RoundedIs
<1>2. z \in Nat /\ \A i \in 1 .. z : FreeList[i] \in Chunks
  BY ElementOfSeq DEF HeapInv
<1>3. \A i \in 1 .. z : /\ FreeList[i].at \in Nat /\ FreeList[i].size \in Nat \ {0}
                        /\ End(FreeList[i]) \in Nat /\ FreeList[i].at < End(FreeList[i])
                        /\ End(FreeList[i]) = FreeList[i].at + FreeList[i].size
  BY <1>2, ChunkIs
<1>4. \A i \in 1 .. z : FreeList[i].size < l
  <2>1. DOMAIN FreeList = 1 .. z
    BY LenProperties DEF HeapInv
  <2>2. \A i \in 1 .. z : ~(FreeList[i].size >= l)
    BY <2>1 DEF AllocmemFails, Fits
  <2> HIDE DEF l
  <2> QED BY <1>1, <1>3, <2>2
<1> HIDE DEF l
<1>5. ASSUME NEW from \in 0 .. HeapSize, Alloc!Gap(from, from + l) PROVE FALSE
  <2>1. from + l <= HeapSize /\ from \in Nat
    BY <1>5, SizesAre DEF Alloc!Gap
  <2>2. ASSUME NEW n \in Nat, from <= n, n < from + l PROVE Covers(FreeList, n)
    <3>1. n \in 0 .. HeapSize - 1
      BY <1>1, <2>1, <2>2, SizesAre
    <3>2. ASSUME NEW b \in blocks, InBlock(b, n) PROVE FALSE
      <4>1. [from |-> b.at, upto |-> b.at + Rounded(b.size)] \in Taken
        BY DEF Taken
      <4>2. b.at + Rounded(b.size) <= from \/ from + l <= b.at
        BY <1>5, <4>1 DEF Alloc!Gap, Taken
      <4>3. b.at \in Nat /\ Rounded(b.size) \in Nat
        BY BlockIs DEF HeapInv
      <4> DEFINE a == b.at
                 m == Rounded(b.size)
      <4>4. a <= n /\ n < a + m /\ (a + m <= from \/ from + l <= a) /\ a \in Nat /\ m \in Nat
        BY <3>2, <4>2, <4>3 DEF InBlock
      <4> HIDE DEF a, m
      <4> QED BY <1>1, <2>1, <2>2, <4>4
    <3>3. ~Used(n)
      BY <3>2 DEF Used
    <3> QED BY <3>1, <3>3 DEF HeapInv
  <2>3. PICK i \in 1 .. z : In(FreeList[i], from)
    BY <1>1, <2>1, <2>2 DEF Covers
  <2> DEFINE e == End(FreeList[i])
  <2>4. e \in Nat /\ from < e /\ e < from + l
    BY <1>1, <1>3, <1>4, <2>1, <2>3 DEF In
  <2>5. PICK j \in 1 .. z : In(FreeList[j], e)
    <3> HIDE DEF e
    <3> QED BY <2>1, <2>2, <2>4 DEF Covers
  <2>6. FreeList[j].at <= e /\ e < End(FreeList[j])
    BY <2>5 DEF In
  <2>7. CASE i < j
    <3>1. e < FreeList[j].at
      BY <2>7 DEF HeapInv, Apart
    <3> QED BY <1>3, <2>6, <3>1
  <2>8. CASE j < i
    <3>1. End(FreeList[j]) < FreeList[i].at
      BY <2>8 DEF HeapInv, Apart
    <3> QED BY <1>3, <2>6, <3>1
  <2>9. CASE i = j
    BY <1>3, <2>6, <2>9
  <2> QED BY <1>2, <2>7, <2>8, <2>9
<1>6. Taken' = Taken /\ refused' = TRUE
  BY DEF AllocmemFails, Taken
<1>7. Alloc!Refuse(l)
  BY <1>5, <1>6 DEF Alloc!Refuse, Taken
<1>8. l \in Lengths
  BY DEF Lengths, l
<1> QED BY <1>7, <1>8 DEF Alloc!Next, Lengths

\* Two blocks in use are not the same interval.
LEMMA FreememGives ==
  ASSUME HeapInv, NEW b \in blocks, Freemem(b)
  PROVE  Alloc!Next
<1> DEFINE Img(d) == [from |-> d.at, upto |-> d.at + Rounded(d.size)]
<1>1. ASSUME NEW d \in blocks, Img(d) = Img(b) PROVE d = b
  <2>1. d.at = b.at /\ d.at + Rounded(d.size) = b.at + Rounded(b.size)
    BY <1>1
  <2>2. /\ b.at \in Nat /\ Rounded(b.size) \in Nat \ {0}
        /\ \A n \in Nat : InBlock(b, n) => n \in 0 .. HeapSize - 1
    BY BlockIs DEF HeapInv
  <2>3. InBlock(b, b.at)
    BY <2>2 DEF InBlock
  <2>4. InBlock(d, b.at)
    BY <2>1, <2>3 DEF InBlock
  <2> QED BY <2>2, <2>3, <2>4 DEF HeapInv, Single
<1>2. blocks' = blocks \ {b} /\ refused' = FALSE
  BY DEF Freemem
<1>3. Taken = {Img(d) : d \in blocks} /\ Taken' = {Img(d) : d \in blocks'}
  BY DEF Taken
<1>4. Img(b) \in Taken
  BY <1>3
<1>5. Taken' = Taken \ {Img(b)}
  <2> HIDE DEF Img
  <2> QED BY <1>1, <1>2, <1>3
<1>6. Alloc!Give
  BY <1>2, <1>4, <1>5 DEF Alloc!Give, Taken
<1> QED BY <1>6 DEF Alloc!Next

\* The heap implements TcmAlloc, step by step: blocks never overlap, and a
\* request fails only when no gap between them is long enough.
THEOREM HeapAllocates == Spec => Allocates
<1>1. Init => Alloc!Init
  BY DEF Init, Alloc!Init
<1>2. HeapInv /\ [Next]_vars => [Alloc!Next]_(Alloc!vars)
  <2> SUFFICES ASSUME HeapInv, [Next]_vars PROVE [Alloc!Next]_(Alloc!vars)
    OBVIOUS
  <2>1. ASSUME NEW size \in Sizes \cup {s + IntSize : s \in Sizes},
               Allocmem(size) \/ AllocmemFails(size)
        PROVE  Alloc!Next
    BY <2>1, AllocmemTakes, AllocmemFailsRefuses
  <2>2. ASSUME NEW b \in blocks, Freemem(b) PROVE Alloc!Next
    BY <2>2, FreememGives
  <2>3. CASE UNCHANGED vars
    BY <2>3 DEF vars, Alloc!vars
  <2>4. CASE Next
    BY <2>1, <2>2, <2>4 DEF Next, Malloc
  <2> QED BY <2>3, <2>4
<1> QED BY <1>1, <1>2, HeapInvariant, PTL DEF Spec, Allocates, Alloc!Spec
==============================================================================
