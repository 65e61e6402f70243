------------------------ MODULE SnapshotInstallProofs ------------------------
(***************************************************************************)
(* Proofs about SnapshotInstall, for every manifest, chunk size and set of *)
(* snapshots, and any number of transfers.                                 *)
(***************************************************************************)
EXTENDS SnapshotInstall, SequenceTheorems, WellFoundedInduction, TLAPS

-----------------------------------------------------------------------------
(* The chunks of a transfer.  What build_snapshot_chunks computes is shown *)
(* by induction over the files, as the absence of a least counterexample.  *)

LEMMA LeastNat ==
    ASSUME NEW T, T \subseteq Nat, T # {}
    PROVE  \E n \in T : \A m \in T : n <= m
<1>1. PICK n \in T : \A m \in T : ~(<<m, n>> \in OpToRel(<, Nat))
  BY WFMin, NatLessThanWellFounded, Zenon
<1>2. \A m \in T : ~(m < n)
  BY <1>1, Zenon DEF OpToRel
<1> QED BY <1>2

LEMMA FileFacts ==
    /\ ChunkBytes \in Nat /\ ChunkBytes > 0
    /\ Len(Files) \in Nat /\ DOMAIN Files = 1..Len(Files)
    /\ \A f \in 1..Len(Files) : Files[f].size \in Nat
    /\ \A f, g \in 1..Len(Files) : Files[f].name = Files[g].name => f = g
<1>1. PICK S : S = [name : STRING, size : Nat]
  BY Zenon
<1>2. Files \in Seq(S) /\ ChunkBytes \in Nat /\ ChunkBytes > 0
  BY <1>1, SnapshotAssumption
<1>3. \A x \in S : x.size \in Nat
  BY <1>1, Zenon
<1>4. Len(Files) \in Nat /\ DOMAIN Files = 1..Len(Files)
  BY <1>2, LenProperties, Zenon
<1>5. \A f \in 1..Len(Files) : Files[f].size \in Nat
  BY <1>2, <1>3, <1>4, ElementOfSeq, Zenon
<1> QED BY <1>2, <1>4, <1>5, SnapshotAssumption, Zenon

(* The number of chunks of a file: enough of them, and none to spare.      *)
Ceiling(n, c) == (n + c - 1) \div c
Count(f) == IF Files[f].size = 0 THEN 1 ELSE Ceiling(Files[f].size, ChunkBytes)

LEMMA Rounding ==
    ASSUME NEW n \in Nat, NEW c \in Nat, n > 0, c > 0
    PROVE  /\ Ceiling(n, c) \in Nat /\ Ceiling(n, c) >= 1
           /\ n <= Ceiling(n, c) * c
           /\ (Ceiling(n, c) - 1) * c < n
<1> DEFINE q == (n + c - 1) \div c
           m == (n + c - 1) % c
<1>1. q \in Int /\ m \in 0..(c - 1) /\ n + c - 1 = c * q + m
  OBVIOUS
<1> HIDE DEF q, m
<1>2. q >= 1
  BY <1>1
<1>3. n <= q * c /\ (q - 1) * c < n
  BY <1>1
<1> QED BY <1>1, <1>2, <1>3 DEF q, Ceiling

LEMMA Counting ==
    ASSUME NEW f \in 1..Len(Files)
    PROVE  /\ Count(f) \in Nat /\ Count(f) >= 1
           /\ Files[f].size > 0 => /\ Files[f].size <= Count(f) * ChunkBytes
                                  /\ (Count(f) - 1) * ChunkBytes < Files[f].size
           /\ Files[f].size = 0 => Count(f) = 1
<1>1. Files[f].size \in Nat /\ ChunkBytes \in Nat /\ ChunkBytes > 0
  BY FileFacts, Zenon
<1>2. CASE Files[f].size = 0
  BY <1>1, <1>2 DEF Count
<1>3. CASE Files[f].size > 0
  <2>1. PICK n \in Nat : n = Files[f].size /\ n > 0
    BY <1>1, <1>3, Zenon
  <2>2. Count(f) = Ceiling(n, ChunkBytes)
    BY <2>1 DEF Count
  <2>3. /\ Ceiling(n, ChunkBytes) \in Nat /\ Ceiling(n, ChunkBytes) >= 1
        /\ n <= Ceiling(n, ChunkBytes) * ChunkBytes
        /\ (Ceiling(n, ChunkBytes) - 1) * ChunkBytes < n
    BY <1>1, <2>1, Rounding, Zenon
  <2> QED BY <2>1, <2>2, <2>3
<1> QED BY <1>1, <1>2, <1>3

(* One chunk of a file.                                                    *)
Chunk(f, k) ==
    [name |-> Files[f].name, offset |-> (k - 1) * ChunkBytes,
     size |-> IF Files[f].size < k * ChunkBytes THEN Files[f].size - (k - 1) * ChunkBytes
                                                ELSE ChunkBytes]

LEMMA ChunksOfIs ==
    ASSUME NEW f \in 1..Len(Files)
    PROVE  /\ Count(f) \in Nat /\ Count(f) >= 1
           /\ ChunksOf(f) = [k \in 1..Count(f) |-> Chunk(f, k)]
<1>1. Count(f) \in Nat /\ Count(f) >= 1
  BY Counting, Zenon
<1>2. ChunksOf(f) = [k \in 1..Count(f) |-> Chunk(f, k)]
  BY Zenon DEF ChunksOf, Count, Ceiling, Chunk
<1> QED BY <1>1, <1>2, Zenon

(* A chunk begins where the one before it ends, and the last one ends with *)
(* the file.                                                               *)
LEMMA ChunksMeet ==
    ASSUME NEW f \in 1..Len(Files), NEW k \in 1..Count(f)
    PROVE  /\ Chunk(f, k).name = Files[f].name
           /\ Chunk(f, k).offset \in Nat /\ Chunk(f, k).size \in Nat
           /\ Chunk(f, k).offset = 0 <=> k = 1
           /\ k > 1 => Chunk(f, k).offset = Chunk(f, k - 1).offset + Chunk(f, k - 1).size
           /\ k = Count(f) => Chunk(f, k).offset + Chunk(f, k).size = Files[f].size
<1> DEFINE n == Files[f].size
           c == ChunkBytes
           q == Count(f)
<1>1. n \in Nat /\ c \in Nat /\ c > 0 /\ q \in Nat /\ q >= 1 /\ k \in 1..q
  BY FileFacts, ChunksOfIs, Zenon
<1>2. n > 0 => n <= q * c /\ (q - 1) * c < n
  BY Counting, Zenon
<1>3. n = 0 => q = 1
  BY Counting, Zenon
<1>4. PICK o \in Nat : o = (k - 1) * c
  BY <1>1
<1>5. k * c = o + c
  BY <1>1, <1>4
<1>6. o = 0 <=> k = 1
  BY <1>1, <1>4
<1>7. o <= n
  <2>1. CASE n = 0
    BY <1>1, <1>3, <1>6, <2>1
  <2>2. CASE n > 0
    <3>1. (k - 1) * c <= (q - 1) * c
      BY <1>1
    <3> QED BY <1>1, <1>2, <1>4, <2>2, <3>1
  <2> QED BY <1>1, <2>1, <2>2
<1>8. ASSUME k > 1 PROVE (k - 2) * c = o - c /\ o >= c
  BY <1>1, <1>4, <1>8
<1>9. k = q => n <= o + c
  BY <1>1, <1>2, <1>3, <1>5
<1> HIDE DEF n, c, q
<1>10. /\ Chunk(f, k).name = Files[f].name
       /\ Chunk(f, k).offset = o
       /\ Chunk(f, k).size = IF n < o + c THEN n - o ELSE c
  BY <1>4, <1>5, Zenon DEF Chunk, n, c
<1>11. ASSUME k > 1 PROVE Chunk(f, k - 1).offset = o - c /\ Chunk(f, k - 1).size = c
  <2>1. (k - 1) - 1 = k - 2 /\ (k - 1) * c = o
    BY <1>1, <1>4
  <2>2. Chunk(f, k - 1).offset = (k - 2) * c
    BY <1>1, <2>1, Zenon DEF Chunk, c
  <2>3. Chunk(f, k - 1).size = IF n < o THEN n - (k - 2) * c ELSE c
    BY <1>1, <2>1, Zenon DEF Chunk, c, n
  <2> QED BY <1>1, <1>4, <1>7, <1>8, <1>11, <2>2, <2>3
<1>12. k > 1 => Chunk(f, k).offset = Chunk(f, k - 1).offset + Chunk(f, k - 1).size
  BY <1>1, <1>4, <1>10, <1>11
<1>13. k = q => Chunk(f, k).offset + Chunk(f, k).size = n
  BY <1>1, <1>4, <1>7, <1>9, <1>10
<1>14. Chunk(f, k).offset \in Nat /\ Chunk(f, k).size \in Nat
  BY <1>1, <1>4, <1>7, <1>10
<1> QED BY <1>6, <1>10, <1>12, <1>13, <1>14, Zenon DEF n, q

(* The recursive definition of ChunksUpTo has a solution.                  *)
Cut(g, m) == g = [f \in 0..m |-> IF f = 0 THEN <<>> ELSE g[f - 1] \o ChunksOf(f)]

LEMMA CutExists == \A m \in 0..Len(Files) : \E g : Cut(g, m)
<1> DEFINE Bad == {m \in 0..Len(Files) : ~\E g : Cut(g, m)}
<1> SUFFICES ASSUME Bad # {} PROVE FALSE
  BY Zenon
<1>0. Bad \subseteq Nat
  BY FileFacts
<1>1. PICK m \in Bad : \A n \in Bad : m <= n
  <2> HIDE DEF Bad
  <2> QED BY <1>0, LeastNat, Zenon
<1>2. CASE m = 0
  <2> DEFINE g == [f \in 0..0 |-> <<>>]
  <2>1. Cut(g, 0)
    BY DEF Cut
  <2> QED BY <1>2, <2>1, Zenon
<1>3. CASE m # 0
  <2>1. m \in Nat /\ m - 1 \in 0..Len(Files) /\ ~(m <= m - 1)
    BY <1>3, FileFacts
  <2>2. PICK g : Cut(g, m - 1)
    BY <1>1, <2>1, Zenon
  <2> DEFINE h == [f \in 0..m |-> IF f = m THEN g[m - 1] \o ChunksOf(m) ELSE g[f]]
  <2>3. \A f \in 0..m : h[f] = IF f = 0 THEN <<>> ELSE h[f - 1] \o ChunksOf(f)
    <3> SUFFICES ASSUME NEW f \in 0..m
                 PROVE  h[f] = IF f = 0 THEN <<>> ELSE h[f - 1] \o ChunksOf(f)
      BY Zenon
    <3>1. CASE f = m
      <4>1. m - 1 \in 0..m /\ m - 1 # m
        BY <2>1
      <4>2. h[m - 1] = g[m - 1]
        BY <4>1, Zenon
      <4> QED BY <1>3, <3>1, <4>2, Zenon
    <3>2. CASE f # m
      <4>1. f \in 0..(m - 1) /\ (f # 0 => f - 1 \in 0..m /\ f - 1 # m)
        BY <2>1, <3>2
      <4>2. h[f] = g[f] /\ (f # 0 => h[f - 1] = g[f - 1])
        BY <3>2, <4>1, Zenon
      <4>3. g[f] = IF f = 0 THEN <<>> ELSE g[f - 1] \o ChunksOf(f)
        BY <2>2, <4>1, Zenon DEF Cut
      <4> QED BY <4>2, <4>3, Zenon
    <3> QED BY <3>1, <3>2, Zenon
  <2>4. Cut(h, m)
    <3> HIDE DEF h
    <3>1. DOMAIN h = 0..m /\ h = [f \in 0..m |-> h[f]]
      BY Zenon DEF h
    <3> QED BY <2>3, <3>1, Zenon DEF Cut
  <2> QED BY <2>4, Zenon
<1> QED BY <1>2, <1>3, Zenon

LEMMA UpToIs ==
    /\ ChunksUpTo[0] = <<>>
    /\ \A f \in 1..Len(Files) : ChunksUpTo[f] = ChunksUpTo[f - 1] \o ChunksOf(f)
<1>1. \E g : Cut(g, Len(Files))
  BY CutExists, FileFacts
<1>2. Cut(ChunksUpTo, Len(Files))
  BY <1>1, Zenon DEF Cut, ChunksUpTo
<1>3. \A f \in 0..Len(Files) :
        ChunksUpTo[f] = IF f = 0 THEN <<>> ELSE ChunksUpTo[f - 1] \o ChunksOf(f)
  BY <1>2, Zenon DEF Cut
<1>4. 0 \in 0..Len(Files) /\ \A f \in 1..Len(Files) : f \in 0..Len(Files) /\ f # 0
  BY FileFacts
<1> QED BY <1>3, <1>4, Zenon
(* What the chunks of the first g files are: each begins its file or goes  *)
(* on where the one before it ended, every file has one, and the last one  *)
(* of a file ends with it.                                                 *)
ChunkSet == {Chunk(f, k) : f \in 1..Len(Files), k \in Nat}

LastOf(c, n, i) == \A j \in 1..n : i < j => c[j].name # c[i].name

Tiles(c, g) ==
    /\ c \in Seq(ChunkSet)
    /\ \A i \in 1..Len(c) :
           /\ c[i].offset \in Nat /\ c[i].size \in Nat
           /\ \E f \in 1..g : c[i].name = Files[f].name
           /\ c[i].offset # 0 =>
                  /\ i > 1 /\ c[i].name = c[i - 1].name
                  /\ c[i].offset = c[i - 1].offset + c[i - 1].size
           /\ LastOf(c, Len(c), i) => c[i].offset + c[i].size = SizeOf(c[i].name)
    /\ \A f \in 1..g : \E i \in 1..Len(c) : c[i].name = Files[f].name

LEMMA SizeOfFile ==
    ASSUME NEW f \in 1..Len(Files)
    PROVE  Files[f].name \in Names /\ SizeOf(Files[f].name) = Files[f].size
<1>1. DOMAIN Files = 1..Len(Files)
  BY FileFacts, Zenon
<1>2. \A g \in DOMAIN Files : Files[g].name = Files[f].name => g = f
  BY <1>1, FileFacts, Zenon
<1>3. (CHOOSE g \in DOMAIN Files : Files[g].name = Files[f].name) = f
  BY <1>1, <1>2, Zenon
<1> QED BY <1>1, <1>3, Zenon DEF SizeOf, Names

LEMMA TilesNext ==
    ASSUME NEW g \in 1..Len(Files), NEW c, Tiles(c, g - 1)
    PROVE  Tiles(c \o ChunksOf(g), g)
<1> DEFINE d == ChunksOf(g)
           e == c \o d
           n == Len(c)
           m == Count(g)
<1>1. m \in Nat /\ m >= 1 /\ d = [k \in 1..m |-> Chunk(g, k)]
  BY ChunksOfIs, Zenon
<1>2. c \in Seq(ChunkSet) /\ n \in Nat
  BY LenProperties, Zenon DEF Tiles
<1>3. d \in Seq(ChunkSet) /\ Len(d) = m
  <2>1. \A k \in 1..m : Chunk(g, k) \in ChunkSet
    BY <1>1 DEF ChunkSet
  <2> HIDE DEF d, m
  <2> QED BY <1>1, <2>1, IsASeq
<1>4. /\ e \in Seq(ChunkSet) /\ Len(e) = n + m
      /\ \A i \in 1..n : e[i] = c[i]
      /\ \A k \in 1..m : e[n + k] = Chunk(g, k)
  <2>1. e \in Seq(ChunkSet) /\ Len(e) = n + m
    BY <1>2, <1>3, ConcatProperties, Zenon
  <2>2. \A i \in 1..(n + m) : e[i] = IF i <= n THEN c[i] ELSE d[i - n]
    BY <1>2, <1>3, ConcatProperties
  <2>3. \A k \in 1..m : n + k \in 1..(n + m) /\ ~(n + k <= n) /\ (n + k) - n = k
    BY <1>1, <1>2
  <2>4. \A i \in 1..n : i \in 1..(n + m) /\ i <= n
    BY <1>1, <1>2
  <2> HIDE DEF d, e, n, m
  <2> QED BY <1>1, <2>1, <2>2, <2>3, <2>4, Zenon
<1>5. \A i \in 1..(n + m) : i \in 1..n \/ \E k \in 1..m : i = n + k
  <2> HIDE DEF n, m
  <2> SUFFICES ASSUME NEW i \in 1..(n + m), i \notin 1..n
               PROVE  \E k \in 1..m : i = n + k
    BY Zenon
  <2>1. i - n \in 1..m /\ i = n + (i - n)
    BY <1>1, <1>2
  <2> QED BY <2>1, Zenon
<1>6. \A f \in 1..(g - 1) : f \in 1..g /\ f \in 1..Len(Files) /\ f # g
  BY FileFacts
<1>7. \A k \in 1..m :
         /\ Chunk(g, k).name = Files[g].name
         /\ Chunk(g, k).offset \in Nat /\ Chunk(g, k).size \in Nat
         /\ Chunk(g, k).offset = 0 <=> k = 1
         /\ k > 1 => Chunk(g, k).offset = Chunk(g, k - 1).offset + Chunk(g, k - 1).size
         /\ k = m => Chunk(g, k).offset + Chunk(g, k).size = Files[g].size
  BY ChunksMeet, Zenon
<1> HIDE DEF d, e, m
<1>8. ASSUME NEW i \in 1..(n + m)
      PROVE  /\ e[i].offset \in Nat /\ e[i].size \in Nat
             /\ \E f \in 1..g : e[i].name = Files[f].name
             /\ e[i].offset # 0 =>
                    /\ i > 1 /\ e[i].name = e[i - 1].name
                    /\ e[i].offset = e[i - 1].offset + e[i - 1].size
             /\ LastOf(e, n + m, i) => e[i].offset + e[i].size = SizeOf(e[i].name)
  <2>1. CASE i \in 1..n
    <3>1. e[i] = c[i] /\ (i > 1 => i - 1 \in 1..n /\ e[i - 1] = c[i - 1])
      BY <1>2, <1>4, <2>1
    <3>2. PICK f \in 1..(g - 1) : c[i].name = Files[f].name
      BY <2>1, Zenon DEF Tiles
    <3>3. LastOf(e, n + m, i) => LastOf(c, n, i)
      <4>1. \A j \in 1..n : j \in 1..(n + m) /\ e[j] = c[j]
        BY <1>1, <1>2, <1>4
      <4> QED BY <3>1, <4>1, Zenon DEF LastOf
    <3>4. /\ c[i].offset \in Nat /\ c[i].size \in Nat
          /\ c[i].offset # 0 =>
                    /\ i > 1 /\ c[i].name = c[i - 1].name
                    /\ c[i].offset = c[i - 1].offset + c[i - 1].size
          /\ LastOf(c, n, i) => c[i].offset + c[i].size = SizeOf(c[i].name)
      BY <2>1, Zenon DEF Tiles
    <3> QED BY <1>6, <3>1, <3>2, <3>3, <3>4, Zenon
  <2>2. CASE i \notin 1..n
    <3>1. PICK k \in 1..m : i = n + k
      BY <1>5, <2>2, Zenon
    <3>2. e[i] = Chunk(g, k)
      BY <1>4, <3>1, Zenon
    <3>3. g \in 1..g /\ e[i].name = Files[g].name
      BY <1>7, <3>2, FileFacts
    <3>4. ASSUME k > 1
          PROVE  /\ i > 1 /\ e[i].name = e[i - 1].name
                 /\ e[i].offset = e[i - 1].offset + e[i - 1].size
      <4>1. k - 1 \in 1..m /\ i - 1 = n + (k - 1) /\ i > 1
        BY <1>1, <1>2, <3>1, <3>4
      <4>2. e[i - 1] = Chunk(g, k - 1)
        BY <1>4, <4>1, Zenon
      <4> QED BY <1>7, <3>2, <3>4, <4>1, <4>2, Zenon
    <3>5. e[i].offset # 0 => k > 1
      BY <1>1, <1>7, <3>2
    <3>6. ASSUME LastOf(e, n + m, i) PROVE e[i].offset + e[i].size = SizeOf(e[i].name)
      <4>1. m \in 1..m /\ n + m \in 1..(n + m) /\ (k # m => i < n + m)
        BY <1>1, <1>2, <3>1
      <4>2. e[n + m].name = Files[g].name
        BY <1>4, <1>7, <4>1
      <4>3. k = m
        BY <3>3, <3>6, <4>1, <4>2, Zenon DEF LastOf
      <4> QED BY <1>7, <3>2, <3>3, <4>3, SizeOfFile, Zenon
    <3> QED BY <1>7, <3>2, <3>3, <3>4, <3>5, <3>6, Zenon
  <2> QED BY <2>1, <2>2, Zenon
<1>9. ASSUME NEW f \in 1..g
      PROVE  \E i \in 1..(n + m) : e[i].name = Files[f].name
  <2>1. CASE f = g
    <3>1. 1 \in 1..m /\ n + 1 \in 1..(n + m)
      BY <1>1, <1>2
    <3>2. e[n + 1].name = Files[g].name
      BY <1>4, <1>7, <3>1, Zenon
    <3> QED BY <2>1, <3>1, <3>2, Zenon
  <2>2. CASE f # g
    <3>1. f \in 1..(g - 1)
      BY <2>2, FileFacts
    <3>2. PICK i \in 1..n : c[i].name = Files[f].name
      BY <3>1, Zenon DEF Tiles
    <3>3. i \in 1..(n + m) /\ e[i] = c[i]
      BY <1>1, <1>2, <1>4, <3>2
    <3> QED BY <3>2, <3>3, Zenon
  <2> QED BY <2>1, <2>2, Zenon
<1>10. Tiles(e, g)
  BY <1>4, <1>8, <1>9 DEF Tiles
<1> QED BY <1>10, Zenon DEF d, e

LEMMA TilesAll == Tiles(build_snapshot_chunks, Len(Files))
<1> DEFINE Bad == {g \in 0..Len(Files) : ~Tiles(ChunksUpTo[g], g)}
<1>1. Bad = {}
  <2> SUFFICES ASSUME Bad # {} PROVE FALSE
    BY Zenon
  <2>1. Bad \subseteq Nat
    BY FileFacts
  <2>2. PICK g \in Bad : \A h \in Bad : g <= h
    <3> HIDE DEF Bad
    <3> QED BY <2>1, LeastNat, Zenon
  <2>3. CASE g = 0
    <3>1. <<>> \in Seq(ChunkSet) /\ Len(<<>>) = 0 /\ 1..0 = {} /\ ChunksUpTo[0] = <<>>
      BY UpToIs, EmptySeq
    <3>2. Tiles(ChunksUpTo[0], 0)
      BY <3>1, Zenon DEF Tiles
    <3> QED BY <2>2, <2>3, <3>2, Zenon
  <2>4. CASE g # 0
    <3>1. g \in 1..Len(Files) /\ g - 1 \in 0..Len(Files) /\ ~(g <= g - 1)
      BY <2>2, <2>4, FileFacts
    <3>2. Tiles(ChunksUpTo[g - 1], g - 1)
      BY <2>2, <3>1, Zenon
    <3>3. Tiles(ChunksUpTo[g - 1] \o ChunksOf(g), g)
      BY <3>1, <3>2, TilesNext, Zenon
    <3> QED BY <2>2, <3>1, <3>3, UpToIs, Zenon
  <2> QED BY <2>3, <2>4, Zenon
<1>2. Len(Files) \in 0..Len(Files)
  BY FileFacts
<1> QED BY <1>1, <1>2, Zenon DEF build_snapshot_chunks
LEMMA DbIsFile == "db" \in Names
  BY SnapshotAssumption, Zenon DEF Names

Chunks == build_snapshot_chunks

LEMMA ChunkFacts ==
    /\ Len(Chunks) \in Nat /\ Len(Chunks) >= 1
    /\ \A i \in 1..Len(Chunks) :
           /\ Chunks[i].offset \in Nat /\ Chunks[i].size \in Nat
           /\ Chunks[i].name \in Names
           /\ Chunks[i].offset # 0 =>
                  /\ i > 1 /\ Chunks[i].name = Chunks[i - 1].name
                  /\ Chunks[i].offset = Chunks[i - 1].offset + Chunks[i - 1].size
           /\ LastOf(Chunks, Len(Chunks), i) =>
                  Chunks[i].offset + Chunks[i].size = SizeOf(Chunks[i].name)
    /\ \A name \in Names : \E i \in 1..Len(Chunks) : Chunks[i].name = name
<1>1. Tiles(Chunks, Len(Files)) /\ DOMAIN Files = 1..Len(Files)
  BY TilesAll, FileFacts, Zenon DEF Chunks
<1>2. Len(Chunks) \in Nat
  BY <1>1, LenProperties, Zenon DEF Tiles
<1>3. ASSUME NEW name \in Names PROVE \E i \in 1..Len(Chunks) : Chunks[i].name = name
  <2>1. PICK f \in 1..Len(Files) : name = Files[f].name
    BY <1>1, Zenon DEF Names
  <2> QED BY <1>1, <2>1, Zenon DEF Tiles
<1>4. Len(Chunks) >= 1
  BY <1>2, <1>3, DbIsFile
<1>5. \A f \in 1..Len(Files) : Files[f].name \in Names
  BY SizeOfFile, Zenon
<1> QED BY <1>1, <1>2, <1>3, <1>4, <1>5, Zenon DEF Tiles

LEMMA SizesAreNat == \A name \in Names : SizeOf(name) \in Nat
  BY FileFacts, SizeOfFile DEF Names

-----------------------------------------------------------------------------
(* What a staging directory holds after the first n chunks, in order and   *)
(* each at least once.                                                     *)
Filled(n, s) == [i \in 1..n |-> s]

Held(dir, n, s) ==
    /\ DOMAIN dir = {Chunks[i].name : i \in 1..n}
    /\ \A i \in 1..n : LastOf(Chunks, n, i) =>
           dir[Chunks[i].name] = Filled(Chunks[i].offset + Chunks[i].size, s)

LEMMA FilledLen ==
    ASSUME NEW n \in Nat, NEW s
    PROVE  Len(Filled(n, s)) = n
  BY DEF Filled

(* Writing the bytes that follow, or the last ones again, or the first.    *)
LEMMA WrittenFills ==
    ASSUME NEW o \in Nat, NEW z \in Nat, NEW s
    PROVE  /\ Written(Filled(o, s), o, z, s) = Filled(o + z, s)
           /\ Written(Filled(o + z, s), o, z, s) = Filled(o + z, s)
           /\ Written(<<>>, 0, z, s) = Filled(z, s)
<1>1. Len(Filled(o, s)) = o /\ Len(Filled(o + z, s)) = o + z
  BY FilledLen
<1>2. Greater(o, IF z = 0 THEN 0 ELSE o + z) = o + z
  BY DEF Greater
<1>3. Greater(o + z, IF z = 0 THEN 0 ELSE o + z) = o + z
  BY DEF Greater
<1>4. Greater(0, IF z = 0 THEN 0 ELSE 0 + z) = z /\ Len(<<>>) = 0
  BY DEF Greater
<1>5. Written(Filled(o, s), o, z, s) = Filled(o + z, s)
  <2>1. \A i \in 1..(o + z) : i \in (o + 1)..(o + z) \/ (i <= o /\ Filled(o, s)[i] = s)
    BY DEF Filled
  <2> QED BY <1>1, <1>2, <2>1, Zenon DEF Written, Filled
<1>6. Written(Filled(o + z, s), o, z, s) = Filled(o + z, s)
  <2>1. \A i \in 1..(o + z) : i <= o + z /\ Filled(o + z, s)[i] = s
    BY DEF Filled
  <2> QED BY <1>1, <1>3, <2>1, Zenon DEF Written, Filled
<1>7. Written(<<>>, 0, z, s) = Filled(z, s)
  <2>1. \A i \in 1..z : i \in (0 + 1)..(0 + z)
    OBVIOUS
  <2> QED BY <1>4, <2>1, Zenon DEF Written, Filled
<1> QED BY <1>5, <1>6, <1>7, Zenon

(* The next chunk finds its file as it needs it, and so does a chunk that  *)
(* comes again.                                                            *)
LEMMA HeldChunk ==
    ASSUME NEW dir, NEW s, NEW n \in 1..Len(Chunks), NEW m \in {n - 1, n}, Held(dir, m, s)
    PROVE  Opens(Chunks[n], dir) /\ Held(StoreChunk(Chunks[n], s, dir), n, s)
<1> DEFINE c == Chunks[n]
           new == StoreChunk(c, s, dir)
<1>1. n \in Nat /\ n >= 1 /\ m \in Nat /\ m <= n
  BY ChunkFacts
<1>2. c.offset \in Nat /\ c.size \in Nat
  BY ChunkFacts, Zenon
<1>3. ASSUME c.offset # 0
      PROVE  /\ c.name \in DOMAIN dir
             /\ dir[c.name] \in {Filled(c.offset, s), Filled(c.offset + c.size, s)}
  <2>1. /\ n > 1 /\ c.name = Chunks[n - 1].name
        /\ c.offset = Chunks[n - 1].offset + Chunks[n - 1].size
    BY <1>3, ChunkFacts, Zenon
  <2>2. CASE m = n - 1
    <3>1. m \in 1..m /\ LastOf(Chunks, m, m)
      BY <1>1, <2>1, <2>2 DEF LastOf
    <3> QED BY <2>1, <2>2, <3>1, Zenon DEF Held
  <2>3. CASE m = n
    <3>1. m \in 1..m /\ LastOf(Chunks, m, m)
      BY <1>1, <2>3 DEF LastOf
    <3> QED BY <2>3, <3>1, Zenon DEF Held
  <2> QED BY <2>2, <2>3, Zenon
<1>4. DOMAIN new = {Chunks[i].name : i \in 1..n}
  <2>1. DOMAIN new = DOMAIN dir \cup {c.name}
    BY Zenon DEF StoreChunk
  <2>2. \A i \in 1..n : i \in 1..m \/ i = n
    BY <1>1
  <2>3. n \in 1..n /\ \A i \in 1..m : i \in 1..n
    BY <1>1
  <2> QED BY <2>1, <2>2, <2>3 DEF Held
<1>5. new[c.name] = Filled(c.offset + c.size, s)
  <2>1. new[c.name] = Written(IF c.offset = 0 THEN <<>> ELSE dir[c.name], c.offset, c.size, s)
    BY Zenon DEF StoreChunk
  <2>2. CASE c.offset = 0
    <3>1. c.offset + c.size = c.size
      BY <1>2, <2>2
    <3> QED BY <1>2, <2>1, <2>2, <3>1, WrittenFills
  <2>3. CASE c.offset # 0
    <3>1. PICK o \in Nat, z \in Nat : o = c.offset /\ z = c.size
      BY <1>2, Zenon
    <3>2. dir[c.name] \in {Filled(o, s), Filled(o + z, s)}
      BY <1>3, <2>3, <3>1, Zenon
    <3>3. new[c.name] = Written(dir[c.name], o, z, s)
      BY <2>1, <2>3, <3>1, Zenon
    <3>4. /\ Written(Filled(o, s), o, z, s) = Filled(o + z, s)
          /\ Written(Filled(o + z, s), o, z, s) = Filled(o + z, s)
      BY WrittenFills, ZenonT(40)
    <3>5. new[c.name] = Filled(o + z, s)
      <4>1. CASE dir[c.name] = Filled(o, s)
        BY <3>3, <3>4, <4>1, Zenon
      <4>2. CASE dir[c.name] = Filled(o + z, s)
        BY <3>3, <3>4, <4>2, Zenon
      <4> QED BY <3>2, <4>1, <4>2, Zenon
    <3> QED BY <3>1, <3>5, Zenon
  <2> QED BY <2>2, <2>3, Zenon
<1>6. ASSUME NEW i \in 1..n, LastOf(Chunks, n, i)
      PROVE  new[Chunks[i].name] = Filled(Chunks[i].offset + Chunks[i].size, s)
  <2>1. CASE i = n
    BY <1>5, <2>1, Zenon
  <2>2. CASE i # n
    <3>1. i < n /\ n \in 1..n /\ i \in 1..m /\ \A j \in 1..m : j \in 1..n
      BY <1>1, <2>2
    <3>2. Chunks[i].name # c.name /\ LastOf(Chunks, m, i)
      BY <1>6, <3>1, Zenon DEF LastOf
    <3>3. Chunks[i].name \in DOMAIN dir
      BY <3>1, Zenon DEF Held
    <3>4. new[Chunks[i].name] = dir[Chunks[i].name]
      BY <3>2, <3>3, Zenon DEF StoreChunk
    <3> QED BY <3>1, <3>2, <3>4, Zenon DEF Held
  <2> QED BY <2>1, <2>2, Zenon
<1>7. Held(new, n, s)
  BY <1>4, <1>6, Zenon DEF Held
<1>8. Opens(c, dir)
  BY <1>3, Zenon DEF Opens
<1> QED BY <1>7, <1>8, Zenon

(* All chunks make the whole payload.                                      *)
LEMMA HeldWhole ==
    ASSUME NEW dir, NEW s, Held(dir, Len(Chunks), s)
    PROVE  Whole(dir, s) /\ SizesMatch(dir)
<1> DEFINE n == Len(Chunks)
<1>1. n \in Nat
  BY ChunkFacts, Zenon
<1>2. DOMAIN dir = Names
  BY ChunkFacts DEF Held
<1>3. ASSUME NEW name \in Names
      PROVE  dir[name] = Filled(SizeOf(name), s)
  <2> DEFINE Ends == {k \in Nat : k < n /\ Chunks[n - k].name = name}
  <2>1. PICK i \in 1..n : Chunks[i].name = name
    BY ChunkFacts, Zenon
  <2>2. n - i \in Nat /\ n - i < n /\ n - (n - i) = i
    BY <1>1
  <2>3. Ends # {} /\ Ends \subseteq Nat
    BY <2>1, <2>2, Zenon
  <2>4. PICK k \in Ends : \A l \in Ends : k <= l
    <3> HIDE DEF Ends
    <3> QED BY <2>3, LeastNat, Zenon
  <2>5. n - k \in 1..n /\ Chunks[n - k].name = name
    BY <1>1, <2>4
  <2>6. LastOf(Chunks, n, n - k)
    <3> SUFFICES ASSUME NEW j \in 1..n, n - k < j, Chunks[j].name = name PROVE FALSE
      BY <2>5, Zenon DEF LastOf
    <3>1. n - j \in Nat /\ n - j < n /\ n - (n - j) = j /\ ~(k <= n - j)
      BY <1>1, <2>4
    <3> QED BY <2>4, <3>1, Zenon
  <2> QED BY <2>5, <2>6, ChunkFacts, ZenonT(40) DEF Held
<1>4. Whole(dir, s)
  BY <1>2, <1>3, Zenon DEF Whole, Filled
<1>5. SizesMatch(dir)
  BY <1>2, <1>3, SizesAreNat, FilledLen, Zenon DEF SizesMatch
<1> QED BY <1>4, <1>5, Zenon
-----------------------------------------------------------------------------
(* Whatever fails: objects that cannot be written, an install or a reload  *)
(* that fails, a process that stops.                                       *)

Counters ==
    /\ failures \in Nat /\ local_failures \in Nat /\ crashes \in Nat
    /\ archived \in BOOLEAN /\ db_detached \in BOOLEAN

(* An install runs only after the check of the sizes, which still holds:   *)
(* no object is stored while it runs.  A reload runs in apply_snapshot.    *)
Checked ==
    /\ installing # "idle" => phase = "transfer" /\ SizesMatch(staging[incoming])
    /\ reload # "idle" => phase = "apply"

(* A main store is given up, on disk or in memory, only when one is there  *)
(* to take its place.                                                      *)
Replaceable ==
    /\ HasStore(archive) => archived
    /\ installing \in {"kv", "db"} => archived
    /\ reload = "deleted" => archived
    /\ db_detached => archived

KeepInv == Counters /\ Checked /\ Replaceable /\ InstalledComplete /\ RejectedKeepsState

LEMMA KeepInit == Init => KeepInv
<1> SUFFICES ASSUME Init PROVE KeepInv
  BY Zenon
<1>1. DOMAIN archive = {}
  BY Zenon DEF Init
<1>2. ~HasStore(archive)
  BY <1>1, Zenon DEF HasStore
<1>3. InstalledComplete
  BY <1>1, Zenon DEF InstalledComplete
<1> QED BY <1>2, <1>3, Zenon DEF Init, KeepInv, Counters, Checked, Replaceable, RejectedKeepsState

(* The steps that leave the stores and the archive alone.                  *)
LEMMA KeepQuiet ==
    ASSUME KeepInv,
           UNCHANGED <<archive, archived, db_disk, db_open, db_detached, ran, crashes>>,
           local_failures' \in Nat, failures' \in Nat,
           local_failures' = 0 => local_failures = 0,
           installing' \in {"kv", "db"} => installing \in {"kv", "db"},
           reload' = "deleted" => reload = "deleted", Checked'
    PROVE  KeepInv'
<1>1. Counters'
  BY Zenon DEF KeepInv, Counters
<1>2. Replaceable'
  BY Zenon DEF KeepInv, Replaceable, HasStore
<1>3. InstalledComplete'
  BY Zenon DEF KeepInv, InstalledComplete
<1>4. RejectedKeepsState'
  BY Zenon DEF KeepInv, RejectedKeepsState
<1> QED BY <1>1, <1>2, <1>3, <1>4, Zenon DEF KeepInv

LEMMA KeepInterrupted ==
    ASSUME KeepInv, Interrupted
    PROVE  /\ archived' \in BOOLEAN /\ (~archived' => ~archived)
           /\ HasStore(archive)' => archived'
           /\ db_disk' # db_disk => archived
           /\ installing = "idle" => UNCHANGED <<archive, db_disk>>
<1>1. archived' = (archived \/ HasStore(archive'))
  BY Zenon DEF Interrupted
<1>2. HasStore(archive)' <=> HasStore(archive')
  BY Zenon DEF HasStore
<1>3. archived' \in BOOLEAN /\ (~archived' => ~archived) /\ (HasStore(archive)' => archived')
  BY <1>1, <1>2, Zenon DEF KeepInv, Counters
<1>4. db_disk' # db_disk => installing = "db"
  BY Zenon DEF Interrupted
<1>5. db_disk' # db_disk => archived
  BY <1>4, Zenon DEF KeepInv, Replaceable
<1>6. installing = "idle" => archive' = archive
  BY Zenon DEF Interrupted
<1> QED BY <1>3, <1>4, <1>5, <1>6, Zenon

(* The process starts again, after a stop or because apply_snapshot        *)
(* returned false, which it does while nothing is being installed.         *)
LEMMA KeepRestart ==
    ASSUME KeepInv, Restart, crashes' \in Nat, crashes' # 0 \/ installing = "idle",
           crashes' = 0 => crashes = 0
    PROVE  KeepInv'
<1>1. /\ installing' = "idle" /\ reload' = "idle" /\ db_open' = db_disk'
      /\ db_detached' = FALSE
      /\ UNCHANGED <<failures, local_failures, ran>>
      /\ Interrupted
  BY Zenon DEF Restart
<1>0. /\ archived' \in BOOLEAN /\ (~archived' => ~archived)
      /\ HasStore(archive)' => archived'
      /\ db_disk' # db_disk => archived
      /\ installing = "idle" => UNCHANGED <<archive, db_disk>>
  BY <1>1, KeepInterrupted, Zenon
<1>2. Counters'
  BY <1>1, <1>0, Zenon DEF KeepInv, Counters
<1>3. Checked'
  BY <1>1, Zenon DEF Checked
<1>4. Replaceable'
  BY <1>1, <1>0, Zenon DEF Replaceable
<1>5. InstalledComplete'
  <2>1. CASE crashes' # 0
    BY <2>1, Zenon DEF InstalledComplete
  <2>2. CASE crashes' = 0
    <3>1. crashes = 0 /\ local_failures' = local_failures /\ archive' = archive
      BY <1>1, <2>2, <1>0, Zenon
    <3> QED BY <3>1, Zenon DEF KeepInv, InstalledComplete
  <2> QED BY <2>1, <2>2, Zenon
<1>6. RejectedKeepsState'
  <2>1. ~archived' => ~archived /\ db_disk' = db_disk
    BY <1>1, <1>0, Zenon
  <2> QED BY <1>1, <2>1, Zenon DEF KeepInv, RejectedKeepsState
<1> QED BY <1>2, <1>3, <1>4, <1>5, <1>6, Zenon DEF KeepInv

LEMMA KeepTransfer ==
    ASSUME KeepInv,
           \/ \E s \in Snapshots : Offer(s)
           \/ Abandon \/ save_manifest \/ save_chunk \/ skip_chunk \/ save_again
    PROVE  KeepInv'
<1>1. UNCHANGED <<archive, archived, db_disk, db_open, db_detached, ran, crashes, reload,
                  local_failures>>
  BY Zenon DEF Offer, Abandon, save_manifest, save_chunk, skip_chunk, save_again, diskVars, dbVars,
         workerVars, reloadVars, faultVars
<1>2. failures' \in Nat /\ installing = "idle" /\ phase \in {"idle", "transfer"}
  BY DEF Offer, Abandon, save_manifest, save_chunk, skip_chunk, save_again, Receiving,
         faultVars, KeepInv, Counters
<1>0. reload = "idle" /\ reload' = "idle"
  BY <1>1, <1>2, Zenon DEF KeepInv, Checked
<1>3. installing' = "idle" \/ (installing' = "meta" /\ Checked')
  <2>1. CASE save_chunk
    <3> DEFINE last == next_obj = Len(build_snapshot_chunks)
               good == SizesMatch(Staged(next_obj)[incoming])
    <3>1. CASE last /\ good
      BY <1>0, <2>1, <3>1, Zenon DEF save_chunk, Checked, Receiving, SizesMatch
    <3>2. CASE ~(last /\ good)
      BY <1>2, <2>1, <3>2, Zenon DEF save_chunk
    <3> QED BY <3>1, <3>2, Zenon
  <2>2. CASE ~save_chunk
    BY <1>2, <2>2, Zenon DEF Offer, Abandon, save_manifest, skip_chunk, save_again
  <2> QED BY <2>1, <2>2, Zenon
<1>4. Checked'
  BY <1>0, <1>3, Zenon DEF Checked
<1> QED BY <1>1, <1>2, <1>3, <1>4, KeepQuiet, Zenon DEF KeepInv, Counters

LEMMA KeepInstalling ==
    ASSUME KeepInv, Installing
    PROVE  KeepInv'
<1>1. CASE InstallMeta
  <2>1. /\ installing = "meta" /\ installing' = "archive"
        /\ UNCHANGED <<archive, archived, db_disk, db_open, db_detached, ran, crashes, reload,
                       failures, local_failures, phase, staging, incoming>>
    BY <1>1, Zenon DEF InstallMeta, transferVars, dbVars, workerVars, reloadVars, faultVars
  <2>2. Checked'
    BY <2>1, Zenon DEF KeepInv, Checked, SizesMatch
  <2> QED BY <2>1, <2>2, KeepQuiet, Zenon DEF KeepInv, Counters
<1>2. CASE InstallArchive
  <2>1. /\ installing = "archive" /\ installing' = "kv"
        /\ archive' = [s \in DOMAIN archive \cup {Source} |->
                          IF s = Source THEN Staging ELSE archive[s]]
        /\ archived' = (archived \/ HasStore(archive'))
        /\ UNCHANGED <<db_disk, db_open, db_detached, ran, crashes, reload,
                       failures, local_failures, phase, staging, incoming>>
    BY <1>2, Zenon DEF InstallArchive, transferVars, dbVars, workerVars, reloadVars, faultVars
  <2>2. SizesMatch(Staging) /\ phase = "transfer" /\ reload = "idle"
    BY <2>1, Zenon DEF KeepInv, Checked, Staging
  <2>3. archived'
    <3>1. Source \in DOMAIN archive' /\ archive'[Source] = Staging
      BY <2>1, Zenon
    <3>2. "db" \in DOMAIN Staging
      BY <2>2, DbIsFile, Zenon DEF SizesMatch
    <3>3. HasStore(archive')
      BY <3>1, <3>2, Zenon DEF HasStore
    <3> QED BY <2>1, <3>3, Zenon
  <2>4. Checked'
    BY <2>1, <2>2, Zenon DEF Checked, Staging, SizesMatch
  <2>5. InstalledComplete'
    <3>1. \A s \in DOMAIN archive' : SizesMatch(archive'[s])
          \/ (s \in DOMAIN archive /\ archive'[s] = archive[s])
      BY <2>1, <2>2, Zenon
    <3> QED BY <2>1, <3>1, ZenonT(40) DEF KeepInv, InstalledComplete, SizesMatch
  <2>6. archived' = TRUE
    BY <2>1, <2>3, Zenon DEF KeepInv, Counters
  <2>7. Counters' /\ Replaceable' /\ RejectedKeepsState'
    BY <2>1, <2>6, Zenon DEF KeepInv, Counters, Replaceable, RejectedKeepsState
  <2> QED BY <2>4, <2>5, <2>7, Zenon DEF KeepInv
<1>3. CASE InstallKv
  <2>1. /\ installing = "kv" /\ installing' = "db"
        /\ UNCHANGED <<archive, archived, db_disk, db_open, db_detached, ran, crashes, reload,
                       failures, local_failures, phase, staging, incoming>>
    BY <1>3, Zenon DEF InstallKv, transferVars, dbVars, workerVars, reloadVars, faultVars
  <2>2. Checked'
    BY <2>1, Zenon DEF KeepInv, Checked, SizesMatch
  <2> QED BY <2>1, <2>2, KeepQuiet, Zenon DEF KeepInv, Counters
<1>4. CASE InstallDb
  <2>1. /\ installing = "db" /\ installing' = "idle" /\ db_detached' = TRUE
        /\ UNCHANGED <<archive, archived, db_open, ran, crashes, reload,
                       failures, local_failures>>
    BY <1>4, Zenon DEF InstallDb, transferVars, dbVars, workerVars, reloadVars, faultVars
  <2>2. archived /\ reload = "idle"
    BY <2>1, Zenon DEF KeepInv, Replaceable, Checked
  <2>3. Counters' /\ Checked' /\ Replaceable' /\ RejectedKeepsState'
    BY <2>1, <2>2, Zenon DEF KeepInv, Counters, Checked, Replaceable, RejectedKeepsState
  <2>4. InstalledComplete'
    BY <2>1, Zenon DEF KeepInv, InstalledComplete
  <2> QED BY <2>3, <2>4, Zenon DEF KeepInv
<1>5. CASE InstallFails
  <2>1. /\ installing' = "idle" /\ local_failures' = local_failures + 1 /\ Interrupted
        /\ installing # "idle"
        /\ db_detached' = (db_detached \/ db_disk' # db_disk)
        /\ UNCHANGED <<db_open, ran, crashes, reload, failures>>
    BY <1>5, Zenon DEF InstallFails, workerVars, reloadVars
  <2>0. /\ archived' \in BOOLEAN /\ (~archived' => ~archived)
        /\ HasStore(archive)' => archived'
        /\ db_disk' # db_disk => archived
        /\ installing = "idle" => UNCHANGED <<archive, db_disk>>
    BY <2>1, KeepInterrupted, Zenon
  <2>2. local_failures' \in Nat /\ local_failures' # 0 /\ reload = "idle"
    BY <2>1 DEF KeepInv, Counters, Checked
  <2>3. db_detached' \in BOOLEAN /\ (db_detached' => archived)
    BY <2>1, <2>0, Zenon DEF KeepInv, Counters, Replaceable
  <2>4. Counters' /\ Checked'
    BY <2>1, <2>2, <2>3, <2>0, Zenon DEF KeepInv, Counters, Checked
  <2>5. Replaceable'
    BY <2>1, <2>3, <2>0, Zenon DEF KeepInv, Replaceable
  <2>6. InstalledComplete'
    BY <2>2, Zenon DEF InstalledComplete
  <2>7. RejectedKeepsState'
    <3>1. ~archived' => ~archived /\ db_disk' = db_disk
      BY <2>1, <2>0, Zenon
    <3> QED BY <2>1, <3>1, Zenon DEF KeepInv, RejectedKeepsState
  <2> QED BY <2>4, <2>5, <2>6, <2>7, Zenon DEF KeepInv
<1> QED BY <1>1, <1>2, <1>3, <1>4, <1>5, Zenon DEF Installing

LEMMA KeepApplying ==
    ASSUME KeepInv, Applying
    PROVE  KeepInv'
<1>1. CASE apply_snapshot
  <2>1. /\ UNCHANGED <<archive, archived, db_disk, db_open, db_detached, ran, crashes,
                       failures, local_failures, installing, staging, incoming>>
        /\ reload' = "deleted" => reload = "deleted"
        /\ phase = "apply" /\ (reload' # "idle" => phase' = "apply")
    BY <1>1, Zenon DEF apply_snapshot, diskVars, dbVars, workerVars, faultVars, reloadVars
  <2>2. Checked'
    BY <2>1, Zenon DEF KeepInv, Checked
  <2> QED BY <2>1, <2>2, KeepQuiet, Zenon DEF KeepInv, Counters
<1>2. CASE ReloadDelete
  <2>1. /\ UNCHANGED <<archive, archived, ran, crashes, failures, local_failures, installing,
                       phase, staging, incoming>>
        /\ db_detached' = FALSE /\ HasDb /\ reload = "open"
    BY <1>2, Zenon DEF ReloadDelete, transferVars, workerVars, faultVars
  <2>2. archived
    BY <2>1, Zenon DEF HasDb, HasStore, KeepInv, Replaceable
  <2>3. Counters' /\ Replaceable' /\ RejectedKeepsState'
    BY <2>1, <2>2, Zenon DEF KeepInv, Counters, Replaceable, RejectedKeepsState
  <2>4. Checked' /\ InstalledComplete'
    BY <2>1, Zenon DEF KeepInv, Checked, SizesMatch, InstalledComplete
  <2> QED BY <2>3, <2>4, Zenon DEF KeepInv
<1>3. CASE ReloadCopy
  <2>1. /\ UNCHANGED <<archive, archived, db_detached, ran, crashes, failures, local_failures,
                       installing, phase, staging, incoming>>
        /\ reload = "deleted"
    BY <1>3, Zenon DEF ReloadCopy, transferVars, faultVars
  <2>2. archived
    BY <2>1, Zenon DEF KeepInv, Replaceable
  <2>3. Counters' /\ Replaceable' /\ RejectedKeepsState'
    BY <2>1, <2>2, Zenon DEF KeepInv, Counters, Replaceable, RejectedKeepsState, HasStore
  <2>4. Checked' /\ InstalledComplete'
    BY <2>1, Zenon DEF KeepInv, Checked, SizesMatch, InstalledComplete
  <2> QED BY <2>3, <2>4, Zenon DEF KeepInv
<1>4. CASE ReloadFails
  <2>1. /\ UNCHANGED <<archive, archived, db_detached, ran, crashes, failures,
                       installing, phase, staging, incoming>>
        /\ local_failures' \in Nat /\ (local_failures' = 0 => local_failures = 0)
        /\ reload # "idle" /\ reload' = "done"
    BY <1>4 DEF ReloadFails, transferVars, workerVars, KeepInv, Counters
  <2>2. Checked'
    BY <2>1, Zenon DEF KeepInv, Checked, SizesMatch
  <2>3. CASE reload = "deleted"
    <3>1. archived
      BY <2>3, Zenon DEF KeepInv, Replaceable
    <3>2. Counters' /\ Replaceable' /\ RejectedKeepsState'
      BY <2>1, <3>1, Zenon DEF KeepInv, Counters, Replaceable, RejectedKeepsState
    <3>3. InstalledComplete'
      BY <2>1, Zenon DEF KeepInv, InstalledComplete
    <3> QED BY <2>2, <3>2, <3>3, Zenon DEF KeepInv
  <2>4. CASE reload # "deleted"
    <3>1. UNCHANGED <<db_open, db_disk>>
      BY <1>4, <2>4, Zenon DEF ReloadFails
    <3> QED BY <2>1, <2>2, <3>1, KeepQuiet, Zenon DEF KeepInv, Counters
  <2> QED BY <2>3, <2>4, Zenon
<1>5. CASE ReloadEnds
  <2>1. /\ UNCHANGED <<archive, archived, db_disk, db_open, db_detached, ran, crashes,
                       failures, local_failures, installing, staging, incoming>>
        /\ reload = "done" /\ reload' = "idle" /\ phase' = "idle"
    BY <1>5, Zenon DEF ReloadEnds, Resume, diskVars, dbVars, workerVars, faultVars
  <2>2. Checked'
    BY <2>1, Zenon DEF KeepInv, Checked
  <2> QED BY <2>1, <2>2, KeepQuiet, Zenon DEF KeepInv, Counters
<1>6. CASE ApplyFails
  <2>1. Restart /\ crashes' = crashes /\ phase = "apply"
    BY <1>6, Zenon DEF ApplyFails
  <2>2. installing = "idle" /\ crashes' \in Nat
    BY <2>1, Zenon DEF KeepInv, Checked, Counters
  <2> QED BY <2>1, <2>2, KeepRestart, Zenon
<1> QED BY <1>1, <1>2, <1>3, <1>4, <1>5, <1>6, Zenon DEF Applying

LEMMA KeepNext ==
    ASSUME KeepInv, [Next]_vars
    PROVE  KeepInv'
<1>1. CASE \/ \E s \in Snapshots : Offer(s)
           \/ Abandon \/ Sending \/ save_again
  BY <1>1, KeepTransfer, Zenon DEF Sending
<1>2. CASE Installing
  BY <1>2, KeepInstalling, Zenon
<1>3. CASE Applying
  BY <1>3, KeepApplying, Zenon
<1>4. CASE Commit \/ WorkerPop \/ Probe \/ GraceElapses \/ UNCHANGED vars
  <2>1. UNCHANGED <<archive, archived, db_disk, db_open, db_detached, ran, crashes, failures,
                    local_failures, installing, reload, phase, staging, incoming>>
    BY <1>4, Zenon DEF Commit, WorkerPop, Probe, GraceElapses, vars, transferVars, diskVars, dbVars,
                workerVars, reloadVars, faultVars
  <2>2. Checked'
    BY <2>1, Zenon DEF KeepInv, Checked, SizesMatch
  <2> QED BY <2>1, <2>2, KeepQuiet, Zenon DEF KeepInv, Counters
<1>5. CASE WorkerApply
  <2>1. /\ UNCHANGED <<archive, archived, db_detached, crashes, failures, local_failures,
                       installing, reload, phase, staging, incoming>>
        /\ db_open' = db_open \cup {worker}
        /\ db_disk' = IF db_detached THEN db_disk ELSE db_disk \cup {worker}
        /\ ran' = ran \cup {worker}
    BY <1>5, Zenon DEF WorkerApply, transferVars, faultVars
  <2>2. Counters' /\ Replaceable'
    BY <2>1, Zenon DEF KeepInv, Counters, Replaceable, HasStore
  <2>3. Checked' /\ InstalledComplete'
    BY <2>1, Zenon DEF KeepInv, Checked, SizesMatch, InstalledComplete
  <2>4. RejectedKeepsState'
    BY <2>1, Zenon DEF KeepInv, Replaceable, RejectedKeepsState
  <2> QED BY <2>2, <2>3, <2>4, Zenon DEF KeepInv
<1>6. CASE Crash
  <2>1. Restart /\ crashes' \in Nat /\ crashes' # 0
    BY <1>6 DEF Crash, KeepInv, Counters
  <2> QED BY <2>1, KeepRestart, Zenon
<1> QED BY <1>1, <1>2, <1>3, <1>4, <1>5, <1>6, Zenon DEF Next

LEMMA KeepAlways == Spec => []KeepInv
<1>1. Init => KeepInv
  BY KeepInit, Zenon
<1>2. KeepInv /\ [Next]_vars => KeepInv'
  BY KeepNext, Zenon
<1> QED BY <1>1, <1>2, PTL DEF Spec

(* Whatever objects are lost or repeated, a payload that lacks a file of   *)
(* the manifest, or the end of one, never reaches the archive:             *)
(* save_logical_snp_obj checks every size before install_snapshot.         *)
THEOREM InstalledPayloadComplete == Spec => []InstalledComplete
<1>1. KeepInv => InstalledComplete
  BY Zenon DEF KeepInv
<1> QED BY <1>1, KeepAlways, PTL

(* Until a payload with a main store has been installed, no failed         *)
(* transfer, install, reload or start takes an entry away that the node's  *)
(* product state had: the reload looks for db/ before it gives the store   *)
(* up, and the store's directory is replaced after the archive's.          *)
THEOREM RejectedPayloadKeepsState == Spec => []RejectedKeepsState
<1>1. KeepInv => RejectedKeepsState
  BY Zenon DEF KeepInv
<1> QED BY <1>1, KeepAlways, PTL
-----------------------------------------------------------------------------
(* No object is lost, nothing fails, the process does not stop.  Objects   *)
(* may come twice and transfers may begin again.                           *)
Clean == failures = 0 /\ local_failures = 0 /\ crashes = 0

(* The staging directory holds the chunks that were sent, the installed    *)
(* directories are those of the snapshot that was offered.                 *)
Received ==
    /\ DOMAIN staging = Snapshots /\ next_obj \in Nat
    /\ phase # "idle" => offer \in Snapshots
    /\ phase = "transfer" /\ next_obj >= 1 =>
           /\ incoming = offer
           /\ next_obj <= Len(Chunks) + 1
           /\ Held(staging[offer], next_obj - 1, offer)
    /\ phase = "transfer" =>
           (installing # "idle" <=> next_obj = Len(Chunks) + 1)
    /\ installing \in {"archive", "kv", "db"} => descriptor = offer
    /\ installing \in {"kv", "db"} => offer \in DOMAIN archive
    /\ phase = "apply" => descriptor = offer /\ offer \in DOMAIN archive

SentInv == Clean => Received /\ InstalledWhole

(* What has not failed after a step had not failed before it.              *)
LEMMA CleanBefore ==
    ASSUME KeepInv, [Next]_vars, Clean'
    PROVE  Clean /\ UNCHANGED <<failures, local_failures, crashes>>
<1>0. failures \in Nat /\ local_failures \in Nat /\ crashes \in Nat
  BY Zenon DEF KeepInv, Counters
<1>1. failures' \in {failures, failures + 1}
  BY Zenon DEF Next, vars, Offer, Abandon, Sending, save_manifest, save_chunk, skip_chunk, save_again,
         Installing, InstallMeta, InstallArchive, InstallKv, InstallDb, InstallFails,
         Applying, apply_snapshot, ReloadDelete, ReloadCopy, ReloadFails, ReloadEnds, ApplyFails,
         Commit, WorkerPop, WorkerApply, Probe, GraceElapses, Crash, Restart, faultVars
<1>2. local_failures' \in {local_failures, local_failures + 1}
  BY Zenon DEF Next, vars, Offer, Abandon, Sending, save_manifest, save_chunk, skip_chunk, save_again,
         Installing, InstallMeta, InstallArchive, InstallKv, InstallDb, InstallFails,
         Applying, apply_snapshot, ReloadDelete, ReloadCopy, ReloadFails, ReloadEnds, ApplyFails,
         Commit, WorkerPop, WorkerApply, Probe, GraceElapses, Crash, Restart, faultVars
<1>3. crashes' \in {crashes, crashes + 1}
  BY Zenon DEF Next, vars, Offer, Abandon, Sending, save_manifest, save_chunk, skip_chunk, save_again,
         Installing, InstallMeta, InstallArchive, InstallKv, InstallDb, InstallFails,
         Applying, apply_snapshot, ReloadDelete, ReloadCopy, ReloadFails, ReloadEnds, ApplyFails,
         Commit, WorkerPop, WorkerApply, Probe, GraceElapses, Crash, Restart, faultVars
<1> QED BY <1>0, <1>1, <1>2, <1>3 DEF Clean

LEMMA NoneIsNoSnapshot == None \notin Snapshots
<1> SUFFICES ASSUME None \in Snapshots PROVE FALSE
  BY Zenon
<1>1. None \in [log : 1..MaxIndex, applied : 1..MaxIndex, db : 0..MaxIndex]
  BY SnapshotAssumption, Zenon
<1>2. None.log \in 1..MaxIndex
  BY <1>1, Zenon
<1> QED BY <1>2, SnapshotAssumption DEF None

LEMMA SentInit == Init => SentInv
<1> SUFFICES ASSUME Init PROVE SentInv
  BY Zenon
<1>1. DOMAIN archive = {} /\ DOMAIN staging = Snapshots
  BY Zenon DEF Init
<1>2. InstalledWhole
  BY <1>1, Zenon DEF InstalledWhole
<1>3. Received
  BY <1>1, Zenon DEF Init, Received
<1> QED BY <1>2, <1>3, Zenon DEF SentInv

(* The steps that leave the transfer and what is installed alone.          *)
LEMMA SentQuiet ==
    ASSUME Received, InstalledWhole,
           UNCHANGED <<offer, next_obj, phase, incoming, staging, installing, descriptor, archive>>
    PROVE  Received' /\ InstalledWhole'
  BY Zenon DEF Received, InstalledWhole, Held, Whole

(* While an install runs, what it copies is the snapshot that was sent.    *)
LEMMA InstallsOffer ==
    ASSUME Received, Checked, installing # "idle"
    PROVE  /\ phase = "transfer" /\ offer \in Snapshots
           /\ Whole(Staging, offer) /\ Source = offer
<1>1. phase = "transfer" /\ next_obj = Len(Chunks) + 1
  BY Zenon DEF Checked, Received
<1>2. Len(Chunks) \in Nat /\ next_obj - 1 = Len(Chunks) /\ next_obj >= 1
  BY <1>1, ChunkFacts
<1>3. offer \in Snapshots /\ incoming = offer /\ Held(Staging, Len(Chunks), offer)
  BY <1>1, <1>2, Zenon DEF Received, Staging
<1>4. Whole(Staging, offer)
  BY <1>3, HeldWhole, Zenon
<1>5. "meta" \in Names /\ SizeOf("meta") \in Nat /\ SizeOf("meta") > 0
  <2>1. PICK f \in DOMAIN Files : Files[f].name = "meta" /\ Files[f].size > 0
    BY SnapshotAssumption, Zenon
  <2>2. f \in 1..Len(Files)
    BY FileFacts, Zenon
  <2> QED BY <2>1, <2>2, SizeOfFile, SizesAreNat, Zenon
<1>6. Source = offer
  <2>1. Staging["meta"] = [i \in 1..SizeOf("meta") |-> offer] /\ 1 \in 1..SizeOf("meta")
    BY <1>4, <1>5 DEF Whole
  <2> QED BY <2>1, Zenon DEF Source
<1> QED BY <1>1, <1>3, <1>4, <1>6, Zenon

LEMMA SentManifest ==
    ASSUME Received, InstalledWhole, save_manifest, failures \in Nat, failures' = failures
    PROVE  Received' /\ InstalledWhole'
<1>1. /\ phase = "transfer" /\ installing = "idle" /\ next_obj = 0 /\ next_obj' = 1
      /\ staging' = [staging EXCEPT ![offer] = EmptyDir] /\ incoming' = offer
      /\ UNCHANGED <<offer, phase, installing, descriptor, archive>>
  BY DEF save_manifest, Receiving, diskVars
<1>2. offer \in Snapshots /\ DOMAIN staging' = Snapshots /\ staging'[offer] = EmptyDir
  BY <1>1, Zenon DEF Received
<1>3. Held(EmptyDir, 0, offer)
  BY DEF Held, EmptyDir
<1>4. Held(staging'[offer'], next_obj' - 1, offer') /\ next_obj' <= Len(Chunks) + 1
      /\ next_obj' # Len(Chunks) + 1
  BY <1>1, <1>2, <1>3, ChunkFacts
<1>5. Received'
  BY <1>1, <1>2, <1>4, Zenon DEF Received, Held
<1> QED BY <1>1, <1>5, Zenon DEF InstalledWhole, Whole

(* A chunk that is stored, the next one or the one before it again.        *)
LEMMA SentStored ==
    ASSUME Received, phase = "transfer", installing = "idle",
           NEW n \in 1..Len(Chunks), n \in {next_obj - 1, next_obj}, next_obj >= 1
    PROVE  /\ Writes(n)
           /\ DOMAIN Staged(n) = Snapshots
           /\ Held(Staged(n)[offer], n, offer)
<1>1. /\ offer \in Snapshots /\ incoming = offer /\ next_obj \in Nat
      /\ DOMAIN staging = Snapshots
      /\ Held(staging[offer], next_obj - 1, offer)
  BY Zenon DEF Received
<1>2. incoming # None
  BY <1>1, NoneIsNoSnapshot, Zenon
<1>3. next_obj - 1 \in {n - 1, n}
  BY <1>1, ChunkFacts, Zenon
<1>4. /\ Opens(Chunks[n], staging[offer])
      /\ Held(StoreChunk(Chunks[n], offer, staging[offer]), n, offer)
  BY <1>1, <1>3, HeldChunk, Zenon
<1>5. Staged(n)[offer] = StoreChunk(Chunks[n], offer, staging[offer])
      /\ DOMAIN Staged(n) = Snapshots
  BY <1>1, Zenon DEF Staged, Chunks
<1> QED BY <1>1, <1>2, <1>4, <1>5, Zenon DEF Writes, Chunks

LEMMA SentChunk ==
    ASSUME Received, InstalledWhole, save_chunk
    PROVE  Received' /\ InstalledWhole'
<1>1. /\ phase = "transfer" /\ installing = "idle" /\ next_obj \in 1..Len(Chunks)
      /\ staging' = Staged(next_obj) /\ next_obj' = next_obj + 1
      /\ UNCHANGED <<offer, descriptor, archive>>
  BY Zenon DEF save_chunk, Receiving, Chunks, diskVars
<1>2. /\ next_obj \in Nat /\ next_obj >= 1 /\ Len(Chunks) \in Nat
      /\ offer \in Snapshots /\ incoming = offer
  BY <1>1, ChunkFacts DEF Received
<1>3. DOMAIN staging' = Snapshots /\ Held(staging'[offer], next_obj, offer)
  BY <1>1, <1>2, SentStored, Zenon
<1>4. CASE next_obj = Len(Chunks)
  <2>1. SizesMatch(Staged(next_obj)[incoming])
    BY <1>1, <1>2, <1>3, <1>4, HeldWhole, Zenon
  <2>2. installing' = "meta" /\ phase' = "transfer" /\ incoming' = offer
    BY <1>1, <1>2, <1>4, <2>1, Zenon DEF save_chunk, Chunks
  <2>3. Held(staging'[offer'], next_obj' - 1, offer') /\ next_obj' = Len(Chunks) + 1
        /\ next_obj' \in Nat
    BY <1>1, <1>2, <1>3, <1>4
  <2>4. Received'
    BY <1>1, <1>2, <1>3, <2>2, <2>3 DEF Received, Held
  <2> QED BY <1>1, <2>4, Zenon DEF InstalledWhole, Whole
<1>5. CASE next_obj # Len(Chunks)
  <2>1. installing' = "idle" /\ phase' = "transfer" /\ incoming' = offer
    BY <1>1, <1>2, <1>5, Zenon DEF save_chunk, Chunks
  <2>2. Held(staging'[offer'], next_obj' - 1, offer') /\ next_obj' <= Len(Chunks)
        /\ next_obj' \in Nat
    BY <1>1, <1>2, <1>3, <1>5
  <2>3. Received'
    BY <1>1, <1>2, <1>3, <2>1, <2>2 DEF Received, Held
  <2> QED BY <1>1, <2>3, Zenon DEF InstalledWhole, Whole
<1> QED BY <1>4, <1>5, Zenon

LEMMA SentAgain ==
    ASSUME Received, InstalledWhole, save_again
    PROVE  Received' /\ InstalledWhole'
<1>1. /\ phase = "transfer" /\ installing = "idle"
      /\ next_obj - 1 \in 1..(Len(Chunks) - 1)
      /\ staging' = Staged(next_obj - 1)
      /\ UNCHANGED <<offer, next_obj, phase, incoming, installing, descriptor, archive>>
  BY Zenon DEF save_again, Receiving, Chunks, diskVars
<1>2. /\ next_obj - 1 \in 1..Len(Chunks) /\ next_obj \in Nat /\ next_obj >= 1
      /\ offer \in Snapshots
  BY <1>1, ChunkFacts DEF Received
<1>3. DOMAIN staging' = Snapshots /\ Held(staging'[offer], next_obj - 1, offer)
  BY <1>1, <1>2, SentStored, Zenon
<1>4. Received'
  BY <1>1, <1>2, <1>3, Zenon DEF Received, Held
<1> QED BY <1>1, <1>4, Zenon DEF InstalledWhole, Whole

(* Every chunk can be stored, so none is skipped.                          *)
LEMMA SentSkip ==
    ASSUME Received, skip_chunk, failures \in Nat, failures' = failures
    PROVE  FALSE
<1>1. /\ phase = "transfer" /\ installing = "idle" /\ next_obj \in 1..Len(Chunks)
      /\ next_obj >= 1
  BY ChunkFacts DEF skip_chunk, Receiving, Chunks
<1>2. Writes(next_obj)
  BY <1>1, SentStored, Zenon
<1> QED BY <1>2 DEF skip_chunk

LEMMA SentInstalling ==
    ASSUME KeepInv, Received, InstalledWhole, Installing, local_failures' = local_failures
    PROVE  Received' /\ InstalledWhole'
<1>0. installing # "idle" /\ Checked /\ ~InstallFails
  BY DEF Installing, InstallMeta, InstallArchive, InstallKv, InstallDb, InstallFails,
         KeepInv, Counters
<1>1. /\ phase = "transfer" /\ offer \in Snapshots
      /\ Whole(Staging, offer) /\ Source = offer
  BY <1>0, InstallsOffer, Zenon
<1>2. CASE InstallMeta
  <2>1. /\ installing = "meta" /\ installing' = "archive" /\ descriptor' = offer
        /\ UNCHANGED <<offer, next_obj, phase, incoming, staging, archive>>
    BY <1>1, <1>2, Zenon DEF InstallMeta, transferVars
  <2> QED BY <1>1, <2>1, Zenon DEF Received, Held, InstalledWhole, Whole
<1>3. CASE InstallArchive
  <2>1. /\ installing = "archive" /\ installing' = "kv"
        /\ archive' = [s \in DOMAIN archive \cup {offer} |->
                          IF s = offer THEN Staging ELSE archive[s]]
        /\ UNCHANGED <<offer, next_obj, phase, incoming, staging, descriptor>>
    BY <1>1, <1>3, Zenon DEF InstallArchive, transferVars
  <2>2. Received'
    BY <1>1, <2>1, Zenon DEF Received, Held
  <2>3. InstalledWhole'
    <3>1. \A s \in DOMAIN archive' : Whole(archive'[s], s)
      BY <1>1, <2>1, Zenon DEF InstalledWhole
    <3> QED BY <3>1, Zenon DEF InstalledWhole, Whole
  <2> QED BY <2>2, <2>3, Zenon
<1>4. CASE InstallKv
  <2>1. /\ installing = "kv" /\ installing' = "db"
        /\ UNCHANGED <<offer, next_obj, phase, incoming, staging, descriptor, archive>>
    BY <1>4, Zenon DEF InstallKv, transferVars
  <2> QED BY <1>1, <2>1, Zenon DEF Received, Held, InstalledWhole, Whole
<1>5. CASE InstallDb
  <2>1. /\ installing = "db" /\ installing' = "idle" /\ phase' = "apply"
        /\ UNCHANGED <<offer, next_obj, staging, descriptor, archive>>
    BY <1>5, Zenon DEF InstallDb
  <2> QED BY <1>1, <2>1, Zenon DEF Received, Held, InstalledWhole, Whole
<1> QED BY <1>0, <1>2, <1>3, <1>4, <1>5, Zenon DEF Installing

LEMMA SentApplying ==
    ASSUME KeepInv, Received, InstalledWhole, Applying
    PROVE  Received' /\ InstalledWhole'
<1>1. UNCHANGED <<offer, next_obj, staging, descriptor, archive>> /\ ~ApplyFails
  <2>1. ~ApplyFails
    BY NoneIsNoSnapshot, Zenon DEF ApplyFails, Received
  <2> QED BY <2>1, Zenon DEF Applying, apply_snapshot, ReloadDelete, ReloadCopy, ReloadFails,
             ReloadEnds, transferVars, diskVars
<1>2. UNCHANGED <<incoming, installing>> /\ phase = "apply" /\ phase' \in {"apply", "idle"}
  BY <1>1, Zenon DEF Applying, apply_snapshot, ReloadDelete, ReloadCopy, ReloadFails,
              ReloadEnds, Resume, transferVars, KeepInv, Checked
<1>3. installing = "idle"
  BY <1>2, Zenon DEF KeepInv, Checked
<1>4. Received'
  BY <1>1, <1>2, <1>3, Zenon DEF Received
<1> QED BY <1>1, <1>4, Zenon DEF InstalledWhole, Whole

LEMMA SentNext ==
    ASSUME KeepInv, SentInv, [Next]_vars
    PROVE  SentInv'
<1> SUFFICES ASSUME Clean' PROVE Received' /\ InstalledWhole'
  BY Zenon DEF SentInv
<1>0. /\ Received /\ InstalledWhole /\ failures \in Nat
      /\ UNCHANGED <<failures, local_failures, crashes>>
  BY CleanBefore, Zenon DEF SentInv, KeepInv, Counters
<1>1. CASE \E s \in Snapshots : Offer(s)
  <2>1. PICK s \in Snapshots : Offer(s)
    BY <1>1, Zenon
  <2>2. /\ offer' = s /\ next_obj' = 0 /\ phase' = "transfer" /\ installing = "idle"
        /\ UNCHANGED <<incoming, staging, installing, descriptor, archive>>
    BY <2>1, Zenon DEF Offer, diskVars
  <2>3. 0 # Len(Chunks) + 1 /\ ~(0 >= 1)
    BY ChunkFacts
  <2> QED BY <1>0, <2>2, <2>3, Zenon DEF Received, InstalledWhole, Whole
<1>2. CASE Abandon
  <2>1. /\ phase' = "idle" /\ installing = "idle"
        /\ UNCHANGED <<offer, next_obj, incoming, staging, installing, descriptor, archive>>
    BY <1>2, Zenon DEF Abandon, diskVars
  <2> QED BY <1>0, <2>1, Zenon DEF Received, InstalledWhole, Whole
<1>3. CASE Sending \/ save_again
  BY <1>0, <1>3, SentManifest, SentChunk, SentAgain, SentSkip, Zenon DEF Sending
<1>4. CASE Installing
  BY <1>0, <1>4, SentInstalling, Zenon
<1>5. CASE Applying
  BY <1>0, <1>5, SentApplying, Zenon
<1>6. CASE Commit \/ WorkerPop \/ WorkerApply \/ Probe \/ GraceElapses \/ UNCHANGED vars
  <2>1. UNCHANGED <<offer, next_obj, phase, incoming, staging, installing, descriptor, archive>>
    BY <1>6, Zenon DEF Commit, WorkerPop, WorkerApply, Probe, GraceElapses, vars, transferVars,
                diskVars
  <2> QED BY <1>0, <2>1, SentQuiet, Zenon
<1>7. CASE Crash
  BY <1>0, <1>7 DEF Crash, KeepInv, Counters
<1> QED BY <1>1, <1>2, <1>3, <1>4, <1>5, <1>6, <1>7, Zenon DEF Next

LEMMA SentAlways == Spec => [](KeepInv /\ SentInv)
<1>1. Init => SentInv
  BY SentInit, Zenon
<1>2. KeepInv /\ SentInv /\ [Next]_vars => SentInv'
  BY SentNext, Zenon
<1> QED BY <1>1, <1>2, KeepAlways, PTL DEF Spec

(* When no object is lost, what is in the archive is what the leader sent, *)
(* byte for byte: chunks that come twice are written over themselves, and  *)
(* a transfer that begins again empties the staging directory.             *)
THEOREM InstalledPayloadWhole == Spec => [](Clean => InstalledWhole)
<1>1. SentInv => (Clean => InstalledWhole)
  BY Zenon DEF SentInv
<1> QED BY <1>1, SentAlways, PTL

(* What the mirror worker has still to apply.                              *)
Pending == {queue[k] : k \in 1..Len(queue)} \cup ({worker} \ {0})

Ordered ==
    /\ sm_commit \in Nat /\ worker \in Nat /\ live \in Nat /\ target \in Nat
    /\ queue \in Seq(Nat) /\ worker <= sm_commit
    /\ \A k \in 1..Len(queue) : worker < queue[k] /\ queue[k] <= sm_commit
    /\ \A j, k \in 1..Len(queue) : j < k => queue[j] < queue[k]

Bounded ==
    /\ phase # "idle" => sm_commit <= offer.log
    /\ live <= target \/ live <= sm_commit
    /\ ran \subseteq 1..sm_commit

Reloading ==
    /\ reload \in {"idle", "open", "deleted", "done"}
    /\ reload # "idle" => target = descriptor.applied
    /\ reload = "deleted" => db_closed

(* While the store is there it has every entry the live index covers, what *)
(* has run, and below an entry that is still to run what is not to run.    *)
Covered ==
    /\ reload # "deleted" =>
           /\ 1..live \subseteq db_open /\ ran \subseteq db_open
           /\ \A e \in Pending : 1..e \subseteq db_open \cup Pending
    /\ reload \in {"idle", "done"} =>
           /\ 1..sm_commit \subseteq db_open \cup Pending
           /\ 1..target \subseteq db_open

LoadInv == Clean => Ordered /\ Bounded /\ Reloading /\ Covered

(* No snapshot of the leader lags: the copy of its main store has every    *)
(* entry up to the applied index it was taken at, and that index reaches   *)
(* the end of its log.                                                     *)
NoLag == \A s \in Snapshots : s.log <= s.applied /\ s.applied <= s.db

LEMMA SnapshotTypes ==
    \A s \in Snapshots : s.log \in Nat /\ s.applied \in Nat /\ s.db \in Nat
<1>1. \A i \in 0..MaxIndex : i \in Nat
  BY SnapshotAssumption
<1>2. \A i \in 1..MaxIndex : i \in Nat
  BY SnapshotAssumption
<1>3. \A s \in [log : 1..MaxIndex, applied : 1..MaxIndex, db : 0..MaxIndex] :
         s.log \in Nat /\ s.applied \in Nat /\ s.db \in Nat
  BY <1>1, <1>2, Zenon
<1> QED BY <1>3, SnapshotAssumption, Zenon

LEMMA LoadInit == Init => LoadInv
<1> SUFFICES ASSUME Init PROVE LoadInv
  BY Zenon
<1>1. /\ phase = "idle" /\ sm_commit = 0 /\ worker = 0 /\ live = 0 /\ target = 0
      /\ queue = <<>> /\ ran = {} /\ reload = "idle" /\ db_open = {}
  BY Zenon DEF Init
<1>2. Len(queue) = 0 /\ queue \in Seq(Nat) /\ 1..0 = {}
  BY <1>1
<1>3. Pending = {}
  BY <1>1, <1>2, Zenon DEF Pending
<1>4. Ordered
  BY <1>1, <1>2 DEF Ordered
<1>5. Bounded /\ Reloading
  BY <1>1 DEF Bounded, Reloading
<1>6. Covered
  BY <1>1, <1>2, <1>3, Zenon DEF Covered
<1> QED BY <1>4, <1>5, <1>6, Zenon DEF LoadInv

(* The steps that leave the entries, the store and a reload alone.         *)
LEMMA LoadQuiet ==
    ASSUME Ordered, Bounded, Reloading, Covered,
           UNCHANGED <<sm_commit, queue, worker, live, target, ran, reload, db_open, db_closed>>,
           phase' # "idle" => sm_commit <= offer'.log,
           reload # "idle" => descriptor' = descriptor
    PROVE  Ordered' /\ Bounded' /\ Reloading' /\ Covered'
<1>1. Ordered'
  BY Zenon DEF Ordered
<1>2. Bounded'
  BY Zenon DEF Bounded
<1>3. Reloading'
  BY Zenon DEF Reloading
<1>4. Covered'
  BY DEF Covered, Pending
<1> QED BY <1>1, <1>2, <1>3, <1>4, Zenon

LEMMA LoadCommit ==
    ASSUME Ordered, Bounded, Reloading, Covered, Checked, Commit,
           phase = "transfer" => offer.log \in Nat
    PROVE  Ordered' /\ Bounded' /\ Reloading' /\ Covered'
<1> DEFINE n == sm_commit + 1
           q == Len(queue)
<1>1. /\ phase \in {"idle", "transfer"} /\ (phase = "transfer" => sm_commit < offer.log)
      /\ sm_commit' = n /\ queue' = Append(queue, n)
      /\ UNCHANGED <<phase, offer, descriptor, db_open, db_closed, worker, live, ran, target,
                     reload>>
  BY Zenon DEF Commit, transferVars, dbVars
<1>2. reload = "idle"
  BY <1>1, Zenon DEF Checked
<1>3. sm_commit \in Nat /\ n \in Nat /\ n > sm_commit /\ worker \in Nat /\ live \in Nat
      /\ target \in Nat /\ queue \in Seq(Nat) /\ q \in Nat /\ worker <= sm_commit
  BY LenProperties DEF Ordered
<1>4. /\ queue' \in Seq(Nat) /\ Len(queue') = q + 1
      /\ \A k \in 1..q : queue'[k] = queue[k]
      /\ queue'[q + 1] = n
  BY <1>1, <1>3, AppendProperties
<1>5. \A k \in 1..Len(queue') : k \in 1..q \/ k = q + 1
  BY <1>3, <1>4
<1>6. q + 1 \in 1..Len(queue') /\ \A k \in 1..q : k \in 1..Len(queue')
  BY <1>3, <1>4
<1>7. \A k \in 1..q : queue[k] \in Nat /\ worker < queue[k] /\ queue[k] <= sm_commit
  BY <1>3, ElementOfSeq, Zenon DEF Ordered
<1>8. Pending' = Pending \cup {n}
  BY <1>1, <1>4, <1>5, <1>6 DEF Pending
<1>9. Ordered'
  <2>1. ASSUME NEW k \in 1..Len(queue') PROVE worker < queue'[k] /\ queue'[k] <= n
    <3>1. CASE k \in 1..q
      <4>1. queue'[k] = queue[k] /\ queue[k] \in Nat /\ worker < queue[k] /\ queue[k] <= sm_commit
        BY <1>4, <1>7, <3>1, Zenon
      <4> QED BY <1>3, <4>1
    <3>2. CASE k = q + 1
      <4>1. queue'[k] = n
        BY <1>4, <3>2, Zenon
      <4> QED BY <1>3, <4>1
    <3> QED BY <1>5, <3>1, <3>2, Zenon
  <2>2. \A j, k \in 1..Len(queue') : j < k => queue'[j] < queue'[k]
    <3> SUFFICES ASSUME NEW j \in 1..Len(queue'), NEW k \in 1..Len(queue'), j < k
                 PROVE  queue'[j] < queue'[k]
      BY Zenon
    <3>1. j \in 1..q
      BY <1>3, <1>4
    <3>2. CASE k \in 1..q
      BY <1>4, <3>1, <3>2, Zenon DEF Ordered
    <3>3. CASE k = q + 1
      <4>1. queue'[k] = n /\ queue'[j] = queue[j]
        BY <1>4, <3>1, <3>3, Zenon
      <4>2. queue[j] \in Nat /\ queue[j] <= sm_commit /\ sm_commit < n
        BY <1>3, <1>7, <3>1
      <4> QED BY <1>3, <4>1, <4>2
    <3> QED BY <1>5, <3>2, <3>3, Zenon
  <2>3. worker <= n
    BY <1>3
  <2> QED BY <1>1, <1>3, <1>4, <2>1, <2>2, <2>3, Zenon DEF Ordered
<1>10. Bounded'
  <2>1. phase' # "idle" => n <= offer'.log
    BY <1>1, <1>3
  <2>2. live' <= target' \/ live' <= n
    BY <1>1, <1>3 DEF Bounded
  <2>3. ran' \subseteq 1..n
    BY <1>1, <1>3 DEF Bounded
  <2> QED BY <1>1, <2>1, <2>2, <2>3, Zenon DEF Bounded
<1>11. Reloading'
  BY <1>1, Zenon DEF Reloading
<1>12. Covered'
  <2>1. /\ 1..live \subseteq db_open /\ ran \subseteq db_open
        /\ \A e \in Pending : 1..e \subseteq db_open \cup Pending
        /\ 1..sm_commit \subseteq db_open \cup Pending
        /\ 1..target \subseteq db_open
    BY <1>2, Zenon DEF Covered
  <2>2. 1..n = 1..sm_commit \cup {n}
    BY <1>3
  <2>3. 1..n \subseteq db_open \cup Pending'
    BY <1>8, <2>1, <2>2, Zenon
  <2>4. \A e \in Pending' : 1..e \subseteq db_open \cup Pending'
    BY <1>8, <2>1, <2>3, Zenon
  <2> QED BY <1>1, <1>2, <2>1, <2>3, <2>4, Zenon DEF Covered
<1> QED BY <1>9, <1>10, <1>11, <1>12, Zenon

LEMMA LoadPop ==
    ASSUME Ordered, Bounded, Reloading, Covered, WorkerPop
    PROVE  Ordered' /\ Bounded' /\ Reloading' /\ Covered'
<1> DEFINE q == Len(queue)
<1>1. /\ worker = 0 /\ queue # <<>> /\ worker' = Head(queue) /\ queue' = Tail(queue)
      /\ UNCHANGED <<sm_commit, phase, offer, descriptor, db_open, db_closed, live, ran, target,
                     reload>>
  BY Zenon DEF WorkerPop, transferVars, raftVars, diskVars, dbVars, reloadVars
<1>2. queue \in Seq(Nat) /\ q \in Nat /\ q >= 1
  BY <1>1, EmptySeq, LenProperties DEF Ordered
<1>3. /\ worker' = queue[1] /\ queue' \in Seq(Nat) /\ Len(queue') = q - 1
      /\ \A k \in 1..(q - 1) : queue'[k] = queue[k + 1]
  BY <1>1, <1>2, HeadTailProperties
<1>4. \A k \in 1..(q - 1) : k + 1 \in 1..q /\ 1 < k + 1 /\ k \in Nat
  BY <1>2
<1>5. 1 \in 1..q /\ queue[1] \in Nat /\ queue[1] > 0 /\ queue[1] <= sm_commit
  BY <1>1, <1>2, ElementOfSeq DEF Ordered
<1>6. Ordered'
  <2>1. \A k \in 1..(q - 1) : queue[1] < queue[k + 1] /\ queue[k + 1] <= sm_commit
    BY <1>4, <1>5, Zenon DEF Ordered
  <2>2. \A j, k \in 1..(q - 1) : j < k => queue[j + 1] < queue[k + 1]
    BY <1>4 DEF Ordered
  <2> QED BY <1>1, <1>3, <1>5, <2>1, <2>2 DEF Ordered
<1>7. Pending' = Pending
  <2>1. Pending = {queue[k] : k \in 1..q}
    BY <1>1, Zenon DEF Pending
  <2>2. Pending' = {queue[k + 1] : k \in 1..(q - 1)} \cup {queue[1]}
    <3>1. Pending' = {queue'[k] : k \in 1..(q - 1)} \cup ({queue[1]} \ {0})
      BY <1>3, Zenon DEF Pending
    <3>2. {queue'[k] : k \in 1..(q - 1)} = {queue[k + 1] : k \in 1..(q - 1)}
      BY <1>3, Zenon
    <3>3. {queue[1]} \ {0} = {queue[1]}
      BY <1>5
    <3> QED BY <3>1, <3>2, <3>3, Zenon
  <2>3. \A k \in 1..q : k = 1 \/ (k - 1 \in 1..(q - 1) /\ (k - 1) + 1 = k)
    BY <1>2
  <2>4. Pending \subseteq Pending'
    BY <2>1, <2>2, <2>3, Zenon
  <2>5. Pending' \subseteq Pending
    BY <1>4, <1>5, <2>1, <2>2, Zenon
  <2> QED BY <2>4, <2>5, Zenon
<1>8. Bounded' /\ Reloading' /\ Covered'
  BY <1>1, <1>7, Zenon DEF Bounded, Reloading, Covered
<1> QED BY <1>6, <1>8, Zenon

LEMMA LoadApply ==
    ASSUME Ordered, Bounded, Reloading, Covered, WorkerApply
    PROVE  Ordered' /\ Bounded' /\ Reloading' /\ Covered'
<1> DEFINE w == worker
           q == Len(queue)
<1>1. /\ w # 0 /\ ~db_closed /\ worker' = 0
      /\ db_open' = db_open \cup {w} /\ ran' = ran \cup {w} /\ live' = Greater(live, w)
      /\ UNCHANGED <<sm_commit, phase, offer, descriptor, db_closed, queue, target, reload>>
  BY Zenon DEF WorkerApply, transferVars, raftVars
<1>2. /\ w \in Nat /\ w > 0 /\ live \in Nat /\ sm_commit \in Nat /\ w <= sm_commit
      /\ queue \in Seq(Nat) /\ q \in Nat
  BY <1>1, LenProperties DEF Ordered
<1>3. \A k \in 1..q : queue[k] \in Nat /\ w < queue[k] /\ queue[k] > 0
  BY <1>2, ElementOfSeq DEF Ordered
<1>4. reload # "deleted"
  BY <1>1, Zenon DEF Reloading
<1>5. Ordered'
  <2>1. live' \in Nat
    BY <1>1, <1>2, Zenon DEF Greater
  <2> QED BY <1>1, <1>2, <1>3, <2>1 DEF Ordered
<1>6. Bounded'
  <2>1. live' <= target' \/ live' <= sm_commit'
    BY <1>1, <1>2, Zenon DEF Bounded, Greater
  <2>2. ran' \subseteq 1..sm_commit'
    BY <1>1, <1>2 DEF Bounded
  <2> QED BY <1>1, <2>1, <2>2, Zenon DEF Bounded
<1>7. Reloading'
  BY <1>1, Zenon DEF Reloading
<1>8. Covered'
  <2>1. /\ 1..live \subseteq db_open /\ ran \subseteq db_open
        /\ \A e \in Pending : 1..e \subseteq db_open \cup Pending
    BY <1>4, Zenon DEF Covered
  <2>2. Pending = {queue[k] : k \in 1..q} \cup {w}
    BY <1>1, Zenon DEF Pending
  <2>3. Pending' = {queue[k] : k \in 1..q}
    BY <1>1, Zenon DEF Pending
  <2>4. db_open \cup Pending = db_open' \cup Pending'
    BY <1>1, <2>2, <2>3, Zenon
  <2>5. 1..w \subseteq db_open'
    <3> SUFFICES ASSUME NEW i \in 1..w, i \notin db_open, i # w PROVE FALSE
      BY <1>1, Zenon
    <3>1. i \in Pending
      BY <2>1, <2>2, Zenon
    <3>2. PICK k \in 1..q : i = queue[k]
      BY <2>2, <3>1, Zenon
    <3> QED BY <1>2, <1>3, <3>2
  <2>6. 1..live' \subseteq db_open'
    BY <1>1, <2>1, <2>5, Zenon DEF Greater
  <2>7. \A e \in Pending' : 1..e \subseteq db_open' \cup Pending'
    BY <2>1, <2>2, <2>3, <2>4, Zenon
  <2>8. reload' \in {"idle", "done"} =>
            1..sm_commit' \subseteq db_open' \cup Pending' /\ 1..target' \subseteq db_open'
    BY <1>1, <2>4, Zenon DEF Covered
  <2>9. ran' \subseteq db_open'
    BY <1>1, <2>1, Zenon
  <2> QED BY <2>6, <2>7, <2>8, <2>9, Zenon DEF Covered
<1> QED BY <1>5, <1>6, <1>7, <1>8, Zenon

(* The commit index and the reload target only grow.                       *)
LEMMA LoadRaised ==
    ASSUME Ordered, Bounded, UNCHANGED <<queue, worker, live, ran>>,
           sm_commit' \in Nat, sm_commit <= sm_commit', target' \in Nat, target <= target',
           phase' # "idle" => sm_commit' <= offer'.log
    PROVE  Ordered' /\ Bounded'
<1>1. /\ sm_commit \in Nat /\ worker \in Nat /\ live \in Nat /\ target \in Nat
      /\ queue \in Seq(Nat) /\ worker <= sm_commit
      /\ \A k \in 1..Len(queue) : queue[k] \in Nat /\ worker < queue[k] /\ queue[k] <= sm_commit
  BY ElementOfSeq, Zenon DEF Ordered
<1>2. Ordered'
  <2>1. \A k \in 1..Len(queue) : queue[k] <= sm_commit'
    BY <1>1
  <2>2. worker <= sm_commit'
    BY <1>1
  <2> QED BY <1>1, <2>1, <2>2, Zenon DEF Ordered
<1>3. Bounded'
  <2>1. live' <= target' \/ live' <= sm_commit'
    BY <1>1 DEF Bounded
  <2>2. ran' \subseteq 1..sm_commit'
    BY <1>1 DEF Bounded
  <2> QED BY <2>1, <2>2, Zenon DEF Bounded
<1> QED BY <1>2, <1>3, Zenon

(* apply_snapshot and the reload: what was received is what was offered,   *)
(* so the reload finds it and it covers everything the store had.          *)
LEMMA LoadSnapshot ==
    ASSUME NoLag, KeepInv, Received, Ordered, Bounded, Reloading, Covered, apply_snapshot
    PROVE  Ordered' /\ Bounded' /\ Reloading' /\ Covered'
<1>1. /\ phase = "apply" /\ reload = "idle"
      /\ UNCHANGED <<offer, descriptor, db_open, db_closed, queue, worker, live, ran>>
      /\ sm_commit' = sm_commit \/ sm_commit' = offer.log
  BY Zenon DEF apply_snapshot, Resume, raftVars, diskVars, dbVars, workerVars
<1>2. /\ descriptor = offer /\ offer \in Snapshots
      /\ offer.log \in Nat /\ offer.applied \in Nat /\ offer.log <= offer.applied
      /\ sm_commit <= offer.log
  BY <1>1, SnapshotTypes, Zenon DEF NoLag, Received, Bounded
<1>3. sm_commit \in Nat /\ target \in Nat
  BY Zenon DEF Ordered
<1>4. target' \in Nat /\ target <= target'
  BY <1>2, <1>3 DEF apply_snapshot, reloadVars
<1>5. sm_commit' \in Nat /\ sm_commit <= sm_commit' /\ sm_commit' <= offer'.log
  BY <1>1, <1>2, <1>3
<1>6. Ordered' /\ Bounded'
  BY <1>1, <1>4, <1>5, LoadRaised, Zenon
<1>7. Reloading'
  BY <1>1, Zenon DEF Reloading, apply_snapshot, reloadVars
<1>8. Covered'
  <2>1. Pending' = Pending
    BY <1>1, Zenon DEF Pending
  <2>2. CASE descriptor.applied <= target
    <3>1. target' = target /\ reload' = "idle"
      BY <1>1, <2>2, Zenon DEF apply_snapshot, reloadVars
    <3>2. 1..sm_commit' \subseteq 1..target
      BY <1>1, <1>2, <1>3, <1>5, <2>2
    <3> QED BY <1>1, <2>1, <3>1, <3>2, Zenon DEF Covered
  <2>3. CASE ~(descriptor.applied <= target)
    <3>1. reload' = "open"
      BY <2>3, Zenon DEF apply_snapshot
    <3> QED BY <1>1, <2>1, <3>1, Zenon DEF Covered
  <2> QED BY <2>2, <2>3, Zenon
<1> QED BY <1>6, <1>7, <1>8, Zenon

LEMMA LoadDelete ==
    ASSUME Ordered, Bounded, Reloading, Covered, ReloadDelete
    PROVE  Ordered' /\ Bounded' /\ Reloading' /\ Covered'
<1>1. /\ reload = "open" /\ reload' = "deleted" /\ db_closed' = TRUE
      /\ UNCHANGED <<sm_commit, phase, offer, descriptor, queue, worker, live, ran, target>>
  BY Zenon DEF ReloadDelete, transferVars, raftVars, workerVars
<1> QED BY <1>1, Zenon DEF Ordered, Bounded, Reloading, Covered

LEMMA LoadCopy ==
    ASSUME NoLag, KeepInv, Received, Ordered, Bounded, Reloading, Covered, ReloadCopy
    PROVE  Ordered' /\ Bounded' /\ Reloading' /\ Covered'
<1>1. /\ reload = "deleted" /\ reload' = "done" /\ db_closed' = FALSE
      /\ db_open' = 1..descriptor.db /\ live' = Greater(live, descriptor.applied)
      /\ UNCHANGED <<sm_commit, phase, offer, descriptor, queue, worker, ran, target>>
  BY Zenon DEF ReloadCopy, transferVars, raftVars
<1>2. phase = "apply" /\ target = descriptor.applied
  BY <1>1, Zenon DEF KeepInv, Checked, Reloading
<1>3. /\ descriptor = offer /\ offer \in Snapshots
      /\ offer.log \in Nat /\ offer.applied \in Nat /\ offer.db \in Nat
      /\ offer.log <= offer.applied /\ offer.applied <= offer.db
      /\ sm_commit <= offer.log
  BY <1>2, SnapshotTypes, Zenon DEF NoLag, Received, Bounded
<1>4. sm_commit \in Nat /\ live \in Nat /\ worker \in Nat /\ worker <= sm_commit
      /\ \A k \in 1..Len(queue) : queue[k] \in Nat /\ queue[k] <= sm_commit
  BY ElementOfSeq, Zenon DEF Ordered
<1>5. live' = offer.applied
  BY <1>1, <1>2, <1>3, <1>4 DEF Bounded, Greater
<1>6. Ordered' /\ Bounded' /\ Reloading'
  BY <1>1, <1>2, <1>3, <1>5 DEF Ordered, Bounded, Reloading
<1>7. Covered'
  <2>1. 1..live' \subseteq db_open' /\ 1..target' \subseteq db_open'
    BY <1>1, <1>2, <1>3, <1>5
  <2>2. 1..sm_commit' \subseteq db_open'
    BY <1>1, <1>3, <1>4
  <2>3. ran' \subseteq db_open'
    BY <1>1, <2>2, Zenon DEF Bounded
  <2>4. \A e \in Pending' : e \in Nat /\ e <= sm_commit
    BY <1>1, <1>4, Zenon DEF Pending
  <2>5. \A e \in Pending' : 1..e \subseteq 1..sm_commit'
    BY <1>1, <1>4, <2>4
  <2> QED BY <2>1, <2>2, <2>3, <2>5, Zenon DEF Covered
<1> QED BY <1>6, <1>7, Zenon

(* The commit index follows when the store has been loaded.                *)
LEMMA LoadEnds ==
    ASSUME NoLag, KeepInv, Received, Ordered, Bounded, Reloading, Covered, ReloadEnds
    PROVE  Ordered' /\ Bounded' /\ Reloading' /\ Covered'
<1>1. /\ reload = "done" /\ reload' = "idle" /\ phase' = "idle" /\ sm_commit' = offer.log
      /\ UNCHANGED <<queue, worker, live, target, ran, db_open, db_closed>>
  BY Zenon DEF ReloadEnds, Resume, dbVars, workerVars
<1>2. phase = "apply" /\ target = descriptor.applied
  BY <1>1, Zenon DEF KeepInv, Checked, Reloading
<1>3. /\ descriptor = offer /\ offer.log \in Nat /\ offer.applied \in Nat
      /\ offer.log <= offer.applied /\ sm_commit <= offer.log
  BY <1>2, SnapshotTypes, Zenon DEF NoLag, Received, Bounded
<1>4. sm_commit \in Nat /\ target \in Nat
  BY Zenon DEF Ordered
<1>5. target <= target' /\ sm_commit <= sm_commit'
  BY <1>1, <1>3, <1>4
<1>6. Ordered' /\ Bounded'
  BY <1>1, <1>3, <1>4, <1>5, LoadRaised, Zenon
<1>7. Reloading'
  BY <1>1, Zenon DEF Reloading
<1>8. Covered'
  <2>1. Pending' = Pending
    BY <1>1, Zenon DEF Pending
  <2>2. 1..sm_commit' \subseteq 1..target
    BY <1>1, <1>2, <1>3
  <2> QED BY <1>1, <2>1, <2>2, Zenon DEF Covered
<1> QED BY <1>6, <1>7, <1>8, Zenon

(* A reload that finds the payload whole does not fail.                    *)
LEMMA LoadFails ==
    ASSUME KeepInv, Received, InstalledWhole, ReloadFails, local_failures' = local_failures
    PROVE  FALSE
<1>1. phase = "apply"
  BY Zenon DEF ReloadFails, KeepInv, Checked
<1>2. descriptor = offer /\ descriptor \in DOMAIN archive
  BY <1>1, Zenon DEF Received
<1>3. Whole(archive[descriptor], descriptor)
  BY <1>2, Zenon DEF InstalledWhole
<1>4. HasDb /\ DbIntact
  BY <1>2, <1>3, DbIsFile, Zenon DEF HasDb, DbIntact, Whole
<1> QED BY <1>4 DEF ReloadFails, KeepInv, Counters

LEMMA LoadNext ==
    ASSUME NoLag, KeepInv, SentInv, LoadInv, [Next]_vars
    PROVE  LoadInv'
<1> SUFFICES ASSUME Clean' PROVE Ordered' /\ Bounded' /\ Reloading' /\ Covered'
  BY Zenon DEF LoadInv
<1>0. /\ Received /\ InstalledWhole /\ Checked
      /\ Ordered /\ Bounded /\ Reloading /\ Covered
      /\ UNCHANGED <<failures, local_failures, crashes>>
  BY CleanBefore, Zenon DEF SentInv, LoadInv, KeepInv
<1>1. CASE \E s \in Snapshots : Offer(s)
  <2>1. PICK s \in Snapshots : Offer(s)
    BY <1>1, Zenon
  <2>2. /\ offer' = s /\ s.log > sm_commit
        /\ UNCHANGED <<sm_commit, queue, worker, live, target, ran, reload, db_open, db_closed,
                       descriptor>>
    BY <2>1, Zenon DEF Offer, raftVars, diskVars, dbVars, workerVars, reloadVars
  <2>3. sm_commit <= offer'.log
    BY <1>0, <2>2, SnapshotTypes DEF Ordered
  <2> QED BY <1>0, <2>2, <2>3, LoadQuiet, Zenon
<1>2. CASE Abandon \/ Sending \/ save_again
  <2>1. /\ UNCHANGED <<offer, sm_commit, queue, worker, live, target, ran, reload, db_open,
                       db_closed, descriptor>>
        /\ phase = "transfer"
    BY <1>2, Zenon DEF Abandon, Sending, save_manifest, save_chunk, skip_chunk, save_again, Receiving,
                raftVars, diskVars, dbVars, workerVars, reloadVars
  <2>2. sm_commit <= offer'.log
    BY <1>0, <2>1, Zenon DEF Bounded
  <2> QED BY <1>0, <2>1, <2>2, LoadQuiet, Zenon
<1>3. CASE Installing
  <2>1. /\ UNCHANGED <<offer, sm_commit, queue, worker, live, target, ran, reload, db_open,
                       db_closed>>
        /\ installing # "idle"
    BY <1>3, Zenon DEF Installing, InstallMeta, InstallArchive, InstallKv, InstallDb, InstallFails,
                transferVars, raftVars, dbVars, workerVars, reloadVars
  <2>2. phase = "transfer" /\ reload = "idle"
    BY <1>0, <2>1, Zenon DEF Checked
  <2>3. sm_commit <= offer'.log
    BY <1>0, <2>1, <2>2, Zenon DEF Bounded
  <2> QED BY <1>0, <2>1, <2>2, <2>3, LoadQuiet, Zenon
<1>4. CASE apply_snapshot
  BY <1>0, <1>4, LoadSnapshot, Zenon
<1>5. CASE ReloadDelete
  BY <1>0, <1>5, LoadDelete, Zenon
<1>6. CASE ReloadCopy
  BY <1>0, <1>6, LoadCopy, Zenon
<1>7. CASE ReloadFails
  BY <1>0, <1>7, LoadFails, Zenon
<1>8. CASE ReloadEnds
  BY <1>0, <1>8, LoadEnds, Zenon
<1>9. CASE ApplyFails
  BY <1>0, <1>9, NoneIsNoSnapshot, Zenon DEF ApplyFails, Received
<1>10. CASE Commit
  <2>1. phase = "transfer" => offer.log \in Nat
    BY <1>0, SnapshotTypes, Zenon DEF Received
  <2> QED BY <1>0, <1>10, <2>1, LoadCommit, Zenon
<1>11. CASE WorkerPop
  BY <1>0, <1>11, LoadPop, Zenon
<1>12. CASE WorkerApply
  BY <1>0, <1>12, LoadApply, Zenon
<1>13. CASE Probe \/ GraceElapses \/ UNCHANGED vars
  <2>1. UNCHANGED <<offer, phase, sm_commit, queue, worker, live, target, ran, reload, db_open,
                    db_closed, descriptor>>
    BY <1>13, Zenon DEF Probe, GraceElapses, vars, transferVars, raftVars, diskVars, dbVars,
                 workerVars, reloadVars
  <2>2. phase' # "idle" => sm_commit <= offer'.log
    BY <1>0, <2>1, Zenon DEF Bounded
  <2> QED BY <1>0, <2>1, <2>2, LoadQuiet, Zenon
<1>14. CASE Crash
  BY <1>0, <1>14 DEF Crash, KeepInv, Counters
<1> QED BY <1>1, <1>2, <1>3, <1>4, <1>5, <1>6, <1>7, <1>8, <1>9, <1>10, <1>11, <1>12, <1>13,
           <1>14, Zenon DEF Next, Applying

LEMMA LoadAlways ==
    ASSUME NoLag
    PROVE  Spec => [](KeepInv /\ LoadInv)
<1>1. Init => LoadInv
  BY LoadInit, Zenon
<1>2. KeepInv /\ SentInv /\ LoadInv /\ [Next]_vars => LoadInv'
  BY LoadNext, Zenon
<1> QED BY <1>1, <1>2, SentAlways, PTL DEF Spec

(* While nothing fails and no snapshot lags, the live index covers only    *)
(* entries in the product state, whatever the commit thread and the mirror *)
(* worker did between the install and the reload.                          *)
THEOREM InstallLiveIndexHonest ==
    ASSUME NoLag
    PROVE  Spec => [](Clean => LiveIndexHonest)
<1>1. KeepInv /\ LoadInv => (Clean => LiveIndexHonest)
  BY Zenon DEF LoadInv, Reloading, Covered, LiveIndexHonest
<1> QED BY <1>1, LoadAlways, PTL

(* Under the same conditions, no entry whose handler has run is missing    *)
(* from the product state while it can be read, during the reload as well. *)
THEOREM InstallNothingUndone ==
    ASSUME NoLag
    PROVE  Spec => [](Clean => NothingUndone)
<1>1. KeepInv /\ LoadInv => (Clean => NothingUndone)
  BY Zenon DEF LoadInv, Reloading, Covered, NothingUndone
<1> QED BY <1>1, LoadAlways, PTL
=============================================================================
