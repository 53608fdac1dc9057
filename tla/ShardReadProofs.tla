-------------------------- MODULE ShardReadProofs --------------------------
(***************************************************************************)
(* ShardRead for any number of chunks, any values, sizes of them and        *)
(* layouts, and any number of readers.                                      *)
(***************************************************************************)
EXTENDS ShardRead, SequenceTheorems, WellFoundedInduction, TLAPS

(* The chunks that a shard's bytes are of.                                  *)
Contents == [Chunks -> {NoChunk} \cup {Encode(v) : v \in Values}]
HoldsOf(chunks) == file = Assemble(chunks) /\ \A k \in Chunks : value[k] = DecodeChunk(chunks[k])
InStore ==
  IF file = NotFound THEN \A k \in Chunks : value[k] = Fill
  ELSE \E chunks \in Contents : HoldsOf(chunks)

(* What the n-th chunk makes of the bytes of those before it.               *)
Then(chunks, n, b) == IF chunks[n] = NoChunk THEN b ELSE b \o chunks[n]
-----------------------------------------------------------------------------
(* Induction over a set of numbers.                                         *)
LEMMA Least ==
  ASSUME NEW T \in SUBSET Nat, T # {}
  PROVE  \E n \in T : \A m \in T : n <= m
<1>1. PICK n \in T : \A m \in T : ~ (<<m, n>> \in OpToRel(<, Nat))
  BY NatLessThanWellFounded, WFMin
<1>2. ASSUME NEW m \in T PROVE n <= m
  <2>1. m \in Nat /\ n \in Nat
    OBVIOUS
  <2>2. ~(m < n)
    BY <1>1, <2>1 DEF OpToRel
  <2> QED
    BY <2>1, <2>2
<1> QED
  BY <1>2

LEMMA Induction ==
  ASSUME NEW T, 0 \in T, \A n \in Nat : n \in T => n + 1 \in T
  PROVE  Nat \subseteq T
<1> SUFFICES ASSUME Nat \ T # {} PROVE FALSE
  OBVIOUS
<1>1. PICK n \in Nat \ T : \A m \in Nat \ T : n <= m
  BY Least
<1>2. n \in Nat /\ n # 0 /\ n - 1 \in Nat /\ n - 1 \notin Nat \ T
  BY <1>1
<1>3. n - 1 + 1 \in T
  BY <1>2
<1> QED
  BY <1>2, <1>3

(* The bytes of the chunks up to each, by what they are before it.          *)
LEMMA ThenIsBytes ==
  ASSUME NEW chunks \in [Chunks -> {NoChunk} \cup Seq(Data)], NEW n \in Chunks, NEW b \in Seq(Data)
  PROVE  Then(chunks, n, b) \in Seq(Data)
<1>1. CASE chunks[n] = NoChunk
  BY <1>1 DEF Then
<1>2. CASE chunks[n] # NoChunk
  <2>1. chunks[n] \in Seq(Data)
    BY <1>2
  <2> QED
    BY <1>2, <2>1, ConcatProperties DEF Then
<1> QED
  BY <1>1, <1>2

LEMMA JoinedIs ==
  ASSUME NEW chunks \in [Chunks -> {NoChunk} \cup Seq(Data)]
  PROVE  /\ Joined(chunks) \in [0 .. NumChunks -> Seq(Data)]
         /\ Joined(chunks)[0] = <<>>
         /\ \A n \in Chunks : Joined(chunks)[n] = Then(chunks, n, Joined(chunks)[n - 1])
<1> DEFINE N == NumChunks
           J == Joined(chunks)
           Is(g, n) == g[n] = IF n = 0 THEN <<>> ELSE Then(chunks, n, g[n - 1])
           Upto(m) == \E g \in [0 .. m -> Seq(Data)] : \A n \in 0 .. m : Is(g, n)
           T == {m \in Nat : m <= N => Upto(m)}
<1>1. N \in Nat /\ Chunks = 1 .. N
  BY ShardAssumption DEF Chunks
<1>2. <<>> \in Seq(Data)
  OBVIOUS
<1>3. 0 \in T
  <2> DEFINE g == [n \in 0 .. 0 |-> <<>>]
  <2>1. g \in [0 .. 0 -> Seq(Data)] /\ \A n \in 0 .. 0 : Is(g, n)
    BY <1>2
  <2> QED
    BY <2>1
<1>4. ASSUME NEW m \in Nat, m + 1 <= N, Upto(m) PROVE Upto(m + 1)
  <2>1. m + 1 \in Chunks
    BY <1>1, <1>4
  <2>2. PICK g \in [0 .. m -> Seq(Data)] : \A n \in 0 .. m : Is(g, n)
    BY <1>4
  <2> DEFINE next == Then(chunks, m + 1, g[m])
             h == [n \in 0 .. m + 1 |-> IF n = m + 1 THEN next ELSE g[n]]
  <2>3. next \in Seq(Data)
    <3>1. g[m] \in Seq(Data)
      OBVIOUS
    <3> QED
      BY <2>1, <3>1, ThenIsBytes
  <2>4. h \in [0 .. m + 1 -> Seq(Data)]
    <3> HIDE DEF next
    <3> QED
      BY <2>3
  <2>5. ASSUME NEW n \in 0 .. m + 1 PROVE Is(h, n)
    <3>1. CASE n = m + 1
      <4>1. h[n] = next /\ h[n - 1] = g[m] /\ n # 0
        BY <3>1
      <4> QED
        BY <3>1, <4>1
    <3>2. CASE n \in 0 .. m
      <4>1. n # m + 1 /\ h[n] = g[n] /\ (n # 0 => h[n - 1] = g[n - 1])
        BY <3>2
      <4>2. Is(g, n)
        BY <2>2, <3>2
      <4> QED
        BY <4>1, <4>2
    <3> QED
      BY <3>1, <3>2
  <2> QED
    BY <2>4, <2>5
<1>5. Upto(N)
  <2> HIDE DEF Upto
  <2>1. ASSUME NEW m \in Nat, m \in T PROVE m + 1 \in T
    BY <1>1, <1>4, <2>1
  <2>2. Nat \subseteq T
    <3> HIDE DEF T
    <3> QED
      BY <1>3, <2>1, Induction
  <2> QED
    BY <1>1, <2>2
<1>6. PICK g \in [0 .. N -> Seq(Data)] : \A n \in 0 .. N : Is(g, n)
  BY <1>5
<1>7. g = [n \in 0 .. N |-> IF n = 0 THEN <<>> ELSE Then(chunks, n, g[n - 1])]
  BY <1>6
<1>8. J = [n \in 0 .. N |-> IF n = 0 THEN <<>> ELSE Then(chunks, n, J[n - 1])]
  BY <1>7 DEF Joined, Then
<1> HIDE DEF J
<1>9. /\ DOMAIN J = 0 .. N
      /\ \A n \in 0 .. N : Is(J, n)
  BY <1>8, Zenon
<1> DEFINE U == {n \in Nat : n <= N => J[n] = g[n]}
<1>10. 0 \in U
  BY <1>1, <1>6, <1>9
<1>11. ASSUME NEW n \in Nat, n \in U PROVE n + 1 \in U
  <2> SUFFICES ASSUME n + 1 <= N PROVE J[n + 1] = g[n + 1]
    OBVIOUS
  <2>1. n + 1 \in 0 .. N /\ n + 1 # 0 /\ J[n] = g[n] /\ (n + 1) - 1 = n
    BY <1>1, <1>11
  <2>2. Is(J, n + 1) /\ Is(g, n + 1)
    BY <1>6, <1>9, <2>1
  <2> QED
    BY <2>1, <2>2
<1>12. \A n \in 0 .. N : J[n] = g[n]
  <2>1. Nat \subseteq U
    <3> HIDE DEF U
    <3> QED
      BY <1>10, <1>11, Induction
  <2> QED
    BY <1>1, <2>1
<1>13. J \in [0 .. N -> Seq(Data)]
  <2>1. J = [n \in 0 .. N |-> J[n]]
    BY <1>8, Zenon
  <2> QED
    BY <1>6, <1>12, <2>1
<1>14. ASSUME NEW n \in Chunks PROVE J[n] = Then(chunks, n, J[n - 1])
  <2>1. n \in 0 .. N /\ n # 0
    BY <1>1
  <2> QED
    BY <1>9, <2>1, Zenon
<1>15. J[0] = <<>>
  <2>1. 0 \in 0 .. N
    BY <1>1
  <2> QED
    BY <1>9, <2>1, Zenon
<1> QED
  BY <1>13, <1>14, <1>15 DEF J

(* Up to a later chunk they begin with those up to an earlier one.          *)
LEMMA JoinedGrows ==
  ASSUME NEW chunks \in [Chunks -> {NoChunk} \cup Seq(Data)],
         NEW j \in 0 .. NumChunks, NEW k \in j .. NumChunks
  PROVE  /\ Len(Joined(chunks)[j]) <= Len(Joined(chunks)[k])
         /\ \A i \in 1 .. Len(Joined(chunks)[j]) : Joined(chunks)[k][i] = Joined(chunks)[j][i]
<1> DEFINE J == Joined(chunks)
           Begins(n) == /\ Len(J[j]) <= Len(J[n])
                        /\ \A i \in 1 .. Len(J[j]) : J[n][i] = J[j][i]
           T == {n \in Nat : j + n <= NumChunks => Begins(j + n)}
<1>1. NumChunks \in Nat /\ Chunks = 1 .. NumChunks
  BY ShardAssumption DEF Chunks
<1>2. /\ J \in [0 .. NumChunks -> Seq(Data)]
      /\ \A n \in Chunks : J[n] = Then(chunks, n, J[n - 1])
  BY JoinedIs
<1> HIDE DEF J
<1>3. \A n \in 0 .. NumChunks : J[n] \in Seq(Data) /\ Len(J[n]) \in Nat
  BY <1>2
<1>4. 0 \in T
  BY <1>1, <1>3
<1>5. ASSUME NEW n \in Nat, j + (n + 1) <= NumChunks, Begins(j + n) PROVE Begins(j + (n + 1))
  <2>1. /\ j + (n + 1) \in Chunks /\ (j + (n + 1)) - 1 = j + n
        /\ j + n \in 0 .. NumChunks /\ j + (n + 1) \in 0 .. NumChunks
    BY <1>1, <1>5
  <2> DEFINE c == chunks[j + (n + 1)]
             b == J[j + n]
  <2>2. J[j + (n + 1)] = Then(chunks, j + (n + 1), b) /\ b \in Seq(Data) /\ Len(b) \in Nat
    BY <1>2, <1>3, <2>1
  <2>3. CASE c = NoChunk
    <3>1. J[j + (n + 1)] = b
      BY <2>2, <2>3 DEF Then
    <3> QED
      BY <1>5, <3>1
  <2>4. CASE c # NoChunk
    <3>1. c \in Seq(Data) /\ Len(c) \in Nat
      BY <2>1, <2>4
    <3>2. J[j + (n + 1)] = b \o c
      BY <2>2, <2>4 DEF Then
    <3>3. /\ Len(b \o c) = Len(b) + Len(c)
          /\ \A i \in 1 .. Len(b) : (b \o c)[i] = b[i]
      <4> HIDE DEF b, c
      <4> QED
        BY <2>2, <3>1, ConcatProperties
    <3>4. Len(J[j]) \in Nat /\ Len(J[j]) <= Len(b) /\ \A i \in 1 .. Len(J[j]) : b[i] = J[j][i]
      BY <1>3, <1>5
    <3> HIDE DEF b, c
    <3>5. Len(J[j + (n + 1)]) = Len(b) + Len(c) /\ Len(J[j]) <= Len(b) + Len(c)
      BY <2>2, <3>1, <3>2, <3>3, <3>4
    <3>6. ASSUME NEW i \in 1 .. Len(J[j]) PROVE J[j + (n + 1)][i] = J[j][i]
      <4>1. i \in 1 .. Len(b)
        BY <2>2, <3>4
      <4> QED
        BY <3>2, <3>3, <3>4, <4>1
    <3> QED
      BY <3>5, <3>6
  <2> QED
    BY <2>3, <2>4
<1>6. Begins(k)
  <2> HIDE DEF Begins
  <2>1. ASSUME NEW n \in Nat, n \in T PROVE n + 1 \in T
    <3>1. j + (n + 1) <= NumChunks => j + n <= NumChunks
      BY <1>1
    <3> QED
      BY <1>5, <2>1, <3>1
  <2>2. Nat \subseteq T
    <3> HIDE DEF T
    <3> QED
      BY <1>4, <2>1, Induction
  <2>3. k - j \in Nat /\ j + (k - j) = k /\ k <= NumChunks
    BY <1>1
  <2>4. k - j \in T
    BY <2>2, <2>3
  <2> QED
    BY <2>3, <2>4
<1> QED
  BY <1>6 DEF J

(* Each chunk that is there is in them, behind those before it.             *)
LEMMA ChunkAt ==
  ASSUME NEW chunks \in [Chunks -> {NoChunk} \cup Seq(Data)],
         NEW k \in Chunks, chunks[k] # NoChunk
  PROVE  LET J == Joined(chunks) IN
         /\ {Len(chunks[k]), Len(J[k - 1]), Len(J[k]), Len(J[NumChunks])} \subseteq Nat
         /\ Len(J[k]) = Len(J[k - 1]) + Len(chunks[k])
         /\ Len(J[k]) <= Len(J[NumChunks])
         /\ \A i \in 1 .. Len(chunks[k]) : J[NumChunks][Len(J[k - 1]) + i] = chunks[k][i]
<1> DEFINE J == Joined(chunks)
           c == chunks[k]
           b == J[k - 1]
           all == J[NumChunks]
<1>1. /\ NumChunks \in Nat /\ k \in 0 .. NumChunks /\ k - 1 \in 0 .. NumChunks
      /\ NumChunks \in k .. NumChunks /\ NumChunks \in 0 .. NumChunks
  BY ShardAssumption DEF Chunks
<1>2. J \in [0 .. NumChunks -> Seq(Data)] /\ J[k] = Then(chunks, k, b)
  BY JoinedIs
<1>3. c \in Seq(Data) /\ b \in Seq(Data) /\ all \in Seq(Data) /\ J[k] = b \o c
  <2> HIDE DEF J
  <2> QED
    BY <1>1, <1>2 DEF Then
<1>4. /\ Len(J[k]) <= Len(all)
      /\ \A i \in 1 .. Len(J[k]) : all[i] = J[k][i]
  BY <1>1, JoinedGrows
<1> HIDE DEF J, c, b, all
<1>5. /\ Len(c) \in Nat /\ Len(b) \in Nat /\ Len(all) \in Nat /\ Len(J[k]) = Len(b) + Len(c)
      /\ \A i \in 1 .. Len(b) + Len(c) : (b \o c)[i] = IF i <= Len(b) THEN b[i] ELSE c[i - Len(b)]
  BY <1>3, ConcatProperties
<1>6. ASSUME NEW i \in 1 .. Len(c) PROVE all[Len(b) + i] = c[i]
  <2>1. /\ Len(b) + i \in 1 .. Len(b) + Len(c) /\ ~(Len(b) + i <= Len(b))
        /\ (Len(b) + i) - Len(b) = i
    BY <1>5
  <2>2. (b \o c)[Len(b) + i] = c[i]
    BY <1>5, <2>1
  <2>3. all[Len(b) + i] = J[k][Len(b) + i]
    BY <1>4, <1>5, <2>1
  <2> QED
    BY <1>3, <2>2, <2>3
<1>7. Len(J[k]) \in Nat
  BY <1>5
<1> QED
  BY <1>4, <1>5, <1>6, <1>7 DEF J, c, b, all
-----------------------------------------------------------------------------
(* A chunk's bytes are decoded to what they encode.                         *)
LEMMA Encodes ==
  ASSUME layout \in Layouts, NEW v \in Values
  PROVE  /\ Encode(v) \in Seq(Data) /\ Encode(v) # NoChunk
         /\ Len(Encode(v)) \in Nat \ {0}
         /\ Decode(Encode(v)) = v
<1> DEFINE N == layout.size[v]
<1>1. \A w \in Values : layout.size[w] \in Nat \ {0}
  BY ShardAssumption
<1>2. N \in Nat \ {0}
  BY <1>1
<1>3. Encode(v) \in [1 .. N -> Data]
  BY DEF Encode, Data
<1> HIDE DEF N
<1>4. Encode(v) \in Seq(Data) /\ Len(Encode(v)) = N
  BY <1>2, <1>3
<1>5. ASSUME NEW w \in Values, Encode(v) = Encode(w) PROVE w = v
  <2>1. 1 \in 1 .. layout.size[v] /\ 1 \in 1 .. layout.size[w]
    BY <1>1
  <2>2. Encode(v)[1] = <<v, 1>> /\ Encode(w)[1] = <<w, 1>>
    BY <2>1 DEF Encode
  <2> QED
    BY <1>5, <2>2
<1>6. Decode(Encode(v)) = v
  BY <1>5, Zenon DEF Decode
<1> QED
  BY <1>2, <1>4, <1>6, SentinelAssumption

LEMMA ContentsAre ==
  ASSUME layout \in Layouts, NEW chunks \in Contents
  PROVE  /\ chunks \in [Chunks -> {NoChunk} \cup Seq(Data)]
         /\ \A k \in Chunks : chunks[k] # NoChunk => \E v \in Values : chunks[k] = Encode(v)
<1>1. \A v \in Values : Encode(v) \in Seq(Data)
  BY Encodes
<1> QED
  BY <1>1 DEF Contents

(* The index has where each chunk is.                                       *)
LEMMA IndexIs ==
  ASSUME layout \in Layouts, NEW chunks \in Contents
  PROVE  /\ Lowest \in Nat
         /\ IndexFor(chunks) \in Indexes
         /\ \A k \in Chunks :
              /\ IndexFor(chunks)[k] = NoChunk <=> chunks[k] = NoChunk
              /\ chunks[k] # NoChunk =>
                   /\ IndexFor(chunks)[k].off = Lowest + Len(Joined(chunks)[k - 1])
                   /\ IndexFor(chunks)[k].n = Len(chunks[k])
<1> DEFINE J == Joined(chunks)
           e(k) == [off |-> Lowest + Len(J[k - 1]), n |-> Len(chunks[k])]
<1>1. Lowest \in Nat
  BY ShardAssumption DEF Lowest
<1>2. IndexFor(chunks) = [k \in Chunks |-> IF chunks[k] = NoChunk THEN NoChunk ELSE e(k)]
  BY DEF IndexFor
<1>3. ASSUME NEW k \in Chunks, chunks[k] # NoChunk PROVE e(k) \in [off : Nat, n : Nat]
  <2>1. Len(J[k - 1]) \in Nat /\ Len(chunks[k]) \in Nat
    BY <1>3, ContentsAre, ChunkAt
  <2> QED
    BY <1>1, <2>1
<1>4. ASSUME NEW k \in Chunks
      PROVE  /\ IndexFor(chunks)[k] \in {NoChunk} \cup [off : Nat, n : Nat]
             /\ IndexFor(chunks)[k] = NoChunk <=> chunks[k] = NoChunk
             /\ chunks[k] # NoChunk => IndexFor(chunks)[k] = e(k)
  <2> HIDE DEF e
  <2>1. CASE chunks[k] = NoChunk
    BY <1>2, <2>1
  <2>2. CASE chunks[k] # NoChunk
    <3>1. e(k) # NoChunk
      BY <1>3, <2>2, SentinelAssumption
    <3> QED
      BY <1>2, <1>3, <2>2, <3>1
  <2> QED
    BY <2>1, <2>2
<1>5. IndexFor(chunks) \in Indexes
  <2> HIDE DEF e
  <2> QED
    BY <1>2, <1>4 DEF Indexes
<1>6. ASSUME NEW k \in Chunks, chunks[k] # NoChunk
      PROVE  /\ IndexFor(chunks)[k].off = Lowest + Len(J[k - 1])
             /\ IndexFor(chunks)[k].n = Len(chunks[k])
  <2>1. IndexFor(chunks)[k] = e(k)
    <3> HIDE DEF e
    <3> QED
      BY <1>4, <1>6
  <2> QED
    BY <2>1
<1>7. \A k \in Chunks : IndexFor(chunks)[k] = NoChunk <=> chunks[k] = NoChunk
  BY <1>4
<1> HIDE DEF J
<1> QED
  BY <1>1, <1>5, <1>6, <1>7 DEF J
-----------------------------------------------------------------------------
(* A shard is as long as its chunks and its index, has its chunks from      *)
(* Lowest on, and its index where it is looked for.                         *)
LEMMA Assembled ==
  ASSUME layout \in Layouts, NEW chunks \in Contents
  PROVE  LET all == Joined(chunks)[NumChunks] IN
         /\ Assemble(chunks) \in Seq(Bytes)
         /\ Len(all) \in Nat
         /\ Len(Assemble(chunks)) = Len(all) + IndexSize
         /\ IndexOf(Assemble(chunks)) = IndexFor(chunks)
         /\ \A i \in 1 .. Len(all) : Assemble(chunks)[Lowest + i] = all[i]
<1> DEFINE all == Joined(chunks)[NumChunks]
           ix == IndexBytes(IndexFor(chunks))
           N == Len(all)
<1>1. IndexSize \in Nat \ {0} /\ NumChunks \in 0 .. NumChunks
  BY ShardAssumption
<1>2. all \in Seq(Data)
  BY <1>1, ContentsAre, JoinedIs
<1>3. IndexFor(chunks) \in Indexes
  BY IndexIs
<1>4. ix \in [1 .. IndexSize -> Bytes]
  BY <1>1, <1>3 DEF IndexBytes, Bytes
<1>5. \A i \in 1 .. IndexSize : ix[i][2] = IndexFor(chunks)
  BY DEF IndexBytes
<1> HIDE DEF all, ix
<1>6. all \in Seq(Bytes)
  BY <1>2, SeqMonotonic DEF Bytes
<1>7. ix \in Seq(Bytes) /\ Len(ix) = IndexSize /\ N \in Nat
  BY <1>1, <1>4, <1>6
<1>8. CASE layout.indexAtEnd
  <2>1. Assemble(chunks) = all \o ix /\ Lowest = 0
    BY <1>8 DEF Assemble, Lowest, all, ix
  <2>2. /\ all \o ix \in Seq(Bytes) /\ Len(all \o ix) = N + IndexSize
        /\ \A i \in 1 .. N + IndexSize : (all \o ix)[i] = IF i <= N THEN all[i] ELSE ix[i - N]
    BY <1>6, <1>7, ConcatProperties
  <2>3. /\ N + IndexSize \in 1 .. N + IndexSize /\ ~(N + IndexSize <= N)
        /\ (N + IndexSize) - N = IndexSize /\ IndexSize \in 1 .. IndexSize
    BY <1>1, <1>7
  <2>4. (all \o ix)[N + IndexSize] = ix[IndexSize]
    BY <2>2, <2>3
  <2>5. IndexOf(all \o ix) = IndexFor(chunks)
    BY <1>5, <1>8, <2>2, <2>3, <2>4 DEF IndexOf
  <2>6. \A i \in 1 .. N : (all \o ix)[0 + i] = all[i]
    BY <1>1, <1>7, <2>2
  <2> QED
    BY <1>7, <2>1, <2>2, <2>5, <2>6 DEF all
<1>9. CASE ~layout.indexAtEnd
  <2>1. Assemble(chunks) = ix \o all /\ Lowest = IndexSize
    BY <1>9 DEF Assemble, Lowest, all, ix
  <2>2. /\ ix \o all \in Seq(Bytes) /\ Len(ix \o all) = IndexSize + N
        /\ \A i \in 1 .. IndexSize + N :
             (ix \o all)[i] = IF i <= IndexSize THEN ix[i] ELSE all[i - IndexSize]
    BY <1>6, <1>7, ConcatProperties
  <2>3. IndexSize + N = N + IndexSize /\ 1 \in 1 .. IndexSize /\ 1 \in 1 .. IndexSize + N
    BY <1>1, <1>7
  <2>4. (ix \o all)[1] = ix[1]
    BY <2>2, <2>3
  <2>5. IndexOf(ix \o all) = IndexFor(chunks)
    BY <1>5, <1>9, <2>3, <2>4 DEF IndexOf
  <2>6. ASSUME NEW i \in 1 .. N PROVE (ix \o all)[IndexSize + i] = all[i]
    <3>1. IndexSize + i \in 1 .. IndexSize + N /\ ~(IndexSize + i <= IndexSize) /\ (IndexSize + i) - IndexSize = i
      BY <1>1, <1>7
    <3> QED
      BY <2>2, <3>1
  <2> QED
    BY <1>7, <2>1, <2>2, <2>3, <2>5, <2>6 DEF all
<1> QED
  BY <1>8, <1>9

(* What the index says of a chunk is where its bytes are, within the shard. *)
LEMMA EntryIsChunk ==
  ASSUME layout \in Layouts, NEW chunks \in Contents, NEW k \in Chunks, chunks[k] # NoChunk
  PROVE  LET b == Assemble(chunks)
             e == IndexFor(chunks)[k]
         IN  /\ Within(e, Len(b)) /\ Entry(b, e) = chunks[k]
             /\ Lowest <= e.off /\ Within(e, Lowest + Len(Joined(chunks)[NumChunks]))
<1> DEFINE b == Assemble(chunks)
           e == IndexFor(chunks)[k]
           J == Joined(chunks)
           c == chunks[k]
           all == J[NumChunks]
           from == Len(J[k - 1])
<1>1. c \in Seq(Data)
  BY ContentsAre
<1>2. /\ {Len(c), from, Len(all)} \subseteq Nat /\ from + Len(c) <= Len(all)
      /\ \A i \in 1 .. Len(c) : all[from + i] = c[i]
  <2>1. /\ {Len(c), from, Len(J[k]), Len(all)} \subseteq Nat
        /\ Len(J[k]) = from + Len(c) /\ Len(J[k]) <= Len(all)
        /\ \A i \in 1 .. Len(c) : all[from + i] = c[i]
    BY ContentsAre, ChunkAt, Zenon
  <2> QED
    BY <2>1
<1>3. Lowest \in Nat /\ e.off = Lowest + from /\ e.n = Len(c)
  BY IndexIs
<1>4. /\ b \in Seq(Bytes) /\ Len(b) = Len(all) + IndexSize /\ IndexSize \in Nat
      /\ \A i \in 1 .. Len(all) : b[Lowest + i] = all[i]
  BY Assembled, ShardAssumption
<1>5. Lowest <= IndexSize
  BY ShardAssumption DEF Lowest
<1> HIDE DEF b, e, c, all, from
<1>6. Within(e, Len(b)) /\ Within(e, Lowest + Len(all)) /\ Lowest <= e.off
  BY <1>2, <1>3, <1>4, <1>5 DEF Within
<1>7. ASSUME NEW i \in 1 .. Len(c) PROVE b[e.off + i] = c[i]
  <2>1. from + i \in 1 .. Len(all) /\ e.off + i = Lowest + (from + i)
    BY <1>2, <1>3
  <2> QED
    BY <1>2, <1>4, <2>1
<1>8. Entry(b, e) = c
  <2> DEFINE m == e.off + 1
             n == e.off + e.n
             s == SubSeq(b, m, n)
  <2>1. m \in Int /\ n \in Int /\ (n - m) + 1 = Len(c) /\ Len(c) \in Nat
    BY <1>2, <1>3
  <2>2. \A i \in m .. n : b[i] \in Bytes
    <3>1. \A i \in m .. n : i \in 1 .. Len(b)
      BY <1>2, <1>3, <1>4, <1>5
    <3> QED
      BY <1>4, <3>1
  <2> HIDE DEF m, n
  <2>3. /\ s \in Seq(Bytes) /\ Len(s) = IF m <= n THEN n - m + 1 ELSE 0
        /\ \A i \in 1 .. n - m + 1 : s[i] = b[m + i - 1]
    BY <2>1, <2>2, SubSeqProperties
  <2> HIDE DEF s
  <2>4. Len(s) = Len(c)
    BY <2>1, <2>3
  <2>5. ASSUME NEW i \in 1 .. Len(s) PROVE s[i] = c[i]
    <3>1. i \in 1 .. n - m + 1 /\ i \in 1 .. Len(c) /\ m + i - 1 = e.off + i
      BY <1>2, <1>3, <2>1, <2>4 DEF m
    <3> QED
      BY <1>7, <2>3, <3>1
  <2>6. c \in Seq(Bytes)
    BY <1>1, SeqMonotonic DEF Bytes
  <2>7. s = c
    BY <2>3, <2>4, <2>5, <2>6, SeqEqual
  <2> QED
    BY <2>7 DEF Entry, s, m, n
<1> QED
  BY <1>6, <1>8 DEF b, e, c, all

(* split undoes assemble.                                                   *)
LEMMA SplitsAsAssembled ==
  ASSUME layout \in Layouts, NEW chunks \in Contents
  PROVE  /\ Split(Assemble(chunks)) = chunks
         /\ DecodeArray(Assemble(chunks)) = [k \in Chunks |-> DecodeChunk(chunks[k])]
<1> DEFINE b == Assemble(chunks)
           ix == IndexFor(chunks)
<1>1. IndexOf(b) = ix
  BY Assembled
<1>2. ASSUME NEW k \in Chunks
      PROVE  (IF ix[k] = NoChunk THEN NoChunk ELSE Entry(b, ix[k])) = chunks[k]
  <2>1. CASE chunks[k] = NoChunk
    BY <2>1, IndexIs
  <2>2. CASE chunks[k] # NoChunk
    BY <2>2, IndexIs, EntryIsChunk
  <2> QED
    BY <2>1, <2>2
<1>3. chunks = [k \in Chunks |-> chunks[k]]
  BY DEF Contents
<1> HIDE DEF b, ix
<1>4. Split(b) = [k \in Chunks |-> IF ix[k] = NoChunk THEN NoChunk ELSE Entry(b, ix[k])]
  BY <1>1 DEF Split
<1>5. Split(b) = chunks
  BY <1>2, <1>3, <1>4
<1> QED
  BY <1>5 DEF DecodeArray, b

(* And what it makes has its chunks within it, none over another.           *)
LEMMA AssembledSound ==
  ASSUME layout \in Layouts, NEW chunks \in Contents
  PROVE  Sound(Assemble(chunks))
<1> DEFINE b == Assemble(chunks)
           ix == IndexFor(chunks)
           J == Joined(chunks)
           hi == IF layout.indexAtEnd THEN Len(b) - IndexSize ELSE Len(b)
           there == {k \in Chunks : ix[k] # NoChunk}
<1>1. /\ IndexOf(b) = ix /\ Len(J[NumChunks]) \in Nat /\ Len(b) = Len(J[NumChunks]) + IndexSize
      /\ IndexSize \in Nat
  BY Assembled, ShardAssumption
<1>2. hi = Lowest + Len(J[NumChunks])
  <2>1. CASE layout.indexAtEnd
    <3>1. Lowest = 0 /\ hi = Len(b) - IndexSize
      BY <2>1 DEF Lowest
    <3> QED
      BY <1>1, <3>1
  <2>2. CASE ~layout.indexAtEnd
    <3>1. Lowest = IndexSize /\ hi = Len(b)
      BY <2>2 DEF Lowest
    <3> QED
      BY <1>1, <3>1
  <2> QED
    BY <2>1, <2>2
<1>3. ASSUME NEW k \in there
      PROVE  /\ chunks[k] # NoChunk /\ Within(ix[k], hi) /\ Lowest <= ix[k].off
             /\ ix[k].off = Lowest + Len(J[k - 1]) /\ ix[k].off + ix[k].n = Lowest + Len(J[k])
             /\ {Lowest, Len(J[k - 1]), Len(J[k])} \subseteq Nat
  <2>1. chunks[k] # NoChunk
    BY <1>3, IndexIs
  <2>2. Within(ix[k], hi) /\ Lowest <= ix[k].off
    <3> HIDE DEF hi, ix
    <3> QED
      BY <1>2, <2>1, EntryIsChunk DEF ix
  <2>3. /\ Lowest \in Nat /\ ix[k].off = Lowest + Len(J[k - 1]) /\ ix[k].n = Len(chunks[k])
    BY <2>1, IndexIs
  <2>4. /\ {Len(chunks[k]), Len(J[k - 1]), Len(J[k])} \subseteq Nat
        /\ Len(J[k]) = Len(J[k - 1]) + Len(chunks[k])
    BY <2>1, ContentsAre, ChunkAt, Zenon
  <2> HIDE DEF hi, ix, J
  <2>5. ix[k].off + ix[k].n = Lowest + Len(J[k])
    <3> DEFINE a == Len(J[k - 1])
               c == Len(chunks[k])
    <3>1. a \in Nat /\ c \in Nat /\ Len(J[k]) = a + c /\ ix[k].off = Lowest + a /\ ix[k].n = c
      BY <2>3, <2>4
    <3> HIDE DEF a, c
    <3> QED
      BY <2>3, <3>1
  <2> QED
    BY <2>1, <2>2, <2>3, <2>4, <2>5
<1>4. ASSUME NEW j \in there, NEW k \in there, j < k
      PROVE  ix[j].off + ix[j].n <= ix[k].off
  <2>1. NumChunks \in Nat /\ j \in 0 .. NumChunks /\ k - 1 \in j .. NumChunks
    BY <1>4, ShardAssumption DEF Chunks
  <2>2. Len(J[j]) <= Len(J[k - 1])
    BY <2>1, ContentsAre, JoinedGrows
  <2> HIDE DEF ix, J
  <2> QED
    BY <1>3, <2>2
<1>5. CheckIndex(ix, Lowest, hi)
  <2>1. \A j, k \in there : j # k => \/ ix[j].off + ix[j].n <= ix[k].off
                                     \/ ix[k].off + ix[k].n <= ix[j].off
    <3> SUFFICES ASSUME NEW j \in there, NEW k \in there, j # k
                 PROVE  ix[j].off + ix[j].n <= ix[k].off \/ ix[k].off + ix[k].n <= ix[j].off
      OBVIOUS
    <3>1. j < k \/ k < j
      BY ShardAssumption DEF Chunks
    <3> HIDE DEF ix, there
    <3> QED
      BY <1>4, <3>1
  <2> HIDE DEF ix, hi
  <2> QED
    BY <1>3, <2>1 DEF CheckIndex
<1> QED
  BY <1>1, <1>5 DEF Sound
-----------------------------------------------------------------------------
(* The layout stays, and so does what is made of chunks.                    *)
LEMMA LayoutStays ==
  ASSUME layout' = layout
  PROVE  /\ \A v : Encode(v)' = Encode(v)
         /\ \A b : Decode(b)' = Decode(b)
         /\ \A c : Assemble(c)' = Assemble(c)
         /\ \A c : DecodeChunk(c)' = DecodeChunk(c)
         /\ Contents' = Contents
<1>1. \A v : Encode(v)' = Encode(v)
  BY DEF Encode
<1>2. \A b : Decode(b)' = Decode(b)
  BY <1>1 DEF Decode
<1>3. \A c : Assemble(c)' = Assemble(c)
  BY DEF Assemble, IndexFor, IndexBytes, Lowest, Joined
<1>4. \A c : DecodeChunk(c)' = DecodeChunk(c)
  BY <1>2 DEF DecodeChunk
<1>5. Contents' = Contents
  BY <1>1 DEF Contents
<1> QED
  BY <1>1, <1>2, <1>3, <1>4, <1>5

(* What is stored, read whole, is what was written.                         *)
LEMMA StoredIs ==
  ASSUME layout \in Layouts, InStore, value \in [Chunks -> Values]
  PROVE  ShardHolds /\ WrittenSound
<1>1. value = [k \in Chunks |-> value[k]]
  OBVIOUS
<1>2. CASE file = NotFound
  BY <1>1, <1>2 DEF InStore, ShardHolds, Stored, WrittenSound
<1>3. CASE file # NotFound
  <2>1. PICK chunks \in Contents : HoldsOf(chunks)
    BY <1>3 DEF InStore
  <2>2. DecodeArray(file) = [k \in Chunks |-> DecodeChunk(chunks[k])]
    BY <2>1, SplitsAsAssembled DEF HoldsOf
  <2>3. Stored = value
    BY <1>1, <1>3, <2>1, <2>2 DEF Stored, HoldsOf
  <2>4. Sound(file)
    BY <2>1, AssembledSound DEF HoldsOf
  <2> QED
    BY <2>3, <2>4 DEF ShardHolds, WrittenSound
<1> QED
  BY <1>2, <1>3

(* The state's types, with what of it does not depend on what is stored.    *)
Typed ==
  /\ layout \in Layouts
  /\ value \in [Chunks -> Values]
  /\ phase \in [Readers -> {"idle", "open", "done"}]
  /\ index \in [Readers -> Indexes]
  /\ got \in [Readers -> [Chunks -> Values \cup {Error, NoChunk}]]
  /\ held \in [Readers -> [Chunks -> SUBSET Values]]

LEMMA InitTyped == Init => Typed /\ InStore
<1> SUFFICES ASSUME Init PROVE Typed /\ InStore
  OBVIOUS
<1>1. Fill \in Values /\ layout \in Layouts
  BY ShardAssumption DEF Init
<1>2. Nothing \in Indexes /\ Nothing \in [Chunks -> Values \cup {Error, NoChunk}]
  BY DEF Nothing, Indexes
<1>3. Typed
  BY <1>1, <1>2 DEF Init, Typed
<1>4. CASE layout.full
  <2> DEFINE chunks == [k \in Chunks |-> Encode(Fill)]
  <2>1. file = Assemble(chunks)
    BY <1>4 DEF Init
  <2>2. chunks \in Contents
    BY <1>1 DEF Contents
  <2>3. Encode(Fill) # NoChunk /\ Decode(Encode(Fill)) = Fill
    BY <1>1, Encodes
  <2>4. \A k \in Chunks : value[k] = DecodeChunk(chunks[k])
    BY <2>3 DEF Init, DecodeChunk
  <2>5. file # NotFound
    <3> HIDE DEF chunks
    <3> QED
      BY <1>1, <2>1, <2>2, Assembled, SentinelAssumption
  <2> HIDE DEF chunks
  <2> QED
    BY <1>3, <2>1, <2>2, <2>4, <2>5 DEF InStore, HoldsOf
<1>5. CASE ~layout.full
  BY <1>3, <1>5 DEF Init, InStore
<1> QED
  BY <1>4, <1>5

(* A write keeps the chunks it does not write.                              *)
LEMMA PatchKeepsStored ==
  ASSUME Typed, InStore, NEW first \in Chunks, NEW last \in Chunks, NEW v \in Values,
         PatchShard(first .. last, v), layout' = layout
  PROVE  InStore'
<1> DEFINE written == first .. last
           old == IF file = NotFound THEN Nothing ELSE Split(file)
           new == Patched(written, v)
<1>1. /\ layout \in Layouts
      /\ file' = IF new = Nothing THEN NotFound ELSE Assemble(new)
      /\ \A k \in Chunks : value'[k] = IF k \in written THEN v ELSE value[k]
  BY DEF Typed, PatchShard
<1>2. Encoded(v) \in {NoChunk, Encode(v)} /\ DecodeChunk(Encoded(v)) = v
  BY <1>1, Encodes DEF Encoded, DecodeChunk
<1>3. old \in Contents /\ \A k \in Chunks : value[k] = DecodeChunk(old[k])
  <2>1. CASE file = NotFound
    BY <2>1 DEF InStore, Contents, Nothing, DecodeChunk
  <2>2. CASE file # NotFound
    <3>1. PICK chunks \in Contents : HoldsOf(chunks)
      BY <2>2 DEF InStore
    <3>2. old = chunks
      BY <1>1, <2>2, <3>1, SplitsAsAssembled DEF HoldsOf
    <3> QED
      BY <3>1, <3>2 DEF HoldsOf
  <2> QED
    BY <2>1, <2>2
<1>4. new = [k \in Chunks |-> IF k \in written THEN Encoded(v) ELSE old[k]]
  BY DEF Patched
<1> HIDE DEF old, new, written
<1>5. new \in Contents /\ \A k \in Chunks : value'[k] = DecodeChunk(new[k])
  <2>1. \A k \in Chunks : old[k] \in {NoChunk} \cup {Encode(w) : w \in Values}
    BY <1>3 DEF Contents
  <2>2. new \in Contents
    BY <1>2, <1>4, <2>1 DEF Contents
  <2> QED
    BY <1>1, <1>2, <1>3, <1>4, <2>2
<1>6. CASE new = Nothing
  BY <1>1, <1>5, <1>6 DEF InStore, Nothing, DecodeChunk
<1>7. CASE new # Nothing
  <2>1. file' = Assemble(new) /\ file' # NotFound
    BY <1>1, <1>5, <1>7, Assembled, SentinelAssumption
  <2>2. PICK chunks : chunks = new
    OBVIOUS
  <2>3. chunks \in Contents' /\ file' = Assemble(chunks)'
    BY <1>5, <2>1, <2>2, LayoutStays
  <2>4. ASSUME NEW k \in Chunks PROVE value'[k] = DecodeChunk(chunks[k])'
    BY <1>5, <2>2, LayoutStays
  <2>5. HoldsOf(chunks)'
    BY <2>3, <2>4 DEF HoldsOf
  <2> QED
    BY <2>1, <2>3, <2>5 DEF InStore
<1> QED
  BY <1>6, <1>7
-----------------------------------------------------------------------------
LEMMA StoreStays ==
  ASSUME InStore, layout' = layout, UNCHANGED <<file, value>>
  PROVE  InStore'
<1>1. CASE file = NotFound
  BY <1>1 DEF InStore
<1>2. CASE file # NotFound
  <2>1. PICK chunks \in Contents : HoldsOf(chunks)
    BY <1>2 DEF InStore
  <2>2. chunks \in Contents' /\ file' = Assemble(chunks)'
    BY <2>1, LayoutStays DEF HoldsOf
  <2>3. ASSUME NEW k \in Chunks PROVE value'[k] = DecodeChunk(chunks[k])'
    BY <2>1, LayoutStays DEF HoldsOf
  <2>4. HoldsOf(chunks)'
    BY <2>2, <2>3 DEF HoldsOf
  <2> QED
    BY <1>2, <2>2, <2>4 DEF InStore
<1> QED
  BY <1>1, <1>2

(* Where the index says, a reader gets a value or is told that it did not.  *)
LEMMA RangeReads ==
  ASSUME NEW e
  PROVE  GetRange(e) \in Values \cup {Error}
BY DEF GetRange, Decode

LEMMA IndexReads ==
  ASSUME Typed, InStore, file # NotFound
  PROVE  IndexOf(file) \in Indexes
<1>1. PICK chunks \in Contents : HoldsOf(chunks)
  BY DEF InStore
<1> QED
  BY <1>1, Assembled, IndexIs DEF HoldsOf, Typed

(* A step, by what it does to the readers.                                  *)
LEMMA NextTyped ==
  ASSUME Typed, InStore, [Next]_vars
  PROVE  Typed' /\ InStore'
<1>1. CASE UNCHANGED vars
  BY <1>1, StoreStays DEF vars, Typed
<1>2. ASSUME layout' = layout, NEW first \in Chunks, NEW last \in Chunks, NEW v \in Values,
             PatchShard(first .. last, v)
      PROVE  Typed' /\ InStore'
  <2>1. value' \in [Chunks -> Values] /\ held' \in [Readers -> [Chunks -> SUBSET Values]]
    BY <1>2 DEF PatchShard, Typed
  <2> QED
    BY <1>2, <2>1, PatchKeepsStored DEF PatchShard, Typed
<1>3. ASSUME layout' = layout, NEW r \in Readers, Open(r) PROVE Typed' /\ InStore'
  <2>1. Nothing \in Indexes /\ Nothing \in [Chunks -> Values \cup {Error, NoChunk}]
    BY DEF Nothing, Indexes
  <2>2. (IF layout.byRange /\ file # NotFound THEN IndexOf(file) ELSE Nothing) \in Indexes
    BY <2>1, IndexReads
  <2>3. index' \in [Readers -> Indexes]
    BY <1>3, <2>2 DEF Open, Typed
  <2>4. held' \in [Readers -> [Chunks -> SUBSET Values]] /\ phase' \in [Readers -> {"idle", "open", "done"}]
    BY <1>3 DEF Open, Typed
  <2> QED
    BY <1>3, <2>1, <2>3, <2>4, StoreStays DEF Open, Typed
<1>4. ASSUME layout' = layout, NEW r \in Readers, NEW k \in Chunks, ReadRange(r, k)
      PROVE  Typed' /\ InStore'
  <2>1. (IF index[r][k] = NoChunk THEN Fill ELSE GetRange(index[r][k])) \in Values \cup {Error}
    BY RangeReads, ShardAssumption
  <2>2. got' \in [Readers -> [Chunks -> Values \cup {Error, NoChunk}]]
    BY <1>4, <2>1 DEF ReadRange, Typed
  <2> QED
    BY <1>4, <2>2, StoreStays DEF ReadRange, Typed
<1>5. ASSUME layout' = layout, NEW r \in Readers, ReadWhole(r) PROVE Typed' /\ InStore'
  <2>1. got' = [got EXCEPT ![r] = value]
    BY <1>5, StoredIs DEF ReadWhole, Typed, ShardHolds, WrittenSound
  <2>2. got' \in [Readers -> [Chunks -> Values \cup {Error, NoChunk}]]
    BY <2>1 DEF Typed
  <2> QED
    BY <1>5, <2>2, StoreStays DEF ReadWhole, Typed
<1>6. ASSUME layout' = layout, NEW r \in Readers, Done(r) PROVE Typed' /\ InStore'
  <2>1. Nothing \in Indexes
    BY DEF Nothing, Indexes
  <2> QED
    BY <1>6, <2>1, StoreStays DEF Done, Typed
<1> QED
  BY <1>1, <1>2, <1>3, <1>4, <1>5, <1>6 DEF Next

LEMMA StoredAlways == Spec => [](Typed /\ InStore)
BY InitTyped, NextTyped, PTL DEF Spec

(* The state has its types.                                                 *)
LEMMA TypedIsTypeOK == Typed /\ InStore => TypeOK
<1> SUFFICES ASSUME Typed, InStore PROVE TypeOK
  OBVIOUS
<1>1. ASSUME file # NotFound PROVE Len(file) >= IndexSize
  <2>1. PICK chunks \in Contents : HoldsOf(chunks)
    BY <1>1 DEF InStore
  <2>2. /\ Len(Joined(chunks)[NumChunks]) \in Nat /\ IndexSize \in Nat
        /\ Len(Assemble(chunks)) = Len(Joined(chunks)[NumChunks]) + IndexSize
    BY <2>1, Assembled, ShardAssumption DEF Typed
  <2> QED
    BY <2>1, <2>2 DEF HoldsOf
<1>2. \A r \in Readers : DOMAIN index[r] = Chunks
  BY DEF Typed, Indexes
<1> QED
  BY <1>1, <1>2 DEF Typed, TypeOK

(* Shards are of the type that shard.go takes them for, and readers' values *)
(* are values, or what stands for an error.                                 *)
THEOREM ShardTypeCorrect == Spec => []TypeOK
BY StoredAlways, TypedIsTypeOK, PTL

(* Every write of a shard keeps the chunks it does not write, though it     *)
(* moves their bytes: split finds in what assemble made what it was made    *)
(* of, for any number of chunks of any lengths, with the index before or    *)
(* after them and with empty chunks left out or not (shard.go, patchShard). *)
THEOREM ShardKeepsChunks == Spec => []ShardHolds
<1>1. Typed /\ InStore => ShardHolds
  BY StoredIs DEF Typed
<1> QED
  BY <1>1, StoredAlways, PTL

(* And checkIndex refuses nothing that assemble made.                       *)
THEOREM ShardStaysSound == Spec => []WrittenSound
<1>1. Typed /\ InStore => WrittenSound
  BY StoredIs DEF Typed
<1> QED
  BY <1>1, StoredAlways, PTL
-----------------------------------------------------------------------------
(* Shards read by range are shards whose chunks do not move: written whole, *)
(* with empty chunks too, and of one length, as without a compressor.       *)
Steady ==
  \A c \in Layouts :
    c.byRange => c.full /\ c.writeEmptyChunks /\ \A v, w \in Values : c.size[v] = c.size[w]

AllThere == [Chunks -> {Encode(v) : v \in Values}]
Holds(chunks) == file # NotFound /\ HoldsOf(chunks)

(* Where a reader by range has its index from is where the chunks are.      *)
Unmoved ==
  layout.byRange =>
    /\ \E chunks \in AllThere : Holds(chunks)
    /\ \A r \in Readers : phase[r] = "open" => index[r] = IndexOf(file)

(* A read that is open has held what is there now.                          *)
ReadsOwn ==
  /\ ChunksAreTheirOwn
  /\ \A r \in Readers, k \in Chunks : phase[r] = "open" => value[k] \in held[r][k]

LEMMA AllThereIs ==
  ASSUME layout \in Layouts, NEW chunks \in AllThere
  PROVE  chunks \in Contents /\ \A k \in Chunks : chunks[k] # NoChunk
<1>1. \A v \in Values : Encode(v) # NoChunk
  BY Encodes
<1> QED
  BY <1>1 DEF AllThere, Contents

(* Chunks of one length that are all there are where any others are.        *)
LEMMA SameIndex ==
  ASSUME layout \in Layouts, \A v, w \in Values : layout.size[v] = layout.size[w],
         NEW c \in AllThere, NEW d \in AllThere
  PROVE  IndexFor(c) = IndexFor(d)
<1> DEFINE I == Joined(c)
           J == Joined(d)
           T == {n \in Nat : n <= NumChunks => Len(I[n]) = Len(J[n])}
<1>1. NumChunks \in Nat /\ Chunks = 1 .. NumChunks
  BY ShardAssumption DEF Chunks
<1>2. /\ c \in Contents /\ \A k \in Chunks : c[k] # NoChunk
      /\ d \in Contents /\ \A k \in Chunks : d[k] # NoChunk
  BY AllThereIs
<1>3. c \in [Chunks -> {NoChunk} \cup Seq(Data)] /\ d \in [Chunks -> {NoChunk} \cup Seq(Data)]
  BY <1>2, ContentsAre
<1>4. \A k \in Chunks : Len(c[k]) = Len(d[k])
  <2>1. ASSUME NEW v \in Values PROVE Len(Encode(v)) = layout.size[v]
    <3>1. layout.size[v] \in Nat
      BY ShardAssumption
    <3> QED
      BY <3>1 DEF Encode
  <2>2. ASSUME NEW k \in Chunks PROVE \E v \in Values : c[k] = Encode(v)
    BY DEF AllThere
  <2>3. ASSUME NEW k \in Chunks PROVE \E v \in Values : d[k] = Encode(v)
    BY DEF AllThere
  <2> QED
    BY <2>1, <2>2, <2>3
<1>5. I[0] = <<>> /\ J[0] = <<>>
  BY <1>3, JoinedIs
<1>6. ASSUME NEW k \in Chunks
      PROVE  /\ {Len(c[k]), Len(I[k - 1]), Len(d[k]), Len(J[k - 1])} \subseteq Nat
             /\ Len(I[k]) = Len(I[k - 1]) + Len(c[k])
             /\ Len(J[k]) = Len(J[k - 1]) + Len(d[k])
  <2>1. c[k] # NoChunk /\ d[k] # NoChunk
    BY <1>2
  <2>2. {Len(c[k]), Len(I[k - 1])} \subseteq Nat /\ Len(I[k]) = Len(I[k - 1]) + Len(c[k])
    BY <1>3, <2>1, ChunkAt, Zenon
  <2>3. {Len(d[k]), Len(J[k - 1])} \subseteq Nat /\ Len(J[k]) = Len(J[k - 1]) + Len(d[k])
    BY <1>3, <2>1, ChunkAt, Zenon
  <2> HIDE DEF I, J
  <2> QED
    BY <2>2, <2>3
<1> HIDE DEF I, J
<1>7. ASSUME NEW n \in Nat, n \in T PROVE n + 1 \in T
  <2> SUFFICES ASSUME n + 1 <= NumChunks PROVE Len(I[n + 1]) = Len(J[n + 1])
    OBVIOUS
  <2>1. n + 1 \in Chunks /\ (n + 1) - 1 = n /\ Len(I[n]) = Len(J[n])
    BY <1>1, <1>7
  <2>2. Len(I[n + 1]) = Len(I[n]) + Len(c[n + 1]) /\ Len(J[n + 1]) = Len(J[n]) + Len(d[n + 1])
    BY <1>6, <2>1
  <2> QED
    BY <1>4, <2>1, <2>2
<1>8. ASSUME NEW n \in 0 .. NumChunks PROVE Len(I[n]) = Len(J[n])
  <2>1. 0 \in T
    BY <1>5
  <2>2. Nat \subseteq T
    <3> HIDE DEF T
    <3> QED
      BY <1>7, <2>1, Induction
  <2> QED
    BY <1>1, <2>2
<1>9. ASSUME NEW k \in Chunks
      PROVE  Len(I[k - 1]) = Len(J[k - 1]) /\ Len(c[k]) = Len(d[k])
  <2>1. k - 1 \in 0 .. NumChunks
    BY <1>1
  <2> QED
    BY <1>4, <1>8, <2>1
<1>10. /\ IndexFor(c) = [k \in Chunks |-> [off |-> Lowest + Len(I[k - 1]), n |-> Len(c[k])]]
       /\ IndexFor(d) = [k \in Chunks |-> [off |-> Lowest + Len(J[k - 1]), n |-> Len(d[k])]]
  BY <1>2 DEF IndexFor, I, J
<1> QED
  BY <1>9, <1>10

(* What an open reader gets by range is what is there.                      *)
LEMMA RangeIsValue ==
  ASSUME layout \in Layouts, NEW chunks \in AllThere, Holds(chunks), NEW k \in Chunks
  PROVE  /\ IndexOf(file)[k] # NoChunk
         /\ GetRange(IndexOf(file)[k]) = value[k]
<1>1. chunks \in Contents /\ chunks[k] # NoChunk
  BY AllThereIs
<1>2. IndexOf(file) = IndexFor(chunks)
  BY <1>1, Assembled DEF Holds, HoldsOf
<1>3. /\ IndexFor(chunks)[k] # NoChunk
      /\ Entry(file, IndexFor(chunks)[k]) = chunks[k]
      /\ Within(IndexFor(chunks)[k], Len(file))
  BY <1>1, IndexIs, EntryIsChunk DEF Holds, HoldsOf
<1>4. value[k] = Decode(chunks[k])
  BY <1>1 DEF Holds, HoldsOf, DecodeChunk
<1> QED
  BY <1>2, <1>3, <1>4 DEF GetRange, Holds

LEMMA InitOwn == Steady /\ Init => Unmoved /\ ReadsOwn
<1> SUFFICES ASSUME Steady, Init PROVE Unmoved /\ ReadsOwn
  OBVIOUS
<1>1. ReadsOwn
  BY DEF Init, ReadsOwn, ChunksAreTheirOwn, Nothing
<1>2. ASSUME layout.byRange PROVE \E chunks \in AllThere : Holds(chunks)
  <2> DEFINE chunks == [k \in Chunks |-> Encode(Fill)]
  <2>1. layout \in Layouts /\ Fill \in Values
    BY ShardAssumption DEF Init
  <2>2. file = Assemble(chunks) /\ \A k \in Chunks : value[k] = Fill
    BY <1>2, <2>1 DEF Steady, Init
  <2>3. chunks \in AllThere
    BY <2>1 DEF AllThere
  <2>4. \A k \in Chunks : DecodeChunk(chunks[k]) = Fill
    BY <2>1, Encodes DEF DecodeChunk
  <2> HIDE DEF chunks
  <2>5. file # NotFound
    BY <2>1, <2>2, <2>3, AllThereIs, Assembled, SentinelAssumption
  <2> QED
    BY <2>2, <2>3, <2>4, <2>5 DEF Holds, HoldsOf
<1>3. \A r \in Readers : phase[r] # "open"
  BY DEF Init
<1> QED
  BY <1>1, <1>2, <1>3 DEF Unmoved

(* What is held stays where it was, if nothing is written.                  *)
LEMMA HoldsStays ==
  ASSUME layout' = layout, UNCHANGED <<file, value>>, NEW chunks \in AllThere, Holds(chunks)
  PROVE  /\ chunks \in AllThere' /\ Holds(chunks)'
         /\ IndexOf(file)' = IndexOf(file)
<1>1. AllThere' = AllThere
  BY LayoutStays DEF AllThere
<1>2. file' = Assemble(chunks)'
  BY LayoutStays DEF Holds, HoldsOf
<1>3. ASSUME NEW k \in Chunks PROVE value'[k] = DecodeChunk(chunks[k])'
  BY LayoutStays DEF Holds, HoldsOf
<1>4. HoldsOf(chunks)'
  BY <1>2, <1>3 DEF HoldsOf
<1> QED
  BY <1>1, <1>4 DEF Holds, IndexOf

(* A write leaves chunks of one length where they were.                     *)
LEMMA PatchMovesNothing ==
  ASSUME Steady, layout \in Layouts, layout.byRange, layout' = layout,
         NEW first \in Chunks, NEW last \in Chunks, NEW v \in Values,
         PatchShard(first .. last, v),
         NEW chunks \in AllThere, Holds(chunks)
  PROVE  /\ \E c \in AllThere' : Holds(c)'
         /\ IndexOf(file)' = IndexOf(file)
<1> DEFINE written == first .. last
           new == [k \in Chunks |-> IF k \in written THEN Encode(v) ELSE chunks[k]]
<1>1. /\ chunks \in Contents /\ file = Assemble(chunks) /\ file # NotFound
      /\ \A k \in Chunks : value[k] = DecodeChunk(chunks[k])
  BY AllThereIs DEF Holds, HoldsOf
<1>2. Patched(written, v) = new
  <2>1. Split(file) = chunks
    BY <1>1, SplitsAsAssembled
  <2>2. Encoded(v) = Encode(v)
    BY DEF Steady, Encoded
  <2> QED
    BY <1>1, <2>1, <2>2 DEF Patched
<1>3. new \in AllThere
  BY DEF AllThere
<1>4. \A k \in Chunks : value'[k] = IF k \in written THEN v ELSE value[k]
  BY DEF PatchShard
<1>5. \A k \in Chunks : value'[k] = DecodeChunk(new[k])
  <2>1. DecodeChunk(Encode(v)) = v
    BY Encodes DEF DecodeChunk
  <2> QED
    BY <1>1, <1>4, <2>1
<1> HIDE DEF new
<1>6. new \in Contents /\ new # Nothing
  <2>1. 1 \in Chunks
    BY ShardAssumption DEF Chunks
  <2> QED
    BY <1>3, <2>1, AllThereIs DEF Nothing
<1>7. file' = Assemble(new) /\ file' # NotFound
  BY <1>2, <1>6, Assembled, SentinelAssumption DEF PatchShard
<1>8. PICK c : c = new
  OBVIOUS
<1>9. c \in AllThere' /\ Holds(c)'
  <2>1. c \in AllThere'
    BY <1>3, <1>8, LayoutStays DEF AllThere
  <2>2. file' = Assemble(c)'
    BY <1>7, <1>8, LayoutStays
  <2>3. ASSUME NEW k \in Chunks PROVE value'[k] = DecodeChunk(c[k])'
    BY <1>5, <1>8, LayoutStays
  <2>4. HoldsOf(c)'
    BY <2>2, <2>3 DEF HoldsOf
  <2> QED
    BY <1>7, <2>1, <2>4 DEF Holds
<1>10. IndexOf(file)' = IndexOf(Assemble(new))
  BY <1>7 DEF IndexOf
<1>11. IndexFor(new) = IndexFor(chunks)
  BY <1>3, SameIndex DEF Steady
<1> QED
  BY <1>1, <1>6, <1>9, <1>10, <1>11, Assembled

(* A step, by what it does to what readers have.                            *)
LEMMA NextOwn ==
  ASSUME Steady, Typed, InStore, Unmoved, ReadsOwn, [Next]_vars
  PROVE  Unmoved' /\ ReadsOwn'
<1>1. layout \in Layouts
  BY DEF Typed
<1> DEFINE Kept == layout.byRange => /\ \E c \in AllThere' : Holds(c)'
                                     /\ IndexOf(file)' = IndexOf(file)
<1>2. ASSUME layout' = layout, UNCHANGED <<file, value>> PROVE Kept
  <2>1. ASSUME layout.byRange PROVE \E chunks \in AllThere : Holds(chunks)
    BY <2>1 DEF Unmoved
  <2> QED
    BY <1>2, <2>1, HoldsStays
<1>3. ASSUME layout' = layout, Kept,
             \A r \in Readers : phase'[r] = "open" =>
               \/ phase[r] = "open" /\ index'[r] = index[r]
               \/ layout.byRange => index'[r] = IndexOf(file)
      PROVE  Unmoved'
  <2> SUFFICES ASSUME layout'.byRange
               PROVE  /\ \E c \in AllThere' : Holds(c)'
                      /\ \A r \in Readers : phase'[r] = "open" => index'[r] = IndexOf(file)'
    BY DEF Unmoved
  <2>1. layout.byRange
    BY <1>3
  <2> QED
    BY <1>3, <2>1 DEF Unmoved
<1>4. CASE UNCHANGED vars
  <2>1. Unmoved'
    BY <1>2, <1>3, <1>4 DEF vars
  <2>2. ReadsOwn'
    BY <1>4 DEF vars, ReadsOwn, ChunksAreTheirOwn
  <2> QED
    BY <2>1, <2>2
<1>5. ASSUME layout' = layout, NEW first \in Chunks, NEW last \in Chunks, NEW v \in Values,
             PatchShard(first .. last, v)
      PROVE  Unmoved' /\ ReadsOwn'
  <2>1. Kept
    BY <1>1, <1>5, PatchMovesNothing DEF Unmoved
  <2>2. Unmoved'
    BY <1>3, <1>5, <2>1 DEF PatchShard
  <2>3. ASSUME NEW r \in Readers, NEW k \in Chunks
        PROVE  /\ held[r][k] \subseteq held'[r][k]
               /\ phase[r] = "open" => value'[k] \in held'[r][k]
    <3>1. /\ held'[r][k] = IF phase[r] = "open" /\ k \in first .. last
                           THEN held[r][k] \cup {v} ELSE held[r][k]
          /\ value'[k] = IF k \in first .. last THEN v ELSE value[k]
      BY <1>5 DEF PatchShard
    <3> QED
      BY <3>1 DEF ReadsOwn
  <2>4. UNCHANGED <<got, phase>>
    BY <1>5 DEF PatchShard
  <2> QED
    BY <2>2, <2>3, <2>4 DEF ReadsOwn, ChunksAreTheirOwn
<1>6. ASSUME layout' = layout, NEW r \in Readers, Open(r) PROVE Unmoved' /\ ReadsOwn'
  <2>1. /\ UNCHANGED <<file, value>>
        /\ \A s \in Readers : s # r =>
             phase'[s] = phase[s] /\ index'[s] = index[s] /\ got'[s] = got[s] /\ held'[s] = held[s]
    BY <1>6 DEF Open, Typed
  <2>2. /\ index'[r] = IF layout.byRange /\ file # NotFound THEN IndexOf(file) ELSE Nothing
        /\ got'[r] = Nothing /\ held'[r] = [k \in Chunks |-> {value[k]}]
    BY <1>6 DEF Open, Typed
  <2>3. layout.byRange => index'[r] = IndexOf(file)
    BY <2>2 DEF Unmoved, Holds
  <2>4. Unmoved'
    BY <1>2, <1>3, <1>6, <2>1, <2>3
  <2>5. ReadsOwn'
    BY <2>1, <2>2 DEF ReadsOwn, ChunksAreTheirOwn, Nothing
  <2> QED
    BY <2>4, <2>5
<1>7. ASSUME layout' = layout, NEW r \in Readers, NEW k \in Chunks, ReadRange(r, k)
      PROVE  Unmoved' /\ ReadsOwn'
  <2>1. UNCHANGED <<file, value, phase, index, held>>
    BY <1>7 DEF ReadRange
  <2>2. Unmoved'
    BY <1>2, <1>3, <1>7, <2>1
  <2>3. PICK chunks \in AllThere : Holds(chunks)
    BY <1>7 DEF ReadRange, Unmoved
  <2>4. index[r] = IndexOf(file) /\ phase[r] = "open"
    BY <1>7 DEF ReadRange, Unmoved
  <2>5. (IF index[r][k] = NoChunk THEN Fill ELSE GetRange(index[r][k])) = value[k]
    BY <1>1, <2>3, <2>4, RangeIsValue
  <2>6. got' = [got EXCEPT ![r][k] = value[k]]
    BY <1>7, <2>5 DEF ReadRange
  <2>7. \A s \in Readers, j \in Chunks :
          got'[s][j] = IF s = r /\ j = k THEN value[k] ELSE got[s][j]
    BY <2>6 DEF Typed
  <2>8. ReadsOwn'
    BY <2>1, <2>4, <2>7 DEF ReadsOwn, ChunksAreTheirOwn
  <2> QED
    BY <2>2, <2>8
<1>8. ASSUME layout' = layout, NEW r \in Readers, ReadWhole(r) PROVE Unmoved' /\ ReadsOwn'
  <2>1. UNCHANGED <<file, value, phase, index, held>> /\ phase[r] = "open"
    BY <1>8 DEF ReadWhole
  <2>2. Unmoved'
    BY <1>2, <1>3, <1>8, <2>1
  <2>3. got' = [got EXCEPT ![r] = value]
    BY <1>8, StoredIs DEF ReadWhole, Typed, ShardHolds, WrittenSound
  <2>4. \A s \in Readers : got'[s] = IF s = r THEN value ELSE got[s]
    BY <2>3 DEF Typed
  <2>5. ReadsOwn'
    BY <2>1, <2>4 DEF ReadsOwn, ChunksAreTheirOwn
  <2> QED
    BY <2>2, <2>5
<1>9. ASSUME layout' = layout, NEW r \in Readers, Done(r) PROVE Unmoved' /\ ReadsOwn'
  <2>1. /\ UNCHANGED <<file, value, got, held>>
        /\ phase'[r] # "open"
        /\ \A s \in Readers : s # r => phase'[s] = phase[s] /\ index'[s] = index[s]
    BY <1>9 DEF Done, Typed
  <2>2. Unmoved'
    BY <1>2, <1>3, <1>9, <2>1
  <2>3. ReadsOwn'
    BY <2>1 DEF ReadsOwn, ChunksAreTheirOwn
  <2> QED
    BY <2>2, <2>3
<1> QED
  BY <1>4, <1>5, <1>6, <1>7, <1>8, <1>9 DEF Next

(* Readers beside writers (doc.go:59) are given what was there while they   *)
(* read: always of shards that are read at once, and of those that are read *)
(* by range (Array.byRange, openStored) if no write moves a chunk.  That    *)
(* this is needed is what ShardTorn shows.                                  *)
THEOREM ShardReadsTheirOwn == Steady => (Spec => []ChunksAreTheirOwn)
<1> SUFFICES ASSUME Steady PROVE Spec => []ChunksAreTheirOwn
  OBVIOUS
<1>1. Init => Unmoved /\ ReadsOwn
  BY InitOwn
<1>2. Typed /\ InStore /\ Unmoved /\ ReadsOwn /\ [Next]_vars => Unmoved' /\ ReadsOwn'
  BY NextOwn
<1>3. ReadsOwn => ChunksAreTheirOwn
  BY DEF ReadsOwn
<1> QED
  BY <1>1, <1>2, <1>3, StoredAlways, PTL DEF Spec
=============================================================================
