------------------------------ MODULE ShardRead ------------------------------
(***************************************************************************)
(* One shard, written a few chunks at a time and read meanwhile: its bytes  *)
(* are its chunks end to end and an index of where each is (shard.go), a    *)
(* write replaces them all (patchShard), and a read takes them all at once  *)
(* or, from a store that reads ranges, the index first and the chunks after *)
(* (openStored, Read), with no lock around the two.                         *)
(*                                                                          *)
(* A chunk is of one value.  The lock writers hold is StoredWrites'.        *)
(***************************************************************************)
EXTENDS Integers, Sequences

CONSTANTS NumChunks,         \* how many chunks the shard holds
          Values, Fill,
          Layouts,           \* what a shard may be like: see ShardAssumption
          IndexSize,         \* how many bytes the index takes
          Readers,
          NoChunk,           \* the index entry of a chunk that is not there
          NotFound,          \* the shard that is not there
          Error              \* what a read that failed has read

Chunks == 1 .. NumChunks

(* An index, the bytes of a chunk, which know what they are a byte of, and  *)
(* those of a shard.                                                        *)
Indexes == [Chunks -> {NoChunk} \cup [off : Nat, n : Nat]]
Data == Values \X Nat
Bytes == Data \cup ({NoChunk} \X Indexes \X Nat)

ASSUME ShardAssumption ==
  /\ NumChunks \in Nat \ {0} /\ IndexSize \in Nat \ {0}
  /\ Fill \in Values
  /\ Layouts \subseteq
       [size : [Values -> Nat \ {0}],  \* how many bytes a chunk of each takes
        indexAtEnd : BOOLEAN,          \* IndexLocation
        byRange : BOOLEAN,             \* Array.byRange
        writeEmptyChunks : BOOLEAN,    \* Array.WriteEmptyChunks
        full : BOOLEAN]                \* whether it is first written whole

(* What stands for something that is not there is nothing that is.          *)
ASSUME SentinelAssumption ==
  /\ NoChunk \notin Seq(Data) \cup [off : Nat, n : Nat]
  /\ NotFound \notin Seq(Bytes)
  /\ Error \notin Values \cup {NoChunk} /\ NoChunk \notin Values

VARIABLES layout,  \* the shard's layout: fixed from the start
          file,    \* the bytes the store holds under the shard's key
          value,   \* what was last written of each chunk, not in the code
          phase,   \* where each read is
          index,   \* the index it has read
          got,     \* the chunks it has read
          held     \* what each chunk has held since it began, not in the code

vars == <<layout, file, value, phase, index, got, held>>
-----------------------------------------------------------------------------
(* The bytes of a chunk of v, and what bytes are decoded to.  A codec may   *)
(* decode any bytes of the length it expects; that no value has these is    *)
(* one more thing a reader would not be told.                               *)
Encode(v) == [i \in 1 .. layout.size[v] |-> <<v, i>>]
Decode(b) == IF \E v \in Values : b = Encode(v)
             THEN CHOOSE v \in Values : b = Encode(v) ELSE Error

IndexBytes(ix) == [i \in 1 .. IndexSize |-> <<NoChunk, ix, i>>]
Lowest == IF layout.indexAtEnd THEN 0 ELSE IndexSize

(* The chunks that are there end to end, up to each.                        *)
Joined(chunks) ==
  LET bytes[n \in 0 .. NumChunks] ==
        IF n = 0 THEN <<>>
        ELSE IF chunks[n] = NoChunk THEN bytes[n - 1] ELSE bytes[n - 1] \o chunks[n]
  IN  bytes

(* Mutant: offsets count from the chunks, also when the index is before.    *)
IndexFromZero(chunks) ==
  LET bytes == Joined(chunks)
  IN  [k \in Chunks |-> IF chunks[k] = NoChunk THEN NoChunk
                        ELSE [off |-> Len(bytes[k - 1]), n |-> Len(chunks[k])]]

(* Where each of them is.                                                   *)
IndexFor(chunks) ==
  LET bytes == Joined(chunks)
  IN  [k \in Chunks |-> IF chunks[k] = NoChunk THEN NoChunk
                        ELSE [off |-> Lowest + Len(bytes[k - 1]), n |-> Len(chunks[k])]]

(* assemble: the chunks and, before or after them, the index.               *)
Assemble(chunks) ==
  LET bytes == Joined(chunks)[NumChunks]
      ix == IndexBytes(IndexFor(chunks))
  IN  IF layout.indexAtEnd THEN bytes \o ix ELSE ix \o bytes

(* indexOf and decodeIndex.                                                 *)
IndexOf(b) == (IF layout.indexAtEnd THEN b[Len(b)] ELSE b[1])[2]

(* entrySpan's check: the chunk is within the bytes.                        *)
Within(e, size) == e.off <= size /\ e.n <= size - e.off

(* Mutant: the range of an entry begins a byte late.                        *)
EntryLate(b, e) == SubSeq(b, e.off + 2, e.off + e.n)

Entry(b, e) == SubSeq(b, e.off + 1, e.off + e.n)

(* checkIndex: every chunk between lo and hi, and no two over each other.   *)
CheckIndex(ix, lo, hi) ==
  LET there == {k \in Chunks : ix[k] # NoChunk}
  IN  /\ \A k \in there : Within(ix[k], hi) /\ lo <= ix[k].off
      /\ \A j, k \in there :
           j # k => \/ ix[j].off + ix[j].n <= ix[k].off
                    \/ ix[k].off + ix[k].n <= ix[j].off

(* split: the encoded chunks of a whole shard.                              *)
Split(b) ==
  LET ix == IndexOf(b)
  IN  [k \in Chunks |-> IF ix[k] = NoChunk THEN NoChunk ELSE Entry(b, ix[k])]

(* Mutant: a chunk is handed over as it is stored.                          *)
DecodeChunkRaw(c) == IF c = NoChunk THEN Fill ELSE c

DecodeChunk(c) == IF c = NoChunk THEN Fill ELSE Decode(c)

(* DecodeArray: the values of a whole shard.                                *)
DecodeArray(b) == [k \in Chunks |-> DecodeChunk(Split(b)[k])]

Sound(b) ==
  CheckIndex(IndexOf(b), Lowest, IF layout.indexAtEnd THEN Len(b) - IndexSize ELSE Len(b))

Stored == IF file = NotFound THEN [k \in Chunks |-> Fill] ELSE DecodeArray(file)
-----------------------------------------------------------------------------
TypeOK ==
  /\ file = NotFound \/ Len(file) >= IndexSize
  /\ value \in [Chunks -> Values]
  /\ phase \in [Readers -> {"idle", "open", "done"}]
  /\ \A r \in Readers : phase[r] = "open" => DOMAIN index[r] = Chunks
  /\ got \in [Readers -> [Chunks -> Values \cup {Error, NoChunk}]]
  /\ held \in [Readers -> [Chunks -> SUBSET Values]]

Nothing == [k \in Chunks |-> NoChunk]

Init ==
  /\ layout \in Layouts
  /\ file = IF layout.full THEN Assemble([k \in Chunks |-> Encode(Fill)]) ELSE NotFound
  /\ value = [k \in Chunks |-> Fill]
  /\ phase = [r \in Readers |-> "idle"]
  /\ index = [r \in Readers |-> Nothing]
  /\ got = [r \in Readers |-> Nothing]
  /\ held = [r \in Readers |-> [k \in Chunks |-> {}]]

Encoded(v) == IF ~layout.writeEmptyChunks /\ v = Fill THEN NoChunk ELSE Encode(v)

(* Mutant: the chunks that are not written are encoded again, in order, as  *)
(* if all of them were there.                                               *)
PatchedDense(written, v) ==
  LET old == IF file = NotFound THEN Nothing ELSE Split(file)
  IN  [k \in Chunks |-> IF k \in written THEN Encoded(v)
                        ELSE IF old[k] = NoChunk /\ k > 1 THEN old[k - 1] ELSE old[k]]

(* The chunks of the shard as patchShard leaves them: those written anew,   *)
(* left out if they are fill, and the others' bytes as they were stored.    *)
Patched(written, v) ==
  LET old == IF file = NotFound THEN Nothing ELSE Split(file)
  IN  [k \in Chunks |-> IF k \in written THEN Encoded(v) ELSE old[k]]

(* patchShard: the get, the patch and the set, no other writer between.     *)
PatchShard(written, v) ==
  LET new == Patched(written, v)
  IN  /\ file' = IF new = Nothing THEN NotFound ELSE Assemble(new)
      /\ value' = [k \in Chunks |-> IF k \in written THEN v ELSE value[k]]
      /\ held' = [r \in Readers |-> [k \in Chunks |->
                    IF phase[r] = "open" /\ k \in written THEN held[r][k] \cup {v} ELSE held[r][k]]]
      /\ UNCHANGED <<phase, index, got>>

(* A read begins.  By range it has the index of the shard at once, and      *)
(* otherwise nothing yet.                                                   *)
Open(r) ==
  /\ phase[r] # "open"
  /\ phase' = [phase EXCEPT ![r] = "open"]
  /\ index' = [index EXCEPT ![r] =
                 IF layout.byRange /\ file # NotFound THEN IndexOf(file) ELSE Nothing]
  /\ got' = [got EXCEPT ![r] = Nothing]
  /\ held' = [held EXCEPT ![r] = [k \in Chunks |-> {value[k]}]]
  /\ UNCHANGED <<file, value>>

(* A store's GetRange of the bytes of an entry (span): it fails for a value *)
(* that is not there or too short.                                          *)
GetRange(e) == IF file # NotFound /\ Within(e, Len(file)) THEN Decode(Entry(file, e)) ELSE Error

(* A chunk by range, of the shard as it now is, where the index put it.     *)
ReadRange(r, k) ==
  /\ layout.byRange
  /\ phase[r] = "open" /\ got[r][k] = NoChunk
  /\ got' = [got EXCEPT ![r][k] = IF index[r][k] = NoChunk THEN Fill ELSE GetRange(index[r][k])]
  /\ UNCHANGED <<file, value, phase, index, held>>

(* The whole shard at once, its index with it.                              *)
ReadWhole(r) ==
  /\ ~layout.byRange
  /\ phase[r] = "open" /\ got[r] = Nothing
  /\ got' = [got EXCEPT ![r] =
               IF file # NotFound /\ ~Sound(file) THEN [k \in Chunks |-> Error] ELSE Stored]
  /\ UNCHANGED <<file, value, phase, index, held>>

Done(r) ==
  /\ phase[r] = "open" /\ \A k \in Chunks : got[r][k] # NoChunk
  /\ phase' = [phase EXCEPT ![r] = "done"]
  /\ index' = [index EXCEPT ![r] = Nothing]
  /\ UNCHANGED <<file, value, got, held>>

Next ==
  /\ UNCHANGED layout
  /\ \/ \E first, last \in Chunks, v \in Values : first <= last /\ PatchShard(first .. last, v)
     \/ \E r \in Readers :
          Open(r) \/ ReadWhole(r) \/ Done(r) \/ \E k \in Chunks : ReadRange(r, k)

Spec == Init /\ [][Next]_vars
-----------------------------------------------------------------------------
(* Readers beside writers: "an Array may be read and written from several   *)
(* goroutines at once" (doc.go:59).  A chunk reads as something it held     *)
(* while it was read, and never as another chunk or an error.               *)
ChunksAreTheirOwn ==
  \A r \in Readers, k \in Chunks : got[r][k] # NoChunk => got[r][k] \in held[r][k]

(* Weaker: what a read returns without an error is right.                   *)
WrongOnlyByError ==
  \A r \in Readers, k \in Chunks :
    got[r][k] \notin {NoChunk, Error} => got[r][k] \in held[r][k]

(* What is stored is what was last written of each chunk: a write keeps the *)
(* chunks it does not write, though it moves their bytes.                   *)
ShardHolds == Stored = value

(* No shard is written that a reader would refuse.                          *)
WrittenSound == file # NotFound => Sound(file)
=============================================================================
