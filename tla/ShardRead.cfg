\* Shards read whole, and shards of fixed chunks, all there, read by range.
SPECIFICATION Spec
CONSTANTS
  fill = fill
  one = one
  two = two
  rA = rA
  NumChunks = 3
  Values <- MCValues
  Fill = fill
  Layouts <- SafeLayouts
  IndexSize = 2
  Readers <- OneReader
  NoChunk = NoChunk
  NotFound = NotFound
  Error = Error
INVARIANTS TypeOK ChunksAreTheirOwn ShardHolds WrittenSound
