\* Shards read by range that leave empty chunks out.
SPECIFICATION Spec
CONSTANTS
  fill = fill
  one = one
  two = two
  rA = rA
  NumChunks = 3
  Values <- MCValues
  Fill = fill
  Layouts <- TornLayouts
  IndexSize = 2
  Readers <- OneReader
  NoChunk = NoChunk
  NotFound = NotFound
  Error = Error
INVARIANT WrongOnlyByError
