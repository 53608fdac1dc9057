\* Shards, so that a WriteChunk too reads the object it shares.
SPECIFICATION FairSpec
CONSTANTS
  wA = wA
  wB = wB
  oP = oP
  oQ = oQ
  Elements <- MCElements
  Objects <- MCObjects
  ObjectOf <- MCObjectOf
  Writers <- MCWriters
  Region <- MCRegion
  Kind <- MCKind
  Sharded = TRUE
  WriteEmptyChunks = FALSE
  Values <- MCValues
  Fill = 0
  Absent = Absent
  NoTask = NoTask
INVARIANTS TypeOK DoneStays
PROPERTIES ImplementsRegionWrites EveryCallReturns
CHECK_DEADLOCK TRUE
