\* Chunks, empty ones deleted, and patched shards, empty chunks kept.
SPECIFICATION Spec
CONSTANTS
  hA = hA
  hB = hB
  Axes <- MCAxes
  MaxShape <- MCMax
  Grid <- MCGrid
  Layouts <- MCLayouts
  Handles <- OneHandle
  NoHandle = NoHandle
  Values <- MCValues
  Fill = 0
  Any = Any
  Absent = Absent
  FirstShapes <- MCFirst
  GrowsOverLeftovers = FALSE
  WritesStale = FALSE
INVARIANTS TypeOK AsPromised ShrunkIsGone
PROPERTY AppendUnseen
