\* Parcels put between an append that fails and the next.
SPECIFICATION Spec
CONSTANTS
  NVars = 2
  MaxTime = 2
  MaxGens = 3
  Values = {1, 2}
  ChunkSteps = 2
  MaxAppend = 2
  MaxSteps = 3
  Plans <- LeftoverPlans
INVARIANT StatsAreOfTheirScenes
CHECK_DEADLOCK FALSE
