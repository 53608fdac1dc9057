\* A tile and a weather source, appended to, put parcels and failing.
SPECIFICATION Spec
CONSTANTS
  NVars = 2
  MaxTime = 2
  MaxGens = 3
  Values = {1, 2}
  ChunkSteps = 2
  MaxAppend = 2
  MaxSteps = 3
  Plans <- MCPlans
INVARIANTS
  TypeOK
  ScenesAreWhole
  StatsAreOfTheirScenes
  SamplesAreOfTheirSteps
  GenerationBeforeKept
  CanBeDoneAgain
PROPERTY ImplementsLogs
CHECK_DEADLOCK FALSE
