\* A key of each store, and nodes of a hierarchy in one.
SPECIFICATION Spec
CONSTANTS
  cA = cA
  cB = cB
  None = None
  MaxInt = 7
  Ranges <- MCRanges
  Setups <- MCSetups
  Callers <- MCCallers
  Trees <- MCTrees
  KeyOrder <- MCKeyOrder
  PageSize = 3
  Batch = 2
INVARIANTS
  TypeOK
  ArraysKeepTheirChunks
  AnswersOfTheirTime
PROPERTIES
  StoresKeepKeys
  CreateKeepsVersion3
CHECK_DEADLOCK FALSE
