SPECIFICATION FairSpec
CONSTANTS
  MaxBatches = 5
  Capacity <- MCCapacity
  Kind <- MCKind
CHECK_DEADLOCK FALSE
INVARIANTS
  BatchesAccountedFor
  ProbesTrue
PROPERTIES
  ImplementsFifo
  SessionReturns
