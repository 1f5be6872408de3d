SPECIFICATION FairSpec
CONSTANTS
  MaxEvents = 3
  MaxCalls = 2
  BatchMax = 2
  Credit = 1
  MaxWrites = 2
  MaxEmitted <- MCMaxEmitted
CHECK_DEADLOCK FALSE
INVARIANTS
  IngestInOrder
  LaunchedTargetIsOwned
  OutputComplete
PROPERTIES
  StoppedShadeExits
