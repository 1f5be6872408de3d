SPECIFICATION FairSpec
CONSTANTS
  MaxRecords = 6
  Capacity = 2
  BufRecords = 8
  MinBatch = 5
  MaxBatch = 8
CHECK_DEADLOCK FALSE
INVARIANTS
  RecordsAccountedFor
  FlushedMeansDelivered
PROPERTIES
  ImplementsFifo
  DrainNeverBlocks
  VanishedClientEndsSession
  StopEndsSession
