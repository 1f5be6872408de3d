SPECIFICATION FairDaemon
CONSTANTS
  Sessions = {s1, s2, s3}
  Stops = {k1}
  None = None
CHECK_DEADLOCK FALSE
INVARIANTS
  OneOwner
  DrainingMeansTracing
PROPERTIES
  StopCancelsWhatItSaw
  SlotFreed
