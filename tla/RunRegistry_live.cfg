SPECIFICATION FairWaitSpec
CONSTANTS
  MaxRuns = 2
  MaxEvents = 0
  Clients = {c1}
  Starts = {"attach"}
  Exits = {"failure"}
  Dials = {1}
  Lossy = TRUE
PROPERTIES
  DeadShadeSlotFreed
  ShadeExitEndsRun
  ReturnsOnceStopped
