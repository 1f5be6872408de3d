SPECIFICATION Spec
CONSTANTS
  MaxRuns = 2
  MaxEvents = 0
  Clients = {c1, c2}
  Starts = {"attach"}
  Exits = {"failure"}
  Dials = {1}
  Lossy = FALSE
PROPERTIES
  KilledAfterRunEnd
