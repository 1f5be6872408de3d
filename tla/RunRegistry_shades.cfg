SPECIFICATION Spec
CONSTANTS
  MaxRuns = 2
  MaxEvents = 0
  Clients = {c1}
  Starts = {"launch"}
  Exits = {"failure"}
  Dials = {1, 2}
  Lossy = TRUE
INVARIANTS
  ShadeOfActiveRun
PROPERTIES
  LiveShadeKept
