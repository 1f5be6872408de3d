SPECIFICATION Spec
CONSTANTS
  MaxRuns = 2
  MaxEvents = 1
  Clients = {c1, c2}
  Starts = {"launch", "ingest"}
  Exits = {"targetExited", "timeLimit", "failure"}
  Dials = {}
  Lossy = FALSE
INVARIANTS
  RunAccountedFor
  ReasonFollowsShade
  NeverOvercounts
PROPERTIES
  ImplementsLifecycle
