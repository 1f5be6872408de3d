SPECIFICATION FairSubscriptionSpec
CONSTANTS
  Writers = {w1, w2}
  Subscribers = {s1, s2}
  MaxWrites = 3
CHECK_DEADLOCK FALSE
INVARIANTS
  SkippedMeansCurrent
PROPERTIES
  ChangesReachClients
  LeftTasksEnd
