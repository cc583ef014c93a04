SPECIFICATION FairSpec
CONSTANTS
  w1 = w1
  w2 = w2
  e1 = e1
  None = None
  Workers <- MCWorkers
  Ids <- MCIds
  Verifiers <- MCVerifiers
  Effect = e1
  Registered <- LookedUpOrNot
  FencedTransitions = TRUE
  HeartbeatKeeps = TRUE
  MaxFaults = 2
INVARIANTS
  AppliedOnce
  AtMostOneSend
PROPERTIES
  UnprovedDispatchSettles
CHECK_DEADLOCK FALSE
