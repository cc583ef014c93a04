SPECIFICATION FairSpec
CONSTANTS
  w1 = w1
  w2 = w2
  e1 = e1
  None = None
  Workers <- MCWorkers
  Ids <- MCIds
  Verifiers <- MCVerifiers
  Effect = e1
  Registered <- Unproved
  FencedTransitions = TRUE
  HeartbeatKeeps = FALSE
  MaxFaults = 1
PROPERTIES
  UncertainBecomesReconcilable
CHECK_DEADLOCK FALSE
