SPECIFICATION Spec
CONSTANTS
  w1 = w1
  w2 = w2
  e1 = e1
  None = None
  Workers <- MCWorkers
  Ids <- MCIds
  Verifiers <- MCVerifiers
  Effect = e1
  Registered <- LookedUp
  FencedTransitions = FALSE
  HeartbeatKeeps = FALSE
  MaxFaults = 2
SYMMETRY Symmetry
INVARIANTS
  EachAttemptOnce
  AcknowledgedWasApplied
  LedgerMatchesRun
  ParkedReconcilable
PROPERTIES
  TerminalFrozen
CHECK_DEADLOCK FALSE
