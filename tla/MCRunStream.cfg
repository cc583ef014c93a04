SPECIFICATION MCSpec
CONSTANTS
  None = None
  Writers = {w1, w2}
  Verifiers = {v1}
  Ids = {i1}
  Kind = "agent"
  Alphabet <- MCAlphabet
  MaxEvents = 5
  Workers = {e1, e2, e3}
  Nobody = Nobody
  TTL = 2
  MaxToken = 4
  MaxWrites = 4
  QueueWorkers = {q1, q2}
  Wakeups = {k1, k2}
  NoClaim = NoClaim
  QueueTTL = 2
  RetryDelay = 1
  DriverMayFail = TRUE
  QueueHeartbeatKeeps = FALSE
  QueueMaxFaults = 2
  QueueMaxToken = 3
SYMMETRY Symmetry
INVARIANTS
  StreamSound
  AckedOnce
  CompletionVerified
  LeaseSafe
  ClaimsCurrent
PROPERTIES
  WrittenUnderLatestLease
  ImplementsLock
CHECK_DEADLOCK FALSE
