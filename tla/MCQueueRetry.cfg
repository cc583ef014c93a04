SPECIFICATION QueueSpec
CONSTANTS
  w1 = w1
  w2 = w2
  k1 = k1
  k2 = k2
  NoClaim = NoClaim
  QueueWorkers <- OneWorker
  Wakeups <- OneWakeup
  QueueTTL = 2
  RetryDelay = 1
  DriverMayFail = TRUE
  QueueHeartbeatKeeps = TRUE
  QueueMaxFaults = 1
  QueueMaxToken = 3
INVARIANTS
  ClaimIsDelegable
CHECK_DEADLOCK FALSE
