SPECIFICATION QueueFairSpec
CONSTANTS
  w1 = w1
  w2 = w2
  k1 = k1
  k2 = k2
  NoClaim = NoClaim
  QueueWorkers <- TwoWorkers
  Wakeups <- TwoWakeups
  QueueTTL = 2
  RetryDelay = 1
  DriverMayFail = FALSE
  QueueHeartbeatKeeps = TRUE
  QueueMaxFaults = 1
  QueueMaxToken = 6
PROPERTIES
  LapsedClaimRecovered
CHECK_DEADLOCK FALSE
