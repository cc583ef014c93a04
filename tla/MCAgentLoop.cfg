SPECIFICATION MCSpec
CONSTANTS
  None = None
  Verifiers = {v1}
  Ids = {i1}
  Setups <- MCSetups
  MaxTurns = 2
  MaxModelCalls = 2
  MaxToolCalls = 1
  MaximumAttempts = 2
  MaxFaults = 1
  QueueWorkers = {q1, q2}
  Wakeups = {k1, k2}
  NoClaim = NoClaim
  QueueTTL = 2
  RetryDelay = 1
  DriverMayFail = FALSE
  QueueHeartbeatKeeps = TRUE
  QueueMaxFaults = 1
  QueueMaxToken = 6
  ResCommands = {c1, c2}
  ResPrincipals = {p1, p2}
  ResAmounts = {1, 2}
  ResQuota = 2
  ResBoundaries = {b1, b2, b3}
  ResMaxCharge = 2
  ResRunMaximum = 4
  ResCalls = {m1, m2}
  ResCallMaximum = 2
  ResModelLimit = 3
  ResLastTime = 3
  CmpCommands = {c1, c2}
  CmpRuns = {r1, r2}
  CmpMaxFaults = 2
  AuthKeys = {key1, key2, key3}
  AuthGrants = {grant1}
  AuthApprovals = {approval1}
  AuthSecrets = {secret1, secret2}
  AuthIds = {id1, id2, id3}
  AuthTargets = {target1, target2}
  AuthMaximumUses = 2
  AuthExpiresAt = 2
  AuthLastTime = 2
  AuthMaxVersion = 4
  PolR5MaxAge = 1
  PolExpiresAt = 3
  PolLastAge = 3
  ExeReceipts <- MCReceipts
  ExeProfiles <- MCProfiles
  ExePins <- MCPins
  ExeConnections <- MCConnections
  ExeCalls = {"x"}
  ExeMaxAge = 2
  ExeMaxAttempts = 2
  ExeLastTime = 2
INVARIANTS
  BudgetsHold
  InterruptionSafe
  LimitsHeld
  CompensationSafe
PROPERTIES
  
  EveryWakeupCompletes
  ReservationsFinal
  AuthorityHeld
  
  ExecutorSafe
CHECK_DEADLOCK FALSE
