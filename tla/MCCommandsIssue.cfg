SPECIFICATION Spec
CONSTANTS
  k1 = k1
  k2 = k2
  c1 = c1
  c2 = c2
  v1 = v1
  v2 = v2
  r1 = r1
  d1 = d1
  None = None
  Start = Start
  Request = r1
  Decision = d1
  Clients <- MCClients
  CommandIds <- MCCommandIds
  Values <- MCValues
  Ids <- MCIds
  Verifiers <- MCVerifiers
  Backends <- BothBackends
  TTL = 1
  MaxTime = 1
  MaxCalls = 4
PROPERTIES
  RepeatedIssueReplays
CHECK_DEADLOCK FALSE
