SPECIFICATION MCSpec
CONSTANTS
  LedReservations <- MCReservations
  LedIdentities <- MCIdentities
  LedClients = {c, d}
  LedMaxBegun = 4
  LedLastTime = 1
  RecWriters = {c, d}
  RecContents = {"a", "b"}
  RecLastKey = 2
  RecNonces = {"m", "n"}
  RecCeilings = {1, 2}
  RecMaxAttempts = 2
  RecLastTime = 1
  RecMaxDeletions = 1
  EviDefinitions <- MCVerifierDefinitions
  EviArtifacts = {"a", "b"}
  EviWorkers = {"w1", "w2"}
  EviLastTime = 3
  EviMaxResults = 2
  EviMaxExceptions = 1
  DecClients = {c, d}
  DecDecision <- MCDecision
  DecGates = {"x", "y"}
  DecCommands = {"m1", "m2"}
  DecKeys = {"k1", "k2"}
  DecLifetime = 1
  DecLastTime = 1
  DecMaxBegun = 4
  CanScalars = {"n"}
  CanKeyOrder <- MCKeyOrder
  CanDigits = 2
  CanExponent = 2
  GwDeliveries = {c, d}
  GwRequests <- MCRequests
  FeedLast = 4
  FeedMaxDrops = 2
  FacCommands = {"c1", "c2"}
  FacBindings = {"b1", "b2"}
  FacDefinitions <- MCDefinitions
  FacLifetime = 2
  FacLastTime = 4
  FacStarts = 2
  McpTools = {t1, t2}
  McpCalls = {c1}
  McpCursors = {"x"}
  McpMaxTools = 1
  McpMaxGrant = 2
  MigProcesses = {c, d}
  MigBuilds <- MCBuilds
  MigTargets = {5, 6, 12}
  MigMaxRuns = 3
  MigMaxRows = 2
  IniProcesses = {c, d}
  IniMaxStrangers = 2
  IniMaxCrashes = 1
  RelPackages = {1, 2, 3}
  RelCreate = 1
  RelGraphs <- MCGraphs
  RelPublishers = {c, d}
  RelMaxPolls = 2
  RelMaxRuns = 1
  RelMaxForeign = 1
INVARIANTS
  RecordsSound
  EvidenceSound
  CanonicalExact
  GatewaySafe
  FacadeSafe
  ConnectionSafe
  ReleaseSafe
PROPERTIES
  LedgerSound
  DecisionsSound
  MigrationsSafe
  InitializerSafe
SYMMETRY Symmetry
CHECK_DEADLOCK FALSE
