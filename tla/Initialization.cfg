SPECIFICATION StartedSpec
CONSTANTS
  Builds = {"b1", "b2", "b3"}
  Info <- SharedCommitBuilds
  NoCleanupJob = FALSE
  SupportedBranches = {"main"}
  MaxLag = 1
  MaxTime = 0
  SameSecond = FALSE
  DisableCommitStatuses = FALSE
  Tasks = {"initializer"}
  Clients = {c1}
  ClientOps = {"deploy"}
  MaxInitializing = 2
  MaxStarted = 1
  MaxDeployed = 1
  MaxRequests = 3
  FaultKinds = {}
  MaxFaults = 0
INVARIANTS InitializationLimit SettledInitialization StatusTruthful
