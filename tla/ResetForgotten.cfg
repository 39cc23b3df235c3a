SPECIFICATION Spec
CONSTANTS
  Builds = {b1}
  Info <- OneCommit
  NoCleanupJob = FALSE
  SupportedBranches = {"main"}
  MaxLag = 2
  MaxTime = 0
  SameSecond = TRUE
  DisableCommitStatuses = TRUE
  Tasks = {"cleaner", "initializer"}
  Clients = {c1}
  ClientOps = {"deploy", "reset"}
  MaxInitializing = 1
  MaxStarted = 1
  MaxDeployed = 1
  MaxRequests = 2
  FaultKinds = {}
  MaxFaults = 0
INVARIANT SettledInitialization
