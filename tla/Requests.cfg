SPECIFICATION DeployedSpec
CONSTANTS
  Builds = {b1}
  Info <- OneCommit
  NoCleanupJob = FALSE
  SupportedBranches = {"main"}
  MaxLag = 1
  MaxTime = 0
  SameSecond = TRUE
  DisableCommitStatuses = TRUE
  Tasks = {"cleaner", "initializer"}
  Clients = {c1, c2}
  ClientOps = {"reset", "close", "start"}
  MaxInitializing = 1
  MaxStarted = 1
  MaxDeployed = 1
  MaxRequests = 2
  FaultKinds = {"call"}
  MaxFaults = 1
SYMMETRY ClientSymmetry
INVARIANTS SettledMirrorsCluster
