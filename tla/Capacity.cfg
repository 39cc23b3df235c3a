SPECIFICATION DeployedSpec
CONSTANTS
  Builds = {"b1", "b2", "b3"}
  Info <- MixedBuilds
  NoCleanupJob = TRUE
  SupportedBranches = {"main"}
  MaxLag = 1
  MaxTime = 4
  SameSecond = FALSE
  DisableCommitStatuses = TRUE
  Tasks = {"cleaner", "stopper", "undeployer"}
  Clients = {c1}
  ClientOps = {"start", "stop"}
  MaxInitializing = 2
  MaxStarted = 1
  MaxDeployed = 2
  MaxRequests = 2
  FaultKinds = {}
  MaxFaults = 0
INVARIANTS SettledStarted SettledDeployed
PROPERTIES NewestOfBranchKept
