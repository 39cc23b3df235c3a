SPECIFICATION DeployedSpec
CONSTANTS
  Builds = {"b1", "b2"}
  Info <- OldBranchBuilds
  NoCleanupJob = FALSE
  SupportedBranches = {"main"}
  MaxLag = 2
  MaxTime = 0
  SameSecond = TRUE
  DisableCommitStatuses = TRUE
  Tasks = {"cleaner"}
  Clients = {c1}
  ClientOps = {"undeploy"}
  MaxInitializing = 1
  MaxStarted = 1
  MaxDeployed = 2
  MaxRequests = 2
  FaultKinds = {}
  MaxFaults = 0
INVARIANT SettledSupportedUndeploy
