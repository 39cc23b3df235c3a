SPECIFICATION Spec
CONSTANTS
  Builds = {b1}
  Info <- OneCommit
  NoCleanupJob = FALSE
  SupportedBranches = {"main"}
  MaxLag = 1
  MaxTime = 0
  SameSecond = TRUE
  DisableCommitStatuses = TRUE
  Tasks = {"cleaner", "initializer"}
  Clients = {c1}
  ClientOps = {"deploy", "start", "undeploy"}
  MaxInitializing = 1
  MaxStarted = 1
  MaxDeployed = 1
  MaxRequests = 3
  FaultKinds = {"crash", "watch"}
  MaxFaults = 1
INVARIANTS NoLiveCleanup InitializedHasDatabase PurgeAfterCleanup SettledInitialization SettledKnownUndeploy
PROPERTIES LifecycleRespected
