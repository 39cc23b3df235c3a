SPECIFICATION Spec
CONSTANTS
  Builds = {b1}
  Info <- OneCommit
  NoCleanupJob = FALSE
  SupportedBranches = {"main"}
  MaxLag = 2
  MaxTime = 0
  SameSecond = TRUE
  DisableCommitStatuses = TRUE
  Tasks = {"cleaner", "initializer"}
  Clients = {c1, c2}
  ClientOps = {"deploy", "start", "stop", "undeploy", "close"}
  MaxInitializing = 1
  MaxStarted = 1
  MaxDeployed = 1
  MaxRequests = 4
  FaultKinds = {}
  MaxFaults = 0
SYMMETRY ClientSymmetry
INVARIANTS TypeOK NoLiveCleanup RunningIsInitialized InitializedHasDatabase PurgeAfterCleanup
  SettledMirrorsCluster SettledInitialization SettledUndeploy
PROPERTIES LifecycleRespected
