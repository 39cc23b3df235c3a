SPECIFICATION WebhookSpec
CONSTANTS
  Builds = {"b1", "b2", "b3"}
  Info <- BranchAndPull
  NoCleanupJob = TRUE
  SupportedBranches = {"main"}
  MaxLag = 1
  MaxTime = 0
  SameSecond = FALSE
  DisableCommitStatuses = TRUE
  Tasks = {"cleaner"}
  Clients = {c1, c2}
  ClientOps = {"deploy", "close", "reset"}
  MaxInitializing = 1
  MaxStarted = 1
  MaxDeployed = 3
  MaxRequests = 4
  FaultKinds = {"call"}
  MaxFaults = 1
  Refs <- MainOnly
  Pulls = {1}
  Commits = {"c1", "c2"}
  BaseBranch = "main"
  MaxEvents = 3
  MaxRepeats = 1
SYMMETRY ClientSymmetry
INVARIANTS SettledHeadsBuilt SettledClosedUndeployed
PROPERTIES OnlyClosedPullsUndeployed
