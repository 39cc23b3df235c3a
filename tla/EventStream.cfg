SPECIFICATION FairSpec
CONSTANTS
  Builds = {"b1", "b2"}
  Info <- MCInfo
  NoCleanupJob = FALSE
  SupportedBranches = {"main"}
  Observed <- MCObserved
  Lower <- MCLower
  Pages = {"builds", "build"}
  ListPages = {"builds"}
  Filters <- MCFilters
  MaxChanges = 3
  MaxConnects = 2
CHECK_DEADLOCK FALSE
INVARIANTS StreamTypeOK CaughtUpShowsTable
PROPERTIES CatchesUp SourceClosed
