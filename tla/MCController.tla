---------------------------- MODULE MCController ----------------------------
(***************************************************************************)
(* Small instances of Controller.tla for TLC: the commits of the builds,   *)
(* the symmetries, and the initial states a run may start from.            *)
(***************************************************************************)
EXTENDS ControllerProperties

\* Every build is of one pull request and of one commit.
OneCommit == [b \in Builds |-> [branch |-> "main", pr |-> 1, commit |-> "sha"]]

\* Builds of one commit: b1 of a pull request, the others of a branch.
SharedCommitBuilds ==
  [b \in Builds |-> [branch |-> "main", pr |-> IF b = "b1" THEN 1 ELSE NoPr, commit |-> "sha"]]

\* Two builds of a branch and one of a pull request.
MixedBuilds ==
  [b \in Builds |-> [branch |-> "main", pr |-> IF b = "b1" THEN 1 ELSE NoPr, commit |-> b]]

\* A build of a branch that settings.repos listed once, and one that it lists.
OldBranchBuilds ==
  [b \in Builds |-> [branch |-> IF b = "b1" THEN "old" ELSE "main", pr |-> NoPr, commit |-> b]]

ClientSymmetry == Permutations(Clients)

\* All the builds are deployed and initialized, created one after the other,
\* and the controller has just loaded them: its tasks are awake.
DeployedInit ==
  /\ \E times \in SetToSeqs(Builds) :
       deployments = [b \in Builds |->
         LET t == CHOOSE i \in DOMAIN times : times[i] = b IN
         [phase |-> "live", init |-> "succeeded", replicas |-> 0, running |-> FALSE,
          finalizer |-> TRUE, created |-> t, scaled |-> t]]
  /\ jobs = [b \in Builds |-> [initialize |-> "succeeded", cleanup |-> "none"]]
  /\ leftovers = Builds
  /\ databases = Builds
  /\ github = [sha \in Shas |->
       [state |-> "success", build |-> CHOOSE b \in Builds : Info[b].commit = sha]]
  /\ deplWatch = "up" /\ deplEvents = << >>
  /\ jobWatch = "up" /\ jobEvents = << >>
  /\ now = Cardinality(Builds)
  /\ db = [b \in Builds |-> RowOf(deployments[b])]
  /\ wake = Tasks
  /\ todo = [t \in Tasks |-> << >>]
  /\ calls = [a \in Actors |-> << >>]
  /\ lookup = NoLookup
  /\ requests = 0
  /\ faults = 0

DeployedSpec == DeployedInit /\ [][Next]_vars
=============================================================================
