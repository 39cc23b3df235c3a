--------------------------- MODULE MCEventStream ----------------------------
(***************************************************************************)
(* A small instance of EventStream.tla for TLC.                            *)
(***************************************************************************)
EXTENDS EventStream

MCInfo ==
  [b \in Builds |-> [repo |-> "oca/repo", branch |-> "main",
                     pr |-> IF b = "b1" THEN NoPr ELSE 1, commit |-> b]]

MCLower == ("OCA/repo" :> "oca/repo") @@ ("oca/repo" :> "oca/repo")

\* A build while it is initialized and afterwards.
MCObserved ==
  {[status |-> "initializing", init |-> "started", replicas |-> 0, scaled |-> 0, created |-> 0],
   [status |-> "stopped", init |-> "succeeded", replicas |-> 0, scaled |-> 0, created |-> 0]}

Everything ==
  [repo |-> NoFilter, target_branch |-> NoFilter, branch |-> NoFilter, pr |-> NoPrFilter,
   build_name |-> NoFilter]

\* builds.html of a branch, and build.html of a build of a pull request.
MCFilters ==
  ("builds" :> [Everything EXCEPT !.repo = "oca/repo", !.branch = "main"])
    @@ ("build" :> [Everything EXCEPT !.build_name = "b2"])
=============================================================================
