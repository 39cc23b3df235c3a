--------------------------- MODULE BuildLifecycle ---------------------------
(***************************************************************************)
(* What runboat promises of builds that nobody resets, after the first     *)
(* section of the repository's README: a build is deployed once,           *)
(* initialized at most once, started and stopped as often as one likes if  *)
(* that succeeded, flagged as failed if not, and undeployed once, for      *)
(* ever.  The docstring of Build.start says otherwise, that a failed build *)
(* is initialized again; its code ignores the start (README, section 4).   *)
(* ControllerProperties has the refinement mapping, Stage.                 *)
(***************************************************************************)
CONSTANT Builds
VARIABLE stage  \* [Builds -> stages]

Initialized == {"stopped", "started"}
Deployed == {"waiting", "initializing", "failed"} \union Initialized

Init == stage = [b \in Builds |-> "absent"]

Passes(b, from, to) == stage[b] \in from /\ \E s \in to : stage' = [stage EXCEPT ![b] = s]

Deploy(b) == Passes(b, {"absent"}, {"waiting"})

InitializationStarts(b) == Passes(b, {"waiting"}, {"initializing"})

\* A controller that was down learns the outcome without the beginning.
InitializationEnds(b) == Passes(b, {"waiting", "initializing"}, {"stopped", "failed"})

StartOrStop(b) == Passes(b, Initialized, Initialized)

Undeploy(b) == Passes(b, Deployed, {"undeploying"})

Remove(b) == Passes(b, {"undeploying"}, {"gone"})

Next ==
  \E b \in Builds :
    \/ Deploy(b) \/ InitializationStarts(b) \/ InitializationEnds(b)
    \/ StartOrStop(b) \/ Undeploy(b) \/ Remove(b)

Spec == Init /\ [][Next]_stage
=============================================================================
