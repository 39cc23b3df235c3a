------------------------ MODULE ControllerProperties ------------------------
(***************************************************************************)
(* What the controller promises, over the state of Controller.tla.  The    *)
(* names that begin with Settled speak of the states in which nobody has   *)
(* anything left to do: what is wrong there stays wrong until an operator  *)
(* or an unrelated event intervenes.                                       *)
(***************************************************************************)
EXTENDS Controller

Live(b) == deployments[b].phase = "live"
Deleting(b) == deployments[b].phase = "deleting"
Gone(b) == deployments[b].phase = "gone"

(***************************************************************************)
(* Safety of the lifecycle of a build.                                     *)
(***************************************************************************)

\* No cleanup job exists for a build that nobody asked to undeploy: the
\* database of a live build is never dropped under it (cleaner, to_cleanup).
NoLiveCleanup ==
  \A b \in Builds : jobs[b]["cleanup"] # "none" => ~Live(b)

\* A build that is scaled up has been initialized, whatever the order of the
\* job events, the start requests and the patches (Build.start and the
\* on_initialize callbacks, which patch what their snapshot says).
RunningIsInitialized ==
  \A b \in Builds : Live(b) /\ deployments[b].replicas = 1 => deployments[b].init = "succeeded"

\* A build that is marked as initialized has its database: the mark is only
\* set by a job that created one, and nothing drops it before an undeploy.
InitializedHasDatabase ==
  \A b \in Builds : Live(b) /\ deployments[b].init = "succeeded" => b \in databases

\* The resources of a build, its finalizer included, are only deleted once
\* its cleanup job has succeeded (on_cleanup_succeeded), or when its
\* deployment is no longer there (job_watcher on a build that is gone).
PurgeAfterCleanup ==
  \A a \in Actors : \A i \in 1 .. Len(calls[a]) :
    LET c == calls[a][i] IN
    c.op = "purge" /\ Present(deployments[c.build]) => jobs[c.build]["cleanup"] = "succeeded"

\* The outcome that GitHub shows of a commit is the one of the build that
\* posted it, to which it links: it is only posted once the deployment carries
\* it, although the controller may stop between the two, see old job events
\* again, post the pending of the deployment late, and report another build of
\* the commit meanwhile (on_initialize_succeeded, _failed).  The outcome of
\* that other build is not shown any more.
StatusTruthful ==
  \A b \in Builds : LET status == github[Info[b].commit] IN
    Live(b) /\ status.build = b =>
      /\ status.state = "success" => deployments[b].init = "succeeded"
      /\ status.state = "failure" => deployments[b].init = "failed"

(***************************************************************************)
(* The builds implement BuildLifecycle.tla.                                *)
(***************************************************************************)
Stage(b) ==
  LET d == deployments[b] IN
  CASE d.phase = "unborn" -> "absent"
    [] d.phase = "gone" -> "gone"
    [] d.phase = "deleting" -> "undeploying"
    [] d.phase = "live" /\ d.init = "todo" -> "waiting"
    [] d.phase = "live" /\ d.init = "started" -> "initializing"
    [] d.phase = "live" /\ d.init = "failed" -> "failed"
    [] d.phase = "live" /\ d.init = "succeeded" ->
         IF d.replicas = 1 THEN "started" ELSE "stopped"

Lifecycle == INSTANCE BuildLifecycle WITH stage <- [b \in Builds |-> Stage(b)]

\* Each build goes through the stages of BuildLifecycle and no others,
\* although every patch is decided from a snapshot: an old job event never
\* takes a build back, a failed build stays flagged as failed, an undeploying
\* or removed one never comes back.  That includes the starts of failed builds,
\* which the docstring of Build.start wants to "reinitialize if failed" (README,
\* section 4): the property is what the code does.
LifecycleRespected == Lifecycle!Spec

(***************************************************************************)
(* What holds when the system has settled.                                 *)
(***************************************************************************)

\* BuildsDb "is maintained up-to-date by the controller that receives events
\* from the cluster": the table is the image of the deployments.
SettledMirrorsCluster ==
  Settled => \A b \in Builds : db[b] = RowOf(deployments[b])

\* Every live build has been initialized or flagged as failed: no
\* initialization is forgotten by the initializer or lost by job_watcher.
SettledInitialization ==
  Settled => \A b \in Builds : Live(b) => deployments[b].init \in {"succeeded", "failed"}

\* An undeploy is complete, unless the cleanup job failed, which requires
\* manual intervention (on_cleanup_failed).
SettledUndeploy ==
  Settled => \A b \in Builds : Deleting(b) => jobs[b]["cleanup"] = "failed"

\* An undeploy that the table knows of is complete in the same sense, also if
\* the controller stopped between the deletion of the resources, which takes
\* the cleanup job along, and the removal of the finalizer.
SettledKnownUndeploy ==
  Settled => \A b \in Builds :
    Deleting(b) /\ db[b].status = "undeploying" => jobs[b]["cleanup"] = "failed"

\* The cleanup job is run for every deployment that is deleted, also behind
\* an older one whose own cleanup raises each time the cleaner tries it.
SettledSupportedUndeploy ==
  Settled => \A b \in Builds :
    Deleting(b) /\ Info[b].branch \in SupportedBranches => jobs[b]["cleanup"] = "failed"

\* When a deployment is deleted, all the resources of the build are.
SettledNoLeftovers ==
  Settled => \A b \in Builds : Gone(b) =>
    b \notin leftovers /\ \A kind \in JobKinds : jobs[b][kind] = "none"

\* The stopper keeps the builds that are started within the limit.
SettledStarted ==
  Settled => Cardinality({b \in Builds : Live(b) /\ deployments[b].replicas = 1}) <= MaxStarted

\* When more builds are deployed than the limit, the undeployer has evicted
\* all it may: what is left and not running is the most recent build of its
\* branch.
SettledDeployed ==
  Settled /\ Cardinality({b \in Builds : Live(b)}) > MaxDeployed =>
    \A b \in Builds : Live(b) /\ deployments[b].replicas = 0 =>
      /\ Info[b].pr = NoPr
      /\ \A c \in Builds : Live(c) /\ Info[c].branch = Info[b].branch /\ Info[c].pr = NoPr
           => deployments[c].created <= deployments[b].created

(***************************************************************************)
(* Limits and steps.                                                       *)
(***************************************************************************)

\* The initializer makes sure that the number of deployments initializing
\* concurrently does not exceed the limit.  It counts the builds marked as
\* started, and a build whose job is launched is marked later: the limit
\* rests on the oldest build being picked again meanwhile, and so on builds
\* not being created in the same second.
InitializationLimit ==
  Cardinality({b \in Builds : jobs[b]["initialize"] = "active"}) <= MaxInitializing

\* The eviction never takes the only build of a branch: when the deployment
\* of a branch is deleted, a more recent one of that branch is live
\* (oldest_stopped, on a snapshot that may be stale when it is used).
NewestOfBranchKept ==
  [][\A b \in Builds :
       Live(b) /\ ~Live(b)' /\ Info[b].pr = NoPr =>
         \E c \in Builds \ {b} :
           /\ Live(c)
           /\ Info[c].branch = Info[b].branch /\ Info[c].pr = NoPr
           /\ deployments[c].created > deployments[b].created]_vars

(***************************************************************************)
(* Liveness, under the fairness of FairSpec.                               *)
(***************************************************************************)

\* A build that is deployed is eventually initialized or flagged as failed,
\* unless it is undeployed.
InitializationConcludes ==
  \A b \in Builds : Live(b) ~> (~Live(b) \/ deployments[b].init \in {"succeeded", "failed"})

\* An undeploy that is requested eventually removes the deployment, unless
\* its cleanup job fails or never ends.
UndeployConcludes ==
  \A b \in Builds :
    Deleting(b) ~>
      \/ Gone(b)
      \/ jobs[b]["cleanup"] = "failed"
      \/ [](jobs[b]["cleanup"] = "active")
=============================================================================
