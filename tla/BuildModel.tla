----------------------------- MODULE BuildModel -----------------------------
(***************************************************************************)
(* The Build model of src/runboat/models.py.                               *)
(*                                                                         *)
(* A Build is an immutable snapshot of a Kubernetes deployment: the fields *)
(* that change are the Row below, the fields that never change (name,      *)
(* commit_info) are carried by the build's identity.  A method of Build    *)
(* decides everything from that snapshot and then awaits a few calls to    *)
(* Kubernetes and GitHub.  Each method is therefore an operator that       *)
(* returns the sequence of calls it will make: the snapshot is read once,  *)
(* and the calls are executed one at a time, later, by Controller.tla.     *)
(***************************************************************************)
EXTENDS Integers, Sequences

CONSTANTS
  NoCleanupJob,      \* settings.no_cleanup_job
  SupportedBranches  \* the target branches that an entry of settings.repos matches

ASSUME NoCleanupJobAssumption == NoCleanupJob \in BOOLEAN

(***************************************************************************)
(* Statuses.                                                               *)
(***************************************************************************)
BuildStatus ==
  {"stopped", "stopping", "initializing", "starting", "started", "failed", "undeploying"}

BuildInitStatus == {"todo", "started", "succeeded", "failed"}

(***************************************************************************)
(* A deployment as Kubernetes stores it.  "unborn" is a build name that    *)
(* was never used, "gone" one whose deployment was removed.  running is    *)
(* both status.replicas and status.available_replicas: a pod that exists   *)
(* is available.                                                           *)
(***************************************************************************)
Phases == {"unborn", "live", "deleting", "gone"}

Deployments ==
  [phase : Phases, init : BuildInitStatus, replicas : {0, 1}, running : BOOLEAN,
   finalizer : BOOLEAN, created : Nat, scaled : Nat]

Present(d) == d.phase \in {"live", "deleting"}

NoDeployment(phase) ==
  [phase |-> phase, init |-> "todo", replicas |-> 0, running |-> FALSE,
   finalizer |-> FALSE, created |-> 0, scaled |-> 0]

(***************************************************************************)
(* The snapshot of a deployment in a Build.  AbsentRow stands for None: no *)
(* deployment, or no row in the database.                                  *)
(***************************************************************************)
Rows ==
  [status : BuildStatus \union {"absent"}, init : BuildInitStatus,
   replicas : {0, 1}, scaled : Nat, created : Nat]

AbsentRow ==
  [status |-> "absent", init |-> "todo", replicas |-> 0, scaled |-> 0, created |-> 0]

StatusFromDeployment(d) ==
  CASE d.phase = "deleting" -> "undeploying"
    [] d.phase = "live" /\ d.init \in {"todo", "started"} -> "initializing"
    [] d.phase = "live" /\ d.init = "failed" -> "failed"
    [] d.phase = "live" /\ d.init = "succeeded" /\ d.replicas = 0 ->
         IF d.running THEN "stopping" ELSE "stopped"
    [] d.phase = "live" /\ d.init = "succeeded" /\ d.replicas = 1 ->
         IF d.running THEN "started" ELSE "starting"

RowOf(d) ==
  IF Present(d)
  THEN [status |-> StatusFromDeployment(d), init |-> d.init,
        replicas |-> d.replicas, scaled |-> d.scaled, created |-> d.created]
  ELSE AbsentRow

\* Mutant: the comparison forgets init_status.
SameBuildButInit(r, s) ==
  r.status = s.status /\ r.replicas = s.replicas /\ r.scaled = s.scaled

\* Build.__eq__: the fields immutable by design are not compared.
SameBuild(r, s) ==
  /\ r.status = s.status
  /\ r.init = s.init
  /\ r.replicas = s.replicas
  /\ r.scaled = s.scaled

(***************************************************************************)
(* The calls a method makes, in the vocabulary of k8s.py and github.py.    *)
(***************************************************************************)
Modes == {"deployment", "initialize", "cleanup", "start", "stop"}
JobKinds == {"initialize", "cleanup"}
GitHubStates == {"pending", "success", "failure"}
Keep == -1  \* a patch that leaves spec.replicas alone

Apply(b, mode) == [op |-> "apply", build |-> b, mode |-> mode]
Delete(b) == [op |-> "delete", build |-> b]
Purge(b) == [op |-> "purge", build |-> b]
Kill(b, kind) == [op |-> "kill", build |-> b, kind |-> kind]
Notify(b, state) == [op |-> "notify", build |-> b, state |-> state]
Unfinalize(b) == [op |-> "unfinalize", build |-> b]

\* Build._patch: an operation for each field that differs from the snapshot,
\* and no call at all when there is none.
Patch(b, row, init, replicas, notFoundOk) ==
  LET newInit == IF init = row.init THEN "keep" ELSE init
      newReplicas == IF replicas = row.replicas THEN Keep ELSE replicas
  IN  IF newInit = "keep" /\ newReplicas = Keep
      THEN << >>
      ELSE << [op |-> "patch", build |-> b, init |-> newInit,
               replicas |-> newReplicas, notFoundOk |-> notFoundOk] >>

\* Mutant: the finalizer is left in place.
DeleteButFinalizer(b) == << Purge(b) >>

DeleteDeploymentResources(b) == << Purge(b), Unfinalize(b) >>

(***************************************************************************)
(* The methods, in the order of the class.                                 *)
(***************************************************************************)
DeployBuild(b) == << Apply(b, "deployment"), Notify(b, "pending") >>

\* Mutant: any build is started.
StartAny(b, row) == << Apply(b, "start") >> \o Patch(b, row, "keep", 1, FALSE)

Start(b, row) ==
  IF row.status \in {"stopped", "stopping"}
  THEN << Apply(b, "start") >> \o Patch(b, row, "keep", 1, FALSE)
  ELSE << >>

Stop(b, row) ==
  IF row.status = "started"
  THEN Patch(b, row, "keep", 0, FALSE) \o << Apply(b, "stop") >>
  ELSE << >>

Undeploy(b) == << Delete(b) >>

Redeploy(b) ==
  << Kill(b, "cleanup"), Kill(b, "initialize"),
     Apply(b, "deployment"), Notify(b, "pending") >>

Initialize(b) == << Apply(b, "initialize") >>

Cleanup(b, row) ==
  IF NoCleanupJob
  THEN DeleteDeploymentResources(b)
  ELSE << Kill(b, "initialize") >> \o Patch(b, row, "keep", 0, TRUE)
         \o << Apply(b, "cleanup") >>

\* Mutant: the state of the job is written as an init status.
OnInitializeActive(b, row) == Patch(b, row, "active", 0, FALSE)

OnInitializeStarted(b, row) ==
  IF row.init = "started"
  THEN << >>
  ELSE Patch(b, row, "started", 0, FALSE) \o << Notify(b, "pending") >>

\* Mutant: the success is reported first.
OnInitializeSucceededEarly(b, row) ==
  IF row.init = "succeeded"
  THEN << >>
  ELSE << Notify(b, "success"), Apply(b, "stop") >> \o Patch(b, row, "succeeded", Keep, FALSE)

OnInitializeSucceeded(b, row) ==
  IF row.init = "succeeded"
  THEN << >>
  ELSE << Apply(b, "stop") >> \o Patch(b, row, "succeeded", Keep, FALSE)
         \o << Notify(b, "success") >>

\* Mutant: an initialization that failed is queued again.
OnInitializeFailedRequeued(b, row) ==
  << Apply(b, "stop") >> \o Patch(b, row, "todo", 0, FALSE) \o << Notify(b, "failure") >>

OnInitializeFailed(b, row) ==
  IF row.init = "failed"
  THEN << >>
  ELSE << Apply(b, "stop") >> \o Patch(b, row, "failed", 0, FALSE)
         \o << Notify(b, "failure") >>

OnCleanupSucceeded(b) == DeleteDeploymentResources(b)

\* Mutant: a job that failed is taken for one that succeeded.
OnJobEnded(b, row, kind, state) ==
  CASE kind = "initialize" /\ state = "active" -> OnInitializeStarted(b, row)
    [] kind = "initialize" /\ state # "active" -> OnInitializeSucceeded(b, row)
    [] kind = "cleanup" /\ state # "active" -> OnCleanupSucceeded(b)
    [] OTHER -> << >>

\* The dispatch of job_watcher on the kind and the state of a job.
\* on_cleanup_started and on_cleanup_failed only log.
OnJobEvent(b, row, kind, state) ==
  CASE kind = "initialize" /\ state = "active" -> OnInitializeStarted(b, row)
    [] kind = "initialize" /\ state = "succeeded" -> OnInitializeSucceeded(b, row)
    [] kind = "initialize" /\ state = "failed" -> OnInitializeFailed(b, row)
    [] kind = "cleanup" /\ state = "succeeded" -> OnCleanupSucceeded(b)
    [] OTHER -> << >>
=============================================================================
