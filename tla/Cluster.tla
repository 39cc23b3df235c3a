------------------------------ MODULE Cluster -------------------------------
(***************************************************************************)
(* The namespace the controller works on: Kubernetes as the calls of       *)
(* src/runboat/k8s.py and the files of src/runboat/kubefiles use it, the   *)
(* postgres databases the jobs create and drop, and the GitHub commit      *)
(* statuses.  Everything here survives a crash of the controller, except   *)
(* the two watches: a watch that is up queues an event for each change of  *)
(* what it watches, in order; what happens while it is down is not queued. *)
(*                                                                         *)
(* A deployment event carries the deployment; only its Row matters to the  *)
(* controller, and a change that does not show in the Row is not queued    *)
(* (BuildsDb!Put would ignore it).  The creation of a job, its becoming    *)
(* active and, for an initialization, its drop of an earlier database are  *)
(* one step, and so are the last command of a job and its status.          *)
(***************************************************************************)
EXTENDS BuildsDb

CONSTANTS MaxLag,      \* bound: undelivered events of a watch that accepts more
          MaxTime,     \* bound: when the clock stops ticking by itself
          SameSecond,  \* whether two builds may be created in the same second
          DisableCommitStatuses  \* settings.disable_commit_statuses

ASSUME MaxLagAssumption == MaxLag \in Nat \ {0}
ASSUME MaxTimeAssumption == MaxTime \in Nat
ASSUME SameSecondAssumption == SameSecond \in BOOLEAN
ASSUME DisableCommitStatusesAssumption == DisableCommitStatuses \in BOOLEAN

VARIABLES
  deployments,  \* [Builds -> Deployments]
  jobs,         \* [Builds -> [JobKinds -> job state]]
  leftovers,    \* builds that have other labelled resources: configmap, secret, pvc
  databases,    \* builds that have a postgres database, complete or baseonly
  github,       \* the commit status of each commit, and the build that posted it
  deplWatch,    \* the watch of deployments: down, listing (db reset) or up
  jobWatch,     \* the watch of jobs: down or up
  deplEvents,   \* undelivered deployment events
  jobEvents,    \* undelivered job events
  now           \* the clock, in the seconds of creationTimestamp and last-scaled

cluster == << deployments, jobs, leftovers, databases, github >>
watches == << deplWatch, jobWatch, deplEvents, jobEvents >>
clusterVars == << deployments, jobs, leftovers, databases, github,
                  deplWatch, jobWatch, deplEvents, jobEvents, now >>

JobStates == {"none", "active", "succeeded", "failed"}
DeplEvents == [build : Builds, row : Rows]
JobEvents == [build : Builds, kind : JobKinds, state : JobStates \ {"none"}]

\* GitHub shows one status of a commit in the context runboat/build, the last
\* one posted: two builds of a commit, of a branch and of a pull request,
\* overwrite each other's.  build is the one that posted it, to which an outcome
\* links (target_url).
Shas == {Info[b].commit : b \in Builds}
NoBuild == "none"
Statuses == [state : GitHubStates \union {"none"}, build : Builds \union {NoBuild}]

ClusterTypeOK ==
  /\ deployments \in [Builds -> Deployments]
  /\ jobs \in [Builds -> [JobKinds -> JobStates]]
  /\ leftovers \subseteq Builds
  /\ databases \subseteq Builds
  /\ github \in [Shas -> Statuses]
  /\ deplWatch \in {"down", "listing", "up"}
  /\ jobWatch \in {"down", "up"}
  /\ deplEvents \in Seq(DeplEvents)
  /\ jobEvents \in Seq(JobEvents)
  /\ now \in Nat

ClusterBlank ==
  /\ deployments = [b \in Builds |-> NoDeployment("unborn")]
  /\ jobs = [b \in Builds |-> [k \in JobKinds |-> "none"]]
  /\ leftovers = {}
  /\ databases = {}
  /\ github = [sha \in Shas |-> [state |-> "none", build |-> NoBuild]]
  /\ deplEvents = << >>
  /\ jobEvents = << >>
  /\ now = 0

ClusterInit == ClusterBlank /\ deplWatch = "down" /\ jobWatch = "down"

(***************************************************************************)
(* Changes of what is watched.  MaxLag bounds the lag of a watch: a change *)
(* that must be queued waits for room.                                     *)
(***************************************************************************)
SetDeployment(b, d) ==
  /\ deployments' = [deployments EXCEPT ![b] = d]
  /\ IF deplWatch = "up" /\ RowOf(d) # RowOf(deployments[b])
     THEN /\ Len(deplEvents) < MaxLag
          /\ deplEvents' = Append(deplEvents, [build |-> b, row |-> RowOf(d)])
     ELSE UNCHANGED deplEvents

SetJob(b, kind, state) ==
  /\ jobs' = [jobs EXCEPT ![b][kind] = state]
  /\ IF jobWatch = "up" /\ state # "none"
     THEN /\ Len(jobEvents) < MaxLag
          /\ jobEvents' = Append(jobEvents, [build |-> b, kind |-> kind, state |-> state])
     ELSE UNCHANGED jobEvents

\* Deletion: the finalizer keeps the deployment until it is removed.
Deleted(d) ==
  IF ~Present(d) THEN d
  ELSE IF d.finalizer THEN [d EXCEPT !.phase = "deleting"]
  ELSE NoDeployment("gone")

(***************************************************************************)
(* kubectl apply of the kubefiles, one operator per mode.  Every mode      *)
(* generates the configmaps and the secret, initialize also the pvc.       *)
(* Applying what exists already resets the fields the file names: a        *)
(* deployment gets its init-status and its replicas back, not its          *)
(* deletion timestamp; a job that exists, finished or not, is unchanged.   *)
(***************************************************************************)
ApplyDeployment(c) ==
  LET d == deployments[c.build] IN
  /\ c.op = "apply" /\ c.mode = "deployment"
  /\ SetDeployment(c.build,
       IF Present(d)
       THEN [d EXCEPT !.init = "todo", !.replicas = 0, !.finalizer = TRUE]
       ELSE [phase |-> "live", init |-> "todo", replicas |-> 0, running |-> FALSE,
             finalizer |-> TRUE, created |-> now, scaled |-> now])
  /\ leftovers' = leftovers \union {c.build}
  /\ now' = IF Present(d) \/ SameSecond THEN now ELSE now + 1
  /\ UNCHANGED << jobs, databases, github, jobEvents >>

ApplyJob(c) ==
  /\ c.op = "apply" /\ c.mode \in JobKinds
  /\ IF jobs[c.build][c.mode] = "none"
     THEN SetJob(c.build, c.mode, "active")
     ELSE UNCHANGED << jobs, jobEvents >>
  /\ leftovers' = leftovers \union {c.build}
  /\ databases' = IF c.mode = "initialize" /\ jobs[c.build][c.mode] = "none"
                  THEN databases \ {c.build} ELSE databases
  /\ UNCHANGED << deployments, github, deplEvents, now >>

ApplyOthers(c) ==
  /\ c.op = "apply" /\ c.mode \in {"start", "stop"}
  /\ leftovers' = leftovers \union {c.build}
  /\ UNCHANGED << deployments, jobs, databases, github, deplEvents, jobEvents, now >>

(***************************************************************************)
(* The other calls.                                                        *)
(***************************************************************************)
PatchDeployment(c) ==
  LET d == deployments[c.build] IN
  /\ c.op = "patch"
  /\ IF Present(d)
     THEN SetDeployment(c.build,
            [d EXCEPT !.init = IF c.init = "keep" THEN @ ELSE c.init,
                      !.replicas = IF c.replicas = Keep THEN @ ELSE c.replicas,
                      !.scaled = IF c.replicas = Keep THEN @ ELSE now])
     ELSE UNCHANGED << deployments, deplEvents >>
  /\ UNCHANGED << jobs, leftovers, databases, github, jobEvents, now >>

\* The patch that removes /metadata/finalizers.
RemoveFinalizers(c) ==
  LET d == deployments[c.build] IN
  /\ c.op = "unfinalize"
  /\ IF Present(d)
     THEN SetDeployment(c.build, Deleted([d EXCEPT !.finalizer = FALSE]))
     ELSE UNCHANGED << deployments, deplEvents >>
  /\ UNCHANGED << jobs, leftovers, databases, github, jobEvents, now >>

DeleteDeployment(c) ==
  /\ c.op = "delete"
  /\ SetDeployment(c.build, Deleted(deployments[c.build]))
  /\ UNCHANGED << jobs, leftovers, databases, github, jobEvents, now >>

\* kubectl delete of every resource with the label of the build.
DeleteResources(c) ==
  /\ c.op = "purge"
  /\ SetDeployment(c.build, Deleted(deployments[c.build]))
  /\ jobs' = [jobs EXCEPT ![c.build] = [k \in JobKinds |-> "none"]]
  /\ leftovers' = leftovers \ {c.build}
  /\ UNCHANGED << databases, github, jobEvents, now >>

KillJob(c) ==
  /\ c.op = "kill"
  /\ SetJob(c.build, c.kind, "none")
  /\ UNCHANGED << deployments, leftovers, databases, github, deplEvents, now >>

\* A post that GitHub refuses is only logged.
NotifyStatus(c) ==
  /\ c.op = "notify"
  /\ \/ /\ ~DisableCommitStatuses
        /\ github' = [github EXCEPT ![Info[c.build].commit] =
             [state |-> c.state, build |-> c.build]]
     \/ UNCHANGED github
  /\ UNCHANGED << deployments, jobs, leftovers, databases, deplEvents, jobEvents, now >>

(***************************************************************************)
(* A call that raises changes nothing: a delete or a patch answers 404     *)
(* when the deployment is absent (a patch may tolerate that), removing     *)
(* finalizers that are not there is refused, and Build._deploy needs build *)
(* settings, which a branch that is no longer supported does not have.     *)
(***************************************************************************)
Raises(c) ==
  LET d == deployments[c.build] IN
  \/ c.op = "apply" /\ Info[c.build].branch \notin SupportedBranches
  \/ c.op = "delete" /\ ~Present(d)
  \/ c.op = "patch" /\ ~Present(d) /\ ~c.notFoundOk
  \/ c.op = "unfinalize" /\ Present(d) /\ ~d.finalizer

Perform(c) ==
  /\ \/ ApplyDeployment(c) \/ ApplyJob(c) \/ ApplyOthers(c)
     \/ PatchDeployment(c) \/ RemoveFinalizers(c)
     \/ DeleteDeployment(c) \/ DeleteResources(c)
     \/ KillJob(c) \/ NotifyStatus(c)
  /\ UNCHANGED << deplWatch, jobWatch >>

(***************************************************************************)
(* What happens in the cluster by itself.                                  *)
(***************************************************************************)
\* runboat-initialize.sh creates the databases it installs in, one of which
\* is left when it succeeds.
InitializeCreatesDatabase(b) ==
  /\ jobs[b]["initialize"] = "active"
  /\ b \notin databases
  /\ databases' = databases \union {b}
  /\ UNCHANGED << deployments, jobs, leftovers, github, watches, now >>

InitializeSucceeds(b) ==
  /\ jobs[b]["initialize"] = "active"
  /\ b \in databases
  /\ SetJob(b, "initialize", "succeeded")
  /\ UNCHANGED << deployments, leftovers, databases, github, deplWatch, jobWatch, deplEvents, now >>

\* runboat-cleanup.sh drops the database, which need not exist.
CleanupSucceeds(b) ==
  /\ jobs[b]["cleanup"] = "active"
  /\ SetJob(b, "cleanup", "succeeded")
  /\ databases' = databases \ {b}
  /\ UNCHANGED << deployments, leftovers, github, deplWatch, jobWatch, deplEvents, now >>

\* An error of the script, with its retries used up (cleanup), or the deadline
\* (initialize): a cleanup job whose pod hangs or stays pending does not end.
JobFails(b, kind) ==
  /\ jobs[b][kind] = "active"
  /\ SetJob(b, kind, "failed")
  /\ UNCHANGED << deployments, leftovers, databases, github, deplWatch, jobWatch, deplEvents, now >>

\* Kubernetes starts and stops the pod; it does not scale a deployment that
\* is being deleted.
Unscaled(b) ==
  /\ deployments[b].phase = "live"
  /\ deployments[b].running # (deployments[b].replicas = 1)

Scale(b) ==
  /\ Unscaled(b)
  /\ SetDeployment(b, [deployments[b] EXCEPT !.running = ~@])
  /\ UNCHANGED << jobs, leftovers, databases, github, deplWatch, jobWatch, jobEvents, now >>

Tick ==
  /\ now < MaxTime
  /\ now' = now + 1
  /\ UNCHANGED << cluster, watches >>

Environment ==
  \/ \E b \in Builds :
       \/ InitializeCreatesDatabase(b)
       \/ InitializeSucceeds(b)
       \/ CleanupSucceeds(b)
       \/ \E kind \in JobKinds : JobFails(b, kind)
       \/ Scale(b)
  \/ Tick
=============================================================================
