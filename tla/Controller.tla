----------------------------- MODULE Controller -----------------------------
(***************************************************************************)
(* The controller of src/runboat/controller.py, the API operations of      *)
(* src/runboat/api.py that reach it, and the cluster they act on.          *)
(*                                                                         *)
(* asyncio runs one coroutine at a time, so what a coroutine does between  *)
(* two awaits is one step.  What it awaits is a call: calls[a] is the      *)
(* list of calls actor a still has to make for the method it is in, all    *)
(* decided from the snapshot it took at the start, and todo[t] the rest of *)
(* the list of builds, with their snapshots, that a task got from its      *)
(* query.  Calls of different actors interleave freely.                    *)
(***************************************************************************)
EXTENDS Cluster

CONSTANTS
  Tasks,            \* the background tasks that on_build_event wakes up
  Clients,          \* concurrent API requests
  ClientOps,        \* what they ask for
  MaxInitializing, MaxStarted, MaxDeployed,  \* settings
  MaxRequests,      \* bound: API requests
  FaultKinds,       \* what may go wrong besides a call that raises
  MaxFaults         \* bound: how often

JobWatcher == "job_watcher"
Actors == Tasks \union {JobWatcher} \union Clients

ASSUME TasksAssumption == Tasks \subseteq {"cleaner", "initializer", "stopper", "undeployer"}
ASSUME ClientsAssumption ==
  Clients \intersect {"cleaner", "initializer", "stopper", "undeployer", "job_watcher"} = {}
ASSUME ClientOpsAssumption ==
  ClientOps \subseteq {"deploy", "start", "stop", "reset", "undeploy", "close"}
ASSUME LimitsAssumption ==
  MaxInitializing \in Nat /\ MaxStarted \in Nat /\ MaxDeployed \in Nat
ASSUME BoundsAssumption ==
  MaxRequests \in Nat /\ MaxFaults \in Nat
  /\ FaultKinds \subseteq {"call", "watch", "crash"}

VARIABLES
  db,        \* the table of BuildsDb
  wake,      \* the tasks whose wakeup event is set
  todo,      \* [Tasks -> Seq([build, row])]
  calls,     \* [Actors -> Seq(call)]
  lookup,    \* the deployment job_watcher reads because the db has no row
  requests,  \* API requests made
  faults     \* faults met

controller == << db, wake, todo, calls, lookup >>
vars == << clusterVars, db, wake, todo, calls, lookup, requests, faults >>

Calls ==
  [op : {"apply"}, build : Builds, mode : Modes]
    \union [op : {"delete", "purge", "unfinalize"}, build : Builds]
    \union [op : {"kill"}, build : Builds, kind : JobKinds]
    \union [op : {"notify"}, build : Builds, state : GitHubStates]
    \union [op : {"patch"}, build : Builds, init : BuildInitStatus \union {"keep"},
            replicas : {Keep, 0, 1}, notFoundOk : BOOLEAN]

Snapshots == [build : Builds, row : Rows]
Lookups == [busy : BOOLEAN, row : Rows]
NoLookup == [busy |-> FALSE, row |-> AbsentRow]

\* Every variable has the type the code gives it.
TypeOK ==
  /\ ClusterTypeOK
  /\ db \in Tables
  /\ wake \subseteq Tasks
  /\ todo \in [Tasks -> Seq(Snapshots)]
  /\ calls \in [Actors -> Seq(Calls)]
  /\ lookup \in Lookups
  /\ requests \in 0 .. MaxRequests
  /\ faults \in 0 .. MaxFaults

ControllerBlank ==
  /\ db = EmptyTable
  /\ wake = {}
  /\ todo = [t \in Tasks |-> << >>]
  /\ calls = [a \in Actors |-> << >>]
  /\ lookup = NoLookup
  /\ requests = 0
  /\ faults = 0

\* The process starts; both watches are still to be opened.
Init == ClusterInit /\ ControllerBlank

(***************************************************************************)
(* The database and its listener.                                          *)
(***************************************************************************)
\* Mutant: the initializer is not woken up.
OnBuildEventButInitializer == wake' = Tasks \ {"initializer"}

OnBuildEvent == wake' = Tasks

DbAdd(b, row) ==
  /\ db' = Put(db, b, row)
  /\ IF SameBuild(db[b], row) THEN UNCHANGED wake ELSE OnBuildEvent

DbRemove(b) ==
  /\ db' = Drop(db, b)
  /\ IF db[b] = AbsentRow THEN UNCHANGED wake ELSE OnBuildEvent

(***************************************************************************)
(* deployment_watcher: it empties the db, lists the deployments in some    *)
(* order, and then handles one item or event at a time.  A task of the     *)
(* controller that dies is restarted by walking_dead.                      *)
(***************************************************************************)
StartDeploymentWatch ==
  /\ deplWatch = "down"
  /\ deplWatch' = "listing"
  /\ db' = EmptyTable
  /\ UNCHANGED << cluster, jobWatch, deplEvents, jobEvents, now, wake, todo, calls, lookup,
                  requests, faults >>

ListDeployments ==
  /\ deplWatch = "listing"
  /\ deplWatch' = "up"
  /\ \E q \in SetToSeqs({b \in Builds : Present(deployments[b])}) :
       deplEvents' = [i \in 1 .. Len(q) |-> [build |-> q[i], row |-> RowOf(deployments[q[i]])]]
  /\ UNCHANGED << cluster, jobWatch, jobEvents, now, controller, requests, faults >>

HandleDeployment ==
  /\ deplEvents # << >>
  /\ deplEvents' = Tail(deplEvents)
  /\ LET e == Head(deplEvents) IN
       IF e.row.status = "absent" THEN DbRemove(e.build) ELSE DbAdd(e.build, e.row)
  /\ UNCHANGED << cluster, deplWatch, jobWatch, jobEvents, now, todo, calls, lookup,
                  requests, faults >>

DeploymentWatcher == StartDeploymentWatch \/ ListDeployments \/ HandleDeployment

(***************************************************************************)
(* job_watcher: it lists the jobs, then handles one event at a time, with  *)
(* get_build: the row of the db, or else the deployment, which is read in  *)
(* one step and added to the db in another.                                *)
(***************************************************************************)
JobWatcherIdle == calls[JobWatcher] = << >> /\ ~lookup.busy

\* Mutant: jobs that ended while the watch was down are not looked at.
StartJobWatchOnActive ==
  /\ jobWatch = "down"
  /\ jobWatch' = "up"
  /\ \E q \in SetToSeqs({b \in Builds : jobs[b]["initialize"] = "active"}) :
       jobEvents' = [i \in 1 .. Len(q) |->
         [build |-> q[i], kind |-> "initialize", state |-> "active"]]
  /\ UNCHANGED << cluster, deplWatch, deplEvents, now, controller, requests, faults >>

StartJobWatch ==
  /\ jobWatch = "down"
  /\ jobWatch' = "up"
  /\ \E q \in SetToSeqs({j \in Builds \X JobKinds : jobs[j[1]][j[2]] # "none"}) :
       jobEvents' = [i \in 1 .. Len(q) |->
         [build |-> q[i][1], kind |-> q[i][2], state |-> jobs[q[i][1]][q[i][2]]]]
  /\ UNCHANGED << cluster, deplWatch, deplEvents, now, controller, requests, faults >>

HandleJob ==
  /\ JobWatcherIdle
  /\ jobEvents # << >>
  /\ LET e == Head(jobEvents) IN
       IF db[e.build].status # "absent"
       THEN /\ calls' = [calls EXCEPT ![JobWatcher] =
                           OnJobEvent(e.build, db[e.build], e.kind, e.state)]
            /\ jobEvents' = Tail(jobEvents)
            /\ UNCHANGED lookup
       ELSE /\ lookup' = [busy |-> TRUE, row |-> RowOf(deployments[e.build])]
            /\ UNCHANGED << calls, jobEvents >>
  /\ UNCHANGED << cluster, deplWatch, jobWatch, deplEvents, now, db, wake, todo,
                  requests, faults >>

HandleJobLookup ==
  /\ lookup.busy
  /\ LET e == Head(jobEvents) IN
       IF lookup.row.status = "absent"
       THEN /\ calls' = [calls EXCEPT ![JobWatcher] = << Purge(e.build) >>]
            /\ UNCHANGED << db, wake >>
       ELSE /\ calls' = [calls EXCEPT ![JobWatcher] =
                           OnJobEvent(e.build, lookup.row, e.kind, e.state)]
            /\ DbAdd(e.build, lookup.row)
  /\ lookup' = NoLookup
  /\ jobEvents' = Tail(jobEvents)
  /\ UNCHANGED << cluster, deplWatch, jobWatch, deplEvents, now, todo, requests, faults >>

JobWatch == StartJobWatch \/ HandleJob \/ HandleJobLookup

(***************************************************************************)
(* The background tasks: wait for the wakeup, clear it, query the db, and  *)
(* then call a method of each build of the list.  The sleep before the     *)
(* clear only merges wakeups, so wait, sleep, clear and query are one step.*)
(***************************************************************************)
Max0(n) == IF n > 0 THEN n ELSE 0

Selections(t) ==
  CASE t = "cleaner" -> ToCleanup(db)
    [] t = "initializer" ->
         ToInitialize(db, Max0(MaxInitializing - CountByInitStatus(db, "started")))
    [] t = "stopper" ->
         OldestStarted(db, Max0(CountByStatus(db, "started") - MaxStarted))
    [] t = "undeployer" ->
         OldestStopped(db, Max0(CountDeployed(db) - MaxDeployed))

MethodOf(t, b, row) ==
  CASE t = "cleaner" -> Cleanup(b, row)
    [] t = "initializer" -> Initialize(b)
    [] t = "stopper" -> Stop(b, row)
    [] t = "undeployer" -> Undeploy(b)

Pass(t) ==
  /\ t \in wake
  /\ todo[t] = << >>
  /\ calls[t] = << >>
  /\ wake' = wake \ {t}
  /\ \E q \in Selections(t) :
       todo' = [todo EXCEPT ![t] = [i \in 1 .. Len(q) |-> [build |-> q[i], row |-> db[q[i]]]]]
  /\ UNCHANGED << clusterVars, db, calls, lookup, requests, faults >>

NextBuild(t) ==
  /\ todo[t] # << >>
  /\ calls[t] = << >>
  /\ calls' = [calls EXCEPT ![t] = MethodOf(t, Head(todo[t]).build, Head(todo[t]).row)]
  /\ todo' = [todo EXCEPT ![t] = Tail(@)]
  /\ UNCHANGED << clusterVars, db, wake, lookup, requests, faults >>

(***************************************************************************)
(* An actor makes its next call.  A call that raises ends the method: a    *)
(* request fails, a task dies with the rest of its list and is restarted,  *)
(* waiting for its next wakeup; job_watcher loses its watch.               *)
(***************************************************************************)
Abort(a) ==
  /\ calls' = [calls EXCEPT ![a] = << >>]
  /\ todo' = IF a \in Tasks THEN [todo EXCEPT ![a] = << >>] ELSE todo
  /\ IF a = JobWatcher
     THEN jobWatch' = "down" /\ jobEvents' = << >>
     ELSE UNCHANGED << jobWatch, jobEvents >>

Call(a) ==
  /\ calls[a] # << >>
  /\ LET c == Head(calls[a]) IN
       \/ /\ ~Raises(c)
          /\ Perform(c)
          /\ calls' = [calls EXCEPT ![a] = Tail(@)]
          /\ UNCHANGED todo
       \/ /\ Raises(c)
          /\ Abort(a)
          /\ UNCHANGED << cluster, deplWatch, deplEvents, now >>
  /\ UNCHANGED << db, wake, lookup, requests, faults >>

(***************************************************************************)
(* API requests.  A request that finds nothing to do, because there is no  *)
(* row or because the method returns early, changes nothing and is left    *)
(* out.                                                                    *)
(***************************************************************************)
Request(c, op, list) ==
  /\ op \in ClientOps
  /\ calls[c] = << >>
  /\ requests < MaxRequests
  /\ requests' = requests + 1
  /\ list # << >>
  /\ calls' = [calls EXCEPT ![c] = list]
  /\ UNCHANGED << clusterVars, db, wake, todo, lookup, faults >>

\* deploy_commit: b is the name drawn for the new build.
DeployCommit(c, b) ==
  /\ ForCommit(db, Info[b]) = {}
  /\ deployments[b].phase = "unborn"
  /\ \A a \in Actors : \A i \in 1 .. Len(calls[a]) : calls[a][i].build # b
  /\ Request(c, "deploy", DeployBuild(b))

StartBuild(c, b) == db[b].status # "absent" /\ Request(c, "start", Start(b, db[b]))
StopBuild(c, b) == db[b].status # "absent" /\ Request(c, "stop", Stop(b, db[b]))
ResetBuild(c, b) == db[b].status # "absent" /\ Request(c, "reset", Redeploy(b))
UndeployBuild(c, b) == db[b].status # "absent" /\ Request(c, "undeploy", Undeploy(b))

\* undeploy_builds, for a pull request that is closed.
UndeployBuilds(c, pr) ==
  /\ pr # NoPr
  /\ \E q \in SearchPr(db, pr) :
       Request(c, "close", [i \in 1 .. Len(q) |-> Delete(q[i])])

ClientRequest(c) ==
  \/ \E b \in Builds :
       \/ DeployCommit(c, b)
       \/ StartBuild(c, b)
       \/ StopBuild(c, b)
       \/ ResetBuild(c, b)
       \/ UndeployBuild(c, b)
  \/ \E pr \in {Info[b].pr : b \in Builds} : UndeployBuilds(c, pr)

(***************************************************************************)
(* Faults: a call fails although it could be made (the API server or       *)
(* GitHub does not answer), a watch breaks, the controller stops.  What it *)
(* keeps in memory is lost, and its watches with it; a call that was under *)
(* way when it stops has been made or has not.                             *)
(***************************************************************************)
Fault(kind) ==
  /\ kind \in FaultKinds
  /\ faults < MaxFaults
  /\ faults' = faults + 1

CallFails(a) ==
  /\ Fault("call")
  /\ calls[a] # << >>
  /\ Abort(a)
  /\ UNCHANGED << cluster, deplWatch, deplEvents, now, db, wake, lookup, requests >>

DeploymentWatchBreaks ==
  /\ Fault("watch")
  /\ deplWatch = "up"
  /\ deplWatch' = "down"
  /\ deplEvents' = << >>
  /\ UNCHANGED << cluster, jobWatch, jobEvents, now, controller, requests >>

JobWatchBreaks ==
  /\ Fault("watch")
  /\ jobWatch = "up"
  /\ JobWatcherIdle
  /\ jobWatch' = "down"
  /\ jobEvents' = << >>
  /\ UNCHANGED << cluster, deplWatch, deplEvents, now, controller, requests >>

ControllerRestarts ==
  /\ Fault("crash")
  /\ deplWatch' = "down"
  /\ jobWatch' = "down"
  /\ deplEvents' = << >>
  /\ jobEvents' = << >>
  /\ db' = EmptyTable
  /\ wake' = {}
  /\ todo' = [t \in Tasks |-> << >>]
  /\ calls' = [a \in Actors |-> << >>]
  /\ lookup' = NoLookup
  /\ UNCHANGED << cluster, now, requests >>

Faults ==
  \/ \E a \in Actors : CallFails(a)
  \/ DeploymentWatchBreaks
  \/ JobWatchBreaks
  \/ ControllerRestarts

(***************************************************************************)
(* The system has settled when nobody has anything left to do: no event is *)
(* undelivered, no task is awake or at work, no job runs, no pod starts or *)
(* stops.  It then waits for a request.                                    *)
(***************************************************************************)
Settled ==
  /\ deplWatch = "up" /\ deplEvents = << >>
  /\ jobWatch = "up" /\ jobEvents = << >>
  /\ wake = {}
  /\ \A t \in Tasks : todo[t] = << >>
  /\ \A a \in Actors : calls[a] = << >>
  /\ ~lookup.busy
  /\ \A b \in Builds : ~Unscaled(b) /\ \A k \in JobKinds : jobs[b][k] # "active"

Wait == Settled /\ UNCHANGED vars

\* Everything but the requests.
Background ==
  \/ DeploymentWatcher
  \/ JobWatch
  \/ \E t \in Tasks : Pass(t) \/ NextBuild(t)
  \/ \E a \in Actors : Call(a)
  \/ Environment /\ UNCHANGED << controller, requests, faults >>
  \/ Faults
  \/ Wait

Next == Background \/ \E c \in Clients : ClientRequest(c)

(***************************************************************************)
(* Fairness: asyncio runs every coroutine that can run and walking_dead    *)
(* restarts those that died; a call returns; an initialization ends (it    *)
(* has an activeDeadlineSeconds) and a pod starts or stops.  Nothing is    *)
(* assumed of the cleanup job, which has no deadline, of requests, faults  *)
(* and the clock.                                                          *)
(***************************************************************************)
InitializationEnds(b) ==
  /\ InitializeSucceeds(b) \/ JobFails(b, "initialize")
  /\ UNCHANGED << controller, requests, faults >>

Fairness ==
  /\ WF_vars(DeploymentWatcher)
  /\ WF_vars(JobWatch)
  /\ \A t \in Tasks : WF_vars(Pass(t) \/ NextBuild(t))
  /\ \A a \in Actors : WF_vars(Call(a))
  /\ \A b \in Builds :
       /\ WF_vars(InitializationEnds(b))
       /\ WF_vars(Scale(b) /\ UNCHANGED << controller, requests, faults >>)

Spec == Init /\ [][Next]_vars
FairSpec == Spec /\ Fairness

\* The controller has started on an empty namespace.
StartedInit == ClusterBlank /\ ControllerBlank /\ deplWatch = "up" /\ jobWatch = "up"
StartedSpec == StartedInit /\ [][Next]_vars
=============================================================================
