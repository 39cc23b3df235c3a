# Verification of the runboat controller

runboat deploys one instance of an application (a *build*) for every commit of a branch or
pull request. Its controller (`src/src/runboat/controller.py`) is one asyncio process that
watches a Kubernetes namespace, keeps an in-memory table of the builds, and launches, stops
and removes them. This directory holds TLA+ modules that model the controller, the table
and the namespace they act on, the webhook that feeds it and the event stream that reports
it, the TLC configurations that check them on small instances, and TLAPS proofs of
properties for every instance.

Paths are relative to the repository as it is seen here: `src/README.md` is the repository's
README and `src/src/runboat/` its package.

## 1. Inventory

| Component | State | Operations | Correct when |
|---|---|---|---|
| Controller (`controller.py`) | the wakeup events of four tasks; the place where each coroutine is; the lists it is working through | `deployment_watcher`, `job_watcher`, `initializer`, `cleaner`, `stopper`, `undeployer`, `walking_dead`, `get_build`, `deploy_commit`, `undeploy_builds`, `start`/`stop` | a live build is never cleaned up; every build ends initialized or failed; every undeploy ends; the limits hold; a restart loses nothing |
| Build model (`models.py`) | none: a `Build` is an immutable snapshot of a deployment | `deploy`, `start`, `stop`, `undeploy`, `redeploy`, `initialize`, `cleanup`, the callbacks on job events, `_patch` | its calls, decided from an old snapshot, leave the deployment in a state that makes sense |
| BuildsDb (`db.py`) | a table in sqlite and its listeners | `reset`, `add`, `remove`, `get`, the queries of the tasks, `search` | it is the image of the deployments once the events are delivered; the queries return what their docstrings say |
| Kubernetes access (`k8s.py`) | none here; the namespace and two watches | `patch_deployment`, `delete_deployment`, `deploy` (kubectl apply), `delete_deployment_resources` (kubectl delete by label), `kill_job`, `watch_deployments`, `watch_jobs` | the effect of each call, and which answers raise |
| Kubefiles and jobs (`kubefiles/`) | deployments, jobs, configmaps, secrets, volumes, the postgres databases | five modes of `kubectl apply`; the initialize and the cleanup job | an initialized build has its database; nothing is left of a build that was undeployed |
| REST operations (`api.py`) | none | start, stop, reset, undeploy, undeploy of a pull request, triggers | they do what they say, whatever runs concurrently |
| Build event stream (`api.py`, `BuildEventSource`; `build.html`, `builds.html`) | a queue per client; what its page shows | listener, snapshot, stream, timeout; connect, reconnect, messages | a page that keeps its connection converges to the table; the source of one that left is closed |
| GitHub webhook (`webhooks.py`) | none; the payloads under way, the repository they are about | `receive_payload`: dispatch of push and pull_request events to background tasks | every head has its build, whatever the order of the payloads; what a close finds is undeployed, and nothing else |
| GitHub client (`github.py`) | none; the commit statuses, one per commit | `notify_status`, `get_branch_info`, `get_pull_info` | the outcome shown of a commit is true of the build that it links to |
| Settings (`settings.py`) | none | limits, `no_cleanup_job`, `disable_commit_statuses`, `get_build_settings` | a branch that is not supported is not deployed |
| Helpers, application, rest of the web UI | none | threads, start-up, rendering | not modelled (section 9) |

**How they interact.** A client or a webhook makes a `Build` method call Kubernetes. The
change comes back as a deployment event; `deployment_watcher` updates the table; the table
tells its listener, the controller, which sets the wakeup of all four tasks; each task
queries the table and calls methods of the builds it gets; those make calls again. The jobs
a build launches come back as job events, which `job_watcher` turns into annotations of the
deployment (`init-status`), or into the removal of the build's resources. There is no lock
and no transaction: every decision is made on a snapshot that may be old, and everything
rests on each change being followed by an event.

GitHub feeds this machine with payloads, each of which starts one background task,
`deploy_commit` or `undeploy_builds`, that decides from the same table. At the other end
every open web page has an event source that listens to the table, as the controller does.

**What is hard in it.** Interleavings of coroutines between two awaits of one method; the
lag between the namespace and the table; events that are not sent because nothing changed;
limits counted from a table that lags, or that is being reloaded; calls that fail in the
middle of a list; restarts of a task, of a watch and of the whole process; payloads that
come late, in another order or twice; pages that lose their connection. `PROJECT.json`
lists these hazards at the lines where they bite, with the properties that would catch them
or the reason why none does yet.

## 2. The modules

| Module | What it is |
|---|---|
| `BuildModel` | `models.py`: deployments, rows, and each method as the *list of calls* it makes, decided from its snapshot |
| `BuildsDb` | `db.py`: the table as a function from build names to rows, each query, `add` and `remove` |
| `Cluster` | the namespace: deployments, jobs, other resources, databases, commit statuses, the two watches and their undelivered events; one operator per kind of call, one action per thing that happens by itself |
| `Controller` | composes the three: the coroutines, the API requests, the faults; `Spec` and `FairSpec` |
| `ControllerProperties` | the properties of the controller, and `Stage`, the refinement mapping to `BuildLifecycle` |
| `BuildLifecycle` | the abstract specification: the stages of a build and the moves between them |
| `Webhooks` | composes `Controller` with `webhooks.py`, the triggers of `api.py` and one GitHub repository |
| `WebhookProperties` | the properties of that composition |
| `EventStream` | `BuildEventSource`, the table's listeners and the two pages, over `BuildsDb`; its properties are at its end |
| `MCController`, `MCWebhooks`, `MCEventStream` | constants, symmetries and initial states for TLC |
| `ControllerProofs` | type correctness, with the lemmas on the operators of the modules above; no live build is cleaned up, as long as nobody asks for a reset |
| `EvidenceProofs` | the invariant `LifeInv`: what is on its way through the controller agrees with what the jobs did; how a step moves a build |
| `OutcomeProofs` | `LifeInv` is inductive; what runs is initialized, what is initialized has its database, what is reported is true; `Controller` implements `BuildLifecycle`, and purges only after a cleanup |
| `MirrorProofs` | the settled table is the image of the deployments; evictions, decided from that table, keep the newest build of a branch |
| `SettledProofs` | what the tasks have done when the system has settled |
| `LimitProofs` | the initializer keeps its limit |
| `WebhookProofs` | `Webhooks` implements `Controller`, and inherits what is proved of it; payloads only undeploy builds of closed pull requests; every head gets its build |
| `EventStreamProofs` | a page that has caught up shows the table |

### State and code

* A **deployment** (`Deployments`) is what the controller reads of one: the phase (never
  used, live, being deleted behind its finalizer, gone), `runboat/init-status`,
  `spec.replicas`, whether its pod runs (`status.replicas`, `status.available_replicas`),
  the finalizer, `creationTimestamp` and `runboat/last-scaled`. The immutable labels and
  annotations are the constant `Info`: target branch, pull request, commit.
* A **row** (`Rows`) is the part of a `Build` that changes. `RowOf` is
  `Build.from_deployment`, `SameBuild` is `Build.__eq__`, which decides whether a change is
  an event for the listeners at all.
* **`calls[a]`** is the list of calls that actor `a` (a task, `job_watcher` or a client) has
  yet to make for the method it is in. All the methods of `Build` have this shape: they read
  their snapshot, then await a fixed sequence of calls. `Call(a)` makes the first; calls of
  different actors interleave freely. A call that raises (`Raises`, or a fault) ends the
  method: the request fails, the task dies with the rest of its list, `job_watcher` loses
  its watch; `walking_dead` restarts it.
* **`todo[t]`** is the rest of the list of snapshots a task got from its query, **`wake`**
  the set of tasks whose event is set, **`lookup`** the deployment `get_build` has read and
  not yet added to the table.
* **`deplEvents`**, **`jobEvents`** are the undelivered events of the watches.
  `deplWatch = "listing"` is the moment between `db.reset` and the list that fills the table.
* **`github`** is what GitHub shows of each *commit*: the last status posted in the context
  `runboat/build`, and the build that posted it. Builds of one commit overwrite each other's
  status. A post that is refused is only logged (`github.py:83`) and changes nothing;
  `DisableCommitStatuses` is the setting `disable_commit_statuses`.
* **`SupportedBranches`** stands for `settings.repos`: the target branches an entry matches. A
  payload for another one is ignored, and every `apply` of a build of another one raises.
* **`heads`**, **`pulls`** (`Webhooks`) are the repository, **`deliveries`** the payloads
  under way; a payload stays when it will be sent again. **`condemned`** and **`anyReset`**
  are history, for the properties.
* **`stage`**, **`rest`**, **`queue`** (`EventStream`) are an event source, the rest of its
  snapshot and its queue; **`online`** says whether its page still has the connection and
  **`image`** what it shows. **`missed`** is history: the builds of a page that were removed
  without an event of this connection telling so.

### Actions and code

| Action | Code |
|---|---|
| `StartDeploymentWatch`, `ListDeployments`, `HandleDeployment` | `deployment_watcher` with `k8s._watch`: reset, list, one event at a time |
| `StartJobWatch`, `HandleJob`, `HandleJobLookup` | `job_watcher`, with the two halves of `get_build` |
| `Pass(t)`, `NextBuild(t)` | wait, clear and query of a task; its `for` loop |
| `Call(a)` | an awaited call to `k8s.py` or `github.py` (`Cluster!Perform`), or its exception |
| `DeployCommit`, `StartBuild`, `StopBuild`, `ResetBuild`, `UndeployBuild`, `UndeployBuilds` | the API operations and what the webhook dispatches to |
| `CallFails`, `DeploymentWatchBreaks`, `JobWatchBreaks`, `ControllerRestarts` | a request that is not answered, a watch that breaks, `stop` or a crash followed by `start` |
| `InitializeCreatesDatabase`, `InitializeSucceeds`, `CleanupSucceeds`, `JobFails`, `Scale`, `Tick` | the jobs' scripts, Kubernetes, the clock |
| `Wait` | the system has settled and waits for a request; without it TLC would call that a deadlock, and with it every other deadlock is still found |
| `Deliver` with `ReceivePullRequest`, `ReceivePush` | `receive_payload` and the first step of the background task it adds |
| `TriggerBranch`, `TriggerPull` | the trigger operations, as far as the answer of GitHub; `Deliver` is the rest |
| `Push`, `PullRequest` | what happens on GitHub |
| `DbAdd`, `DbRemove`, `DbReset` (`EventStream`) | a change of the table and what its listeners are told |
| `Connect`, `Disconnect` | `connect` of a page with `BuildEventSource.__init__`; the end of the connection |
| `Stream`, `SendRow`, `SendEvent`, `Timeout` | `events`: the snapshot is read, one of its rows, one event of the queue, ten seconds without any |

### Abstractions that matter

* asyncio runs one coroutine at a time: what is between two awaits is one step. The wait, the
  one-second buffering delay, the clear and the query of a task are one step; the delay only
  merges wakeups, and a wakeup that comes during it is covered by the query that follows.
* A deployment event is queued with the row it will produce; an event whose row is the one of
  the previous event is left out, since `BuildsDb.add` ignores it.
* The creation of a job and its becoming active are one step, and so are the last command of
  a job and its final status. An initialize job drops the database first and creates it later;
  a job that exists is unchanged by an apply, finished or not.
* The `IF` of a patch is the code's: `_patch` sends only the fields that differ from the
  *snapshot*, so what changed meanwhile is overwritten or left alone.
* Ties of an `ORDER BY` are resolved in any order: a query is the set of the lists sqlite may
  return.
* `receive_payload` reads only the payload and the settings, and its background task makes
  its first decision from the table: both are one step, at any time after the payload was
  sent. Payloads that are equal and under way together are one, repeated.
* In `EventStream` the table changes in every way the controller's coroutines may change it;
  it is not composed with `Controller`, since no step of a page has an effect on one.
* An event source is closed before its page connects anew: what is left of the old one only
  fills a queue nobody reads.
* A pod that exists is available: `starting` and `stopping` are the moments before `Scale`.

## 3. The properties

Defined in `ControllerProperties`, `WebhookProperties` and at the end of `EventStream`, and
`TypeOK` in `Controller`. `Settled` is the state in
which nobody has anything left to do: no event is undelivered, no task is awake or at work,
no job runs, no pod starts or stops. What is wrong there stays wrong until somebody, or an
unrelated event, intervenes; so the `Settled...` properties say, as invariants, what the
controller must have achieved by the time it comes to rest.

| Property | Says |
|---|---|
| `NoLiveCleanup` | no cleanup job exists for a live build |
| `RunningIsInitialized` | a build that is scaled up was initialized |
| `InitializedHasDatabase` | a build that is marked as initialized has its database |
| `PurgeAfterCleanup` | the resources of a build are only deleted after its cleanup job succeeded, or when its deployment is gone |
| `StatusTruthful` | GitHub shows success or failure of a commit only if the build that posted it is marked so |
| `InitializationLimit` | at most `max_initializing` initialization jobs are active |
| `NewestOfBranchKept` | an eviction never takes the newest build of a branch |
| `SettledMirrorsCluster` | the table is the image of the deployments |
| `SettledInitialization` | every live build is initialized or failed |
| `SettledUndeploy` | a build is still being deleted only if its cleanup job failed |
| `SettledNoLeftovers` | nothing is left of a build that is gone |
| `SettledStarted`, `SettledDeployed` | the limits of started and deployed builds hold, as far as the undeployer may evict |
| `LifecycleRespected` | refinement: each build goes through the stages of `BuildLifecycle` only: deployed once, initialized at most once, started only if that succeeded, failed for good otherwise, and never back from being undeployed |
| `SettledKnownUndeploy` | `SettledUndeploy` for the builds the table knows to be undeploying |
| `SettledSupportedUndeploy` | `SettledUndeploy` for the builds whose branch the settings support |
| `SettledHeadsBuilt` | the commit each supported branch and each open pull request points to has a build, if no call failed and the pull request was never closed |
| `SettledClosedUndeployed` | the builds that the close of their pull request found are undeployed, if no call failed and nothing was reset |
| `OnlyClosedPullsUndeployed` | no payload, however late, undeploys anything but builds of a pull request that was closed |
| `CaughtUpShowsTable` | a page that has caught up shows the builds of the table it asked for, each with its row, and no others, but for those whose removal it was not told of |
| `CatchesUp`, `SourceClosed` | liveness: a page that stays catches up; the event source of a page that left is closed |
| `InitializationConcludes`, `UndeployConcludes` | liveness: what is deployed ends initialized or failed; what is undeployed ends, unless its cleanup job fails or never ends |

## 4. The runs

`Webhooks` is an instance of `MCWebhooks`, `EventStream` of `MCEventStream`, the others of `MCController`. The passing ones are exhaustive.

| Run | Instance | Shows |
|---|---|---|
| `Lifecycle` | one build, two clients, four requests (deploy, start, stop, undeploy, close), events that lag by two | the safety of the life of a build in every interleaving of the watchers, cleaner, initializer, clients and jobs, that it goes through the stages of `BuildLifecycle`, and that it is right when the system settles; 0.8 million states |
| `Liveness` | one build, one client, three requests, `FairSpec` | initialization and undeploy conclude, the undeploy as far as its cleanup job does |
| `Initialization` | three builds of one commit (one of a pull request, two of a branch), limit two, distinct creation times, posts of statuses that are refused | the limit of initializations is never exceeded although it is counted from a lagging table; every build is initialized or failed; the outcome that GitHub shows of the commit is that of the build which posted it, in every interleaving of the three; 0.8 million states. The only run with `DisableCommitStatuses = FALSE`: no other property reads the statuses |
| `Capacity` | three initialized builds (two of a branch, one of a pull request), one may run, two may be deployed, `no_cleanup_job` | stopper and undeployer reach their limits together, with clients starting and stopping builds, and keep the newest build of the branch |
| `Restart` | one build, three requests, one crash of the process or break of a watch at any point | nothing is lost, cleaned up or purged wrongly, an undeploy that the table knows of is finished, and no event that is replayed takes the build back to an earlier stage; 1.1 million states |
| `Requests` | one initialized build, two requests that reset it, start it or close its pull request, one call that fails | resets and closings, with the exceptions of tasks and watchers they cause, leave the table right; 0.2 million states |
| `Webhooks` | one branch and one pull request of two commits, three events on GitHub, one payload sent again or trigger, two background tasks or resets at a time, one call that fails, `no_cleanup_job` | every head is built, every build a close found is undeployed, and none is undeployed otherwise; 0.7 million states |
| `EventStream` | two builds, three changes of the table, a page of a branch's builds and a page of one build, each connecting twice, `FairSpec` | pages that catch up show the table, pages that stay catch up, pages that leave leave nothing behind; 0.1 million states. The bounded system may stop, so a stop is not a deadlock here |

Four runs end with a counterexample: the code does not do what the repository's documents
say of it.

| Run | Property | What happens |
|---|---|---|
| `ResetForgotten` | `SettledInitialization` | a reset (documented as "Redeploy, so as to reinitialize", `src/src/runboat/api.py:177`) kills an initialization job that is not yet marked as started. Its apply changes nothing in the deployment, no event follows, and the initializer sleeps on |
| `Leftovers` | `SettledNoLeftovers` | `to_initialize` selects builds that are undeploying; the failure of such a job, handled late, applies the stop files again and recreates resources of a build that is gone, against `src/README.md:33` |
| `RestartForgetsUndeploy` | `SettledUndeploy` | at a restart `get_build` adds a row it read before `deployment_watcher` added a newer one; the undeploy is forgotten, against `src/README.md:43` |
| `PoisonedList` | `SettledSupportedUndeploy` | the cleanup of a build whose branch the settings no longer support raises; the cleaner is restarted and, its list being ordered by creation, raises on the same build for ever; a supported build that was created later is never cleaned up, against `src/README.md:33` and `src/src/runboat/controller.py:19` |

That is why the passing runs are scoped as they are. `Lifecycle` and `Restart` have no
resets, because of `ResetForgotten` (and because `BuildLifecycle` is about builds nobody
resets); `Restart` does not check `SettledUndeploy`, because of `RestartForgetsUndeploy`; no
passing run checks `SettledNoLeftovers`, and all of them have supported branches only.
`Restart` checks `SettledKnownUndeploy` instead: a controller that stops between the deletion
of the resources and the removal of the finalizer finishes the undeploy, as long as the table
has it. `Initialization` has no undeploys, which break both its limit and its progress (below), and
the other runs that check `SettledInitialization` have one build. `BuildLifecycle` says what the
code does of a failed build, which is not what every document says (the first point below).

More disagreements and limits of what passes, met while modelling and proving:

* The docstring of `Build.start` says "Start build if init succeeded, or reinitialize if failed"
  (`src/src/runboat/models.py:216`). The code does not: it logs that a start is ignored for
  every status but `stopped` and `stopping` (line 218), so a failed build stays failed until it is
  reset. `src/README.md:30` only says that such a build is flagged as failed.
  `LifecycleRespected` is stated after the code; its runs have starts of failed
  builds among their requests, and it would be violated by a `start` that kept the promise of the docstring.
* `SettledHeadsBuilt` is about half of what `deploy_commit` promises: that every commit is
  built. The other half, "do nothing if build already exist" (`src/src/runboat/controller.py:100`),
  does not hold: two payloads of a commit that are handled before the first build has reached
  the table both deploy it, under different names.
* `StatusTruthful` is about the status that GitHub shows. When a commit has two builds, that is
  the one reported last: the failure of one build may be hidden by the success of the other,
  and no document says which of them a commit should show.
* `RunningIsInitialized` is checked without resets: a start that was decided before a reset
  patches the replicas after it, and the build runs while it is initialized again.
* The same read of `get_build` that forgets an undeploy (`RestartForgetsUndeploy`) may leave
  the row of a build that is gone in the table, as undeploying, until the watch is next
  restarted; so `SettledKnownUndeploy` asks for the deployment too.
* `InitializationLimit` is checked with distinct creation times, no restart and no undeploy. The
  initializer counts builds *marked* as started, and a build whose job was launched but not
  yet marked still counts as waiting. What saves the limit is that the oldest waiting builds,
  the same ones, are selected again and their jobs applied again with no effect. Builds
  created in the same second have no oldest, and after a restart the table is half loaded.
  An undeploy breaks it, with two builds and a limit of one: TLC needs 27 steps. The list of the
  initializer, or its pending apply, is then about a build that was undeployed, cleaned up and purged
  meanwhile; its job is launched again for a build that no row counts, and the next one is launched
  beside it, against `src/src/runboat/controller.py:36`. An eviction does the same.
* `SettledInitialization` fails with undeploys when there is more than one build, as TLC finds with
  two builds and a limit of one. A build that is undeployed while it initializes counts as
  initializing for ever when its cleanup job fails (`controller.py:217` counts every row
  marked `started`, those being deleted included): its job was killed and nobody takes the mark
  back. No other build is initialized although no job runs, against "as soon as there is
  capacity" (`src/src/runboat/models.py:34`).
* The undeployer takes the stopped build that was scaled first (`last_scaled`, which start and stop
  renew). That need not be the one created first, which `src/README.md:32` says is deleted. No
  property depends on which of them goes.
* `SettledClosedUndeployed` is checked with distinct creation times too: when the payload of
  a close comes twice, the second `undeploy_builds` stops at the first build that is already
  gone. What saves the others is that they are the newer ones and come first.
* A failed call may lose the rest of a task's list: the wakeup is cleared before the work
  (`controller.py:208`, `216`), and the restarted task waits for the next event. So the
  properties of `Webhooks` about what is settled assume that no call failed, and the fault
  only tests `OnlyClosedPullsUndeployed` and what happens besides.

## 5. Bounds

| Constant | Bounds | Why it is enough |
|---|---|---|
| `Builds` | the builds, and the names that may be drawn | the methods of one build touch only that build, so its lifecycle needs one; builds meet in the counts and orders of the queries, for which three make two that are within a limit and one beyond it, two of one branch and one of none |
| `MaxLag` | events a watch can have undelivered before the cluster must wait | 1 makes the table lag by one change, 2 lets a change overtake the handling of an earlier one; with 2 an event about a state that is over twice already is handled |
| `MaxRequests` | API requests, background tasks included | four let two clients deploy, start, stop and undeploy one build, in any order; three, with faults or liveness, deploy it, start it and undeploy it |
| `MaxFaults` | faults | one, at any point (a crash or a broken watch in `Restart`, a call in `Requests` and `Webhooks`). Two faults in one behaviour are left to the proofs, which have no bound |
| `MaxTime` | `Tick` | 0 where only the order of creations matters (`DeployCommit` advances the clock itself unless `SameSecond`), 4 in `Capacity`, where the times of scaling order the evictions |
| `MaxEvents`, `MaxRepeats` | pushes and changes of pull requests; payloads sent again and triggers | three events open a pull request, push to it and close it, or reopen it, or interleave with a push to its branch; one repeat makes each of their payloads come twice |
| `MaxChanges`, `MaxConnects` | changes of the table; connections of a page | three changes add a build, change it and remove it or reset the table, before, during and after a snapshot; the second connection is the reconnection |
| `SameSecond` | whether creations advance the clock | `TRUE` with one build, where it does not matter; `FALSE` where the order of builds does |

Every bound is in a guard, so that the module says what it leaves out. The limits of
`settings.py` are 1 or 2, below the number of builds, so that they bind.

The tasks in `Tasks` are those a run is about: the stopper and undeployer never act on a
single build within its limits, and the initializer never acts on builds that are all
initialized.

## 6. Fairness

`FairSpec` assumes weak fairness, one condition per coroutine or job:

* of `DeploymentWatcher`, `JobWatch` and each task: asyncio runs every coroutine that can
  run, none of them blocks the loop (`utils.sync_to_async` moves blocking calls to threads),
  and `walking_dead` restarts those that die;
* of `Call(a)`: a request or a `kubectl` returns or raises;
* of the end of the initialization job (`InitializationEnds`): `initialize.yaml` has an
  `activeDeadlineSeconds` and no retries, which end it, with success or failure. Nothing is
  assumed of the end of the cleanup job: `cleanup.yaml` has a `backoffLimit` but no deadline,
  and a pod that hangs or stays pending never ends. `UndeployConcludes` therefore excepts a
  cleanup job that stays active for ever;
* of `Scale`: Kubernetes reconciles a deployment.

`FairSpec` of `EventStream` assumes weak fairness of `Serve(p)`, the coroutine of one event
source: asyncio runs it, and `asyncio.wait_for` ends its wait after ten seconds.

Nothing is assumed of requests, faults, the clock, payloads, pages and their connections. Weak fairness suffices: an action of a
coroutine that is enabled stays enabled until it is taken, since no other actor takes its
events, its wakeup or its calls. The lag bound can disable a call; the watcher that is behind
is itself fair and enables it again.

## 7. Proofs

The theorems about the controller are of `Spec` (`InitializationsWithinLimit` of `StartedSpec`,
where the watches are up and the namespace is empty), for every finite set of builds, every set of tasks and clients,
all limits, all lags and all numbers of requests and faults. They rest on the named
assumptions of the constants (`BuildsAssumption`, `InfoAssumption`, `LimitsAssumption`, ...),
which TLC evaluates in every run.

**`TypeCorrect`** (`ControllerProofs`): `Spec => []TypeOK`. `TypeOK` is not inductive by
itself: `HandleJobLookup` takes the head of `jobEvents`, which must not be empty.
`LookupOfEvent` adds that a busy `lookup` has its event still queued and that `job_watcher`
has no call pending meanwhile. The lemmas give the type of what each operator returns: the
queries (`OldestFirstType`, `LimitType`, `SelectionsType`), the lists of calls of each method
(`PatchType`, `BenignMethods`, `CleanupType`, ...), the cluster after a call
(`PerformType`) and after a step of its own (`EnvironmentType`); one lemma per group of
actions puts them together.

**`NeverCleanedUpAlive`** (`ControllerProofs`): `Spec => []NoLiveCleanup` when `"reset"` is not
among the operations of the clients. A cleanup job is launched long after the deployment was
seen to be deleted: the fact travels as an event or a lookup into the table, from the table
into the cleaner's list, from there into its pending calls. The inductive invariant
`CleanupInv` says of each of these places that what it holds is about a build that is
*doomed*, being deleted or gone (`EventsDoomed`, `LookupDoomed`, `DbDoomed`, `TodoDoomed`,
`CallsDoomed`, `JobsDoomed`). Doom is for ever, because the only call that makes a deployment
live again, the apply of mode `deployment`, is only made by `deploy_commit`, under a name
that was never used and that no other actor is about to use (`DeploysUnborn`). The hypothesis
is needed by this argument: `Build.redeploy` has no guard on the status of the build and
applies its deployment whatever became of it. `CleanupInv` was checked with TLC on the
instances of `Lifecycle` and `Restart` before it was proved.

**`OnlyInitializedRun`, `InitializedKeepDatabase`, `ReportsTruthful`** (`OutcomeProofs`), without
resets. Nothing is decided from the deployment itself: an outcome travels from the job as an
event, from there as a patch of `job_watcher` into the annotation, as an event into the table,
and from a row into a start. The inductive invariant `LifeInv` (`EvidenceProofs`) adds to
`CleanupInv`

* `SoundInv`: what each of these places holds is true of the build as it is now, or the build
  is doomed. A row that says `stopped` is about a build marked `succeeded`, a pending patch to
  `succeeded` about a job that succeeded, a pending scale-up about a build that was initialized
  (`PlacesSound`, `LookupSound`, `BuildSound`);
* `OrderInv`: only `job_watcher` marks outcomes (`OthersPlain`), and it has the marks and
  reports of a build before it in order. Once an outcome is marked or on its way, no event of
  the job's start is left (`StartsInOrder`, `MarksInOrder`), so the mark is not taken back; a
  report is behind the mark it reports (`ReportsInOrder`), and is lost with it when a call
  fails in between.

`ReportsTruthful` is about what GitHub shows of a commit with any number of builds: what is
shown *of a build* (`Shown`) is the status of its commit if that build posted it. Another build of
the commit may overwrite it, which shows nothing of this one any more, and a post may be refused,
which leaves what was shown; a report that does arrive agrees with the deployment by `ReportsInOrder`.

`SoundInv` alone is not inductive: an event of the start that is handled after the outcome was
marked would set the annotation back to `started` under a report that is already posted. That
truth lasts is `Advances`, proved of every step (`EnvironmentMoves`, `PerformAdvances`): the phase of
a deployment goes one way, an outcome stays as long as the build is live, and a job goes from
none to its outcome once. Events that are replayed after a restart carry the state of the job
as it is, so the invariant holds of them with no assumption on faults.

**`ControllerImplementsLifecycle`** (`OutcomeProofs`), without resets: `Spec => LifecycleRespected`,
the step refinement under the mapping `Stage`. A step changes at most one deployment
(`OneDeployment`) and that one advances (`StepAdvances`); an advance is a passage of
`BuildLifecycle` or a stutter (`StageAdvances`). `LifeInv` supplies what the deployment does not say,
such as the finalizer of every deployment, without which a delete would skip `undeploying`.

**`PurgesFollowCleanups`** (`OutcomeProofs`), without resets and with cleanup jobs
(`~NoCleanupJob`; without them `Build.cleanup` purges at once, as it is meant to). A purge, and
the removal of the finalizer after it, is decided from an event of a cleanup job; `PurgeInv`
says of that event and of the calls it turns into that the cleanup succeeded or the deployment is gone.

**`TableMirrorsCluster`** (`MirrorProofs`): `Spec => []SettledMirrorsCluster`, without resets and
with failing calls as the only faults (`FaultKinds \subseteq {"call"}`). That the last event of
a build carries its deployment as it is (`Mirrored`) is easy as long as `deployment_watcher` is
the only one who writes the table. `get_build` writes it too, with a deployment it read before
an await, when the table has no row for the build of a job. `MirrorInv` shows that this can
only happen to a build that is gone (`PlacesMet`): a job is launched by a task that found its
build in the table, and a row leaves the table only when its deployment is gone. Both hypotheses
are needed. A watch that breaks, or a restart, empties the table while jobs exist; TLC then
finds the table left with an older row, the counterexample behind `RestartForgetsUndeploy`.

**`EvictionsKeepNewest`** (`MirrorProofs`): `Spec => NewestOfBranchKept`, with failing calls, broken
watches and restarts. The undeployer queries the table once and then deletes the builds of the
list one at a time; the table may be old when it is queried, and older when a build is deleted.
The newest row of a branch may be of a build that is being deleted or gone already, and a row
that a restarted watch or `get_build` brings back may be of one that was evicted in between.
`BranchInv` says that a build of a branch that is in the list of the undeployer, in a pending
delete, or being deleted is *outdone* (`Outdone`): a live build of the branch was created after
it (`PlacesDated`). The one that outdoes it may be evicted
next, but it is then outdone too, and a step deletes one deployment (`OneDeployment`), so another is left (`OutdoneSinceStays`). Creation times are
distinct and in the past (`CreatedApart`), and a row has that of its deployment as long as this is live; after
that the deployment's own time is lost, and the row itself must say since when its build has been
outdone (`DatedSnapshots`). Without that the invariant is not inductive: the query compares with
the row of a build that is gone. There are three hypotheses. An undeploy by hand may take the
newest build, and nothing outdoes it; resets are ruled out because `BranchInv` includes `LifeInv`;
and of the builds created in one second (`SameSecond`) sqlite preserves whichever it likes.
`BranchInv` was checked with TLC, with all faults, before it was proved.

**`StartsWithinLimit`** (`SettledProofs`): `Spec => []SettledStarted`, without resets and
faults. The stopper decides once per wakeup how many builds to stop and which, works through
that list while others start, stop and evict builds, and loses the rest of it when a call
raises. The invariant is the reason why it never sleeps on a limit that is exceeded: it is
`Awake`, that is woken up, or the table is about to change by an event that is queued
(`Restless`), or else it is `AtWork`: its list and its pending calls are what it would decide
from the table as it is now, and it is idle only if it would select nothing. This is inductive
because a step that changes the table wakes up every task (`NewsWakes`), and a call of the
task either changes a deployment whose row was in the table, so that an event is queued
(`StopAtWork`, `EvictAtWork`, from `MirrorInv`), or, for the initializer, launches a job
(`LaunchAtWork`). `AtWork` is proved for the initializer, the stopper and the undeployer alike
(`AtWorkStep`).

**`DeploysWithinLimit`** (`SettledProofs`): `Spec => [](SettledInitialization => SettledDeployed)`,
from the same invariant for the undeployer, without resets and faults. The premise is there
because the undeployer may not evict what waits for its initialization; the next theorems say when it holds.
That no older build of a branch is left with a newer one needs the creation times of the rows,
which `Build.__eq__` does not compare: `PlacesMet` has them.

**`UndeploysComplete`** (`SettledProofs`): `Spec => []SettledUndeploy`, without resets and faults.
Two invariants meet. `CleanerAtWork` says that a build that is undeploying in the table is
*tended* (`Tended`) unless the cleaner is awake: it is in the cleaner's list, or the launch of its cleanup job is
pending, or it has one, or somebody is about to remove its finalizer. This is lost by no step,
because what the cleaner asks for does not raise (`Surely`, `SurelyDone`), and a cleanup job only
disappears with the resources, right before the finalizer does (`CallsTidy`, `CleanupGone`,
`SweepStays`). `EndsAnswered` says that a job that ended is not forgotten by `job_watcher`: its end
was answered, or the answer is among its calls, or the event is queued, or the watch is down and
will list the job when it is started again, as happens when a call of `job_watcher` raises. An
answer may be left out because the row carries the outcome already; then so does the deployment
(`RowsMarked`). One more hypothesis is `NoCleanupJob \/ Supported`: with an unsupported branch
the cleanup raises, which is `PoisonedList`.

**`InitializationsComplete`** (`SettledProofs`): without resets and faults, with supported
branches and a limit above zero, `SettledInitialization` holds unless there is a build whose
cleanup job failed before it was initialized. The initializer is at work (`AtWork`), or has launched a job that is not
marked yet (`Taken`), and then the event of that job is not forgotten either (`EndsAnswered`); a
build that is marked as started has had its job launched (`MarksLaunched`), so when all has
settled no live build counts as initializing. What still may count is a build that is being
deleted, and `UndeploysComplete` leaves only those whose cleanup failed. The premise cannot be dropped
(section 4), which was found while proving this. All these invariants
were checked with TLC before they were proved.

**`InitializationsWithinLimit`** (`LimitProofs`): `StartedSpec => []InitializationLimit`. The
initializer launches as many jobs as it counts free, but what it counts are marks in a table
that lags, and a build whose job it launched has no mark until `job_watcher` has set it and
`deployment_watcher` has seen it. Such a build counts for nothing, but still counts as
waiting, and is picked again, with those created before it. `Busy` makes this an invariant: the builds that
are marked in the table, and those that wait and were not created after one that was *picked*
(in the list of the initializer, in a pending launch, or with a job). `LimitInv` bounds `Busy` by
the limit. When the initializer queries the table (`BusyPass`), what it takes is an initial
segment of the creation order of those that wait (`OldestPrefix`), and so is what is busy among them: of two initial
segments one contains the other, so either nothing becomes busy, or what is busy is what was
just counted. When an event reaches the table (`BusyHandle`), a busy build may go from waiting to marked
and a new build may begin to wait, and neither may make others busy. That needs the order of things:
the table learns of builds in the order of their creation (`ToldInOrder`), and of what becomes of each in
the order in which it happened (`InitsInOrder`). And every job that is active is of a busy
build (`ActiveBusy`).

Calls may fail. The hypotheses are that the clients deploy, start and stop, that nobody
evicts, that creation times are distinct, and that the controller started once. They are
not weak: a full deployment has an undeployer. But
without each of them either the limit does not hold (an undeploy or eviction, section 4) or
the argument fails (builds created in one second have no order; the first list after a
restart or from `Spec` brings the builds in any order). `LimitInv` was checked with TLC
before it was proved, with three builds and a limit of two and with a call that fails.

**`WebhooksImplementController`** (`WebhookProofs`): `WebhookSpec => StartedSpec`. A payload, a
trigger or a reset is a step of `ClientRequest` or leaves the controller alone
(`WebhookStep`), and GitHub never touches it (`GitHubStep`). With it `CleanupInv` and `LifeInv`
are invariants of the composition too: **`WebhooksNeverCleanUpAlive`** and
**`WebhooksKeepBuildsSound`**, in which a branch and a pull request may share a commit.

**`PayloadsUndeployClosedPulls`** (`WebhookProofs`): `WebhookSpec => OnlyClosedPullsUndeployed`, with
resets, failing calls, broken watches and restarts. The one hypothesis is
`"undeployer" \notin Tasks`: an eviction undeploys the oldest build whatever became of its pull
request. Only GitHub knows that a pull request was closed; the build is deleted many steps
later, by whoever met the trace that the close left. `ClosedInv` follows that trace from the payload
(`PayloadsTrue`) into the calls of a client, the deployments, the events, the rows, the list of
the cleaner, the jobs and the calls that remove things (`PlacesClosed`). It is phrased with `Closed`
alone, the builds of a pull request that was closed, which only grows: a reset may make a deployment live
again, but does not take the close back, so resets need not be ruled out. Its second half says that
whatever else is held is about a build that was deployed. Without it the invariant is not
inductive: `job_watcher` removes what is left of a build whose deployment it does not find, and a
build that is yet to be deployed has none. `ClosedInv` was checked with TLC, with all faults and
resets, before it was proved.

**`HeadsGetBuilt`** (`WebhookProofs`): `WebhookSpec => []SettledHeadsBuilt`. Every commit that a
supported branch, or a pull request that is open and was never closed, points to is
*provided for* (`Provided`): a payload that asks for it is under way, or its deploy call is at the
head of a client's list, or a build of it lives. When nothing is left to do only the third
remains. The step that needs an argument is `deploy_commit` returning early because it finds a
row of the commit. Such a row may be old, and its build might be gone; but then it was
undeployed, and only builds of pull requests that were closed ever are (`ClosedInv`, of the
theorem before). So the row is of a live build (`RowLive`). Nothing is assumed of resets,
delays, repeats or the order of payloads. The property asks that no call failed, and faults
only grow in number (`FaultsGrow`). The hypothesis is that nobody evicts: the undeployer takes
the heads of pull requests, as it is meant to.

**`ClosedGetUndeployed`** (`WebhookProofs`): `WebhookSpec => []SettledClosedUndeployed`. When closes
are repeated, several clients work through lists of the same builds, and a list is dropped, with what
is left of it, at the first build that is gone (`controller.py:120`). `CloseInv` says why nothing is
left behind. A build is *due* (`Due`) when a list will come to it. A list runs from the newest to the
oldest of the live builds of the pull request and omits none of the older ones (`ListsInOrder`), since
`search` orders by creation time and the table learns of builds in the order in which they were created
(`TableInOrder`). So when a build is gone because a list asked for it, every live build that is older, as
far as the table knew of it then, is due by that list (`OlderDue`); what
comes after it in another list is due by a list that is ahead, and does not itself depend on the list that
stops (`LaterDue`). Both carry a bound on creation times: without it two lists could each be excused by the
other. The builds that a close found are then always due or undeployed (`CondemnedDue`), and nothing
is due when all is handled. The hypotheses are those the property is about: no reset, which brings a
build back; no eviction, which deletes oldest first; no break of a watch and no restart, after
which the table is loaded in any order, or the list is lost; distinct creation times; and a pull request
for one branch, since `search` orders by branch before creation time. The property itself asks that no
call failed.

**`CaughtUpPagesShowTheTable`** (`EventStreamProofs`): `Spec => []CaughtUpShowsTable`, for all
pages, filters, builds and rows, without a bound on changes and connections. What a page will
show of a build is what the last event of its queue says, else the row of its snapshot, else
what it shows already. `BuildFits` says of whichever it is that it fits the table, while the
page is connected: an event that is older than the snapshot is harmless because a newer one
follows it in the queue. `OnlySelected` is needed where a page hears nothing because it did
not ask, with `SameSelection`: for canonical filters the `WHERE` clause of `search` and the
early returns of `on_build_event` select the same builds. `SourceShape` says that the
snapshot and queue of a source that was closed are empty. **`StreamTypeCorrect`** comes first.

## 8. What is only model-checked

* Liveness under fairness (`InitializationConcludes`, `UndeployConcludes`, `CatchesUp`,
  `SourceClosed`) and everything that needs ENABLED.
* The behaviour with resets, and the table across restarts. `Requests` checks the table with
  resets. The theorems about builds, but for
  `PayloadsUndeployClosedPulls` and `HeadsGetBuilt`, assume that `"reset"` is not among the
  operations of the clients, since `Build.redeploy` acts on whatever became of the build it was
  asked for.

## 9. What is not modelled

* The **signature** of a payload and the **regular expressions** of `settings.repos`: a
  branch is supported or not. A single repository is modelled in the controller.
* Branches with a slash in their name: `ReceivePush` takes the last component of any ref,
  but the instances only have refs of three components, so that a pushed ref and its build
  have the same branch.
* `count_all`, `repos` and the status filter of `search`: read by the API and web pages only.
  `undeploy_builds` is modelled with the filter of the webhook, a pull request.
* Service, ingresses, probes, image names, the rendering of the templates, and the scripts
  that start the application: nothing in the controller depends on them.
* The rendering of the web UI, the application's start-up, authentication, settings parsing,
  logs.
* The link of a commit status (`target_url`) is modelled as the build that posted the status; the
  pending of a deployment has none in the code, and no property speaks of a pending.
* A request that finds nothing to do changes nothing and is not a step.

## 10. Plan

Ordered by importance; the modules above are steps 1 to 4.

1. `BuildModel`, `BuildsDb`, `Cluster`: the methods, the table, the namespace. *Done.*
2. `Controller` and its properties; the runs above. *Done.*
3. `ControllerProofs`: type correctness. *Done.*
4. No live build is cleaned up. *Done.*
5. `BuildLifecycle` and the refinement, in `Lifecycle` and `Restart`. *Done.*
6. `EventStream`: the pages against the table. *Done.*
7. `Webhooks`: the composition with a repository. *Done.*
8. Unsupported branches: `PoisonedList`. *Done.*
9. `WebhookProofs`, `OnlyClosedPullsUndeployed` included, and `EventStreamProofs`. *Done.*
10. `EvidenceProofs`, `OutcomeProofs`, `MirrorProofs`: the outcomes, the
   refinement, the purges and the table, without resets. *Done.*
11. `NewestOfBranchKept`, and `SettledProofs`: what has been done when the system has settled. *Done.*
   `LimitProofs`: `InitializationLimit`, without undeploys. *Done.*
   `SettledHeadsBuilt` and `SettledClosedUndeployed` when no call fails. *Done.*
12. Resets: the `Settled...` properties weakened to what does hold with resets and failing
   calls.
