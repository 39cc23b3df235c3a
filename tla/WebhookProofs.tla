--------------------------- MODULE WebhookProofs ----------------------------
(***************************************************************************)
(* Whatever happens on GitHub, and however its payloads are delivered, the *)
(* controller only does what Controller.tla says: Webhooks.tla implements  *)
(* it, step by step.  What was proved of the controller holds therefore of *)
(* the composition, for every repository and every delivery.               *)
(* And payloads only undeploy the builds of pull requests that were closed,*)
(* all of those that the close found, and build every head.                *)
(***************************************************************************)
EXTENDS WebhookProperties, SettledProofs

LEMMA DeployCommitOfStep ==
  ASSUME NEW c \in Clients, NEW info, DeployCommitOf(c, info)
  PROVE  [Next]_vars
<1>1. CASE UNCHANGED vars
  BY <1>1
<1>2. ASSUME NEW b \in Builds, DeployCommit(c, b)
      PROVE  [Next]_vars
  BY <1>2 DEF Next, ClientRequest
<1> QED
  BY <1>1, <1>2 DEF DeployCommitOf

LEMMA UndeployBuildsOfStep ==
  ASSUME NEW c \in Clients, NEW pr, UndeployBuildsOf(c, pr)
  PROVE  [Next]_vars
<1>1. CASE UNCHANGED vars
  BY <1>1
<1>2. CASE BuildsOfPull(pr) # {} /\ UndeployBuilds(c, pr)
  <2>1. pr \in {Info[b].pr : b \in Builds}
    BY <1>2 DEF BuildsOfPull, Names
  <2> QED
    BY <1>2, <2>1 DEF Next, ClientRequest
<1> QED
  BY <1>1, <1>2 DEF UndeployBuildsOf

LEMMA DeliverStep ==
  ASSUME NEW c \in Clients, Deliver(c)
  PROVE  [Next]_vars
<1> PICK d \in deliveries : ReceivePayload(c, d)
  BY DEF Deliver
<1>1. CASE ReceivePullRequest(c, d)
  <2>1. CASE UNCHANGED vars
    BY <2>1
  <2>2. CASE DeployCommitOf(c, PullCommit(d.number, d.sha))
    BY <2>2, DeployCommitOfStep
  <2>3. CASE UndeployBuildsOf(c, d.number)
    BY <2>3, UndeployBuildsOfStep
  <2> QED
    BY <1>1, <2>1, <2>2, <2>3 DEF ReceivePullRequest
<1>2. CASE ReceivePush(c, d)
  BY <1>2, DeployCommitOfStep DEF ReceivePush
<1>3. CASE DeployCommitOf(c, d.info)
  BY <1>3, DeployCommitOfStep
<1> QED
  BY <1>1, <1>2, <1>3 DEF ReceivePayload

LEMMA GitHubStep ==
  ASSUME \/ GitHubEvent
         \/ \E ref \in Refs : TriggerBranch(ref)
         \/ \E n \in Pulls : TriggerPull(n)
  PROVE  UNCHANGED vars
<1>1. ASSUME NEW payload, Sends(payload)
      PROVE  UNCHANGED vars
  BY <1>1 DEF Sends
<1>2. ASSUME NEW info, Trigger(info)
      PROVE  UNCHANGED vars
  BY <1>2 DEF Trigger
<1> QED
  BY <1>1, <1>2 DEF GitHubEvent, Push, PullRequest, TriggerBranch, TriggerPull

LEMMA WebhookStep ==
  ASSUME [WebhookNext]_allVars
  PROVE  [Next]_vars
<1>1. CASE Background
  BY <1>1 DEF Next
<1>2. ASSUME NEW c \in Clients, Deliver(c)
      PROVE  [Next]_vars
  BY <1>2, DeliverStep
<1>3. ASSUME NEW c \in Clients, NEW b \in Builds, Reset(c, b)
      PROVE  [Next]_vars
  BY <1>3 DEF Reset, Next, ClientRequest
<1>4. CASE \/ GitHubEvent
           \/ \E ref \in Refs : TriggerBranch(ref)
           \/ \E n \in Pulls : TriggerPull(n)
  BY <1>4, GitHubStep
<1>5. CASE UNCHANGED allVars
  BY <1>5 DEF allVars
<1> QED
  BY <1>1, <1>2, <1>3, <1>4, <1>5 DEF WebhookNext

\* The composition implements the controller that has started: a payload, a
\* trigger or a reset is a request of one of its clients, or changes nothing
\* there.
THEOREM WebhooksImplementController == WebhookSpec => StartedSpec
<1>1. WebhookInit => StartedInit
  BY DEF WebhookInit
<1>2. [WebhookNext]_allVars => [Next]_vars
  BY WebhookStep
<1> QED
  BY <1>1, <1>2, PTL DEF WebhookSpec, StartedSpec

\* Payloads that come out of order, late or repeated never make the cleaner
\* work on a live build, as long as no reset is asked for.
THEOREM WebhooksNeverCleanUpAlive ==
  ASSUME "reset" \notin ClientOps
  PROVE  WebhookSpec => []NoLiveCleanup
<1>1. WebhookInit => CleanupInv
  BY StartedCleanupInv DEF WebhookInit
<1>2. CleanupInv /\ [WebhookNext]_allVars => CleanupInv'
  BY WebhookStep, CleanupStep
<1>3. CleanupInv => NoLiveCleanup
  BY DEF CleanupInv, FateInv, JobsDoomed, Doomed, NoLiveCleanup, Live
<1> QED
  BY <1>1, <1>2, <1>3, PTL DEF WebhookSpec

\* Neither do they make the controller run or mark a build against what its
\* jobs did, or GitHub show an outcome of a commit that is not the one of the
\* build that posted it, also when a branch and a pull request share the commit.
THEOREM WebhooksKeepBuildsSound ==
  ASSUME "reset" \notin ClientOps
  PROVE  WebhookSpec => [](RunningIsInitialized /\ InitializedHasDatabase /\ StatusTruthful)
<1>1. WebhookInit => LifeInv
  BY StartedCleanupInv, BlankLife DEF WebhookInit, StartedInit
<1>2. LifeInv /\ [WebhookNext]_allVars => LifeInv'
  BY WebhookStep, LifeStep
<1>3. LifeInv => RunningIsInitialized /\ InitializedHasDatabase /\ StatusTruthful
  BY LiveSound
<1> QED
  BY <1>1, <1>2, <1>3, PTL DEF WebhookSpec

(***************************************************************************)
(* A payload only undeploys the builds of a pull request that was closed,  *)
(* evictions left aside and resets included.  The close is remembered by   *)
(* GitHub alone: what it led to travels as a payload, a call of a client,  *)
(* a deployment that is being deleted, an event, a row, a list of the      *)
(* cleaner, a job and its events, and so to the calls that remove things.  *)
(* The invariant says of each of these places that what it holds is about  *)
(* a build whose pull request was closed; and that whatever else is held   *)
(* is about a build that was deployed, since job_watcher removes what is   *)
(* left of a build whose deployment it does not find.                      *)
(***************************************************************************)
Closed == {b \in Builds : Info[b].pr \in Pulls /\ pulls[Info[b].pr].wasClosed}

Undoes(c) == c.op \in {"delete", "purge", "unfinalize"}

ClosedSnapshots ==
  {s \in Snapshots : /\ s.row.status # "absent" => s.build \notin Unborn
                     /\ s.row.status = "undeploying" => s.build \in Closed}

ClosedLists(t) ==
  {s \in ClosedSnapshots : /\ s.build \notin Unborn
                           /\ t = "cleaner" => s.build \in Closed}

ClosedJobEvents ==
  {e \in JobEvents : /\ e.build \notin Unborn
                     /\ e.kind = "cleanup" => e.build \in Closed}

ClosedCalls ==
  {c \in Calls : /\ Undoes(c) \/ IsCleanup(c) => c.build \in Closed
                 /\ c.op = "apply" /\ c.mode \in JobKinds => c.build \notin Unborn}

LookupClosed ==
  lookup.busy =>
    /\ [build |-> Head(jobEvents).build, row |-> lookup.row] \in ClosedSnapshots
    /\ lookup.row.status = "absent" => Head(jobEvents).build \in Closed

JobsClosed ==
  \A b \in Builds : \A k \in JobKinds :
    jobs[b][k] # "none" => /\ b \notin Unborn
                           /\ k = "cleanup" => b \in Closed

PlacesClosed ==
  /\ Doomed \subseteq Closed
  /\ \A b \in Builds : [build |-> b, row |-> db[b]] \in ClosedSnapshots
  /\ deplEvents \in Seq(ClosedSnapshots)
  /\ \A t \in Tasks : todo[t] \in Seq(ClosedLists(t))
  /\ jobEvents \in Seq(ClosedJobEvents)
  /\ calls \in [Actors -> Seq(ClosedCalls)]
  /\ JobsClosed
  /\ LookupClosed

PullStates ==
  [state : {"none", "open", "closed"}, head : Commits \union {NoCommit}, wasClosed : BOOLEAN]

PayloadsTrue ==
  \A d \in deliveries : d.event = "pull_request" /\ d.action = "closed" =>
    d.number \in Pulls /\ pulls[d.number].wasClosed

ClosedInv ==
  /\ TypeInv
  /\ "undeployer" \notin Tasks
  /\ pulls \in [Pulls -> PullStates]
  /\ PayloadsTrue
  /\ PlacesClosed

\* A pull request stays one that was closed, and a build that was deployed
\* one that was.
Keeps == Closed \subseteq Closed' /\ Unborn' \subseteq Unborn

LEMMA ClosedParts ==
  ASSUME ClosedInv
  PROVE  /\ TypeOK /\ ClusterTypeOK /\ LookupOfEvent
         /\ deployments \in [Builds -> Deployments]
         /\ jobs \in [Builds -> [JobKinds -> JobStates]]
         /\ db \in [Builds -> Rows]
         /\ PlacesClosed /\ JobsClosed /\ LookupClosed
BY DEF ClosedInv, TypeInv, TypeOK, ClusterTypeOK, PlacesClosed, Tables

LEMMA ClosedGrows ==
  ASSUME Keeps
  PROVE  /\ ClosedSnapshots \subseteq ClosedSnapshots'
         /\ \A t \in Tasks : ClosedLists(t) \subseteq ClosedLists(t)'
         /\ ClosedJobEvents \subseteq ClosedJobEvents'
         /\ ClosedCalls \subseteq ClosedCalls'
<1>1. ClosedSnapshots \subseteq ClosedSnapshots'
  BY DEF Keeps, ClosedSnapshots
<1>2. \A t \in Tasks : ClosedLists(t) \subseteq ClosedLists(t)'
  BY <1>1 DEF Keeps, ClosedLists
<1>3. ClosedJobEvents \subseteq ClosedJobEvents'
  BY DEF Keeps, ClosedJobEvents
<1>4. ClosedCalls \subseteq ClosedCalls'
  BY DEF Keeps, ClosedCalls
<1> QED
  BY <1>1, <1>2, <1>3, <1>4

\* The places that a step does not write to.
LEMMA ClosedFrame ==
  ASSUME ClosedInv, Keeps
  PROVE  /\ db' = db => \A b \in Builds : [build |-> b, row |-> db'[b]] \in ClosedSnapshots'
         /\ deplEvents' = deplEvents => deplEvents' \in Seq(ClosedSnapshots')
         /\ todo' = todo => \A t \in Tasks : todo'[t] \in Seq(ClosedLists(t)')
         /\ jobEvents' = jobEvents => jobEvents' \in Seq(ClosedJobEvents')
         /\ calls' = calls => calls' \in [Actors -> Seq(ClosedCalls')]
         /\ jobs' = jobs => JobsClosed'
         /\ lookup' = lookup /\ JobEventsGrow => LookupClosed'
<1>1. /\ ClosedSnapshots \subseteq ClosedSnapshots'
      /\ \A t \in Tasks : ClosedLists(t) \subseteq ClosedLists(t)'
      /\ ClosedJobEvents \subseteq ClosedJobEvents'
      /\ ClosedCalls \subseteq ClosedCalls'
  BY ClosedGrows
<1>2. PlacesClosed /\ LookupClosed /\ LookupOfEvent /\ JobsClosed /\ ClusterTypeOK
  BY ClosedParts
<1>3. db' = db => \A b \in Builds : [build |-> b, row |-> db'[b]] \in ClosedSnapshots'
  BY <1>1, <1>2 DEF PlacesClosed
<1>4. deplEvents' = deplEvents => deplEvents' \in Seq(ClosedSnapshots')
  <2>1. deplEvents \in Seq(ClosedSnapshots')
    BY <1>1, <1>2, SeqMono DEF PlacesClosed
  <2> QED
    BY <2>1
<1>5. jobEvents' = jobEvents => jobEvents' \in Seq(ClosedJobEvents')
  <2>1. jobEvents \in Seq(ClosedJobEvents')
    BY <1>1, <1>2, SeqMono DEF PlacesClosed
  <2> QED
    BY <2>1
<1>6. ASSUME todo' = todo, NEW t \in Tasks
      PROVE  todo'[t] \in Seq(ClosedLists(t)')
  <2>1. todo[t] \in Seq(ClosedLists(t)) /\ ClosedLists(t) \subseteq ClosedLists(t)'
    BY <1>1, <1>2 DEF PlacesClosed
  <2>2. todo[t] \in Seq(ClosedLists(t)')
    BY <2>1, SeqMono
  <2> QED
    BY <1>6, <2>2
<1>7. calls' = calls => calls' \in [Actors -> Seq(ClosedCalls')]
  <2>1. Seq(ClosedCalls) \subseteq Seq(ClosedCalls')
    BY <1>1, SeqMono
  <2> QED
    BY <1>2, <2>1 DEF PlacesClosed
<1>8. jobs' = jobs => JobsClosed'
  BY <1>2 DEF JobsClosed, Keeps
<1>9. lookup' = lookup /\ JobEventsGrow => LookupClosed'
  <2>1. ASSUME lookup' = lookup, JobEventsGrow, lookup.busy
        PROVE  /\ [build |-> Head(jobEvents').build, row |-> lookup.row] \in ClosedSnapshots'
               /\ lookup.row.status = "absent" => Head(jobEvents').build \in Closed'
    <3>1. jobEvents # << >> /\ Head(jobEvents') = Head(jobEvents)
      BY <1>2, <2>1 DEF LookupOfEvent, JobEventsGrow
    <3> QED
      BY <1>1, <1>2, <2>1, <3>1 DEF LookupClosed, Keeps
  <2> QED
    BY <2>1 DEF LookupClosed
<1> QED
  BY <1>3, <1>4, <1>5, <1>6, <1>7, <1>8, <1>9

(***************************************************************************)
(* What a call and a step of the cluster do to builds and jobs, resets     *)
(* included.                                                               *)
(***************************************************************************)
JobTold ==
  \/ jobEvents' = jobEvents
  \/ \E b \in Builds : \E k \in JobKinds :
       /\ jobs'[b][k] \in JobStates \ {"none"}
       /\ jobEvents' = Append(jobEvents, [build |-> b, kind |-> k, state |-> jobs'[b][k]])

LEMMA SetJobTold ==
  ASSUME ClusterTypeOK, NEW b \in Builds, NEW kind \in JobKinds, NEW state \in JobStates,
         SetJob(b, kind, state)
  PROVE  /\ JobTold
         /\ \A o \in Builds : \A k \in JobKinds :
              jobs'[o][k] = IF o = b /\ k = kind THEN state ELSE jobs[o][k]
<1>1. jobs \in [Builds -> [JobKinds -> JobStates]]
  BY DEF ClusterTypeOK
<1>2. jobs' = [jobs EXCEPT ![b][kind] = state]
  BY DEF SetJob
<1>3. \A o \in Builds : \A k \in JobKinds :
        jobs'[o][k] = IF o = b /\ k = kind THEN state ELSE jobs[o][k]
  BY <1>1, <1>2
<1>4. JobTold
  BY <1>3 DEF SetJob, JobTold
<1> QED
  BY <1>3, <1>4

LEMMA SetDeploymentUndoes ==
  ASSUME ClusterTypeOK, NEW b \in Builds, NEW d \in Deployments, SetDeployment(b, d),
         d.phase = "unborn" => b \in Unborn
  PROVE  /\ Unborn' \subseteq Unborn
         /\ Fresh
         /\ \A k \in Doomed' : k \in Doomed \/ (k = b /\ d.phase \in {"deleting", "gone"})
<1>1. deployments \in [Builds -> Deployments]
  BY DEF ClusterTypeOK
<1>2. deployments' = [deployments EXCEPT ![b] = d] /\ Fresh
  BY SetDeploymentFresh
<1>3. \A k \in Builds : deployments'[k] = IF k = b THEN d ELSE deployments[k]
  BY <1>1, <1>2
<1> QED
  BY <1>2, <1>3 DEF Unborn, Doomed

LEMMA PerformUndoes ==
  ASSUME ClusterTypeOK, NEW c \in Calls, Perform(c)
  PROVE  /\ Unborn' \subseteq Unborn
         /\ Fresh
         /\ \A k \in Doomed' : k \in Doomed \/ (Undoes(c) /\ k = c.build)
<1> DEFINE b == c.build
           d == deployments[b]
<1>1. b \in Builds /\ d \in Deployments /\ now \in Nat
  BY CallFields DEF ClusterTypeOK
<1>2. CASE UNCHANGED << deployments, deplEvents >>
  BY <1>2 DEF Unborn, Doomed, Fresh
<1>3. ASSUME NEW e \in Deployments, SetDeployment(b, e), e.phase = d.phase \/ e.phase = "live"
      PROVE  /\ Unborn' \subseteq Unborn
             /\ Fresh
             /\ Doomed' \subseteq Doomed
  <2>1. e.phase = "unborn" => b \in Unborn
    BY <1>1, <1>3 DEF Unborn
  <2>2. e.phase \in {"deleting", "gone"} => b \in Doomed
    BY <1>1, <1>3 DEF Doomed
  <2> QED
    BY <1>1, <1>3, <2>1, <2>2, SetDeploymentUndoes
<1>4. CASE ApplyDeployment(c)
  <2>1. CASE Present(d)
    <3> DEFINE e == [d EXCEPT !.init = "todo", !.replicas = 0, !.finalizer = TRUE]
    <3>1. e \in Deployments /\ e.phase = d.phase
      BY <1>1 DEF Deployments, BuildInitStatus
    <3>2. SetDeployment(b, e)
      BY <1>4, <2>1 DEF ApplyDeployment
    <3> QED
      BY <1>3, <3>1, <3>2
  <2>2. CASE ~Present(d)
    <3> DEFINE e == [phase |-> "live", init |-> "todo", replicas |-> 0, running |-> FALSE,
                     finalizer |-> TRUE, created |-> now, scaled |-> now]
    <3>1. e \in Deployments /\ e.phase = "live"
      BY <1>1 DEF Deployments, BuildInitStatus, Phases
    <3>2. SetDeployment(b, e)
      BY <1>4, <2>2 DEF ApplyDeployment
    <3> QED
      BY <1>3, <3>1, <3>2
  <2> QED
    BY <2>1, <2>2
<1>5. CASE PatchDeployment(c)
  <2>1. CASE Present(d)
    <3> DEFINE e == [d EXCEPT !.init = IF c.init = "keep" THEN @ ELSE c.init,
                             !.replicas = IF c.replicas = Keep THEN @ ELSE c.replicas,
                             !.scaled = IF c.replicas = Keep THEN @ ELSE now]
    <3>1. c.init \in BuildInitStatus \union {"keep"} /\ c.replicas \in {Keep, 0, 1}
      BY <1>5, CallFields DEF PatchDeployment
    <3>2. e \in Deployments /\ e.phase = d.phase
      BY <1>1, <3>1 DEF Deployments, Keep
    <3>3. SetDeployment(b, e)
      BY <1>5, <2>1 DEF PatchDeployment
    <3> QED
      BY <1>3, <3>2, <3>3
  <2>2. CASE ~Present(d)
    BY <1>2, <1>5, <2>2 DEF PatchDeployment
  <2> QED
    BY <2>1, <2>2
<1>6. ASSUME NEW f \in Deployments, f.phase = d.phase, SetDeployment(b, Deleted(f)), Undoes(c)
      PROVE  /\ Unborn' \subseteq Unborn
             /\ Fresh
             /\ \A k \in Doomed' : k \in Doomed \/ (Undoes(c) /\ k = b)
  <2>1. Deleted(f) \in Deployments
    BY <1>6, DeploymentType
  <2>2. Deleted(f).phase = "unborn" => b \in Unborn
    BY <1>1, <1>6 DEF Deleted, Unborn, NoDeployment, Deployments
  <2> QED
    BY <1>1, <1>6, <2>1, <2>2, SetDeploymentUndoes
<1>7. CASE DeleteDeployment(c) \/ DeleteResources(c)
  <2>1. SetDeployment(b, Deleted(d)) /\ Undoes(c)
    BY <1>7 DEF DeleteDeployment, DeleteResources, Undoes
  <2> QED
    BY <1>1, <1>6, <2>1
<1>8. CASE RemoveFinalizers(c)
  <2>1. CASE Present(d)
    <3> DEFINE f == [d EXCEPT !.finalizer = FALSE]
    <3>1. f \in Deployments /\ f.phase = d.phase
      BY <1>1 DEF Deployments
    <3>2. SetDeployment(b, Deleted(f)) /\ Undoes(c)
      BY <1>8, <2>1 DEF RemoveFinalizers, Undoes
    <3> HIDE DEF f
    <3> QED
      BY <1>6, <3>1, <3>2
  <2>2. CASE ~Present(d)
    BY <1>2, <1>8, <2>2 DEF RemoveFinalizers
  <2> QED
    BY <2>1, <2>2
<1> QED
  BY <1>2, <1>4, <1>5, <1>7, <1>8 DEF Perform, ApplyJob, ApplyOthers, KillJob, NotifyStatus

\* A job comes from the call that launches it, and what the watch of jobs is
\* told is what the job has become.
LEMMA PerformLaunches ==
  ASSUME ClusterTypeOK, NEW c \in Calls, Perform(c)
  PROVE  /\ JobTold
         /\ \A b \in Builds : \A k \in JobKinds :
              jobs'[b][k] # "none" =>
                jobs[b][k] # "none" \/ (c.op = "apply" /\ c.mode = k /\ c.build = b)
<1>1. /\ jobs \in [Builds -> [JobKinds -> JobStates]]
      /\ c.build \in Builds
      /\ c.op = "kill" => c.kind \in JobKinds
  BY CallFields DEF ClusterTypeOK
<1>2. CASE UNCHANGED << jobs, jobEvents >>
  BY <1>2 DEF JobTold
<1>3. CASE ApplyJob(c) /\ jobs[c.build][c.mode] = "none"
  <2>1. c.op = "apply" /\ c.mode \in JobKinds /\ SetJob(c.build, c.mode, "active")
    BY <1>3 DEF ApplyJob
  <2> QED
    BY <1>1, <2>1, SetJobTold DEF JobStates
<1>4. CASE KillJob(c)
  <2>1. c.kind \in JobKinds /\ SetJob(c.build, c.kind, "none")
    BY <1>1, <1>4 DEF KillJob
  <2> QED
    BY <1>1, <2>1, SetJobTold DEF JobStates
<1>5. CASE DeleteResources(c)
  <2>1. jobs' = [jobs EXCEPT ![c.build] = [k \in JobKinds |-> "none"]] /\ jobEvents' = jobEvents
    BY <1>5 DEF DeleteResources
  <2>2. \A b \in Builds : \A k \in JobKinds : jobs'[b][k] \in {"none", jobs[b][k]}
    BY <1>1, <2>1
  <2> QED
    BY <2>1, <2>2 DEF JobTold
<1> QED
  BY <1>2, <1>3, <1>4, <1>5
     DEF Perform, ApplyDeployment, ApplyJob, ApplyOthers, PatchDeployment, RemoveFinalizers,
         DeleteDeployment, NotifyStatus

LEMMA EnvironmentUndoes ==
  ASSUME ClusterTypeOK, Environment
  PROVE  /\ Unborn' = Unborn /\ Doomed' = Doomed
         /\ Fresh /\ JobTold
         /\ \A b \in Builds : \A k \in JobKinds : jobs'[b][k] # "none" => jobs[b][k] # "none"
<1>1. CASE \E b \in Builds : Scale(b)
  <2>1. PICK b \in Builds : Scale(b)
    BY <1>1
  <2> DEFINE e == [deployments[b] EXCEPT !.running = ~@]
  <2>2. deployments \in [Builds -> Deployments] /\ UNCHANGED << jobs, jobEvents >>
    BY <2>1 DEF Scale, ClusterTypeOK
  <2>3. e \in Deployments /\ e.phase = deployments[b].phase /\ SetDeployment(b, e)
    BY <2>1, <2>2 DEF Scale, Deployments
  <2>4. Fresh /\ deployments' = [deployments EXCEPT ![b] = e]
    BY <2>3, SetDeploymentFresh
  <2>5. \A k \in Builds : deployments'[k].phase = deployments[k].phase
    BY <2>2, <2>3, <2>4
  <2> QED
    BY <2>2, <2>4, <2>5 DEF Unborn, Doomed, JobTold
<1>2. CASE ~\E b \in Builds : Scale(b)
  <2>1. UNCHANGED << deployments, deplEvents >>
    BY <1>2 DEF Environment, InitializeCreatesDatabase, InitializeSucceeds, CleanupSucceeds,
                JobFails, Tick, cluster, watches
  <2>2. \/ UNCHANGED << jobs, jobEvents >>
        \/ \E b \in Builds, kind \in JobKinds, state \in JobStates :
             SetJob(b, kind, state) /\ jobs[b][kind] = "active"
    BY <1>2 DEF Environment, InitializeCreatesDatabase, InitializeSucceeds, CleanupSucceeds,
                JobFails, Tick, cluster, watches, JobKinds, JobStates
  <2>3. JobTold /\ \A b \in Builds : \A k \in JobKinds : jobs'[b][k] # "none" => jobs[b][k] # "none"
    <3>1. CASE UNCHANGED << jobs, jobEvents >>
      BY <3>1 DEF JobTold
    <3>2. ASSUME NEW b \in Builds, NEW kind \in JobKinds, NEW state \in JobStates,
                 SetJob(b, kind, state), jobs[b][kind] = "active"
          PROVE  JobTold /\ \A o \in Builds : \A k \in JobKinds :
                              jobs'[o][k] # "none" => jobs[o][k] # "none"
      BY <3>2, SetJobTold
    <3> QED
      BY <2>2, <3>1, <3>2
  <2> QED
    BY <2>1, <2>3 DEF Unborn, Doomed, Fresh
<1> QED
  BY <1>1, <1>2

(***************************************************************************)
(* What is new in a place fits it.                                         *)
(***************************************************************************)
LEMMA RowClosed ==
  ASSUME Doomed' \subseteq Closed', NEW b \in Builds, deployments'[b] \in Deployments
  PROVE  [build |-> b, row |-> RowOf(deployments'[b])] \in ClosedSnapshots'
<1> DEFINE row == RowOf(deployments'[b])
<1>1. row \in Rows /\ (row.status = "undeploying" <=> deployments'[b].phase = "deleting")
  BY RowOfType
<1>2. row.status # "absent" => b \notin Unborn'
  BY DEF RowOf, AbsentRow, Present, Unborn
<1>3. row.status = "undeploying" => b \in Closed'
  BY <1>1 DEF Doomed
<1> HIDE DEF row
<1>4. [build |-> b, row |-> row] \in ClosedSnapshots'
  BY <1>1, <1>2, <1>3 DEF ClosedSnapshots, Snapshots
<1> QED
  BY <1>4 DEF row

LEMMA AbsentClosed ==
  ASSUME NEW b \in Builds
  PROVE  [build |-> b, row |-> AbsentRow] \in ClosedSnapshots'
BY DEF ClosedSnapshots, Snapshots, AbsentRow, Rows, BuildInitStatus

LEMMA EventsClosed ==
  ASSUME ClosedInv, ClusterTypeOK', Keeps, Doomed' \subseteq Closed', Fresh
  PROVE  deplEvents' \in Seq(ClosedSnapshots')
<1>1. CASE deplEvents' = deplEvents
  BY <1>1, ClosedFrame
<1>2. ASSUME NEW b \in Builds,
             deplEvents' = Append(deplEvents, [build |-> b, row |-> RowOf(deployments'[b])])
      PROVE  deplEvents' \in Seq(ClosedSnapshots')
  <2> DEFINE s == [build |-> b, row |-> RowOf(deployments'[b])]
  <2>1. s \in ClosedSnapshots'
    BY RowClosed DEF ClusterTypeOK
  <2>2. deplEvents \in Seq(ClosedSnapshots')
    BY ClosedParts, ClosedGrows, SeqMono DEF PlacesClosed
  <2> HIDE DEF s
  <2> QED
    BY <1>2, <2>1, <2>2 DEF s
<1> QED
  BY <1>1, <1>2 DEF Fresh

LEMMA JobEventsClosed ==
  ASSUME ClosedInv, Keeps, JobTold, JobsClosed'
  PROVE  jobEvents' \in Seq(ClosedJobEvents')
<1>1. CASE jobEvents' = jobEvents
  BY <1>1, ClosedFrame
<1>2. ASSUME NEW b \in Builds, NEW k \in JobKinds, jobs'[b][k] \in JobStates \ {"none"},
             jobEvents' = Append(jobEvents, [build |-> b, kind |-> k, state |-> jobs'[b][k]])
      PROVE  jobEvents' \in Seq(ClosedJobEvents')
  <2> DEFINE e == [build |-> b, kind |-> k, state |-> jobs'[b][k]]
  <2>1. e \in ClosedJobEvents'
    BY <1>2 DEF ClosedJobEvents, JobEvents, JobsClosed
  <2>2. jobEvents \in Seq(ClosedJobEvents')
    BY ClosedParts, ClosedGrows, SeqMono DEF PlacesClosed
  <2> HIDE DEF e
  <2> QED
    BY <1>2, <2>1, <2>2 DEF e
<1> QED
  BY <1>1, <1>2 DEF JobTold

LEMMA CallsClosed ==
  ASSUME ClosedInv, Keeps, NEW a \in Actors, NEW list \in Seq(ClosedCalls),
         calls' = [calls EXCEPT ![a] = list]
  PROVE  calls' \in [Actors -> Seq(ClosedCalls')]
<1>1. calls' \in [Actors -> Seq(ClosedCalls)]
  BY ClosedParts DEF PlacesClosed
<1>2. Seq(ClosedCalls) \subseteq Seq(ClosedCalls')
  BY ClosedGrows, SeqMono
<1> QED
  BY <1>1, <1>2

LEMMA DbAddClosed ==
  ASSUME ClosedInv, Keeps, NEW b \in Builds, NEW row, DbAdd(b, row),
         [build |-> b, row |-> row] \in ClosedSnapshots
  PROVE  \A k \in Builds : [build |-> k, row |-> db'[k]] \in ClosedSnapshots'
<1>1. \A k \in Builds : db'[k] = db[k] \/ (k = b /\ db'[k] = row)
  BY ClosedParts DEF DbAdd, Put
<1>2. \A k \in Builds : [build |-> k, row |-> db[k]] \in ClosedSnapshots
  BY ClosedParts DEF PlacesClosed
<1> QED
  BY <1>1, <1>2, ClosedGrows

(***************************************************************************)
(* The calls of the methods.                                               *)
(***************************************************************************)
LEMMA ClosedCallTypes ==
  ASSUME NEW b \in Builds
  PROVE  /\ \A mode \in Modes \ JobKinds : Apply(b, mode) \in ClosedCalls
         /\ b \notin Unborn => Apply(b, "initialize") \in ClosedCalls
         /\ b \notin Unborn /\ b \in Closed => Apply(b, "cleanup") \in ClosedCalls
         /\ b \in Closed => /\ Delete(b) \in ClosedCalls
                            /\ Purge(b) \in ClosedCalls
                            /\ Unfinalize(b) \in ClosedCalls
         /\ \A kind \in JobKinds : Kill(b, kind) \in ClosedCalls
         /\ \A state \in GitHubStates : Notify(b, state) \in ClosedCalls
         /\ \A c \in Calls : c.op = "patch" => c \in ClosedCalls
<1>1. /\ \A mode \in Modes : Apply(b, mode) \in Calls
      /\ Delete(b) \in Calls /\ Purge(b) \in Calls /\ Unfinalize(b) \in Calls
      /\ \A kind \in JobKinds : Kill(b, kind) \in Calls
      /\ \A state \in GitHubStates : Notify(b, state) \in Calls
  BY CallTypes DEF Benign
<1>2. \A mode \in Modes \ JobKinds : Apply(b, mode) \in ClosedCalls
  BY <1>1 DEF ClosedCalls, Apply, Undoes, IsCleanup, JobKinds
<1>3. b \notin Unborn => Apply(b, "initialize") \in ClosedCalls
  BY <1>1 DEF ClosedCalls, Apply, Undoes, IsCleanup, Modes
<1>4. b \notin Unborn /\ b \in Closed => Apply(b, "cleanup") \in ClosedCalls
  BY <1>1 DEF ClosedCalls, Apply, Undoes, IsCleanup, Modes
<1>5. b \in Closed => Delete(b) \in ClosedCalls /\ Purge(b) \in ClosedCalls /\ Unfinalize(b) \in ClosedCalls
  BY <1>1 DEF ClosedCalls, Delete, Purge, Unfinalize, IsCleanup
<1>6. \A kind \in JobKinds : Kill(b, kind) \in ClosedCalls
  BY <1>1 DEF ClosedCalls, Kill, Undoes, IsCleanup
<1>7. \A state \in GitHubStates : Notify(b, state) \in ClosedCalls
  BY <1>1 DEF ClosedCalls, Notify, Undoes, IsCleanup
<1>8. \A c \in Calls : c.op = "patch" => c \in ClosedCalls
  BY DEF ClosedCalls, Undoes, IsCleanup
<1> QED
  BY <1>2, <1>3, <1>4, <1>5, <1>6, <1>7, <1>8

LEMMA JobCallsClosed ==
  ASSUME NEW e \in ClosedJobEvents, NEW row \in Rows
  PROVE  OnJobEvent(e.build, row, e.kind, e.state) \in Seq(ClosedCalls)
<1> DEFINE list == OnJobEvent(e.build, row, e.kind, e.state)
<1>1. e.build \in Builds /\ e.kind \in JobKinds /\ e.state \in JobStates \ {"none"}
  BY DEF ClosedJobEvents, JobEvents
<1>2. << >> \in Seq(ClosedCalls) /\ \A c, d, f \in ClosedCalls :
        << c, d >> \in Seq(ClosedCalls) /\ << c, d, f >> \in Seq(ClosedCalls)
  OBVIOUS
<1>3. /\ Apply(e.build, "stop") \in ClosedCalls
      /\ \A state \in GitHubStates : Notify(e.build, state) \in ClosedCalls
      /\ \A c \in Calls : c.op = "patch" => c \in ClosedCalls
      /\ e.build \in Closed => Purge(e.build) \in ClosedCalls /\ Unfinalize(e.build) \in ClosedCalls
  BY <1>1, ClosedCallTypes DEF Modes, JobKinds
<1>4. "pending" \in GitHubStates /\ \A report \in DOMAIN Reports : report \in GitHubStates
  BY DEF Reports, GitHubStates
<1>5. CASE list = << >>
  BY <1>2, <1>5
<1>6. CASE \E c \in Calls : Marks(c, e.build, "started") /\ list = << c, Notify(e.build, "pending") >>
  BY <1>2, <1>3, <1>4, <1>6 DEF Marks
<1>7. CASE \E c \in Calls, report \in DOMAIN Reports :
             /\ Marks(c, e.build, e.state)
             /\ list = << Apply(e.build, "stop"), c, Notify(e.build, report) >>
  BY <1>2, <1>3, <1>4, <1>7 DEF Marks
<1>8. CASE e.kind = "cleanup" /\ list = << Purge(e.build), Unfinalize(e.build) >>
  BY <1>2, <1>3, <1>8 DEF ClosedJobEvents
<1> QED
  BY <1>1, <1>5, <1>6, <1>7, <1>8, OnJobEventShape

LEMMA TaskCallsClosed ==
  ASSUME NEW t \in Tasks, t # "undeployer", NEW s \in ClosedLists(t)
  PROVE  MethodOf(t, s.build, s.row) \in Seq(ClosedCalls)
<1> DEFINE b == s.build
           row == s.row
<1>1. b \in Builds /\ row \in Rows /\ b \notin Unborn /\ (t = "cleaner" => b \in Closed)
  BY DEF ClosedLists, ClosedSnapshots, Snapshots
<1>2. << >> \in Seq(ClosedCalls) /\ \A c, d \in ClosedCalls :
        << c >> \in Seq(ClosedCalls) /\ << c, d >> \in Seq(ClosedCalls)
  OBVIOUS
<1>3. /\ Apply(b, "stop") \in ClosedCalls /\ Apply(b, "initialize") \in ClosedCalls
      /\ Kill(b, "initialize") \in ClosedCalls
      /\ \A c \in Calls : c.op = "patch" => c \in ClosedCalls
      /\ t = "cleaner" => /\ Apply(b, "cleanup") \in ClosedCalls
                          /\ Purge(b) \in ClosedCalls /\ Unfinalize(b) \in ClosedCalls
  BY <1>1, ClosedCallTypes DEF Modes, JobKinds
<1>4. /\ Patch(b, row, "keep", 0, FALSE) \in Seq(ClosedCalls)
      /\ Patch(b, row, "keep", 0, TRUE) \in Seq(ClosedCalls)
  <2>1. Scales(b, 0) \subseteq ClosedCalls
    BY <1>3 DEF Scales
  <2> QED
    BY <1>1, <2>1, ScalePatch, SeqMono
<1>5. CASE t = "cleaner"
  <2>1. DeleteDeploymentResources(b) \in Seq(ClosedCalls)
    BY <1>2, <1>3, <1>5 DEF DeleteDeploymentResources
  <2>2. << Kill(b, "initialize") >> \o Patch(b, row, "keep", 0, TRUE) \in Seq(ClosedCalls)
    BY <1>2, <1>3, <1>4, ConcatProperties
  <2>3. (<< Kill(b, "initialize") >> \o Patch(b, row, "keep", 0, TRUE)) \o << Apply(b, "cleanup") >>
          \in Seq(ClosedCalls)
    BY <1>2, <1>3, <1>5, <2>2, ConcatProperties
  <2> QED
    BY <1>5, <2>1, <2>3 DEF MethodOf, Cleanup
<1>6. CASE t = "initializer"
  BY <1>2, <1>3, <1>6 DEF MethodOf, Initialize
<1>7. CASE t = "stopper"
  <2>1. Patch(b, row, "keep", 0, FALSE) \o << Apply(b, "stop") >> \in Seq(ClosedCalls)
    BY <1>2, <1>3, <1>4, ConcatProperties
  <2> QED
    BY <1>2, <1>7, <2>1 DEF MethodOf, Stop
<1> QED
  BY <1>5, <1>6, <1>7, TasksAssumption

(***************************************************************************)
(* The actions of the controller and its cluster.                          *)
(***************************************************************************)
LEMMA KeepsSame ==
  ASSUME ClosedInv, UNCHANGED << pulls, deployments >>
  PROVE  /\ Keeps /\ Closed' = Closed /\ Unborn' = Unborn
         /\ Doomed' \subseteq Closed'
<1>1. Closed' = Closed /\ Unborn' = Unborn /\ Doomed' = Doomed
  BY DEF Closed, Unborn, Doomed
<1> QED
  BY <1>1, ClosedParts DEF Keeps, PlacesClosed

LEMMA DeploymentWatcherClosed ==
  ASSUME ClosedInv, TypeOK', UNCHANGED pulls, DeploymentWatcher
  PROVE  PlacesClosed'
<1>1. /\ UNCHANGED << deployments, jobs, jobWatch, jobEvents, lookup, todo, calls >>
  BY DEF DeploymentWatcher, StartDeploymentWatch, ListDeployments, HandleDeployment, cluster,
         controller
<1>2. Keeps /\ JobEventsGrow /\ Doomed' \subseteq Closed'
  BY <1>1, KeepsSame, SameJobEvents
<1> SUFFICES /\ \A b \in Builds : [build |-> b, row |-> db'[b]] \in ClosedSnapshots'
             /\ deplEvents' \in Seq(ClosedSnapshots')
  BY <1>1, <1>2, ClosedFrame DEF PlacesClosed
<1>3. \A b \in Builds : deployments'[b] \in Deployments /\ deployments'[b] = deployments[b]
  BY <1>1 DEF TypeOK, ClusterTypeOK
<1>4. CASE StartDeploymentWatch
  BY <1>2, <1>4, ClosedFrame, AbsentClosed DEF StartDeploymentWatch, EmptyTable
<1>5. CASE ListDeployments
  <2> DEFINE S == {b \in Builds : Present(deployments[b])}
             events_(q) == [i \in 1 .. Len(q) |->
                              [build |-> q[i], row |-> RowOf(deployments[q[i]])]]
  <2>1. PICK q \in SetToSeqs(S) : deplEvents' = events_(q)
    BY <1>5 DEF ListDeployments
  <2>2. Len(q) \in Nat /\ \A i \in 1 .. Len(q) : q[i] \in Builds
    <3>1. IsFiniteSet(S)
      BY FS_Subset, BuildsAssumption
    <3> QED
      BY <3>1, SetToSeqsType
  <2>3. \A i \in 1 .. Len(q) :
          [build |-> q[i], row |-> RowOf(deployments[q[i]])] \in ClosedSnapshots'
    BY <1>2, <1>3, <2>2, RowClosed
  <2>4. events_(q) \in Seq(ClosedSnapshots')
    BY <2>2, <2>3
  <2>5. db' = db
    BY <1>5 DEF ListDeployments, controller
  <2> QED
    BY <1>2, <2>1, <2>4, <2>5, ClosedFrame
<1>6. CASE HandleDeployment
  <2> DEFINE e == Head(deplEvents)
  <2>1. deplEvents \in Seq(ClosedSnapshots) /\ deplEvents # << >> /\ deplEvents' = Tail(deplEvents)
    BY <1>6, ClosedParts DEF PlacesClosed, HandleDeployment
  <2>2. e \in ClosedSnapshots /\ deplEvents' \in Seq(ClosedSnapshots)
    BY <2>1
  <2>3. deplEvents' \in Seq(ClosedSnapshots')
    BY <1>2, <2>2, ClosedGrows, SeqMono
  <2>4. e.build \in Builds /\ [build |-> e.build, row |-> e.row] \in ClosedSnapshots
    BY <2>2 DEF ClosedSnapshots, Snapshots
  <2>5. CASE e.row.status = "absent"
    <3>1. \A k \in Builds : db'[k] \in {db[k], AbsentRow}
      BY <1>6, <2>5, ClosedParts DEF HandleDeployment, DbRemove, Drop
    <3>2. \A k \in Builds : [build |-> k, row |-> db[k]] \in ClosedSnapshots'
      BY <1>2, ClosedParts, ClosedGrows DEF PlacesClosed
    <3> QED
      BY <2>3, <3>1, <3>2, AbsentClosed
  <2>6. CASE e.row.status # "absent"
    BY <1>2, <1>6, <2>3, <2>4, <2>6, DbAddClosed DEF HandleDeployment
  <2> QED
    BY <2>5, <2>6
<1> QED
  BY <1>4, <1>5, <1>6 DEF DeploymentWatcher

LEMMA HeadJobEvent ==
  ASSUME ClosedInv, jobEvents # << >>
  PROVE  LET e == Head(jobEvents) IN
         /\ e \in ClosedJobEvents /\ Tail(jobEvents) \in Seq(ClosedJobEvents)
         /\ e.build \in Builds /\ e.build \notin Unborn
         /\ db[e.build] \in Rows
<1>1. jobEvents \in Seq(ClosedJobEvents)
  BY ClosedParts DEF PlacesClosed
<1>2. Head(jobEvents) \in ClosedJobEvents /\ Tail(jobEvents) \in Seq(ClosedJobEvents)
  BY <1>1
<1> QED
  BY <1>2, ClosedParts DEF ClosedJobEvents, JobEvents

LEMMA JobWatchClosed ==
  ASSUME ClosedInv, TypeOK', UNCHANGED pulls, JobWatch
  PROVE  PlacesClosed'
<1>1. UNCHANGED << deployments, jobs, deplEvents, todo >>
  BY DEF JobWatch, StartJobWatch, HandleJob, HandleJobLookup, cluster, controller
<1>2. Keeps /\ Closed' = Closed /\ Unborn' = Unborn /\ Doomed' \subseteq Closed'
  BY <1>1, KeepsSame
<1> SUFFICES /\ \A b \in Builds : [build |-> b, row |-> db'[b]] \in ClosedSnapshots'
             /\ jobEvents' \in Seq(ClosedJobEvents')
             /\ calls' \in [Actors -> Seq(ClosedCalls')]
             /\ LookupClosed'
  BY <1>1, <1>2, ClosedFrame DEF PlacesClosed
<1>3. \A b \in Builds : deployments'[b] \in Deployments /\ deployments'[b] = deployments[b]
  BY <1>1 DEF TypeOK, ClusterTypeOK
<1>4. CASE StartJobWatch
  <2> DEFINE S == {j \in Builds \X JobKinds : jobs[j[1]][j[2]] # "none"}
             events_(q) == [i \in 1 .. Len(q) |->
                [build |-> q[i][1], kind |-> q[i][2], state |-> jobs[q[i][1]][q[i][2]]]]
  <2>1. PICK q \in SetToSeqs(S) : jobEvents' = events_(q)
    BY <1>4 DEF StartJobWatch
  <2>2. Len(q) \in Nat /\ \A i \in 1 .. Len(q) : q[i] \in S
    BY ListedJobs
  <2>3. ASSUME NEW j \in S
        PROVE  [build |-> j[1], kind |-> j[2], state |-> jobs[j[1]][j[2]]] \in ClosedJobEvents'
    <3> DEFINE e == [build |-> j[1], kind |-> j[2], state |-> jobs[j[1]][j[2]]]
    <3>1. j[1] \in Builds /\ j[2] \in JobKinds /\ jobs[j[1]][j[2]] \in JobStates \ {"none"}
      BY ClosedParts
    <3>2. j[1] \notin Unborn /\ (j[2] = "cleanup" => j[1] \in Closed)
      BY <3>1, ClosedParts DEF JobsClosed
    <3>3. e \in JobEvents
      BY <3>1 DEF JobEvents
    <3> QED
      BY <1>2, <3>2, <3>3 DEF ClosedJobEvents
  <2>4. events_(q) \in Seq(ClosedJobEvents')
    BY <2>2, <2>3
  <2>5. UNCHANGED << db, calls, lookup >> /\ ~lookup.busy
    BY <1>4, ClosedParts DEF StartJobWatch, controller, LookupOfEvent
  <2>6. LookupClosed'
    BY <2>5 DEF LookupClosed
  <2> QED
    BY <1>2, <2>1, <2>4, <2>5, <2>6, ClosedFrame
<1>5. CASE HandleJob
  <2> DEFINE e == Head(jobEvents)
             list == OnJobEvent(e.build, db[e.build], e.kind, e.state)
  <2>1. jobEvents # << >> /\ db' = db /\ ~lookup.busy
    BY <1>5 DEF HandleJob, JobWatcherIdle
  <2>2. \A b \in Builds : [build |-> b, row |-> db'[b]] \in ClosedSnapshots'
    BY <1>2, <2>1, ClosedFrame
  <2>3. CASE db[e.build].status # "absent"
    <3>1. /\ calls' = [calls EXCEPT ![JobWatcher] = list] /\ lookup' = lookup
          /\ jobEvents' = Tail(jobEvents)
      BY <1>5, <2>3 DEF HandleJob
    <3>2. list \in Seq(ClosedCalls)
      BY <2>1, HeadJobEvent, JobCallsClosed
    <3>3. calls' \in [Actors -> Seq(ClosedCalls')]
      BY <1>2, <3>1, <3>2, CallsClosed, ActorSets
    <3>4. jobEvents' \in Seq(ClosedJobEvents')
      BY <1>2, <2>1, <3>1, HeadJobEvent, ClosedGrows, SeqMono
    <3>5. LookupClosed'
      BY <2>1, <3>1 DEF LookupClosed
    <3> QED
      BY <2>2, <3>3, <3>4, <3>5
  <2>4. CASE db[e.build].status = "absent"
    <3>1. /\ lookup' = [busy |-> TRUE, row |-> RowOf(deployments[e.build])]
          /\ UNCHANGED << calls, jobEvents >>
      BY <1>5, <2>4 DEF HandleJob
    <3>2. e.build \in Builds /\ e.build \notin Unborn
      BY <2>1, HeadJobEvent
    <3>3. [build |-> e.build, row |-> RowOf(deployments[e.build])] \in ClosedSnapshots'
      BY <1>2, <1>3, <3>2, RowClosed
    <3>4. RowOf(deployments[e.build]).status = "absent" => e.build \in Closed'
      <4>1. deployments[e.build] \in Deployments /\ deployments[e.build].phase # "unborn"
        BY <1>3, <3>2 DEF Unborn
      <4>2. RowOf(deployments[e.build]).status = "absent" => e.build \in Doomed
        BY <3>2, <4>1 DEF RowOf, StatusFromDeployment, Deployments, Present, Phases,
                          BuildInitStatus, Doomed
      <4> QED
        BY <1>2, <4>2, ClosedParts DEF PlacesClosed
    <3>5. LookupClosed'
      BY <3>1, <3>3, <3>4 DEF LookupClosed
    <3> QED
      BY <1>2, <2>2, <3>1, <3>5, ClosedFrame
  <2> QED
    BY <2>3, <2>4
<1>6. CASE HandleJobLookup
  <2> DEFINE e == Head(jobEvents)
             list == OnJobEvent(e.build, lookup.row, e.kind, e.state)
  <2>1. lookup.busy /\ jobEvents # << >> /\ jobEvents' = Tail(jobEvents) /\ lookup' = NoLookup
    BY <1>6, ClosedParts DEF HandleJobLookup, LookupOfEvent
  <2>2. LookupClosed'
    BY <2>1 DEF LookupClosed, NoLookup
  <2>3. jobEvents' \in Seq(ClosedJobEvents')
    BY <1>2, <2>1, HeadJobEvent, ClosedGrows, SeqMono
  <2>4. CASE lookup.row.status = "absent"
    <3>1. calls' = [calls EXCEPT ![JobWatcher] = << Purge(e.build) >>] /\ db' = db
      BY <1>6, <2>4 DEF HandleJobLookup
    <3>2. e.build \in Builds /\ e.build \in Closed
      BY <2>1, <2>4, HeadJobEvent, ClosedParts DEF LookupClosed
    <3>3. Purge(e.build) \in ClosedCalls
      BY <3>2, ClosedCallTypes
    <3>4. << Purge(e.build) >> \in Seq(ClosedCalls)
      BY <3>3
    <3>5. calls' \in [Actors -> Seq(ClosedCalls')]
      BY <1>2, <3>1, <3>4, CallsClosed, ActorSets
    <3> QED
      BY <1>2, <2>2, <2>3, <3>1, <3>5, ClosedFrame
  <2>5. CASE lookup.row.status # "absent"
    <3>1. /\ calls' = [calls EXCEPT ![JobWatcher] = list]
          /\ DbAdd(e.build, lookup.row)
      BY <1>6, <2>5 DEF HandleJobLookup
    <3>2. lookup.row \in Rows
      BY ClosedParts DEF TypeOK, Lookups
    <3>3. list \in Seq(ClosedCalls)
      BY <2>1, <3>2, HeadJobEvent, JobCallsClosed
    <3>4. calls' \in [Actors -> Seq(ClosedCalls')]
      BY <1>2, <3>1, <3>3, CallsClosed, ActorSets
    <3>5. [build |-> e.build, row |-> lookup.row] \in ClosedSnapshots
      BY <2>1, ClosedParts DEF LookupClosed
    <3>6. \A b \in Builds : [build |-> b, row |-> db'[b]] \in ClosedSnapshots'
      BY <1>2, <2>1, <3>1, <3>5, HeadJobEvent, DbAddClosed
    <3> QED
      BY <2>2, <2>3, <3>4, <3>6
  <2> QED
    BY <2>4, <2>5
<1> QED
  BY <1>4, <1>5, <1>6 DEF JobWatch

LEMMA TodoClosed ==
  ASSUME ClosedInv, Keeps, NEW t \in Tasks, NEW list \in Seq(ClosedLists(t)),
         todo' = [todo EXCEPT ![t] = list]
  PROVE  \A u \in Tasks : todo'[u] \in Seq(ClosedLists(u)')
<1>1. todo \in [Tasks -> Seq(Snapshots)] /\ \A u \in Tasks : todo[u] \in Seq(ClosedLists(u))
  BY ClosedParts DEF TypeOK, PlacesClosed
<1>2. ASSUME NEW u \in Tasks
      PROVE  todo'[u] \in Seq(ClosedLists(u)')
  <2>1. todo'[u] = IF u = t THEN list ELSE todo[u]
    BY <1>1
  <2>2. todo'[u] \in Seq(ClosedLists(u))
    BY <1>1, <2>1
  <2>3. ClosedLists(u) \subseteq ClosedLists(u)'
    BY ClosedGrows
  <2> QED
    BY <2>2, <2>3, SeqMono
<1> QED
  BY <1>2

LEMMA TaskClosed ==
  ASSUME ClosedInv, UNCHANGED pulls, NEW t \in Tasks, Pass(t) \/ NextBuild(t)
  PROVE  PlacesClosed'
<1>1. UNCHANGED << clusterVars, db, lookup >>
  BY DEF Pass, NextBuild
<1>2. Keeps /\ JobEventsGrow /\ Doomed' \subseteq Closed'
  BY <1>1, KeepsSame, SameJobEvents DEF clusterVars
<1>3. t \in Actors /\ t # "undeployer" /\ todo[t] \in Seq(ClosedLists(t))
  BY ActorSets, ClosedParts DEF PlacesClosed, ClosedInv
<1> SUFFICES /\ \A u \in Tasks : todo'[u] \in Seq(ClosedLists(u)')
             /\ calls' \in [Actors -> Seq(ClosedCalls')]
  BY <1>1, <1>2, ClosedFrame DEF PlacesClosed, clusterVars
<1>4. CASE Pass(t)
  <2> DEFINE list(q) == [i \in 1 .. Len(q) |-> [build |-> q[i], row |-> db[q[i]]]]
  <2>1. PICK q \in Selections(t) : todo' = [todo EXCEPT ![t] = list(q)]
    BY <1>4 DEF Pass
  <2>2. /\ q \in Seq(Names(db))
        /\ t = "cleaner" => q \in Seq(WithStatus(db, {"undeploying"}))
    BY <2>1, ClosedParts, SelectionsNames, SelectionsType DEF TypeOK
  <2>3. /\ Len(q) \in Nat
        /\ \A i \in 1 .. Len(q) : q[i] \in Names(db)
        /\ t = "cleaner" => \A i \in 1 .. Len(q) : q[i] \in WithStatus(db, {"undeploying"})
    BY <2>2
  <2>4. ASSUME NEW b \in Names(db), t = "cleaner" => b \in WithStatus(db, {"undeploying"})
        PROVE  [build |-> b, row |-> db[b]] \in ClosedLists(t)
    <3> DEFINE s == [build |-> b, row |-> db[b]]
    <3>1. /\ b \in Builds /\ db[b].status # "absent"
          /\ t = "cleaner" => db[b].status = "undeploying"
      BY <2>4 DEF Names, WithStatus
    <3>2. s \in ClosedSnapshots /\ s.build = b /\ s.row = db[b]
      BY <3>1, ClosedParts DEF PlacesClosed
    <3> HIDE DEF s
    <3>3. s \in ClosedLists(t)
      BY <3>1, <3>2 DEF ClosedLists, ClosedSnapshots
    <3> QED
      BY <3>3 DEF s
  <2>5. list(q) \in Seq(ClosedLists(t))
    BY <2>3, <2>4
  <2> HIDE DEF list
  <2>6. \A u \in Tasks : todo'[u] \in Seq(ClosedLists(u)')
    BY <1>2, <2>1, <2>5, TodoClosed
  <2> QED
    BY <1>2, <1>4, <2>6, ClosedFrame DEF Pass
<1>5. CASE NextBuild(t)
  <2> DEFINE s == Head(todo[t])
  <2>1. /\ calls' = [calls EXCEPT ![t] = MethodOf(t, s.build, s.row)]
        /\ todo' = [todo EXCEPT ![t] = Tail(todo[t])]
        /\ todo[t] # << >>
    BY <1>5 DEF NextBuild
  <2>2. s \in ClosedLists(t) /\ Tail(todo[t]) \in Seq(ClosedLists(t))
    BY <1>3, <2>1
  <2>3. MethodOf(t, s.build, s.row) \in Seq(ClosedCalls)
    BY <1>3, <2>2, TaskCallsClosed
  <2>4. calls' \in [Actors -> Seq(ClosedCalls')]
    BY <1>2, <1>3, <2>1, <2>3, CallsClosed
  <2>5. \A u \in Tasks : todo'[u] \in Seq(ClosedLists(u)')
    BY <1>2, <2>1, <2>2, TodoClosed
  <2> QED
    BY <2>4, <2>5
<1> QED
  BY <1>4, <1>5

LEMMA AbortClosed ==
  ASSUME ClosedInv, NEW a \in Actors, calls[a] # << >>, Abort(a),
         UNCHANGED << pulls, deployments, jobs, deplEvents, db, lookup >>
  PROVE  PlacesClosed'
<1>1. Keeps /\ Doomed' \subseteq Closed'
  BY KeepsSame
<1>2. << >> \in Seq(ClosedCalls) /\ << >> \in Seq(ClosedJobEvents')
      /\ \A t \in Tasks : << >> \in Seq(ClosedLists(t))
  OBVIOUS
<1>3. calls' \in [Actors -> Seq(ClosedCalls')]
  BY <1>1, <1>2, CallsClosed DEF Abort
<1>4. \A u \in Tasks : todo'[u] \in Seq(ClosedLists(u)')
  <2>1. CASE a \in Tasks
    BY <1>1, <1>2, <2>1, TodoClosed DEF Abort
  <2>2. CASE a \notin Tasks
    BY <1>1, <2>2, ClosedFrame DEF Abort
  <2> QED
    BY <2>1, <2>2
<1>5. jobEvents' \in Seq(ClosedJobEvents') /\ LookupClosed'
  <2>1. CASE a = JobWatcher
    <3>1. ~lookup.busy
      BY <2>1, ClosedParts DEF LookupOfEvent
    <3> QED
      BY <1>2, <2>1, <3>1 DEF Abort, LookupClosed
  <2>2. CASE a # JobWatcher
    <3>1. UNCHANGED << jobWatch, jobEvents >>
      BY <2>2 DEF Abort
    <3> QED
      BY <1>1, <3>1, SameJobEvents, ClosedFrame
  <2> QED
    BY <2>1, <2>2
<1> QED
  BY <1>1, <1>3, <1>4, <1>5, ClosedFrame DEF PlacesClosed

LEMMA CallClosed ==
  ASSUME ClosedInv, TypeOK', UNCHANGED pulls, NEW a \in Actors, Call(a)
  PROVE  Keeps /\ PlacesClosed'
<1> DEFINE c == Head(calls[a])
<1>1. calls[a] # << >> /\ UNCHANGED << db, lookup >> /\ Closed' = Closed
  BY DEF Call, Closed
<1>2. calls[a] \in Seq(ClosedCalls)
  BY ClosedParts DEF PlacesClosed
<1>3. c \in ClosedCalls /\ c \in Calls /\ Tail(calls[a]) \in Seq(ClosedCalls)
  <2>1. c \in ClosedCalls /\ Tail(calls[a]) \in Seq(ClosedCalls)
    BY <1>1, <1>2
  <2> QED
    BY <2>1 DEF ClosedCalls
<1>4. CASE Raises(c)
  BY <1>1, <1>4, AbortClosed, KeepsSame DEF Call, cluster
<1>5. CASE ~Raises(c)
  <2>1. /\ Perform(c) /\ calls' = [calls EXCEPT ![a] = Tail(calls[a])] /\ todo' = todo
    BY <1>5 DEF Call
  <2>2. /\ Unborn' \subseteq Unborn /\ Fresh /\ JobTold /\ JobEventsGrow
        /\ \A k \in Doomed' : k \in Doomed \/ (Undoes(c) /\ k = c.build)
        /\ \A b \in Builds : \A k \in JobKinds :
             jobs'[b][k] # "none" =>
               jobs[b][k] # "none" \/ (c.op = "apply" /\ c.mode = k /\ c.build = b)
    BY <1>3, <2>1, ClosedParts, PerformUndoes, PerformLaunches, PerformGrows
  <2>3. Keeps /\ Doomed' \subseteq Closed'
    BY <1>1, <1>3, <2>2, ClosedParts DEF Keeps, PlacesClosed, ClosedCalls
  <2>4. JobsClosed'
    <3>1. ASSUME NEW b \in Builds, NEW k \in JobKinds, jobs'[b][k] # "none"
          PROVE  b \notin Unborn /\ (k = "cleanup" => b \in Closed)
      <4>1. CASE jobs[b][k] # "none"
        BY <4>1, ClosedParts DEF JobsClosed
      <4>2. CASE c.op = "apply" /\ c.mode = k /\ c.build = b
        BY <1>3, <4>2 DEF ClosedCalls, IsCleanup
      <4> QED
        BY <2>2, <3>1, <4>1, <4>2
    <3> QED
      BY <1>1, <2>2, <3>1 DEF JobsClosed
  <2>5. ClusterTypeOK'
    BY DEF TypeOK
  <2>6. deplEvents' \in Seq(ClosedSnapshots') /\ jobEvents' \in Seq(ClosedJobEvents')
    BY <2>2, <2>3, <2>4, <2>5, EventsClosed, JobEventsClosed
  <2>7. calls' \in [Actors -> Seq(ClosedCalls')]
    BY <1>3, <2>1, <2>3, CallsClosed
  <2> QED
    BY <1>1, <2>1, <2>2, <2>3, <2>4, <2>6, <2>7, ClosedFrame DEF PlacesClosed
<1> QED
  BY <1>4, <1>5

LEMMA EnvironmentClosed ==
  ASSUME ClosedInv, TypeOK', UNCHANGED << pulls, controller >>, Environment
  PROVE  Keeps /\ PlacesClosed'
<1>1. /\ Unborn' = Unborn /\ Doomed' = Doomed /\ Fresh /\ JobTold /\ JobEventsGrow
      /\ \A b \in Builds : \A k \in JobKinds : jobs'[b][k] # "none" => jobs[b][k] # "none"
  BY ClosedParts, EnvironmentUndoes, EnvironmentGrows
<1>2. Closed' = Closed
  BY DEF Closed
<1>3. Keeps /\ Doomed' \subseteq Closed'
  BY <1>1, <1>2, ClosedParts DEF Keeps, PlacesClosed
<1>4. JobsClosed'
  BY <1>1, <1>2, ClosedParts DEF JobsClosed
<1>5. deplEvents' \in Seq(ClosedSnapshots') /\ jobEvents' \in Seq(ClosedJobEvents')
  BY <1>1, <1>3, <1>4, EventsClosed, JobEventsClosed DEF TypeOK
<1> QED
  BY <1>1, <1>3, <1>4, <1>5, ClosedFrame DEF PlacesClosed, controller

LEMMA FaultsClosed ==
  ASSUME ClosedInv, UNCHANGED pulls, Faults
  PROVE  PlacesClosed'
<1>1. UNCHANGED << deployments, jobs >>
  BY DEF Faults, CallFails, DeploymentWatchBreaks, JobWatchBreaks, ControllerRestarts, cluster
<1>2. Keeps /\ Doomed' \subseteq Closed'
  BY <1>1, KeepsSame
<1>3. /\ << >> \in Seq(ClosedSnapshots') /\ << >> \in Seq(ClosedJobEvents')
      /\ << >> \in Seq(ClosedCalls') /\ \A t \in Tasks : << >> \in Seq(ClosedLists(t)')
  OBVIOUS
<1>4. ASSUME NEW a \in Actors, CallFails(a)
      PROVE  PlacesClosed'
  BY <1>4, AbortClosed DEF CallFails, cluster
<1>5. CASE DeploymentWatchBreaks
  <2>1. deplEvents' = << >> /\ UNCHANGED << jobWatch, jobEvents, db, todo, calls, lookup >>
    BY <1>5 DEF DeploymentWatchBreaks, controller
  <2> QED
    BY <1>1, <1>2, <1>3, <2>1, SameJobEvents, ClosedFrame DEF PlacesClosed
<1>6. CASE JobWatchBreaks
  <2>1. jobEvents' = << >> /\ UNCHANGED << deplEvents, db, todo, calls, lookup >> /\ ~lookup.busy
    BY <1>6 DEF JobWatchBreaks, controller, JobWatcherIdle
  <2>2. LookupClosed'
    BY <2>1 DEF LookupClosed
  <2> QED
    BY <1>1, <1>2, <1>3, <2>1, <2>2, ClosedFrame DEF PlacesClosed
<1>7. CASE ControllerRestarts
  <2>1. /\ deplEvents' = << >> /\ jobEvents' = << >> /\ db' = EmptyTable /\ lookup' = NoLookup
        /\ todo' = [t \in Tasks |-> << >>] /\ calls' = [a \in Actors |-> << >>]
    BY <1>7 DEF ControllerRestarts
  <2>2. LookupClosed' /\ \A b \in Builds : [build |-> b, row |-> db'[b]] \in ClosedSnapshots'
    BY <2>1, AbsentClosed DEF LookupClosed, NoLookup, EmptyTable
  <2>3. calls' \in [Actors -> Seq(ClosedCalls')] /\ \A t \in Tasks : todo'[t] \in Seq(ClosedLists(t)')
    BY <1>3, <2>1
  <2> QED
    BY <1>1, <1>2, <1>3, <2>1, <2>2, <2>3, ClosedFrame DEF PlacesClosed
<1> QED
  BY <1>4, <1>5, <1>6, <1>7 DEF Faults

LEMMA BackgroundClosed ==
  ASSUME ClosedInv, TypeOK', UNCHANGED pulls, Background
  PROVE  Keeps /\ PlacesClosed'
<1>1. CASE DeploymentWatcher
  <2>1. deployments' = deployments
    BY <1>1 DEF DeploymentWatcher, StartDeploymentWatch, ListDeployments, HandleDeployment, cluster
  <2> QED
    BY <1>1, <2>1, KeepsSame, DeploymentWatcherClosed
<1>2. CASE JobWatch
  <2>1. deployments' = deployments
    BY <1>2 DEF JobWatch, StartJobWatch, HandleJob, HandleJobLookup, cluster
  <2> QED
    BY <1>2, <2>1, KeepsSame, JobWatchClosed
<1>3. ASSUME NEW t \in Tasks, Pass(t) \/ NextBuild(t)
      PROVE  Keeps /\ PlacesClosed'
  <2>1. deployments' = deployments
    BY <1>3 DEF Pass, NextBuild, clusterVars
  <2> QED
    BY <1>3, <2>1, KeepsSame, TaskClosed
<1>4. ASSUME NEW a \in Actors, Call(a)
      PROVE  Keeps /\ PlacesClosed'
  BY <1>4, CallClosed
<1>5. CASE Environment /\ UNCHANGED << controller, requests, faults >>
  BY <1>5, EnvironmentClosed
<1>6. CASE Faults
  <2>1. deployments' = deployments
    BY <1>6 DEF Faults, CallFails, DeploymentWatchBreaks, JobWatchBreaks, ControllerRestarts, cluster
  <2> QED
    BY <1>6, <2>1, KeepsSame, FaultsClosed
<1>7. CASE Wait
  <2>1. UNCHANGED << clusterVars, db, todo, calls, lookup >>
    BY <1>7 DEF Wait, vars
  <2>2. Keeps /\ JobEventsGrow /\ Doomed' \subseteq Closed'
    BY <2>1, KeepsSame, SameJobEvents DEF clusterVars
  <2> QED
    BY <2>1, <2>2, ClosedFrame DEF PlacesClosed, clusterVars
<1> QED
  BY <1>1, <1>2, <1>3, <1>4, <1>5, <1>6, <1>7 DEF Background

(***************************************************************************)
(* The actions of the webhook and of GitHub.                               *)
(***************************************************************************)
LEMMA StutterClosed ==
  ASSUME ClosedInv, UNCHANGED vars, Closed \subseteq Closed'
  PROVE  PlacesClosed'
<1>1. UNCHANGED << clusterVars, db, todo, calls, lookup >>
  BY DEF vars
<1>2. Unborn' = Unborn /\ Doomed' = Doomed /\ JobEventsGrow
  BY <1>1, SameJobEvents DEF clusterVars, Unborn, Doomed
<1>3. Keeps /\ Doomed' \subseteq Closed'
  BY <1>2, ClosedParts DEF Keeps, PlacesClosed
<1> QED
  BY <1>1, <1>2, <1>3, ClosedFrame DEF PlacesClosed, clusterVars

LEMMA RequestClosed ==
  ASSUME ClosedInv, UNCHANGED pulls, NEW c \in Clients, NEW op, NEW list \in Seq(ClosedCalls),
         Request(c, op, list)
  PROVE  PlacesClosed'
<1>1. UNCHANGED << clusterVars, db, todo, lookup >> /\ calls' = [calls EXCEPT ![c] = list]
  BY DEF Request
<1>2. Keeps /\ JobEventsGrow /\ Doomed' \subseteq Closed'
  BY <1>1, KeepsSame, SameJobEvents DEF clusterVars
<1>3. calls' \in [Actors -> Seq(ClosedCalls')]
  BY <1>1, <1>2, CallsClosed, ActorSets
<1> QED
  BY <1>1, <1>2, <1>3, ClosedFrame DEF PlacesClosed, clusterVars

LEMMA DeployCommitOfClosed ==
  ASSUME ClosedInv, UNCHANGED pulls, NEW c \in Clients, NEW info, DeployCommitOf(c, info)
  PROVE  PlacesClosed'
<1>1. CASE UNCHANGED vars
  BY <1>1, StutterClosed DEF Closed
<1>2. ASSUME NEW b \in Builds, DeployCommit(c, b)
      PROVE  PlacesClosed'
  <2>1. Apply(b, "deployment") \in ClosedCalls /\ Notify(b, "pending") \in ClosedCalls
    BY ClosedCallTypes DEF Modes, JobKinds, GitHubStates
  <2>2. DeployBuild(b) \in Seq(ClosedCalls)
    BY <2>1 DEF DeployBuild
  <2> QED
    BY <1>2, <2>2, RequestClosed DEF DeployCommit
<1> QED
  BY <1>1, <1>2 DEF DeployCommitOf

LEMMA UndeployBuildsOfClosed ==
  ASSUME ClosedInv, UNCHANGED pulls, NEW c \in Clients, NEW pr \in Pulls, pulls[pr].wasClosed,
         UndeployBuildsOf(c, pr)
  PROVE  PlacesClosed'
<1>1. CASE UNCHANGED vars
  BY <1>1, StutterClosed DEF Closed
<1>2. CASE UndeployBuilds(c, pr)
  <2> DEFINE S == {b \in Names(db) : Info[b].pr = pr}
             list(q) == [i \in 1 .. Len(q) |-> Delete(q[i])]
  <2>1. PICK q \in SearchPr(db, pr) : Request(c, "close", list(q))
    BY <1>2 DEF UndeployBuilds
  <2>2. IsFiniteSet(S) /\ S \subseteq Builds
    BY FS_Subset, BuildsAssumption DEF Names
  <2>3. q \in SetToSeqs(S)
    BY <2>1 DEF SearchPr
  <2>4. Len(q) \in Nat /\ \A i \in 1 .. Len(q) : q[i] \in S
    BY <2>2, <2>3, SetToSeqsType
  <2>5. \A b \in S : b \in Builds /\ b \in Closed
    BY <2>2 DEF Closed
  <2>6. \A i \in 1 .. Len(q) : Delete(q[i]) \in ClosedCalls
    BY <2>4, <2>5, ClosedCallTypes
  <2>7. list(q) \in Seq(ClosedCalls)
    BY <2>4, <2>6
  <2> HIDE DEF list
  <2> QED
    BY <2>1, <2>7, RequestClosed
<1> QED
  BY <1>1, <1>2 DEF UndeployBuildsOf

LEMMA DeliverClosed ==
  ASSUME ClosedInv, NEW c \in Clients, Deliver(c)
  PROVE  PlacesClosed' /\ PayloadsTrue'
<1>1. PICK d \in deliveries : ReceivePayload(c, d)
  BY DEF Deliver
<1>2. pulls' = pulls /\ deliveries' \subseteq deliveries /\ PayloadsTrue
  BY DEF Deliver, ClosedInv
<1> SUFFICES PlacesClosed'
  BY <1>2 DEF PayloadsTrue
<1>3. CASE UNCHANGED vars
  BY <1>2, <1>3, StutterClosed DEF Closed
<1>4. CASE d.event = "pull_request" /\ ReceivePullRequest(c, d)
  <2>1. CASE DeployCommitOf(c, PullCommit(d.number, d.sha))
    BY <1>2, <2>1, DeployCommitOfClosed
  <2>2. CASE d.action = "closed" /\ UndeployBuildsOf(c, d.number)
    <3>1. d.number \in Pulls /\ pulls[d.number].wasClosed
      BY <1>2, <1>4, <2>2 DEF PayloadsTrue
    <3> QED
      BY <1>2, <2>2, <3>1, UndeployBuildsOfClosed
  <2> QED
    BY <1>3, <1>4, <2>1, <2>2 DEF ReceivePullRequest
<1>5. CASE d.event = "push" /\ ReceivePush(c, d)
  BY <1>2, <1>3, <1>5, DeployCommitOfClosed DEF ReceivePush
<1>6. CASE d.event = "trigger" /\ DeployCommitOf(c, d.info)
  BY <1>2, <1>6, DeployCommitOfClosed
<1> QED
  BY <1>1, <1>4, <1>5, <1>6 DEF ReceivePayload

LEMMA ResetClosed ==
  ASSUME ClosedInv, NEW c \in Clients, NEW b \in Builds, Reset(c, b)
  PROVE  PlacesClosed' /\ PayloadsTrue'
<1>1. Request(c, "reset", Redeploy(b)) /\ UNCHANGED << pulls, deliveries >>
  BY DEF Reset, ResetBuild
<1>2. /\ Kill(b, "cleanup") \in ClosedCalls /\ Kill(b, "initialize") \in ClosedCalls
      /\ Apply(b, "deployment") \in ClosedCalls /\ Notify(b, "pending") \in ClosedCalls
  BY ClosedCallTypes DEF Modes, JobKinds, GitHubStates
<1>3. Redeploy(b) \in Seq(ClosedCalls)
  BY <1>2 DEF Redeploy
<1> QED
  BY <1>1, <1>3, RequestClosed DEF ClosedInv, PayloadsTrue

\* GitHub only ever closes pull requests, and says so once it has.
LEMMA GitHubClosed ==
  ASSUME ClosedInv,
         \/ GitHubEvent
         \/ \E ref \in Refs : TriggerBranch(ref)
         \/ \E n \in Pulls : TriggerPull(n)
  PROVE  pulls' \in [Pulls -> PullStates] /\ PlacesClosed' /\ PayloadsTrue'
<1>1. UNCHANGED vars /\ pulls \in [Pulls -> PullStates] /\ PayloadsTrue
  BY GitHubStep DEF ClosedInv
<1>2. ASSUME pulls' = pulls, NEW payload, deliveries' = deliveries \union {payload},
             payload.event # "pull_request"
      PROVE  pulls' \in [Pulls -> PullStates] /\ PlacesClosed' /\ PayloadsTrue'
  BY <1>1, <1>2, StutterClosed DEF Closed, PayloadsTrue
<1>3. ASSUME NEW info, Trigger(info)
      PROVE  pulls' \in [Pulls -> PullStates] /\ PlacesClosed' /\ PayloadsTrue'
  <2> DEFINE payload == [event |-> "trigger", info |-> info]
  <2>1. pulls' = pulls /\ deliveries' = deliveries \union {payload}
    BY <1>3 DEF Trigger
  <2>2. payload.event # "pull_request"
    OBVIOUS
  <2> HIDE DEF payload
  <2> QED
    BY <1>2, <2>1, <2>2
<1>4. ASSUME NEW ref \in Refs, NEW commit \in Commits, Push(ref, commit)
      PROVE  pulls' \in [Pulls -> PullStates] /\ PlacesClosed' /\ PayloadsTrue'
  <2> DEFINE payload == [event |-> "push", ref |-> ref, after |-> commit]
  <2>1. pulls' = pulls /\ deliveries' = deliveries \union {payload}
    BY <1>4 DEF Push, Sends
  <2>2. payload.event # "pull_request"
    OBVIOUS
  <2> HIDE DEF payload
  <2> QED
    BY <1>2, <2>1, <2>2
<1>5. ASSUME NEW n \in Pulls, NEW action \in {"opened", "synchronize", "closed", "reopened"},
             NEW commit \in Commits, PullRequest(n, action, commit)
      PROVE  pulls' \in [Pulls -> PullStates] /\ PlacesClosed' /\ PayloadsTrue'
  <2> DEFINE p == [state |-> IF action = "closed" THEN "closed" ELSE "open", head |-> commit,
                   wasClosed |-> pulls[n].wasClosed \/ action = "closed"]
             payload == [event |-> "pull_request", action |-> action, number |-> n, sha |-> commit]
  <2>1. pulls' = [pulls EXCEPT ![n] = p] /\ deliveries' = deliveries \union {payload}
    BY <1>5 DEF PullRequest, Sends
  <2>2. /\ p \in PullStates
        /\ pulls[n].wasClosed => p.wasClosed
        /\ action = "closed" => p.wasClosed
    BY <1>1 DEF PullStates
  <2>3. payload.action = action /\ payload.number = n
    OBVIOUS
  <2> HIDE DEF p, payload
  <2>4. /\ pulls' \in [Pulls -> PullStates]
        /\ \A m \in Pulls : pulls[m].wasClosed => pulls'[m].wasClosed
        /\ action = "closed" => pulls'[n].wasClosed
    BY <1>1, <2>1, <2>2
  <2>5. PlacesClosed'
    BY <1>1, <2>4, StutterClosed DEF Closed
  <2>6. PayloadsTrue'
    BY <1>1, <2>1, <2>3, <2>4 DEF PayloadsTrue
  <2> QED
    BY <2>4, <2>5, <2>6
<1> QED
  BY <1>3, <1>4, <1>5 DEF GitHubEvent, TriggerBranch, TriggerPull

LEMMA ClosedStep ==
  ASSUME ClosedInv, [WebhookNext]_allVars
  PROVE  ClosedInv'
<1>1. TypeInv' /\ TypeOK'
  BY WebhookStep, TypeStep DEF ClosedInv, TypeInv
<1> SUFFICES pulls' \in [Pulls -> PullStates] /\ PlacesClosed' /\ PayloadsTrue'
  BY <1>1 DEF ClosedInv
<1>2. ASSUME UNCHANGED << pulls, deliveries >>
      PROVE  pulls' \in [Pulls -> PullStates] /\ PayloadsTrue'
  BY <1>2 DEF ClosedInv, PayloadsTrue
<1>3. CASE Background /\ UNCHANGED hookVars
  BY <1>1, <1>2, <1>3, BackgroundClosed DEF hookVars
<1>4. ASSUME NEW c \in Clients, Deliver(c)
      PROVE  pulls' \in [Pulls -> PullStates] /\ PlacesClosed' /\ PayloadsTrue'
  BY <1>4, DeliverClosed DEF Deliver, ClosedInv
<1>5. ASSUME NEW c \in Clients, NEW b \in Builds, Reset(c, b)
      PROVE  pulls' \in [Pulls -> PullStates] /\ PlacesClosed' /\ PayloadsTrue'
  BY <1>5, ResetClosed DEF Reset, ClosedInv
<1>6. CASE \/ GitHubEvent
           \/ \E ref \in Refs : TriggerBranch(ref)
           \/ \E n \in Pulls : TriggerPull(n)
  BY <1>6, GitHubClosed
<1>7. CASE UNCHANGED allVars
  BY <1>2, <1>7, StutterClosed DEF allVars, Closed
<1> QED
  BY <1>3, <1>4, <1>5, <1>6, <1>7 DEF WebhookNext

\* A deployment only changes in a step that leaves the pull requests alone.
LEMMA UndeployedWasClosed ==
  ASSUME ClosedInv, [WebhookNext]_allVars, NEW b \in Builds, Live(b), ~Live(b)'
  PROVE  Info[b].pr # NoPr /\ pulls[Info[b].pr].wasClosed
<1>1. TypeOK' /\ PlacesClosed' /\ deployments'[b].phase # "live" /\ deployments[b].phase = "live"
  BY ClosedStep DEF ClosedInv, TypeInv, TypeOK, Live
<1>2. deployments' # deployments
  BY <1>1
<1>3. CASE Background /\ UNCHANGED hookVars
  <2>1. Keeps /\ Closed' = Closed
    BY <1>1, <1>3, BackgroundClosed DEF hookVars, Closed
  <2>2. b \in Doomed'
    <3>1. deployments'[b].phase \in Phases
      BY <1>1 DEF TypeOK, ClusterTypeOK, Deployments
    <3> QED
      BY <1>1, <2>1, <3>1 DEF Keeps, Unborn, Doomed, Phases
  <2>3. b \in Closed
    BY <1>1, <2>1, <2>2 DEF PlacesClosed
  <2> QED
    BY <2>3, PullsAssumption DEF Closed
<1>4. ASSUME NEW c \in Clients, Deliver(c) \/ \E k \in Builds : Reset(c, k)
      PROVE  FALSE
  <2>1. ASSUME NEW op, NEW list, Request(c, op, list)
        PROVE  FALSE
    BY <1>2, <2>1 DEF Request, clusterVars
  <2>2. ASSUME UNCHANGED vars
        PROVE  FALSE
    BY <1>2, <2>2 DEF vars, clusterVars
  <2>3. \A info : ~DeployCommitOf(c, info)
    BY <2>1, <2>2 DEF DeployCommitOf, DeployCommit
  <2>4. \A pr : ~UndeployBuildsOf(c, pr)
    BY <2>1, <2>2 DEF UndeployBuildsOf, UndeployBuilds
  <2>5. CASE Deliver(c)
    BY <2>2, <2>3, <2>4, <2>5 DEF Deliver, ReceivePayload, ReceivePullRequest, ReceivePush
  <2> QED
    BY <1>4, <2>1, <2>5 DEF Reset, ResetBuild
<1>5. CASE \/ GitHubEvent
           \/ \E ref \in Refs : TriggerBranch(ref)
           \/ \E n \in Pulls : TriggerPull(n)
  BY <1>2, <1>5, GitHubStep DEF vars, clusterVars
<1>6. CASE UNCHANGED allVars
  BY <1>2, <1>6 DEF allVars, vars, clusterVars
<1> QED
  BY <1>3, <1>4, <1>5, <1>6 DEF WebhookNext

LEMMA ClosedInit ==
  ASSUME WebhookInit, "undeployer" \notin Tasks
  PROVE  ClosedInv
<1>1. TypeInv /\ StartedInit
  BY StartedTypeInv DEF WebhookInit
<1>2. pulls \in [Pulls -> PullStates] /\ PayloadsTrue
  BY DEF WebhookInit, PullStates, PayloadsTrue
<1>3. Doomed \subseteq Closed /\ JobsClosed /\ LookupClosed
  BY <1>1 DEF StartedInit, ClusterBlank, ControllerBlank, Doomed, NoDeployment, JobsClosed,
              LookupClosed, NoLookup
<1>4. \A b \in Builds : [build |-> b, row |-> db[b]] \in ClosedSnapshots
  BY <1>1 DEF StartedInit, ControllerBlank, EmptyTable, ClosedSnapshots, Snapshots, AbsentRow,
              Rows, BuildInitStatus
<1>5. /\ deplEvents \in Seq(ClosedSnapshots)
      /\ \A t \in Tasks : todo[t] \in Seq(ClosedLists(t))
      /\ jobEvents \in Seq(ClosedJobEvents)
      /\ calls \in [Actors -> Seq(ClosedCalls)]
  BY <1>1 DEF StartedInit, ClusterBlank, ControllerBlank
<1> QED
  BY <1>1, <1>2, <1>3, <1>4, <1>5 DEF ClosedInv, PlacesClosed

\* Evictions left aside, a build is only undeployed after its pull request
\* was closed: whatever payloads come late, out of order or repeated, whatever
\* builds are reset, and whatever calls fail, watches break and events are
\* seen again by a controller that restarts.
THEOREM PayloadsUndeployClosedPulls ==
  ASSUME "undeployer" \notin Tasks
  PROVE  WebhookSpec => OnlyClosedPullsUndeployed
<1>1. WebhookInit => ClosedInv
  BY ClosedInit
<1>2. ClosedInv /\ [WebhookNext]_allVars => ClosedInv'
  BY ClosedStep
<1>3. ClosedInv /\ [WebhookNext]_allVars =>
        [\A b \in Builds :
           Live(b) /\ ~Live(b)' => Info[b].pr # NoPr /\ pulls[Info[b].pr].wasClosed]_allVars
  BY UndeployedWasClosed
<1> QED
  BY <1>1, <1>2, <1>3, PTL DEF WebhookSpec, OnlyClosedPullsUndeployed

(***************************************************************************)
(* Every head gets its build.  What a head waits for is the payload that   *)
(* tells of it, then the call that deploys its build; and once that has    *)
(* been made, the build stays, because only the builds of pull requests    *)
(* that were closed are undeployed.                                        *)
(***************************************************************************)
BranchHeads ==
  {BranchCommit(ref[3], heads[ref]) :
     ref \in {r \in Refs : Len(r) = 3 /\ IsSupported(r[3]) /\ heads[r] # NoCommit}}

PullHeads ==
  {PullCommit(n, pulls[n].head) :
     n \in {m \in Pulls : pulls[m].state = "open" /\ ~pulls[m].wasClosed
                          /\ IsSupported(BaseBranch)}}

Asks(d, info) ==
  \/ /\ d.event = "push" /\ IsSupported(Last(d.ref))
     /\ info = BranchCommit(Last(d.ref), d.after)
  \/ /\ d.event = "pull_request" /\ d.action \in {"opened", "synchronize"}
     /\ IsSupported(BaseBranch)
     /\ info = PullCommit(d.number, d.sha)

Asked(info) == \E d \in deliveries : Asks(d, info)

Deploying(b) ==
  \E c \in Clients : calls[c] # << >> /\ Head(calls[c]) = Apply(b, "deployment")

Provided(info) ==
  \/ Asked(info)
  \/ \E b \in Builds : Info[b] = info /\ (Deploying(b) \/ Live(b))

HeadsInv ==
  /\ ClosedInv
  /\ heads \in [Refs -> Commits \union {NoCommit}]
  /\ \A n \in Pulls : pulls[n].state = "closed" => pulls[n].wasClosed
  /\ faults = 0 => \A info \in BranchHeads \union PullHeads : Provided(info)

\* The build of a head may be deployed, and was not closed.
LEMMA HeadUnclosed ==
  ASSUME NEW info \in BranchHeads \union PullHeads
  PROVE  /\ info.branch \in SupportedBranches
         /\ \A b \in Builds : Info[b] = info => b \notin Closed
<1>1. CASE info \in BranchHeads
  <2>1. PICK ref \in Refs : IsSupported(ref[3]) /\ info = BranchCommit(ref[3], heads[ref])
    BY <1>1 DEF BranchHeads
  <2>2. info.branch = ref[3] /\ info.pr = NoPr
    BY <2>1 DEF BranchCommit
  <2> QED
    BY <2>1, <2>2, PullsAssumption DEF IsSupported, Closed
<1>2. CASE info \in PullHeads
  <2>1. PICK n \in Pulls : /\ ~pulls[n].wasClosed /\ IsSupported(BaseBranch)
                           /\ info = PullCommit(n, pulls[n].head)
    BY <1>2 DEF PullHeads
  <2>2. info.branch = BaseBranch /\ info.pr = n
    BY <2>1 DEF PullCommit
  <2> QED
    BY <2>1, <2>2 DEF IsSupported, Closed
<1> QED
  BY <1>1, <1>2

\* A row is of a build that was deployed; if its pull request was not closed
\* the build is live.
LEMMA RowLive ==
  ASSUME ClosedInv, NEW b \in Builds, db[b].status # "absent", b \notin Closed
  PROVE  Live(b)
<1>1. [build |-> b, row |-> db[b]] \in ClosedSnapshots /\ Doomed \subseteq Closed
  BY DEF ClosedInv, PlacesClosed
<1>2. b \notin Unborn /\ b \notin Doomed
  BY <1>1 DEF ClosedSnapshots
<1>3. deployments[b].phase \in Phases
  BY ClosedParts DEF Deployments
<1> QED
  BY <1>2, <1>3 DEF Unborn, Doomed, Phases, Live

\* Only the client itself makes the call that is at the head of its list,
\* unless a call fails.
LEMMA ClientCalls ==
  ASSUME TypeOK, [Next]_vars, faults' = 0, NEW c \in Clients, calls[c] # << >>
  PROVE  calls'[c] = calls[c] \/ Call(c)
<1>1. calls \in [Actors -> Seq(Calls)] /\ faults \in Nat
  BY BoundsAssumption DEF TypeOK
<1>2. /\ c \in Actors /\ JobWatcher \in Actors /\ Tasks \subseteq Actors /\ Clients \subseteq Actors
      /\ c \notin Tasks /\ c # JobWatcher
  BY ActorSets
<1>3. CASE DeploymentWatcher
  BY <1>3 DEF DeploymentWatcher, StartDeploymentWatch, ListDeployments, HandleDeployment, controller
<1>4. CASE JobWatch
  BY <1>1, <1>2, <1>4 DEF JobWatch, StartJobWatch, HandleJob, HandleJobLookup, controller
<1>5. ASSUME NEW t \in Tasks, Pass(t) \/ NextBuild(t)
      PROVE  calls'[c] = calls[c]
  BY <1>1, <1>2, <1>5 DEF Pass, NextBuild
<1>6. ASSUME NEW a \in Actors, Call(a)
      PROVE  calls'[c] = calls[c] \/ Call(c)
  <2>1. CASE a = c
    BY <1>6, <2>1
  <2>2. CASE a # c
    <3>1. \E list : calls' = [calls EXCEPT ![a] = list]
      BY <1>6 DEF Call, Abort
    <3> QED
      BY <1>1, <1>2, <2>2, <3>1
  <2> QED
    BY <2>1, <2>2
<1>7. ~Faults
  <2>1. \A kind : ~Fault(kind)
    BY <1>1 DEF Fault
  <2> QED
    BY <2>1 DEF Faults, CallFails, DeploymentWatchBreaks, JobWatchBreaks, ControllerRestarts
<1>8. ASSUME NEW k \in Clients, ClientRequest(k)
      PROVE  calls'[c] = calls[c]
  <2>1. ASSUME NEW op, NEW list, Request(k, op, list)
        PROVE  calls'[c] = calls[c]
    <3>1. k # c /\ calls' = [calls EXCEPT ![k] = list]
      BY <2>1 DEF Request
    <3> QED
      BY <1>1, <1>2, <3>1
  <2> QED
    BY <1>8, <2>1 DEF ClientRequest, DeployCommit, StartBuild, StopBuild, ResetBuild, UndeployBuild,
                      UndeployBuilds
<1>9. CASE UNCHANGED vars
  BY <1>9 DEF vars
<1>10. CASE Environment /\ UNCHANGED << controller, requests, faults >>
  BY <1>10 DEF controller
<1> QED
  BY <1>3, <1>4, <1>5, <1>6, <1>7, <1>8, <1>9, <1>10 DEF Next, Background, Wait

\* What is provided for stays so, but for the payload that is delivered.
LEMMA ProvidedStays ==
  ASSUME HeadsInv, [WebhookNext]_allVars, faults' = 0,
         NEW info \in BranchHeads \union PullHeads, Provided(info),
         Asked(info) => Asked(info)'
  PROVE  Provided(info)'
<1>1. ClosedInv /\ TypeOK /\ [Next]_vars
  BY WebhookStep, ClosedParts DEF HeadsInv
<1>2. info.branch \in SupportedBranches /\ \A b \in Builds : Info[b] = info => b \notin Closed
  BY HeadUnclosed
<1>3. CASE Asked(info)
  BY <1>3 DEF Provided
<1>4. ASSUME NEW b \in Builds, Info[b] = info, Live(b)
      PROVE  Live(b)'
  <2>1. SUFFICES ASSUME ~Live(b)' PROVE FALSE
    OBVIOUS
  <2>2. Info[b].pr # NoPr /\ pulls[Info[b].pr].wasClosed
    BY <1>1, <1>4, <2>1, UndeployedWasClosed
  <2>3. Info[b].pr \in Pulls
    <3>1. CASE info \in BranchHeads
      BY <1>4, <2>2, <3>1 DEF BranchHeads, BranchCommit
    <3>2. CASE info \in PullHeads
      BY <1>4, <3>2 DEF PullHeads, PullCommit
    <3> QED
      BY <3>1, <3>2
  <2> QED
    BY <1>2, <1>4, <2>2, <2>3 DEF Closed
<1>5. ASSUME NEW b \in Builds, Info[b] = info, Deploying(b)
      PROVE  Deploying(b)' \/ Live(b)'
  <2>1. PICK c \in Clients : calls[c] # << >> /\ Head(calls[c]) = Apply(b, "deployment")
    BY <1>5 DEF Deploying
  <2>2. CASE calls'[c] = calls[c]
    BY <2>1, <2>2 DEF Deploying
  <2>3. CASE Call(c)
    <3> DEFINE k == Head(calls[c])
    <3>1. k.op = "apply" /\ k.build = b /\ k.mode = "deployment"
      BY <2>1 DEF Apply
    <3>2. ~Raises(k)
      BY <1>2, <1>5, <3>1 DEF Raises
    <3>3. Perform(k)
      BY <2>3, <3>2 DEF Call
    <3> HIDE DEF k
    <3>4. ApplyDeployment(k)
      BY <3>1, <3>3 DEF Perform, ApplyJob, ApplyOthers, PatchDeployment, RemoveFinalizers,
                        DeleteDeployment, DeleteResources, KillJob, NotifyStatus, JobKinds
    <3> DEFINE old == deployments[b]
               new == IF Present(old)
                      THEN [old EXCEPT !.init = "todo", !.replicas = 0, !.finalizer = TRUE]
                      ELSE [phase |-> "live", init |-> "todo", replicas |-> 0, running |-> FALSE,
                            finalizer |-> TRUE, created |-> now, scaled |-> now]
    <3>5. deployments' = [deployments EXCEPT ![b] = new]
      BY <3>1, <3>4 DEF ApplyDeployment, SetDeployment
    <3>6. deployments'[b].phase = IF Present(old) THEN old.phase ELSE "live"
      <4>1. old \in Deployments /\ deployments'[b] = new
        BY <1>1, <3>5, ClosedParts
      <4>2. Present(old) => new.phase = old.phase
        BY <4>1 DEF Deployments
      <4> QED
        BY <4>1, <4>2
    <3>7. b \notin Doomed
      BY <1>1, <1>2, <1>5, ClosedParts DEF PlacesClosed
    <3> QED
      BY <3>6, <3>7 DEF Present, Doomed, Live
  <2> QED
    BY <1>1, <2>1, <2>2, <2>3, ClientCalls
<1> QED
  BY <1>3, <1>4, <1>5 DEF Provided

\* A payload that is delivered starts the deploy, or finds the build.
LEMMA DeployCommitOfProvides ==
  ASSUME ClosedInv, NEW c \in Clients, NEW info \in BranchHeads \union PullHeads,
         DeployCommitOf(c, info)
  PROVE  Provided(info)'
<1>1. CASE ForCommit(db, info) # {} /\ UNCHANGED vars
  <2>1. PICK b \in Builds : db[b].status # "absent" /\ Info[b] = info
    BY <1>1 DEF ForCommit, Names
  <2>2. Live(b)
    BY <2>1, HeadUnclosed, RowLive
  <2>3. Live(b)'
    BY <1>1, <2>2 DEF vars, clusterVars, Live
  <2> QED
    BY <2>1, <2>3 DEF Provided
<1>2. ASSUME NEW b \in Builds, Info[b] = info, DeployCommit(c, b)
      PROVE  Provided(info)'
  <2>1. calls' = [calls EXCEPT ![c] = DeployBuild(b)] /\ c \in DOMAIN calls
    BY <1>2, ActorSets, ClosedParts DEF DeployCommit, Request, TypeOK
  <2>2. calls'[c] = << Apply(b, "deployment"), Notify(b, "pending") >>
    BY <2>1 DEF DeployBuild
  <2>3. Deploying(b)'
    BY <2>2 DEF Deploying
  <2> QED
    BY <1>2, <2>3 DEF Provided
<1> QED
  BY <1>1, <1>2 DEF DeployCommitOf

LEMMA DeliverHeads ==
  ASSUME HeadsInv, NEW c \in Clients, Deliver(c), faults' = 0,
         NEW info \in BranchHeads \union PullHeads, Provided(info)
  PROVE  Provided(info)'
<1>1. PICK d \in deliveries : /\ ReceivePayload(c, d)
                              /\ deliveries' = deliveries \ {d} \/ deliveries' = deliveries
  BY DEF Deliver
<1>2. CASE Asked(info) => Asked(info)'
  BY <1>2, ProvidedStays DEF WebhookNext
<1>3. CASE Asked(info) /\ ~Asked(info)'
  <2>1. Asks(d, info)
    <3>1. \A e \in deliveries' : ~Asks(e, info)
      BY <1>3 DEF Asked, Asks
    <3> QED
      BY <1>1, <1>3, <3>1 DEF Asked
  <2>2. DeployCommitOf(c, info)
    BY <1>1, <2>1 DEF Asks, ReceivePayload, ReceivePullRequest, ReceivePush
  <2> QED
    BY <2>2, DeployCommitOfProvides DEF HeadsInv
<1> QED
  BY <1>2, <1>3

\* GitHub tells of every head, and a pull request that was closed has none.
LEMMA GitHubHeads ==
  ASSUME HeadsInv,
         \/ GitHubEvent
         \/ \E ref \in Refs : TriggerBranch(ref)
         \/ \E n \in Pulls : TriggerPull(n)
  PROVE  /\ heads' \in [Refs -> Commits \union {NoCommit}]
         /\ \A n \in Pulls : pulls'[n].state = "closed" => pulls'[n].wasClosed
         /\ \A info : Asked(info) => Asked(info)'
         /\ \A info \in BranchHeads' \union PullHeads' :
              info \in BranchHeads \union PullHeads \/ Asked(info)'
<1>1. /\ heads \in [Refs -> Commits \union {NoCommit}] /\ pulls \in [Pulls -> PullStates]
      /\ \A n \in Pulls : pulls[n].state = "closed" => pulls[n].wasClosed
  BY DEF HeadsInv, ClosedInv
<1>2. ASSUME NEW payload, deliveries' = deliveries \union {payload}
      PROVE  /\ \A info : Asked(info) => Asked(info)'
             /\ \A info : Asks(payload, info) => Asked(info)'
  BY <1>2 DEF Asked, Asks
<1>3. ASSUME NEW info, Trigger(info)
      PROVE  /\ UNCHANGED << heads, pulls >>
             /\ \E payload : deliveries' = deliveries \union {payload}
  BY <1>3 DEF Trigger
<1>4. CASE (\E ref \in Refs : TriggerBranch(ref)) \/ \E n \in Pulls : TriggerPull(n)
  <2>1. UNCHANGED << heads, pulls >> /\ \E payload : deliveries' = deliveries \union {payload}
    BY <1>3, <1>4 DEF TriggerBranch, TriggerPull
  <2>2. BranchHeads' = BranchHeads /\ PullHeads' = PullHeads
    BY <2>1 DEF BranchHeads, PullHeads
  <2> QED
    BY <1>1, <1>2, <2>1, <2>2
<1>5. ASSUME NEW ref \in Refs, NEW commit \in Commits, Push(ref, commit)
      PROVE  /\ heads' \in [Refs -> Commits \union {NoCommit}]
             /\ pulls' = pulls
             /\ \A info : Asked(info) => Asked(info)'
             /\ \A info \in BranchHeads' \union PullHeads' :
                  info \in BranchHeads \union PullHeads \/ Asked(info)'
  <2> DEFINE payload == [event |-> "push", ref |-> ref, after |-> commit]
  <2>1. /\ heads' = [heads EXCEPT ![ref] = commit] /\ pulls' = pulls
        /\ deliveries' = deliveries \union {payload}
    BY <1>5 DEF Push, Sends
  <2>2. PullHeads' = PullHeads
    BY <2>1 DEF PullHeads
  <2>3. ASSUME NEW info \in BranchHeads', info \notin BranchHeads
        PROVE  Asks(payload, info)
    <3>1. PICK r \in Refs : /\ Len(r) = 3 /\ IsSupported(r[3]) /\ heads'[r] # NoCommit
                            /\ info = BranchCommit(r[3], heads'[r])
      BY <2>3 DEF BranchHeads
    <3>2. r = ref
      BY <1>1, <2>1, <2>3, <3>1 DEF BranchHeads
    <3>3. info = BranchCommit(ref[3], commit) /\ Last(ref) = ref[3]
      BY <1>1, <2>1, <3>1, <3>2 DEF Last
    <3> QED
      BY <3>1, <3>2, <3>3 DEF Asks
  <2> HIDE DEF payload
  <2> QED
    BY <1>1, <1>2, <2>1, <2>2, <2>3
<1>6. ASSUME NEW n \in Pulls, NEW action \in {"opened", "synchronize", "closed", "reopened"},
             NEW commit \in Commits, PullRequest(n, action, commit)
      PROVE  /\ heads' = heads
             /\ \A m \in Pulls : pulls'[m].state = "closed" => pulls'[m].wasClosed
             /\ \A info : Asked(info) => Asked(info)'
             /\ \A info \in BranchHeads' \union PullHeads' :
                  info \in BranchHeads \union PullHeads \/ Asked(info)'
  <2> DEFINE p == [state |-> IF action = "closed" THEN "closed" ELSE "open", head |-> commit,
                   wasClosed |-> pulls[n].wasClosed \/ action = "closed"]
             payload == [event |-> "pull_request", action |-> action, number |-> n, sha |-> commit]
  <2>1. /\ pulls' = [pulls EXCEPT ![n] = p] /\ heads' = heads
        /\ deliveries' = deliveries \union {payload}
    BY <1>6 DEF PullRequest, Sends
  <2>2. /\ p.head = commit
        /\ p.wasClosed <=> pulls[n].wasClosed \/ action = "closed"
        /\ p.state = "closed" <=> action = "closed"
    BY <1>1 DEF PullStates
  <2>3. action = "reopened" => pulls[n].wasClosed
    BY <1>1, <1>6 DEF PullRequest
  <2>4. BranchHeads' = BranchHeads
    BY <2>1 DEF BranchHeads
  <2>5. payload.event = "pull_request" /\ payload.action = action /\ payload.number = n
        /\ payload.sha = commit
    OBVIOUS
  <2> HIDE DEF p, payload
  <2>6. ASSUME NEW info \in PullHeads', info \notin PullHeads
        PROVE  Asks(payload, info)
    <3>1. PICK m \in Pulls : /\ pulls'[m].state = "open" /\ ~pulls'[m].wasClosed
                             /\ IsSupported(BaseBranch) /\ info = PullCommit(m, pulls'[m].head)
      BY <2>6 DEF PullHeads
    <3>2. m = n
      BY <1>1, <2>1, <2>6, <3>1 DEF PullHeads
    <3>3. pulls'[n] = p
      BY <1>1, <2>1
    <3>4. action \in {"opened", "synchronize"} /\ info = PullCommit(n, commit)
      BY <2>2, <2>3, <3>1, <3>2, <3>3
    <3> QED
      BY <2>5, <3>1, <3>4 DEF Asks
  <2>7. \A m \in Pulls : pulls'[m].state = "closed" => pulls'[m].wasClosed
    BY <1>1, <2>1, <2>2
  <2> QED
    BY <1>2, <2>1, <2>4, <2>6, <2>7
<1> QED
  BY <1>1, <1>4, <1>5, <1>6 DEF GitHubEvent

LEMMA FaultsGrow ==
  ASSUME [Next]_vars
  PROVE  faults' = faults \/ faults' = faults + 1
<1>1. CASE DeploymentWatcher \/ JobWatch
  BY <1>1 DEF DeploymentWatcher, StartDeploymentWatch, ListDeployments, HandleDeployment, JobWatch,
              StartJobWatch, HandleJob, HandleJobLookup
<1>2. CASE \E t \in Tasks : Pass(t) \/ NextBuild(t)
  BY <1>2 DEF Pass, NextBuild
<1>3. CASE \E a \in Actors : Call(a)
  BY <1>3 DEF Call
<1>4. CASE Faults
  BY <1>4 DEF Faults, CallFails, DeploymentWatchBreaks, JobWatchBreaks, ControllerRestarts, Fault
<1>5. ASSUME NEW c \in Clients, ClientRequest(c)
      PROVE  faults' = faults
  <2>1. ASSUME NEW op, NEW list, Request(c, op, list)
        PROVE  faults' = faults
    BY <2>1 DEF Request
  <2> QED
    BY <1>5, <2>1 DEF ClientRequest, DeployCommit, StartBuild, StopBuild, ResetBuild, UndeployBuild,
                      UndeployBuilds
<1>6. CASE UNCHANGED vars
  BY <1>6 DEF vars
<1> QED
  BY <1>1, <1>2, <1>3, <1>4, <1>5, <1>6 DEF Next, Background, Wait

LEMMA HeadsStep ==
  ASSUME HeadsInv, [WebhookNext]_allVars
  PROVE  HeadsInv'
<1>1. ClosedInv' /\ TypeOK /\ TypeOK'
  BY ClosedStep DEF HeadsInv, ClosedInv, TypeInv
<1>2. faults' = 0 => faults = 0
  <2>1. ASSUME faults # 0
        PROVE  faults' # 0
    <3>1. faults' = faults \/ faults' = faults + 1
      BY WebhookStep, FaultsGrow
    <3> QED
      BY <1>1, <2>1, <3>1, BoundsAssumption DEF TypeOK
  <2> QED
    BY <2>1
<1>3. CASE UNCHANGED << heads, pulls >> /\ (UNCHANGED deliveries \/ \E c \in Clients : Deliver(c))
  <2>1. BranchHeads' = BranchHeads /\ PullHeads' = PullHeads
    BY <1>3 DEF BranchHeads, PullHeads
  <2>2. ASSUME faults' = 0, NEW info \in BranchHeads \union PullHeads
        PROVE  Provided(info)'
    <3>1. Provided(info)
      BY <1>2, <2>2 DEF HeadsInv
    <3>2. CASE UNCHANGED deliveries
      BY <2>2, <3>1, <3>2, ProvidedStays DEF Asked, Asks
    <3> QED
      BY <1>3, <2>2, <3>1, <3>2, DeliverHeads
  <2> QED
    BY <1>1, <1>3, <2>1, <2>2 DEF HeadsInv
<1>4. CASE \/ GitHubEvent
           \/ \E ref \in Refs : TriggerBranch(ref)
           \/ \E n \in Pulls : TriggerPull(n)
  <2>1. ASSUME faults' = 0, NEW info \in BranchHeads' \union PullHeads'
        PROVE  Provided(info)'
    <3>1. CASE Asked(info)'
      BY <3>1 DEF Provided
    <3>2. CASE info \in BranchHeads \union PullHeads
      <4>1. Provided(info)
        BY <1>2, <2>1, <3>2 DEF HeadsInv
      <4> QED
        BY <1>4, <2>1, <3>2, <4>1, GitHubHeads, ProvidedStays
    <3> QED
      BY <1>4, <3>1, <3>2, GitHubHeads
  <2> QED
    BY <1>1, <1>4, <2>1, GitHubHeads DEF HeadsInv
<1> QED
  BY <1>3, <1>4 DEF WebhookNext, hookVars, allVars, Deliver, Reset

\* When no call fails every head is built in the end: the commit of every
\* supported branch, and of every open pull request that was never closed,
\* whatever order the payloads come in and however often (receive_payload,
\* deploy_commit), and whatever builds are reset meanwhile.  Evictions are
\* left aside: they take builds that are heads, as they are meant to.
THEOREM HeadsGetBuilt ==
  ASSUME "undeployer" \notin Tasks
  PROVE  WebhookSpec => []SettledHeadsBuilt
<1>1. WebhookInit => HeadsInv
  <2> SUFFICES ASSUME WebhookInit PROVE HeadsInv
    OBVIOUS
  <2>1. ClosedInv
    BY ClosedInit
  <2>2. /\ heads = [ref \in Refs |-> NoCommit]
        /\ pulls = [n \in Pulls |-> [state |-> "none", head |-> NoCommit, wasClosed |-> FALSE]]
    BY DEF WebhookInit
  <2>3. BranchHeads = {} /\ PullHeads = {}
    BY <2>2 DEF BranchHeads, PullHeads
  <2> QED
    BY <2>1, <2>2, <2>3 DEF HeadsInv
<1>2. HeadsInv /\ [WebhookNext]_allVars => HeadsInv'
  BY HeadsStep
<1>3. HeadsInv => SettledHeadsBuilt
  <2> SUFFICES ASSUME HeadsInv, AllHandled, faults = 0
               PROVE  /\ \A info \in BranchHeads \union PullHeads : IsBuilt(info)
    BY DEF SettledHeadsBuilt, BranchHeads, PullHeads
  <2>1. deliveries = {} /\ \A c \in Clients : calls[c] = << >>
    BY ActorSets DEF AllHandled, Settled
  <2> QED
    BY <2>1 DEF HeadsInv, Provided, Asked, Deploying, IsBuilt
<1> QED
  BY <1>1, <1>2, <1>3, PTL DEF WebhookSpec

(***************************************************************************)
(* What a close found ends undeployed.  undeploy_builds asks for one       *)
(* delete after another and stops at the first build that is already gone, *)
(* so a list may be lost.  But then another list is ahead of it: lists go  *)
(* from the newest build to the oldest, the table learns of builds in the  *)
(* order of their creation, and a build is only gone because a list asked  *)
(* for it before, in which every older live build comes after it.          *)
(***************************************************************************)
Made(b) == deployments[b].created
SamePull(x, y) == Info[x].pr = Info[y].pr /\ Info[x].pr # NoPr
Positions == Nat \ {0}

\* Call i of the list of a client deletes b.
Del(c, i, b) ==
  i \in 1 .. Len(calls[c]) /\ calls[c][i].op = "delete" /\ calls[c][i].build = b

\* A client is about to delete y, and before it only live builds that were
\* created before a time.
Due(y, t) ==
  \E c \in Clients : \E i \in Positions :
    /\ Del(c, i, y)
    /\ \A j \in 1 .. i - 1 : \E b \in Builds : Del(c, j, b) /\ Live(b) /\ Made(b) < t

\* The deployment, the row or an event says that b was created at a time.
Recorded(b, t) ==
  \/ Present(deployments[b]) /\ t = deployments[b].created
  \/ db[b].status # "absent" /\ t = db[b].created
  \/ \E n \in 1 .. Len(deplEvents) :
       /\ deplEvents[n].build = b /\ deplEvents[n].row.status # "absent"
       /\ t = deplEvents[n].row.created

RecordsPast == \A b \in Builds : \A t : Recorded(b, t) => t \in Nat /\ t < now

\* Rows and events that come before a live build is in the table are of
\* builds that were created before it.
Unmet(c, n) == db[c].status = "absent" /\ \A i \in 1 .. n : deplEvents[i].build # c

TableInOrder ==
  \A c \in Builds : Live(c) =>
    /\ \A b \in Builds : db[b].status # "absent" /\ db[c].status = "absent" =>
         db[b].created < Made(c)
    /\ \A n \in 1 .. Len(deplEvents) : deplEvents[n].row.status # "absent" /\ Unmet(c, n) =>
         deplEvents[n].row.created < Made(c)

OnlyClientsDelete == \A a \in Actors \ Clients : calls[a] \in Seq(Harmless)

\* A list is of one pull request, and of nothing but deletes.
ListsOfPulls ==
  \A c \in Clients : \A i \in Positions : \A x \in Builds : Del(c, i, x) =>
    /\ x \notin Unborn
    /\ \A j \in Positions : \A y \in Builds : Del(c, j, y) => SamePull(x, y)
    /\ \A j \in 1 .. i : \E y \in Builds : Del(c, j, y)

\* It goes from the newest to the oldest of the live builds, and leaves none
\* of the older ones out.
ListsInOrder ==
  \A c \in Clients : \A i \in Positions : \A x \in Builds : Del(c, i, x) /\ Live(x) =>
    \A y \in Builds : Live(y) =>
      /\ \A j \in Positions : i < j /\ Del(c, j, y) => Made(y) < Made(x)
      /\ SamePull(x, y) /\ Made(y) < Made(x) => \E j \in Positions : i < j /\ Del(c, j, y)

\* Whatever is older than a build that is undeployed is about to be deleted.
OlderDue ==
  \A x, y \in Builds : ~Live(x) /\ Live(y) /\ SamePull(x, y) =>
    \A t : Recorded(x, t) /\ Made(y) <= t => Due(y, t)

\* So is what comes after a build that is undeployed in a list, by a list
\* that is ahead.
LaterDue ==
  \A c \in Clients : \A i, j \in Positions : \A x, y \in Builds :
    i < j /\ Del(c, i, x) /\ ~Live(x) /\ Del(c, j, y) /\ Live(y) =>
      \E t \in Nat :
        /\ Due(y, t)
        /\ \A q \in 1 .. i - 1 : \A b \in Builds : Del(c, q, b) /\ Live(b) => t <= Made(b)

CondemnedDue == \A y \in condemned : Live(y) => Due(y, now)

TableSound == deplWatch = "up" /\ CreatedApart /\ RecordsPast /\ TableInOrder
ListsSound == OnlyClientsDelete /\ ListsOfPulls /\ ListsInOrder
DuesSound == condemned \subseteq Builds \ Unborn /\ OlderDue /\ LaterDue /\ CondemnedDue

CloseInv ==
  /\ MirrorInv /\ ~SameSecond /\ "undeployer" \notin Tasks
  /\ \A b \in Builds : Info[b].pr # NoPr => Info[b].branch = BaseBranch
  /\ faults = 0 => TableSound /\ ListsSound /\ DuesSound

(***************************************************************************)
(* The births of a step, and what it records.                              *)
(***************************************************************************)
Born(b) == b \in Unborn /\ deployments'[b].phase = "live"
           /\ deployments'[b].created = now /\ now' = now + 1

Births ==
  /\ now \in Nat /\ now' \in Nat /\ now <= now'
  /\ \A b \in Builds : deployments'[b].phase = "live" =>
       Born(b) \/ (Live(b) /\ deployments'[b].created = Made(b))

LEMMA StepBirths ==
  ASSUME MirrorInv, ~SameSecond, deplWatch = "up", [Next]_vars
  PROVE  Births
<1>1. LifeInv /\ ClusterTypeOK /\ now \in Nat /\ deployments \in [Builds -> Deployments]
  BY MirrorParts DEF ClusterTypeOK
<1>2. CASE HandleDeployment
  BY <1>1, <1>2 DEF HandleDeployment, cluster, Births, Live, Made
<1>3. CASE Untabled
  <2>1. Moves /\ Dated /\ Clocked
    BY <1>3, StepMoves DEF Untabled
  <2>2. ASSUME NEW b \in Builds, deployments'[b].phase = "live"
        PROVE  (b \in Unborn \/ Live(b)) /\ (Live(b) => deployments'[b].created = Made(b))
    BY <1>1, <2>1, <2>2, LifeMoves DEF Live, Made, Doomed
  <2>3. CASE /\ now' >= now
             /\ \A b \in Builds : deployments'[b].phase = "live" => deployments[b].phase = "live"
    <3>1. now' \in Nat
      BY MirrorStep, NextTyped DEF TypeOK, ClusterTypeOK
    <3> QED
      BY <1>1, <2>2, <2>3, <3>1 DEF Births, Live
  <2>4. ASSUME now' = now + 1, NEW k \in Unborn, deployments'[k].created = now,
               \A b \in Builds \ {k} : deployments'[b] = deployments[b]
        PROVE  Births
    <3>1. ASSUME NEW b \in Builds, deployments'[b].phase = "live"
          PROVE  Born(b) \/ (Live(b) /\ deployments'[b].created = Made(b))
      BY <2>2, <2>4, <3>1 DEF Born, Live
    <3> QED
      BY <1>1, <2>4, <3>1 DEF Births
  <2> QED
    BY <2>1, <2>3, <2>4 DEF Clocked
<1> QED
  BY <1>2, <1>3, TableSteps

(***************************************************************************)
(* What a step does to the lists of the clients.                           *)
(***************************************************************************)
Kept(c) == \A i \in Positions : \A b \in Builds : Del(c, i, b)' <=> Del(c, i, b)
Popped(c) == \A i \in Positions : \A b \in Builds : Del(c, i, b)' <=> Del(c, i + 1, b)
Emptied(c) == \A i \in Positions : \A b \in Builds : ~Del(c, i, b)'

\* A step that undeploys nothing.
Spared ==
  /\ \A b \in Builds : Live(b) => Live(b)'
  /\ \A c \in Clients :
       Kept(c) \/ ((Popped(c) \/ Emptied(c)) /\ \A b \in Builds : Del(c, 1, b) => ~Live(b))

\* A step of client k that undeploys z.
Undeployed(k, z) ==
  /\ Live(z) /\ ~Live(z)' /\ Del(k, 1, z)
  /\ Popped(k)
  /\ \A c \in Clients \ {k} : Kept(c)
  /\ now' = now
  /\ \A b \in Builds \ {z} : deployments'[b] = deployments[b]

Records == \A b \in Builds : \A t : Recorded(b, t)' => Recorded(b, t) \/ (Born(b) /\ t = now)

LEMMA CloseParts ==
  ASSUME CloseInv
  PROVE  /\ MirrorInv /\ LifeInv /\ TypeOK /\ ClusterTypeOK
         /\ now \in Nat /\ deployments \in [Builds -> Deployments]
         /\ \A b \in Builds : Made(b) \in Nat
         /\ \A b \in Builds : Live(b) => b \notin Unborn
         /\ calls \in [Actors -> Seq(Calls)] /\ faults \in Nat
<1>1. MirrorInv /\ LifeInv /\ TypeOK /\ ClusterTypeOK /\ deployments \in [Builds -> Deployments]
  BY MirrorParts DEF CloseInv
<1> QED
  BY <1>1, BoundsAssumption DEF TypeOK, ClusterTypeOK, Deployments, Made, Live, Unborn

LEMMA Datings ==
  CloseInv => now \in Nat /\ \A b \in Builds : Made(b) \in Nat
BY CloseParts

LEMMA NextDatings ==
  (CloseInv => now \in Nat /\ \A b \in Builds : Made(b) \in Nat)'
BY Datings, PTL

\* Who is due before a time is due before a later one.
LEMMA DueLater ==
  (\A b \in Builds : Made(b) \in Nat) =>
    \A y \in Builds : \A t, u \in Nat : t <= u /\ Due(y, t) => Due(y, u)
<1> SUFFICES ASSUME \A b \in Builds : Made(b) \in Nat,
                    NEW y \in Builds, NEW t \in Nat, NEW u \in Nat, t <= u, Due(y, t)
             PROVE  Due(y, u)
  OBVIOUS
<1>1. \A b \in Builds : Made(b) < t => Made(b) < u
  OBVIOUS
<1>2. PICK c \in Clients, i \in Positions :
        /\ Del(c, i, y)
        /\ \A j \in 1 .. i - 1 : \E b \in Builds : Del(c, j, b) /\ Live(b) /\ Made(b) < t
  BY DEF Due
<1>3. \A j \in 1 .. i - 1 : \E b \in Builds : Del(c, j, b) /\ Live(b) /\ Made(b) < u
  BY <1>1, <1>2
<1> QED
  BY <1>2, <1>3 DEF Due

LEMMA NextDueLater ==
  ((\A b \in Builds : Made(b) \in Nat) =>
    \A y \in Builds : \A t, u \in Nat : t <= u /\ Due(y, t) => Due(y, u))'
BY DueLater, PTL

(***************************************************************************)
(* A step that undeploys nothing: who is about to be deleted still is.     *)
(***************************************************************************)
LEMMA SparedBirths ==
  ASSUME CloseInv, faults = 0, Births, Spared, Unborn' \subseteq Unborn, NEW b \in Builds
  PROVE  /\ Live(b) => Live(b)' /\ Made(b)' = Made(b)
         /\ Live(b)' => Live(b) \/ (Born(b) /\ b \in Unborn /\ Made(b)' = now)
         /\ b \notin Unborn => b \notin Unborn' /\ (Live(b)' <=> Live(b))
<1>1. Live(b) => b \notin Unborn
  BY CloseParts
<1> QED
  BY <1>1 DEF Births, Born, Spared, Live, Made

LEMMA DueSpared ==
  ASSUME CloseInv, faults = 0, Births, Spared, Unborn' \subseteq Unborn,
         NEW y \in Builds, NEW t, Live(y), Due(y, t)
  PROVE  Due(y, t)'
<1>1. PICK c \in Clients, i \in Positions :
        /\ Del(c, i, y)
        /\ \A j \in 1 .. i - 1 : \E b \in Builds : Del(c, j, b) /\ Live(b) /\ Made(b) < t
  BY DEF Due
<1>2. i \in Nat /\ i > 0
  BY DEF Positions
<1>3. Kept(c)
  <2>1. CASE i = 1
    BY <1>1, <2>1 DEF Spared
  <2>2. CASE i # 1
    <3>1. 1 \in 1 .. i - 1
      BY <1>2, <2>2
    <3>2. \E b \in Builds : Del(c, 1, b) /\ Live(b)
      BY <1>1, <3>1
    <3> QED
      BY <3>2 DEF Spared
  <2> QED
    BY <2>1, <2>2
<1>4. ASSUME NEW j \in 1 .. i - 1
      PROVE  \E b \in Builds : Del(c, j, b)' /\ Live(b)' /\ Made(b)' < t
  <2>1. PICK b \in Builds : Del(c, j, b) /\ Live(b) /\ Made(b) < t
    BY <1>1
  <2>2. j \in Positions
    BY <1>2 DEF Positions
  <2>3. Del(c, j, b)'
    BY <1>3, <2>1, <2>2 DEF Kept
  <2>4. Live(b)' /\ Made(b)' = Made(b)
    BY <2>1, SparedBirths
  <2> QED
    BY <2>1, <2>3, <2>4
<1>5. Del(c, i, y)'
  BY <1>1, <1>3 DEF Kept
<1> QED
  BY <1>4, <1>5 DEF Due

\* A call of a list was in it before, maybe one place later.
LEMMA SparedList ==
  ASSUME Spared, NEW c \in Clients
  PROVE  \/ Emptied(c)
         \/ \E s \in {0, 1} : \A i \in Positions :
              /\ i + s \in Positions
              /\ \A b \in Builds : Del(c, i, b)' <=> Del(c, i + s, b)
<1>1. ASSUME NEW i \in Positions
      PROVE  i + 0 = i /\ i + 0 \in Positions /\ i + 1 \in Positions
  BY DEF Positions
<1>2. CASE Kept(c)
  <2>1. \A i \in Positions : i + 0 \in Positions /\ \A b \in Builds : Del(c, i, b)' <=> Del(c, i + 0, b)
    BY <1>1, <1>2 DEF Kept
  <2> QED
    BY <2>1
<1>3. CASE Popped(c)
  <2>1. \A i \in Positions : i + 1 \in Positions /\ \A b \in Builds : Del(c, i, b)' <=> Del(c, i + 1, b)
    BY <1>1, <1>3 DEF Popped
  <2> QED
    BY <2>1
<1> QED
  BY <1>2, <1>3 DEF Spared

LEMMA SparedLists ==
  ASSUME CloseInv, faults = 0, Births, Spared, Unborn' \subseteq Unborn
  PROVE  ListsOfPulls' /\ ListsInOrder' /\ LaterDue'
<1>1. ListsOfPulls /\ ListsInOrder /\ LaterDue /\ CreatedApart
  BY DEF CloseInv, TableSound, ListsSound, DuesSound
<1>2. \A x, y \in Builds : SamePull(x, y)' <=> SamePull(x, y)
  BY DEF SamePull
<1>3. ASSUME NEW c \in Clients, NEW i \in Positions, NEW x \in Builds, Del(c, i, x)'
      PROVE  \E s \in {0, 1} : \A j \in Positions :
               j + s \in Positions /\ \A b \in Builds : Del(c, j, b)' <=> Del(c, j + s, b)
  BY <1>3, SparedList DEF Emptied
<1>4. ASSUME NEW c \in Clients, NEW i \in Positions, NEW x \in Builds, Del(c, i, x)'
      PROVE  x \notin Unborn' /\ (Live(x)' <=> Live(x)) /\ (Live(x) => Made(x)' = Made(x))
  <2>1. PICK s \in {0, 1} : i + s \in Positions /\ Del(c, i + s, x)
    BY <1>3, <1>4
  <2>2. x \notin Unborn
    BY <1>1, <2>1 DEF ListsOfPulls
  <2> QED
    BY <2>2, SparedBirths
<1>5. ListsOfPulls'
  <2> SUFFICES ASSUME NEW c \in Clients, NEW i \in Positions, NEW x \in Builds, Del(c, i, x)'
               PROVE  /\ x \notin Unborn'
                      /\ \A j \in Positions : \A y \in Builds : Del(c, j, y)' => SamePull(x, y)
                      /\ \A j \in 1 .. i : \E y \in Builds : Del(c, j, y)'
    BY <1>2 DEF ListsOfPulls
  <2>1. PICK s \in {0, 1} : \A j \in Positions :
          j + s \in Positions /\ \A b \in Builds : Del(c, j, b)' <=> Del(c, j + s, b)
    BY <1>3
  <2>2. Del(c, i + s, x) /\ i + s \in Positions
    BY <2>1
  <2>3. \A j \in Positions : \A y \in Builds : Del(c, j, y)' => SamePull(x, y)
    BY <1>1, <2>1, <2>2 DEF ListsOfPulls
  <2>4. ASSUME NEW j \in 1 .. i
        PROVE  \E y \in Builds : Del(c, j, y)'
    <3>1. j \in Positions /\ j + s \in 1 .. i + s
      BY DEF Positions
    <3>2. \E y \in Builds : Del(c, j + s, y)
      BY <1>1, <2>2, <3>1 DEF ListsOfPulls
    <3> QED
      BY <2>1, <3>1, <3>2
  <2> QED
    BY <1>4, <2>3, <2>4
<1>6. ListsInOrder'
  <2> SUFFICES ASSUME NEW c \in Clients, NEW i \in Positions, NEW x \in Builds,
                      Del(c, i, x)', Live(x)', NEW y \in Builds, Live(y)'
               PROVE  /\ \A j \in Positions : i < j /\ Del(c, j, y)' => Made(y)' < Made(x)'
                      /\ SamePull(x, y) /\ Made(y)' < Made(x)' =>
                           \E j \in Positions : i < j /\ Del(c, j, y)'
    BY <1>2 DEF ListsInOrder
  <2>1. PICK s \in {0, 1} : \A j \in Positions :
          j + s \in Positions /\ \A b \in Builds : Del(c, j, b)' <=> Del(c, j + s, b)
    BY <1>3
  <2>2. Del(c, i + s, x) /\ i + s \in Positions /\ Live(x) /\ Made(x)' = Made(x)
    BY <1>4, <2>1
  <2>3. (Live(y) /\ Made(y)' = Made(y)) \/ (y \in Unborn /\ Made(y)' = now)
    BY SparedBirths
  <2>4. Made(x) < now /\ Made(x) \in Nat /\ now \in Nat
    BY <1>1, <2>2, CloseParts DEF CreatedApart, Live, Made
  <2>5. CASE Live(y) /\ Made(y)' = Made(y)
    <3>1. ASSUME NEW j \in Positions, i < j, Del(c, j, y)'
          PROVE  Made(y)' < Made(x)'
      <4>1. Del(c, j + s, y) /\ i + s < j + s /\ j + s \in Positions
        BY <2>1, <3>1 DEF Positions
      <4> QED
        BY <1>1, <2>2, <2>5, <4>1 DEF ListsInOrder
    <3>2. ASSUME SamePull(x, y), Made(y)' < Made(x)'
          PROVE  \E j \in Positions : i < j /\ Del(c, j, y)'
      <4>1. PICK j \in Positions : i + s < j /\ Del(c, j, y)
        BY <1>1, <2>2, <2>5, <3>2 DEF ListsInOrder
      <4>2. j - s \in Positions /\ i < j - s /\ (j - s) + s = j
        BY <4>1 DEF Positions
      <4>3. Del(c, j - s, y)'
        BY <2>1, <4>1, <4>2
      <4> QED
        BY <4>2, <4>3
    <3> QED
      BY <3>1, <3>2
  <2>6. CASE y \in Unborn /\ Made(y)' = now
    <3>1. \A j \in Positions : ~Del(c, j, y)'
      BY <1>1, <2>1, <2>6 DEF ListsOfPulls
    <3> QED
      BY <2>2, <2>4, <2>6, <3>1
  <2> QED
    BY <2>3, <2>5, <2>6
<1>7. LaterDue'
  <2> SUFFICES ASSUME NEW c \in Clients, NEW i \in Positions, NEW j \in Positions,
                      NEW x \in Builds, NEW y \in Builds,
                      i < j, Del(c, i, x)', ~Live(x)', Del(c, j, y)', Live(y)'
               PROVE  \E t \in Nat :
                        /\ Due(y, t)'
                        /\ \A q \in 1 .. i - 1 : \A b \in Builds :
                             Del(c, q, b)' /\ Live(b)' => t <= Made(b)'
    BY DEF LaterDue
  <2>1. PICK s \in {0, 1} : \A p \in Positions :
          p + s \in Positions /\ \A b \in Builds : Del(c, p, b)' <=> Del(c, p + s, b)
    BY <1>3
  <2>2. /\ i + s \in Positions /\ j + s \in Positions /\ i + s < j + s
        /\ Del(c, i + s, x) /\ Del(c, j + s, y) /\ ~Live(x) /\ Live(y)
    BY <1>4, <2>1 DEF Positions
  <2>3. PICK t \in Nat :
          /\ Due(y, t)
          /\ \A q \in 1 .. (i + s) - 1 : \A b \in Builds : Del(c, q, b) /\ Live(b) => t <= Made(b)
    BY <1>1, <2>2 DEF LaterDue
  <2>4. Due(y, t)'
    BY <2>2, <2>3, DueSpared
  <2>5. ASSUME NEW q \in 1 .. i - 1, NEW b \in Builds, Del(c, q, b)', Live(b)'
        PROVE  t <= Made(b)'
    <3>1. q \in Positions /\ q + s \in 1 .. (i + s) - 1
      BY DEF Positions
    <3>2. Del(c, q + s, b) /\ Live(b) /\ Made(b)' = Made(b)
      BY <1>4, <2>1, <2>5, <3>1
    <3> QED
      BY <2>3, <3>1, <3>2
  <2> QED
    BY <2>4, <2>5
<1> QED
  BY <1>5, <1>6, <1>7

LEMMA SparedDues ==
  ASSUME CloseInv, (\A b \in Builds : Made(b) \in Nat)', faults = 0, Births, Records, Spared,
         Unborn' \subseteq Unborn, condemned' = condemned
  PROVE  OlderDue' /\ CondemnedDue'
<1>1. /\ OlderDue /\ CondemnedDue /\ RecordsPast /\ condemned \subseteq Builds \ Unborn
      /\ now \in Nat /\ now' \in Nat /\ now <= now'
  BY DEF CloseInv, TableSound, DuesSound, Births
<1>2. OlderDue'
  <2> SUFFICES ASSUME NEW x \in Builds, NEW y \in Builds, ~Live(x)', Live(y)', SamePull(x, y),
                      NEW t, Recorded(x, t)', Made(y)' <= t
               PROVE  Due(y, t)'
    BY DEF OlderDue, SamePull
  <2>1. ~Live(x) /\ ~Born(x)
    BY SparedBirths DEF Born, Live
  <2>2. Recorded(x, t) /\ t \in Nat /\ t < now
    BY <1>1, <2>1 DEF Records, RecordsPast
  <2>3. Live(y) /\ Made(y)' = Made(y)
    BY <1>1, <2>2, SparedBirths
  <2> QED
    BY <1>1, <2>1, <2>2, <2>3, DueSpared DEF OlderDue
<1>3. CondemnedDue'
  <2> SUFFICES ASSUME NEW y \in condemned, Live(y)'
               PROVE  Due(y, now)'
    BY DEF CondemnedDue
  <2>1. y \in Builds /\ y \notin Unborn
    BY <1>1
  <2>2. Live(y)
    BY <2>1, SparedBirths
  <2>3. Due(y, now)
    BY <1>1, <2>2 DEF CondemnedDue
  <2> QED
    BY <1>1, <2>1, <2>2, <2>3, DueSpared, NextDueLater
<1> QED
  BY <1>2, <1>3

(***************************************************************************)
(* A step that undeploys a build: the older ones of its pull request come  *)
(* after it in the list, or are about to be deleted by a list that is      *)
(* ahead of this one.                                                      *)
(***************************************************************************)
LEMMA LiveRecords ==
  ASSUME CloseInv, NEW b \in Builds, Live(b), NEW t, Recorded(b, t)
  PROVE  t = Made(b)
<1>1. Timely(b, db[b]) /\ deplEvents \in Seq(TimelyEvents) /\ Present(deployments[b])
  BY CloseParts, MirrorParts DEF PlacesMet, Live, Present
<1>2. ASSUME NEW n \in 1 .. Len(deplEvents), deplEvents[n].build = b,
             deplEvents[n].row.status # "absent"
      PROVE  deplEvents[n].row.created = Made(b)
  <2>1. deplEvents[n] \in TimelyEvents
    BY <1>1
  <2> QED
    BY <1>1, <1>2, <2>1 DEF TimelyEvents, Timely, Made
<1> QED
  BY <1>1, <1>2 DEF Recorded, Timely, Made

LEMMA UndeployedOthers ==
  ASSUME NEW k \in Clients, NEW z \in Builds, Undeployed(k, z), NEW b \in Builds
  PROVE  /\ Live(b)' => b # z /\ Live(b)
         /\ b # z => (Live(b)' <=> Live(b)) /\ Made(b)' = Made(b)
BY DEF Undeployed, Live, Made

\* A call of a list was in it before.
LEMMA UndeployedList ==
  ASSUME NEW k \in Clients, NEW z \in Builds, Undeployed(k, z), NEW c \in Clients
  PROVE  \E s \in {0, 1} :
           /\ c = k <=> s = 1
           /\ \A i \in Positions :
                i + s \in Positions /\ \A b \in Builds : Del(c, i, b)' <=> Del(c, i + s, b)
<1>1. ASSUME NEW i \in Positions
      PROVE  i + 0 = i /\ i + 0 \in Positions /\ i + 1 \in Positions
  BY DEF Positions
<1>2. CASE c = k
  <2>1. \A i \in Positions : i + 1 \in Positions /\ \A b \in Builds : Del(c, i, b)' <=> Del(c, i + 1, b)
    BY <1>1, <1>2 DEF Popped, Undeployed
  <2> QED
    BY <1>2, <2>1
<1>3. CASE c # k
  <2>1. \A i \in Positions : i + 0 \in Positions /\ \A b \in Builds : Del(c, i, b)' <=> Del(c, i + 0, b)
    BY <1>1, <1>3 DEF Kept, Undeployed
  <2> QED
    BY <1>3, <2>1
<1> QED
  BY <1>2, <1>3

\* No list deletes a live build twice.
LEMMA LiveOnce ==
  ASSUME CloseInv, faults = 0, NEW c \in Clients, NEW i \in Positions, NEW j \in Positions,
         NEW b \in Builds, Live(b), Del(c, i, b), Del(c, j, b)
  PROVE  i = j
<1>1. ListsInOrder /\ Made(b) \in Nat
  BY CloseParts DEF CloseInv, ListsSound
<1>2. ~(i < j) /\ ~(j < i)
  BY <1>1 DEF ListsInOrder
<1> QED
  BY <1>2 DEF Positions

LEMMA OlderOfUndeployed ==
  ASSUME CloseInv, faults = 0, NEW k \in Clients, NEW z \in Builds, Undeployed(k, z),
         NEW y \in Builds, Live(y)', SamePull(z, y), Made(y) < Made(z)
  PROVE  \E t \in Nat : t <= Made(z) /\ Due(y, t)'
<1>1. /\ ListsOfPulls /\ ListsInOrder /\ LaterDue
      /\ \A b \in Builds : Made(b) \in Nat
      /\ Live(z) /\ Del(k, 1, z) /\ 1 \in Positions
  BY CloseParts DEF CloseInv, ListsSound, DuesSound, Undeployed, Positions
<1>2. y # z /\ Live(y)
  BY UndeployedOthers
<1>3. PICK j \in Positions : 1 < j /\ Del(k, j, y)
  BY <1>1, <1>2 DEF ListsInOrder
<1>4. j \in Nat /\ j - 1 \in Positions /\ (j - 1) + 1 = j
  BY <1>3 DEF Positions
<1>5. Popped(k)
  BY DEF Undeployed
<1>6. Del(k, j - 1, y)'
  BY <1>3, <1>4, <1>5 DEF Popped
<1>7. CASE \A m \in 2 .. j - 1 : \E b \in Builds : Del(k, m, b) /\ Live(b)
  <2>1. ASSUME NEW n \in 1 .. (j - 1) - 1
        PROVE  \E b \in Builds : Del(k, n, b)' /\ Live(b)' /\ Made(b)' < Made(z)
    <3>1. n \in Positions /\ n + 1 \in Positions /\ n + 1 \in 2 .. j - 1 /\ 1 < n + 1
      BY <1>4 DEF Positions
    <3>2. PICK b \in Builds : Del(k, n + 1, b) /\ Live(b)
      BY <1>7, <3>1
    <3>3. Made(b) < Made(z)
      BY <1>1, <3>1, <3>2 DEF ListsInOrder
    <3>4. b # z
      BY <1>1, <3>3
    <3>5. Live(b)' /\ Made(b)' = Made(b)
      BY <3>2, <3>4, UndeployedOthers
    <3> QED
      BY <1>5, <3>1, <3>2, <3>3, <3>5 DEF Popped
  <2>2. \E c \in Clients : \E i \in Positions :
          /\ Del(c, i, y)'
          /\ \A n \in 1 .. i - 1 : \E b \in Builds : Del(c, n, b)' /\ Live(b)' /\ Made(b)' < Made(z)
    BY <1>4, <1>6, <2>1
  <2>3. \A t : t = Made(z) => Due(y, t)'
    BY <2>2 DEF Due
  <2> QED
    BY <1>1, <2>3
<1>8. CASE ~\A m \in 2 .. j - 1 : \E b \in Builds : Del(k, m, b) /\ Live(b)
  <2>1. PICK m \in 2 .. j - 1 : ~\E b \in Builds : Del(k, m, b) /\ Live(b)
    BY <1>8
  <2>2. m \in Positions /\ m < j /\ m \in 1 .. j /\ 1 \in 1 .. m - 1
    BY <1>4, <2>1 DEF Positions
  <2>3. PICK x \in Builds : Del(k, m, x)
    BY <1>1, <1>3, <2>2 DEF ListsOfPulls
  <2>4. PICK t \in Nat :
          /\ Due(y, t)
          /\ \A q \in 1 .. m - 1 : \A b \in Builds : Del(k, q, b) /\ Live(b) => t <= Made(b)
    BY <1>1, <1>2, <1>3, <2>1, <2>2, <2>3 DEF LaterDue
  <2>5. t <= Made(z)
    BY <1>1, <2>2, <2>4
  <2>6. PICK c \in Clients, i \in Positions :
          /\ Del(c, i, y)
          /\ \A n \in 1 .. i - 1 : \E b \in Builds : Del(c, n, b) /\ Live(b) /\ Made(b) < t
    BY <2>4 DEF Due
  <2>7. c # k
    <3>1. CASE i = 1
      BY <1>1, <1>2, <2>6, <3>1 DEF Del
    <3>2. CASE i # 1
      <4>1. 1 \in 1 .. i - 1
        BY <2>6, <3>2 DEF Positions
      <4>2. PICK b \in Builds : Del(c, 1, b) /\ Made(b) < t
        BY <2>6, <4>1
      <4>3. b # z
        BY <1>1, <2>5, <4>2
      <4> QED
        BY <1>1, <4>2, <4>3 DEF Del
    <3> QED
      BY <3>1, <3>2
  <2>8. Kept(c)
    BY <2>7 DEF Undeployed
  <2>9. ASSUME NEW n \in 1 .. i - 1
        PROVE  \E b \in Builds : Del(c, n, b)' /\ Live(b)' /\ Made(b)' < t
    <3>1. PICK b \in Builds : Del(c, n, b) /\ Live(b) /\ Made(b) < t
      BY <2>6
    <3>2. b # z
      BY <1>1, <2>5, <3>1
    <3>3. Live(b)' /\ Made(b)' = Made(b)
      BY <3>1, <3>2, UndeployedOthers
    <3>4. n \in Positions
      BY <2>6 DEF Positions
    <3> QED
      BY <2>8, <3>1, <3>3, <3>4 DEF Kept
  <2>10. Due(y, t)'
    BY <2>6, <2>8, <2>9 DEF Due, Kept
  <2> QED
    BY <2>5, <2>10
<1> QED
  BY <1>7, <1>8

LEMMA DueUndeployed ==
  ASSUME CloseInv, (\A b \in Builds : Made(b) \in Nat)', faults = 0,
         NEW k \in Clients, NEW z \in Builds, Undeployed(k, z),
         NEW y \in Builds, Live(y)', NEW t \in Nat, Due(y, t)
  PROVE  Due(y, t)'
<1>1. /\ ListsOfPulls /\ ListsInOrder
      /\ \A b \in Builds : Made(b) \in Nat
      /\ Live(z) /\ Del(k, 1, z) /\ 1 \in Positions
  BY CloseParts DEF CloseInv, ListsSound, Undeployed, Positions
<1>2. y # z /\ Live(y)
  BY UndeployedOthers
<1>3. PICK c \in Clients, i \in Positions :
        /\ Del(c, i, y)
        /\ \A j \in 1 .. i - 1 : \E b \in Builds : Del(c, j, b) /\ Live(b) /\ Made(b) < t
  BY DEF Due
<1>4. CASE c = k
  <2>1. i # 1
    BY <1>1, <1>2, <1>3, <1>4 DEF Del
  <2>2. i - 1 \in Positions /\ (i - 1) + 1 = i
    BY <1>3, <2>1 DEF Positions
  <2>3. Popped(c)
    BY <1>4 DEF Undeployed
  <2>4. Del(c, i - 1, y)'
    BY <1>3, <2>2, <2>3 DEF Popped
  <2>5. ASSUME NEW j \in 1 .. (i - 1) - 1
        PROVE  \E b \in Builds : Del(c, j, b)' /\ Live(b)' /\ Made(b)' < t
    <3>1. j \in Positions /\ j + 1 \in Positions /\ j + 1 \in 1 .. i - 1 /\ j + 1 # 1
      BY <1>3 DEF Positions
    <3>2. PICK b \in Builds : Del(c, j + 1, b) /\ Live(b) /\ Made(b) < t
      BY <1>3, <3>1
    <3>3. b # z
      BY <1>1, <1>4, <3>1, <3>2, LiveOnce
    <3>4. Live(b)' /\ Made(b)' = Made(b)
      BY <3>2, <3>3, UndeployedOthers
    <3> QED
      BY <2>3, <3>1, <3>2, <3>4 DEF Popped
  <2> QED
    BY <2>2, <2>4, <2>5 DEF Due
<1>5. CASE c # k /\ \E j \in 1 .. i - 1 : Del(c, j, z)
  <2>1. PICK j \in 1 .. i - 1 : Del(c, j, z)
    BY <1>5
  <2>2. j \in Positions /\ j < i
    BY <1>3, <2>1 DEF Positions
  <2>3. Made(y) < Made(z) /\ SamePull(z, y)
    BY <1>1, <1>2, <1>3, <2>1, <2>2 DEF ListsInOrder, ListsOfPulls
  <2>4. Made(z) < t
    <3>1. PICK b \in Builds : Del(c, j, b) /\ Made(b) < t
      BY <1>3, <2>1
    <3> QED
      BY <2>1, <3>1 DEF Del
  <2>5. PICK u \in Nat : u <= Made(z) /\ Due(y, u)'
    BY <2>3, OlderOfUndeployed
  <2>6. u <= t
    BY <1>1, <2>4, <2>5
  <2> QED
    BY <2>5, <2>6, NextDueLater
<1>6. CASE c # k /\ ~\E j \in 1 .. i - 1 : Del(c, j, z)
  <2>1. Kept(c)
    BY <1>6 DEF Undeployed
  <2>2. ASSUME NEW j \in 1 .. i - 1
        PROVE  \E b \in Builds : Del(c, j, b)' /\ Live(b)' /\ Made(b)' < t
    <3>1. PICK b \in Builds : Del(c, j, b) /\ Live(b) /\ Made(b) < t
      BY <1>3
    <3>2. b # z
      BY <1>6, <3>1
    <3>3. Live(b)' /\ Made(b)' = Made(b)
      BY <3>1, <3>2, UndeployedOthers
    <3>4. j \in Positions
      BY <1>3 DEF Positions
    <3> QED
      BY <2>1, <3>1, <3>3, <3>4 DEF Kept
  <2> QED
    BY <1>3, <2>1, <2>2 DEF Due, Kept
<1> QED
  BY <1>4, <1>5, <1>6

LEMMA UndeployedLists ==
  ASSUME CloseInv, (\A b \in Builds : Made(b) \in Nat)', faults = 0, Unborn' \subseteq Unborn,
         NEW k \in Clients, NEW z \in Builds, Undeployed(k, z)
  PROVE  ListsOfPulls' /\ ListsInOrder' /\ LaterDue'
<1>1. /\ ListsOfPulls /\ ListsInOrder /\ LaterDue
      /\ \A b \in Builds : Made(b) \in Nat
      /\ Live(z)
  BY CloseParts DEF CloseInv, ListsSound, DuesSound, Undeployed
<1>2. \A x, y \in Builds : SamePull(x, y)' <=> SamePull(x, y)
  BY DEF SamePull
<1>3. ListsOfPulls'
  <2> SUFFICES ASSUME NEW c \in Clients, NEW i \in Positions, NEW x \in Builds, Del(c, i, x)'
               PROVE  /\ x \notin Unborn'
                      /\ \A j \in Positions : \A y \in Builds : Del(c, j, y)' => SamePull(x, y)
                      /\ \A j \in 1 .. i : \E y \in Builds : Del(c, j, y)'
    BY <1>2 DEF ListsOfPulls
  <2>1. PICK s \in {0, 1} : \A j \in Positions :
          j + s \in Positions /\ \A b \in Builds : Del(c, j, b)' <=> Del(c, j + s, b)
    BY UndeployedList
  <2>2. Del(c, i + s, x) /\ i + s \in Positions
    BY <2>1
  <2>3. \A j \in Positions : \A y \in Builds : Del(c, j, y)' => SamePull(x, y)
    BY <1>1, <2>1, <2>2 DEF ListsOfPulls
  <2>4. ASSUME NEW j \in 1 .. i
        PROVE  \E y \in Builds : Del(c, j, y)'
    <3>1. j \in Positions /\ j + s \in 1 .. i + s
      BY DEF Positions
    <3>2. \E y \in Builds : Del(c, j + s, y)
      BY <1>1, <2>2, <3>1 DEF ListsOfPulls
    <3> QED
      BY <2>1, <3>1, <3>2
  <2>5. x \notin Unborn
    BY <1>1, <2>2 DEF ListsOfPulls
  <2> QED
    BY <2>3, <2>4, <2>5
<1>4. ListsInOrder'
  <2> SUFFICES ASSUME NEW c \in Clients, NEW i \in Positions, NEW x \in Builds,
                      Del(c, i, x)', Live(x)', NEW y \in Builds, Live(y)'
               PROVE  /\ \A j \in Positions : i < j /\ Del(c, j, y)' => Made(y)' < Made(x)'
                      /\ SamePull(x, y) /\ Made(y)' < Made(x)' =>
                           \E j \in Positions : i < j /\ Del(c, j, y)'
    BY <1>2 DEF ListsInOrder
  <2>1. PICK s \in {0, 1} : \A j \in Positions :
          j + s \in Positions /\ \A b \in Builds : Del(c, j, b)' <=> Del(c, j + s, b)
    BY UndeployedList
  <2>2. /\ Del(c, i + s, x) /\ i + s \in Positions
        /\ Live(x) /\ Made(x)' = Made(x) /\ Live(y) /\ Made(y)' = Made(y)
    BY <2>1, UndeployedOthers
  <2>3. ASSUME NEW j \in Positions, i < j, Del(c, j, y)'
        PROVE  Made(y)' < Made(x)'
    <3>1. Del(c, j + s, y) /\ i + s < j + s /\ j + s \in Positions
      BY <2>1, <2>3 DEF Positions
    <3> QED
      BY <1>1, <2>2, <3>1 DEF ListsInOrder
  <2>4. ASSUME SamePull(x, y), Made(y)' < Made(x)'
        PROVE  \E j \in Positions : i < j /\ Del(c, j, y)'
    <3>1. PICK j \in Positions : i + s < j /\ Del(c, j, y)
      BY <1>1, <2>2, <2>4 DEF ListsInOrder
    <3>2. j - s \in Positions /\ i < j - s /\ (j - s) + s = j
      BY <3>1 DEF Positions
    <3>3. Del(c, j - s, y)'
      BY <2>1, <3>1, <3>2
    <3> QED
      BY <3>2, <3>3
  <2> QED
    BY <2>3, <2>4
<1>5. LaterDue'
  <2> SUFFICES ASSUME NEW c \in Clients, NEW i \in Positions, NEW j \in Positions,
                      NEW x \in Builds, NEW y \in Builds,
                      i < j, Del(c, i, x)', ~Live(x)', Del(c, j, y)', Live(y)'
               PROVE  \E t \in Nat :
                        /\ Due(y, t)'
                        /\ \A q \in 1 .. i - 1 : \A b \in Builds :
                             Del(c, q, b)' /\ Live(b)' => t <= Made(b)'
    BY DEF LaterDue
  <2>1. PICK s \in {0, 1} :
          /\ c = k <=> s = 1
          /\ \A p \in Positions :
               p + s \in Positions /\ \A b \in Builds : Del(c, p, b)' <=> Del(c, p + s, b)
    BY UndeployedList
  <2>2. /\ i + s \in Positions /\ j + s \in Positions /\ i + s < j + s
        /\ Del(c, i + s, x) /\ Del(c, j + s, y)
    BY <2>1 DEF Positions
  <2>3. Live(y) /\ Made(y)' = Made(y)
    BY UndeployedOthers
  <2>4. ASSUME NEW q \in 1 .. i - 1, NEW b \in Builds, Del(c, q, b)', Live(b)'
        PROVE  /\ q + s \in Positions /\ q + s \in 1 .. (i + s) - 1 /\ q + s < i + s
               /\ Del(c, q + s, b) /\ Live(b) /\ Made(b)' = Made(b)
    <3>1. q \in Positions /\ q + s \in 1 .. (i + s) - 1 /\ q + s < i + s
      BY DEF Positions
    <3> QED
      BY <2>1, <2>4, <3>1, UndeployedOthers
  <2>5. CASE x # z
    <3>1. ~Live(x)
      BY <2>5, UndeployedOthers
    <3>2. PICK t \in Nat :
            /\ Due(y, t)
            /\ \A q \in 1 .. (i + s) - 1 : \A b \in Builds : Del(c, q, b) /\ Live(b) => t <= Made(b)
      BY <1>1, <2>2, <2>3, <3>1 DEF LaterDue
    <3>3. Due(y, t)'
      BY <3>2, DueUndeployed
    <3>4. \A q \in 1 .. i - 1 : \A b \in Builds : Del(c, q, b)' /\ Live(b)' => t <= Made(b)'
      BY <2>4, <3>2
    <3> QED
      BY <3>3, <3>4
  <2>6. CASE x = z
    <3>1. Made(y) < Made(z) /\ SamePull(z, y)
      BY <1>1, <2>2, <2>3, <2>6 DEF ListsInOrder, ListsOfPulls
    <3>2. PICK t \in Nat : t <= Made(z) /\ Due(y, t)'
      BY <3>1, OlderOfUndeployed
    <3>3. ASSUME NEW q \in 1 .. i - 1, NEW b \in Builds, Del(c, q, b)', Live(b)'
          PROVE  t <= Made(b)'
      <4>1. /\ q + s \in Positions /\ q + s < i + s
            /\ Del(c, q + s, b) /\ Live(b) /\ Made(b)' = Made(b)
        BY <2>4, <3>3
      <4>2. Made(z) < Made(b)
        BY <1>1, <2>2, <2>6, <4>1 DEF ListsInOrder
      <4> QED
        BY <1>1, <3>2, <4>1, <4>2
    <3> QED
      BY <3>2, <3>3
  <2> QED
    BY <2>5, <2>6
<1> QED
  BY <1>3, <1>4, <1>5

LEMMA UndeployedDues ==
  ASSUME CloseInv, (\A b \in Builds : Made(b) \in Nat)', faults = 0, Births, Records,
         Unborn' \subseteq Unborn, condemned' = condemned,
         NEW k \in Clients, NEW z \in Builds, Undeployed(k, z)
  PROVE  OlderDue' /\ CondemnedDue'
<1>1. /\ OlderDue /\ CondemnedDue /\ RecordsPast /\ CreatedApart
      /\ condemned \subseteq Builds \ Unborn
      /\ now \in Nat /\ now' = now /\ Live(z)
      /\ \A b \in Builds : Made(b) \in Nat
  BY CloseParts DEF CloseInv, TableSound, DuesSound, Undeployed
<1>2. OlderDue'
  <2> SUFFICES ASSUME NEW x \in Builds, NEW y \in Builds, ~Live(x)', Live(y)', SamePull(x, y),
                      NEW t, Recorded(x, t)', Made(y)' <= t
               PROVE  Due(y, t)'
    BY DEF OlderDue, SamePull
  <2>1. Live(y) /\ Made(y)' = Made(y) /\ y # z
    BY UndeployedOthers
  <2>2. Recorded(x, t) /\ t \in Nat
    BY <1>1 DEF Records, RecordsPast, Born, Live
  <2>3. CASE x # z
    BY <1>1, <2>1, <2>2, <2>3, UndeployedOthers, DueUndeployed DEF OlderDue
  <2>4. CASE x = z
    <3>1. t = Made(z)
      BY <1>1, <2>2, <2>4, LiveRecords
    <3>2. Made(y) < Made(z)
      BY <1>1, <2>1, <3>1 DEF CreatedApart, Live, Made
    <3>3. PICK u \in Nat : u <= Made(z) /\ Due(y, u)'
      BY <2>4, <3>2, OlderOfUndeployed
    <3> QED
      BY <1>1, <3>1, <3>3, NextDueLater
  <2> QED
    BY <2>3, <2>4
<1>3. CondemnedDue'
  <2> SUFFICES ASSUME NEW y \in condemned, Live(y)'
               PROVE  Due(y, now)'
    BY DEF CondemnedDue
  <2>1. y \in Builds /\ Live(y)
    BY <1>1, UndeployedOthers
  <2>2. Due(y, now)
    BY <1>1, <2>1 DEF CondemnedDue
  <2>3. \A t : t = now => Due(y, t)'
    BY <1>1, <2>1, <2>2, DueUndeployed
  <2> QED
    BY <1>1, <2>3 DEF Due
<1> QED
  BY <1>2, <1>3

(***************************************************************************)
(* A step of client c that starts to undeploy the builds of a pull request.*)
(***************************************************************************)
Queried(c, pr, q) ==
  /\ pr # NoPr /\ q \in SearchPr(db, pr)
  /\ calls[c] = << >>
  /\ calls' = [calls EXCEPT ![c] = [i \in 1 .. Len(q) |-> Delete(q[i])]]
  /\ UNCHANGED << clusterVars, db >>
  /\ condemned' = condemned \union BuildsOfPull(pr)

LEMMA QueriedList ==
  ASSUME CloseInv, NEW c \in Clients, NEW pr, NEW q, Queried(c, pr, q)
  PROVE  /\ Len(q) \in Nat
         /\ \A i \in 1 .. Len(q) :
              /\ q[i] \in BuildsOfPull(pr)
              /\ \A j \in 1 .. Len(q) : i < j => db[q[i]].created >= db[q[j]].created
              /\ \A j \in 1 .. Len(q) : i # j => q[i] # q[j]
         /\ \A b \in BuildsOfPull(pr) : \E i \in 1 .. Len(q) : q[i] = b
         /\ \A b \in BuildsOfPull(pr) : /\ b \in Builds /\ b \notin Unborn
                                        /\ db[b].status # "absent" /\ Info[b].pr = pr
                                        /\ Recorded(b, db[b].created)
                                        /\ Live(b) => db[b].created = Made(b)
<1>1. IsFiniteSet(BuildsOfPull(pr)) /\ BuildsOfPull(pr) \subseteq Builds
  BY BuildsAssumption, FS_Subset DEF BuildsOfPull, Names
<1>2. /\ q \in SetToSeqs(BuildsOfPull(pr))
      /\ \A i, j \in 1 .. Len(q) :
           i < j /\ Info[q[i]].branch = Info[q[j]].branch
             => db[q[i]].created >= db[q[j]].created
  BY DEF Queried, SearchPr, BuildsOfPull
<1>3. /\ Len(q) \in Nat
      /\ \A i \in 1 .. Len(q) : q[i] \in BuildsOfPull(pr)
      /\ \A i, j \in 1 .. Len(q) : i # j => q[i] # q[j]
      /\ \A x \in BuildsOfPull(pr) : \E i \in 1 .. Len(q) : q[i] = x
  BY <1>1, <1>2, Listed
<1>4. ASSUME NEW b \in BuildsOfPull(pr)
      PROVE  /\ b \in Builds /\ b \notin Unborn
             /\ db[b].status # "absent" /\ Info[b].pr = pr
             /\ Recorded(b, db[b].created)
             /\ Live(b) => db[b].created = Made(b)
  <2>1. b \in Builds /\ db[b].status # "absent" /\ Info[b].pr = pr
    BY DEF BuildsOfPull, Names
  <2>2. [build |-> b, row |-> db[b]] \in SoundSnapshots
    BY <2>1, CloseParts, InvParts DEF PlacesSound
  <2>3. b \notin Unborn
    BY <2>1, <2>2 DEF SoundSnapshots
  <2>4. Recorded(b, db[b].created)
    BY <2>1 DEF Recorded
  <2> QED
    BY <2>1, <2>3, <2>4, LiveRecords
<1>5. \A i \in 1 .. Len(q) : Info[q[i]].branch = BaseBranch
  BY <1>3, <1>4 DEF CloseInv, Queried
<1> QED
  BY <1>2, <1>3, <1>4, <1>5

LEMMA QueriedCalls ==
  ASSUME CloseInv, NEW c \in Clients, NEW pr, NEW q, Queried(c, pr, q)
  PROVE  /\ \A i \in Positions : \A b \in Builds :
              /\ ~Del(c, i, b)
              /\ Del(c, i, b)' <=> i \in 1 .. Len(q) /\ q[i] = b
         /\ \A d \in Clients \ {c} : \A i \in Positions : \A b \in Builds :
              Del(d, i, b)' <=> Del(d, i, b)
         /\ \A b \in Builds : (Live(b)' <=> Live(b)) /\ Made(b)' = Made(b)
         /\ Unborn' = Unborn /\ now' = now
         /\ \A b \in Builds : \A t : Recorded(b, t)' <=> Recorded(b, t)
<1>1. /\ calls \in [Actors -> Seq(Calls)] /\ c \in Actors
      /\ calls' = [calls EXCEPT ![c] = [i \in 1 .. Len(q) |-> Delete(q[i])]]
      /\ calls[c] = << >>
  BY CloseParts, ActorSets DEF Queried
<1>2. Len(q) \in Nat
  BY QueriedList
<1>3. calls'[c] = [i \in 1 .. Len(q) |-> Delete(q[i])]
  BY <1>1
<1>4. Len(calls'[c]) = Len(q) /\ \A i \in 1 .. Len(q) : calls'[c][i] = Delete(q[i])
  BY <1>2, <1>3
<1>5. \A i \in Positions : \A b \in Builds :
        /\ ~Del(c, i, b)
        /\ Del(c, i, b)' <=> i \in 1 .. Len(q) /\ q[i] = b
  BY <1>1, <1>4 DEF Del, Delete
<1>6. \A d \in Clients \ {c} : calls'[d] = calls[d]
  BY <1>1, ActorSets
<1>7. \A d \in Clients \ {c} : \A i \in Positions : \A b \in Builds : Del(d, i, b)' <=> Del(d, i, b)
  BY <1>6 DEF Del
<1>8. UNCHANGED << deployments, now, db, deplEvents >>
  BY DEF Queried, clusterVars
<1>9. /\ \A b \in Builds : (Live(b)' <=> Live(b)) /\ Made(b)' = Made(b)
      /\ Unborn' = Unborn /\ now' = now
  BY <1>8 DEF Live, Made, Unborn
<1>10. \A b \in Builds : \A t : Recorded(b, t)' <=> Recorded(b, t)
  BY <1>8 DEF Recorded
<1> QED
  BY <1>5, <1>7, <1>9, <1>10

LEMMA DueQueried ==
  ASSUME CloseInv, NEW c \in Clients, NEW pr, NEW q, Queried(c, pr, q),
         NEW y \in Builds, NEW t, Due(y, t)
  PROVE  Due(y, t)'
<1>1. PICK d \in Clients, i \in Positions :
        /\ Del(d, i, y)
        /\ \A j \in 1 .. i - 1 : \E b \in Builds : Del(d, j, b) /\ Live(b) /\ Made(b) < t
  BY DEF Due
<1>2. d # c
  BY <1>1, QueriedCalls
<1>3. Del(d, i, y)'
  BY <1>1, <1>2, QueriedCalls
<1>4. ASSUME NEW j \in 1 .. i - 1
      PROVE  \E b \in Builds : Del(d, j, b)' /\ Live(b)' /\ Made(b)' < t
  <2>1. j \in Positions
    BY DEF Positions
  <2>2. PICK b \in Builds : Del(d, j, b) /\ Live(b) /\ Made(b) < t
    BY <1>1
  <2> QED
    BY <1>2, <2>1, <2>2, QueriedCalls
<1> QED
  BY <1>3, <1>4 DEF Due

LEMMA QueriedLists ==
  ASSUME CloseInv, faults = 0, NEW c \in Clients, NEW pr, NEW q, Queried(c, pr, q)
  PROVE  ListsOfPulls' /\ ListsInOrder' /\ LaterDue'
<1>1. /\ ListsOfPulls /\ ListsInOrder /\ LaterDue /\ OlderDue
      /\ CreatedApart /\ TableInOrder /\ RecordsPast
      /\ \A b \in Builds : Made(b) \in Nat
      /\ pr # NoPr
  BY CloseParts DEF CloseInv, TableSound, ListsSound, DuesSound, Queried
<1>2. \A x, y \in Builds : SamePull(x, y)' <=> SamePull(x, y)
  BY DEF SamePull
<1>3. ListsOfPulls'
  <2> SUFFICES ASSUME NEW d \in Clients, NEW i \in Positions, NEW x \in Builds, Del(d, i, x)'
               PROVE  /\ x \notin Unborn'
                      /\ \A j \in Positions : \A y \in Builds : Del(d, j, y)' => SamePull(x, y)
                      /\ \A j \in 1 .. i : \E y \in Builds : Del(d, j, y)'
    BY <1>2 DEF ListsOfPulls
  <2>1. \A j \in 1 .. i : j \in Positions
    BY DEF Positions
  <2>2. CASE d # c
    <3>1. Del(d, i, x) /\ Unborn' = Unborn
      BY <2>2, QueriedCalls
    <3>2. /\ x \notin Unborn
          /\ \A j \in Positions : \A y \in Builds : Del(d, j, y) => SamePull(x, y)
          /\ \A j \in 1 .. i : \E y \in Builds : Del(d, j, y)
      BY <1>1, <3>1 DEF ListsOfPulls
    <3> QED
      BY <2>1, <2>2, <3>1, <3>2, QueriedCalls
  <2>3. CASE d = c
    <3>1. i \in 1 .. Len(q) /\ q[i] = x /\ Unborn' = Unborn
      BY <2>3, QueriedCalls
    <3>2. x \notin Unborn /\ Info[x].pr = pr
      BY <3>1, QueriedList
    <3>3. \A j \in Positions : \A y \in Builds : Del(d, j, y)' => SamePull(x, y)
      BY <1>1, <2>3, <3>2, QueriedCalls, QueriedList DEF SamePull
    <3>4. ASSUME NEW j \in 1 .. i
          PROVE  \E y \in Builds : Del(d, j, y)'
      <4>1. j \in 1 .. Len(q) /\ j \in Positions
        BY <2>1, <3>1, QueriedList
      <4>2. q[j] \in Builds
        BY <4>1, QueriedList
      <4> QED
        BY <2>3, <4>1, <4>2, QueriedCalls
    <3> QED
      BY <3>1, <3>2, <3>3, <3>4
  <2> QED
    BY <2>2, <2>3
<1>4. ListsInOrder'
  <2> SUFFICES ASSUME NEW d \in Clients, NEW i \in Positions, NEW x \in Builds,
                      Del(d, i, x)', Live(x)', NEW y \in Builds, Live(y)'
               PROVE  /\ \A j \in Positions : i < j /\ Del(d, j, y)' => Made(y)' < Made(x)'
                      /\ SamePull(x, y) /\ Made(y)' < Made(x)' =>
                           \E j \in Positions : i < j /\ Del(d, j, y)'
    BY <1>2 DEF ListsInOrder
  <2>1. Live(x) /\ Live(y) /\ Made(x)' = Made(x) /\ Made(y)' = Made(y)
    BY QueriedCalls
  <2>2. CASE d # c
    <3>1. Del(d, i, x)
      BY <2>2, QueriedCalls
    <3>2. /\ \A j \in Positions : i < j /\ Del(d, j, y) => Made(y) < Made(x)
          /\ SamePull(x, y) /\ Made(y) < Made(x) => \E j \in Positions : i < j /\ Del(d, j, y)
      BY <1>1, <2>1, <3>1 DEF ListsInOrder
    <3> QED
      BY <2>1, <2>2, <3>2, QueriedCalls
  <2>3. CASE d = c
    <3>1. i \in 1 .. Len(q) /\ q[i] = x
      BY <2>3, QueriedCalls
    <3>2. db[x].created = Made(x) /\ Info[x].pr = pr /\ db[x].status # "absent"
      BY <2>1, <3>1, QueriedList
    <3>3. ASSUME NEW j \in Positions, i < j, Del(d, j, y)'
          PROVE  Made(y)' < Made(x)'
      <4>1. j \in 1 .. Len(q) /\ q[j] = y
        BY <2>3, <3>3, QueriedCalls
      <4>2. db[y].created = Made(y) /\ db[x].created >= db[y].created /\ x # y
        BY <2>1, <3>1, <3>3, <4>1, QueriedList
      <4>3. Made(x) # Made(y)
        BY <1>1, <2>1, <4>2 DEF CreatedApart, Live, Made
      <4> QED
        BY <1>1, <2>1, <3>2, <4>2, <4>3
    <3>4. ASSUME SamePull(x, y), Made(y)' < Made(x)'
          PROVE  \E j \in Positions : i < j /\ Del(d, j, y)'
      <4>1. db[y].status # "absent"
        <5>1. ASSUME db[y].status = "absent"
              PROVE  Made(x) < Made(y)
          BY <1>1, <2>1, <3>2, <5>1 DEF TableInOrder
        <5> QED
          BY <1>1, <2>1, <3>4, <5>1
      <4>2. y \in BuildsOfPull(pr)
        BY <3>2, <3>4, <4>1 DEF BuildsOfPull, Names, SamePull
      <4>3. PICK j \in 1 .. Len(q) : q[j] = y
        BY <4>2, QueriedList
      <4>4. db[y].created = Made(y)
        BY <2>1, <4>2, QueriedList
      <4>5. ~(j < i)
        <5>1. j < i => db[y].created >= db[x].created
          BY <3>1, <4>3, QueriedList
        <5> QED
          BY <1>1, <2>1, <3>2, <3>4, <4>4, <5>1
      <4>6. j # i
        BY <1>1, <2>1, <3>1, <3>4, <4>3
      <4>7. j \in Positions /\ i < j
        BY <4>5, <4>6 DEF Positions
      <4> QED
        BY <2>3, <4>3, <4>7, QueriedCalls
    <3> QED
      BY <3>3, <3>4
  <2> QED
    BY <2>2, <2>3
<1>5. LaterDue'
  <2> SUFFICES ASSUME NEW d \in Clients, NEW i \in Positions, NEW j \in Positions,
                      NEW x \in Builds, NEW y \in Builds,
                      i < j, Del(d, i, x)', ~Live(x)', Del(d, j, y)', Live(y)'
               PROVE  \E t \in Nat :
                        /\ Due(y, t)'
                        /\ \A p \in 1 .. i - 1 : \A b \in Builds :
                             Del(d, p, b)' /\ Live(b)' => t <= Made(b)'
    BY DEF LaterDue
  <2>1. ~Live(x) /\ Live(y) /\ Made(y)' = Made(y)
    BY QueriedCalls
  <2>2. \A p \in 1 .. i - 1 : p \in Positions /\ p < i
    BY DEF Positions
  <2>3. CASE d # c
    <3>1. Del(d, i, x) /\ Del(d, j, y)
      BY <2>3, QueriedCalls
    <3>2. PICK t \in Nat :
            /\ Due(y, t)
            /\ \A p \in 1 .. i - 1 : \A b \in Builds : Del(d, p, b) /\ Live(b) => t <= Made(b)
      BY <1>1, <2>1, <3>1 DEF LaterDue
    <3>3. Due(y, t)'
      BY <3>2, DueQueried
    <3>4. \A p \in 1 .. i - 1 : \A b \in Builds : Del(d, p, b)' /\ Live(b)' => t <= Made(b)'
      BY <2>2, <2>3, <3>2, QueriedCalls
    <3> QED
      BY <3>3, <3>4
  <2>4. CASE d = c
    <3>1. i \in 1 .. Len(q) /\ q[i] = x /\ j \in 1 .. Len(q) /\ q[j] = y
      BY <2>4, QueriedCalls
    <3>2. /\ Recorded(x, db[x].created) /\ Info[x].pr = pr /\ Info[y].pr = pr
          /\ db[y].created = Made(y) /\ db[x].created >= db[y].created
      BY <2>1, <3>1, QueriedList
    <3>3. db[x].created \in Nat
      BY <1>1, <3>2 DEF RecordsPast
    <3>4. SamePull(x, y) /\ Made(y) <= db[x].created
      BY <1>1, <3>2, <3>3 DEF SamePull
    <3>5. Due(y, db[x].created)
      BY <1>1, <2>1, <3>2, <3>4 DEF OlderDue
    <3>6. \A t : t = db[x].created => Due(y, t)'
      BY <3>5, DueQueried
    <3>7. ASSUME NEW p \in 1 .. i - 1, NEW b \in Builds, Del(d, p, b)', Live(b)'
          PROVE  db[x].created <= Made(b)'
      <4>1. p \in 1 .. Len(q) /\ q[p] = b /\ Live(b) /\ Made(b)' = Made(b)
        BY <2>2, <2>4, <3>7, QueriedCalls
      <4>2. db[b].created >= db[x].created /\ db[b].created = Made(b)
        BY <2>2, <3>1, <4>1, QueriedList
      <4> QED
        BY <1>1, <3>3, <4>1, <4>2
    <3> QED
      BY <3>3, <3>6, <3>7
  <2> QED
    BY <2>3, <2>4
<1> QED
  BY <1>3, <1>4, <1>5

LEMMA QueriedDues ==
  ASSUME CloseInv, faults = 0, NEW c \in Clients, NEW pr, NEW q, Queried(c, pr, q)
  PROVE  condemned' \subseteq Builds \ Unborn' /\ OlderDue' /\ CondemnedDue'
<1>1. /\ OlderDue /\ CondemnedDue /\ condemned \subseteq Builds \ Unborn
      /\ CreatedApart /\ RecordsPast
      /\ now \in Nat /\ \A b \in Builds : Made(b) \in Nat
      /\ pr # NoPr /\ condemned' = condemned \union BuildsOfPull(pr)
  BY CloseParts DEF CloseInv, TableSound, DuesSound, Queried
<1>2. condemned' \subseteq Builds \ Unborn'
  BY <1>1, QueriedList, QueriedCalls
<1>3. OlderDue'
  <2> SUFFICES ASSUME NEW x \in Builds, NEW y \in Builds, ~Live(x)', Live(y)', SamePull(x, y),
                      NEW t, Recorded(x, t)', Made(y)' <= t
               PROVE  Due(y, t)'
    BY DEF OlderDue, SamePull
  <2>1. ~Live(x) /\ Live(y) /\ Recorded(x, t) /\ Made(y) <= t
    BY QueriedCalls
  <2>2. Due(y, t)
    BY <1>1, <2>1 DEF OlderDue
  <2> QED
    BY <2>2, DueQueried
<1>4. CondemnedDue'
  <2> SUFFICES ASSUME NEW y \in condemned', Live(y)'
               PROVE  Due(y, now)'
    BY DEF CondemnedDue
  <2>1. y \in Builds /\ Live(y) /\ now' = now
    BY <1>1, QueriedList, QueriedCalls
  <2>2. CASE Due(y, now)
    <3>1. \A t : t = now => Due(y, t)'
      BY <2>1, <2>2, DueQueried
    <3> QED
      BY <2>1, <3>1 DEF Due
  <2>3. CASE ~Due(y, now)
    <3>1. y \in BuildsOfPull(pr)
      BY <1>1, <2>1, <2>3 DEF CondemnedDue
    <3>2. PICK i \in 1 .. Len(q) : q[i] = y
      BY <3>1, QueriedList
    <3>3. i \in Positions /\ \A j \in 1 .. i - 1 : j \in 1 .. Len(q) /\ j \in Positions /\ j < i
      BY QueriedList DEF Positions
    <3>4. ASSUME NEW j \in 1 .. i - 1
          PROVE  Live(q[j])
      <4>1. /\ q[j] \in Builds /\ Info[q[j]].pr = pr /\ Recorded(q[j], db[q[j]].created)
            /\ db[y].created = Made(y) /\ db[q[j]].created >= db[y].created /\ Info[y].pr = pr
        BY <2>1, <3>1, <3>2, <3>3, QueriedList
      <4>2. db[q[j]].created \in Nat /\ db[q[j]].created < now
        BY <1>1, <4>1 DEF RecordsPast
      <4>3. SamePull(q[j], y) /\ Made(y) <= db[q[j]].created
        BY <1>1, <2>1, <4>1, <4>2 DEF SamePull
      <4>4. ~Live(q[j]) => Due(y, db[q[j]].created)
        BY <1>1, <2>1, <4>1, <4>3 DEF OlderDue
      <4> QED
        BY <1>1, <2>1, <2>3, <4>2, <4>4, DueLater
    <3>5. ASSUME NEW j \in 1 .. i - 1
          PROVE  \E b \in Builds : Del(c, j, b)' /\ Live(b)' /\ Made(b)' < now'
      <4>1. q[j] \in Builds /\ Live(q[j])
        BY <3>3, <3>4, QueriedList
      <4>2. Made(q[j]) < now
        BY <1>1, <4>1 DEF CreatedApart, Live, Made
      <4> QED
        BY <2>1, <3>3, <4>1, <4>2, QueriedCalls
    <3>6. Del(c, i, y)'
      BY <2>1, <3>2, <3>3, QueriedCalls
    <3> QED
      BY <3>3, <3>5, <3>6 DEF Due
  <2> QED
    BY <2>2, <2>3
<1> QED
  BY <1>2, <1>3, <1>4

(***************************************************************************)
(* The order in which the table learns of the builds.                      *)
(***************************************************************************)
LEMMA ToldQueue ==
  ASSUME MirrorInv, Told
  PROVE  /\ Len(deplEvents) \in Nat /\ Len(deplEvents') \in Nat /\ Len(deplEvents) <= Len(deplEvents')
         /\ \A i \in 1 .. Len(deplEvents) : deplEvents'[i] = deplEvents[i]
         /\ \A n \in 1 .. Len(deplEvents') : n \notin 1 .. Len(deplEvents) =>
              /\ n = Len(deplEvents') /\ \A i \in 1 .. Len(deplEvents) : i < n
              /\ deplEvents'[n].build \in Builds
              /\ deplEvents'[n].row = RowOf(deployments'[deplEvents'[n].build])
              /\ \A b \in Builds \ {deplEvents'[n].build} : deployments'[b] = deployments[b]
<1>1. deplEvents \in Seq(TimelyEvents) /\ Len(deplEvents) \in Nat
  BY MirrorParts
<1>2. CASE deplEvents' = deplEvents
  BY <1>1, <1>2
<1>3. ASSUME NEW k \in Builds,
             deplEvents' = Append(deplEvents, [build |-> k, row |-> RowOf(deployments'[k])]),
             \A b \in Builds \ {k} : deployments'[b] = deployments[b]
      PROVE  /\ Len(deplEvents') \in Nat /\ Len(deplEvents) <= Len(deplEvents')
             /\ \A i \in 1 .. Len(deplEvents) : deplEvents'[i] = deplEvents[i]
             /\ \A n \in 1 .. Len(deplEvents') : n \notin 1 .. Len(deplEvents) =>
                  /\ n = Len(deplEvents') /\ \A i \in 1 .. Len(deplEvents) : i < n
                  /\ deplEvents'[n].build \in Builds
                  /\ deplEvents'[n].row = RowOf(deployments'[deplEvents'[n].build])
                  /\ \A b \in Builds \ {deplEvents'[n].build} : deployments'[b] = deployments[b]
  <2> DEFINE e == [build |-> k, row |-> RowOf(deployments'[k])]
  <2>1. e.build = k /\ e.row = RowOf(deployments'[k]) /\ deplEvents' = Append(deplEvents, e)
    BY <1>3
  <2> HIDE DEF e
  <2>2. deplEvents \in Seq(TimelyEvents \union {e})
    BY <1>1, SeqMono
  <2>3. /\ Len(deplEvents') = Len(deplEvents) + 1 /\ deplEvents'[Len(deplEvents) + 1] = e
        /\ \A i \in 1 .. Len(deplEvents) : deplEvents'[i] = deplEvents[i]
    BY <2>1, <2>2
  <2>4. \A n \in 1 .. Len(deplEvents') : n \notin 1 .. Len(deplEvents) =>
          n = Len(deplEvents') /\ n = Len(deplEvents) + 1 /\ \A i \in 1 .. Len(deplEvents) : i < n
    BY <1>1, <2>3
  <2> QED
    BY <1>1, <1>3, <2>1, <2>3, <2>4
<1> QED
  BY <1>1, <1>2, <1>3 DEF Told

LEMMA HandledQueue ==
  ASSUME CloseInv, HandleDeployment
  PROVE  LET e == deplEvents[1] IN
         /\ 1 \in 1 .. Len(deplEvents) /\ e.build \in Builds
         /\ \A b \in Builds \ {e.build} : db'[b] = db[b]
         /\ e.row.status = "absent" => db'[e.build].status = "absent" /\ ~Live(e.build)
         /\ e.row.status # "absent" =>
              (db'[e.build] = e.row \/ db'[e.build] = db[e.build]) /\ db'[e.build].status # "absent"
         /\ UNCHANGED << deployments, now, deplWatch >>
         /\ Len(deplEvents) \in Nat /\ Len(deplEvents') = Len(deplEvents) - 1
         /\ \A i \in 1 .. Len(deplEvents') :
              i + 1 \in 1 .. Len(deplEvents) /\ deplEvents'[i] = deplEvents[i + 1]
<1>1. deplEvents \in Seq(TimelyEvents) /\ MirrorInv
  BY CloseParts, MirrorParts
<1>2. deplEvents # << >> /\ deplEvents' = Tail(deplEvents) /\ UNCHANGED << cluster, now, deplWatch >>
  BY DEF HandleDeployment
<1>3. /\ Len(deplEvents) \in Nat /\ Len(deplEvents') = Len(deplEvents) - 1
      /\ \A i \in 1 .. Len(deplEvents') :
           i + 1 \in 1 .. Len(deplEvents) /\ deplEvents'[i] = deplEvents[i + 1]
  BY <1>1, <1>2
<1>4. AbsentRow.status = "absent"
  BY DEF AbsentRow
<1> QED
  BY <1>1, <1>2, <1>3, <1>4, HandledRow DEF cluster, Live, SameBuild

\* What a step records of a build was recorded, or is its birth.
LEMMA RecordsStep ==
  ASSUME CloseInv, faults = 0, [Next]_vars
  PROVE  Births /\ Records /\ Unborn' \subseteq Unborn
<1>1. MirrorInv /\ LifeInv /\ deplWatch = "up" /\ ~SameSecond
  BY CloseParts DEF CloseInv, TableSound
<1>2. Births
  BY <1>1, StepBirths
<1>3. CASE HandleDeployment
  <2>1. ASSUME NEW b \in Builds, NEW t, Recorded(b, t)'
        PROVE  Recorded(b, t)
    <3>1. CASE Present(deployments'[b]) /\ t = deployments'[b].created
      BY <1>3, <3>1, HandledQueue DEF Recorded
    <3>2. CASE db'[b].status # "absent" /\ t = db'[b].created
      <4>1. CASE b # deplEvents[1].build
        BY <1>3, <3>2, <4>1, HandledQueue DEF Recorded
      <4>2. CASE b = deplEvents[1].build
        BY <1>3, <3>2, <4>2, HandledQueue DEF Recorded
      <4> QED
        BY <4>1, <4>2
    <3>3. CASE \E n \in 1 .. Len(deplEvents') :
                 /\ deplEvents'[n].build = b /\ deplEvents'[n].row.status # "absent"
                 /\ t = deplEvents'[n].row.created
      BY <1>3, <3>3, HandledQueue DEF Recorded
    <3> QED
      BY <2>1, <3>1, <3>2, <3>3 DEF Recorded
  <2> QED
    BY <1>2, <1>3, <2>1, HandledQueue DEF Records, Unborn
<1>4. CASE Untabled
  <2>1. Moves /\ Dated /\ Told /\ db' = db
    BY <1>1, <1>4, StepMoves DEF Untabled
  <2>2. ASSUME NEW b \in Builds, Present(deployments'[b])
        PROVE  \/ Present(deployments[b]) /\ deployments'[b].created = deployments[b].created
               \/ Born(b) /\ deployments'[b].created = now
    <3>1. CASE b \in Unborn
      <4>1. deployments'[b].phase = "live"
        BY <1>1, <2>1, <2>2, <3>1, LifeMoves DEF Doomed, Present
      <4> QED
        BY <1>2, <3>1, <4>1 DEF Births, Born, Live, Unborn
    <3>2. CASE b \notin Unborn
      BY <1>1, <2>1, <2>2, <3>2, LifeMoves DEF Dated, Present, Doomed
    <3> QED
      BY <3>1, <3>2
  <2>3. ASSUME NEW b \in Builds, NEW t, Recorded(b, t)'
        PROVE  Recorded(b, t) \/ (Born(b) /\ t = now)
    <3>1. CASE Present(deployments'[b]) /\ t = deployments'[b].created
      BY <2>2, <3>1 DEF Recorded
    <3>2. CASE db'[b].status # "absent" /\ t = db'[b].created
      BY <2>1, <3>2 DEF Recorded
    <3>3. ASSUME NEW n \in 1 .. Len(deplEvents'),
                 deplEvents'[n].build = b, deplEvents'[n].row.status # "absent",
                 t = deplEvents'[n].row.created
          PROVE  Recorded(b, t) \/ (Born(b) /\ t = now)
      <4>1. CASE n \in 1 .. Len(deplEvents)
        BY <1>1, <2>1, <3>3, <4>1, ToldQueue DEF Recorded
      <4>2. CASE n \notin 1 .. Len(deplEvents)
        <5>1. deplEvents'[n].row = RowOf(deployments'[b])
          BY <1>1, <2>1, <3>3, <4>2, ToldQueue
        <5>2. Present(deployments'[b]) /\ t = deployments'[b].created
          BY <3>3, <5>1 DEF RowOf, AbsentRow
        <5> QED
          BY <2>2, <5>2 DEF Recorded
      <4> QED
        BY <4>1, <4>2
    <3> QED
      BY <2>3, <3>1, <3>2, <3>3 DEF Recorded
  <2>4. Unborn' \subseteq Unborn
    BY <1>1, <2>1, LifeMoves DEF Unborn
  <2> QED
    BY <1>2, <2>3, <2>4 DEF Records
<1> QED
  BY <1>1, <1>3, <1>4, TableSteps

\* A live build the table does not know is told of by an event.
LEMMA UnmetTold ==
  ASSUME CloseInv, faults = 0, NEW c \in Builds, Live(c), db[c].status = "absent"
  PROVE  \E i \in 1 .. Len(deplEvents) : deplEvents[i].build = c
<1>1. Mirrored(c) /\ deployments[c].phase = "live" /\ deployments[c] \in Deployments
  BY CloseParts DEF CloseInv, MirrorInv, TableSound, Live
<1>2. db[c] # RowOf(deployments[c])
  BY <1>1 DEF RowOf, Present, StatusFromDeployment, Deployments, BuildInitStatus
<1> QED
  BY <1>1, <1>2 DEF Mirrored

LEMMA OrderHandled ==
  ASSUME CloseInv, faults = 0, HandleDeployment
  PROVE  TableInOrder'
<1> DEFINE e == deplEvents[1]
<1>1. /\ 1 \in 1 .. Len(deplEvents) /\ e.build \in Builds
      /\ \A b \in Builds \ {e.build} : db'[b] = db[b]
      /\ e.row.status = "absent" => db'[e.build].status = "absent" /\ ~Live(e.build)
      /\ e.row.status # "absent" =>
           (db'[e.build] = e.row \/ db'[e.build] = db[e.build]) /\ db'[e.build].status # "absent"
      /\ deployments' = deployments
      /\ Len(deplEvents) \in Nat /\ Len(deplEvents') = Len(deplEvents) - 1
      /\ \A i \in 1 .. Len(deplEvents') :
           i + 1 \in 1 .. Len(deplEvents) /\ deplEvents'[i] = deplEvents[i + 1]
  BY HandledQueue
<1>2. TableInOrder /\ e = deplEvents[1]
  BY DEF CloseInv, TableSound
<1> HIDE DEF e
<1> SUFFICES ASSUME NEW c \in Builds, Live(c), db'[c].status = "absent"
             PROVE  /\ \A b \in Builds : db'[b].status # "absent" => db'[b].created < Made(c)
                    /\ \A n \in 1 .. Len(deplEvents') :
                         /\ deplEvents'[n].row.status # "absent"
                         /\ \A i \in 1 .. n : deplEvents'[i].build # c
                         => deplEvents'[n].row.created < Made(c)
  BY <1>1 DEF TableInOrder, Live, Made, Unmet
<1>3. c # e.build /\ db[c].status = "absent"
  BY <1>1
<1>4. ASSUME NEW b \in Builds, db'[b].status # "absent"
      PROVE  db'[b].created < Made(c)
  <2>1. CASE db'[b] = db[b]
    BY <1>2, <1>3, <1>4, <2>1 DEF TableInOrder
  <2>2. CASE db'[b] # db[b]
    <3>1. b = e.build /\ e.row.status # "absent" /\ db'[b] = e.row
      BY <1>1, <1>4, <2>2
    <3>2. Unmet(c, 1)
      BY <1>2, <1>3 DEF Unmet
    <3> QED
      BY <1>1, <1>2, <3>1, <3>2 DEF TableInOrder
  <2> QED
    BY <2>1, <2>2
<1>5. ASSUME NEW n \in 1 .. Len(deplEvents'), deplEvents'[n].row.status # "absent",
             \A i \in 1 .. n : deplEvents'[i].build # c
      PROVE  deplEvents'[n].row.created < Made(c)
  <2>1. n + 1 \in 1 .. Len(deplEvents) /\ deplEvents'[n] = deplEvents[n + 1]
    BY <1>1
  <2>2. ASSUME NEW i \in 1 .. n + 1
        PROVE  deplEvents[i].build # c
    <3>1. CASE i = 1
      BY <1>2, <1>3, <3>1
    <3>2. CASE i # 1
      <4>1. i - 1 \in 1 .. n /\ i - 1 \in 1 .. Len(deplEvents')
        BY <1>1, <3>2
      <4>2. deplEvents'[i - 1] = deplEvents[i]
        BY <1>1, <4>1
      <4> QED
        BY <1>5, <4>1, <4>2
    <3> QED
      BY <3>1, <3>2
  <2>3. Unmet(c, n + 1)
    BY <1>3, <2>2 DEF Unmet
  <2> QED
    BY <1>2, <1>5, <2>1, <2>3 DEF TableInOrder
<1> QED
  BY <1>4, <1>5

LEMMA OrderUntabled ==
  ASSUME CloseInv, faults = 0, [Next]_vars, Untabled
  PROVE  TableInOrder'
<1>1. /\ Told /\ db' = db /\ MirrorInv /\ Births
      /\ TableInOrder /\ RecordsPast
  BY CloseParts, RecordsStep DEF CloseInv, TableSound, Untabled
<1>2. /\ Len(deplEvents) \in Nat /\ Len(deplEvents') \in Nat /\ Len(deplEvents) <= Len(deplEvents')
      /\ \A i \in 1 .. Len(deplEvents) : deplEvents'[i] = deplEvents[i]
      /\ \A n \in 1 .. Len(deplEvents') : n \notin 1 .. Len(deplEvents) =>
           /\ n = Len(deplEvents') /\ \A i \in 1 .. Len(deplEvents) : i < n
           /\ \A b \in Builds \ {deplEvents'[n].build} : deployments'[b] = deployments[b]
  BY <1>1, ToldQueue
<1> SUFFICES ASSUME NEW c \in Builds, Live(c)', db[c].status = "absent"
             PROVE  /\ \A b \in Builds : db[b].status # "absent" => db[b].created < Made(c)'
                    /\ \A n \in 1 .. Len(deplEvents') :
                         /\ deplEvents'[n].row.status # "absent"
                         /\ \A i \in 1 .. n : deplEvents'[i].build # c
                         => deplEvents'[n].row.created < Made(c)'
  BY <1>1 DEF TableInOrder, Unmet
<1>3. CASE Live(c) /\ Made(c)' = Made(c)
  <2>1. \A b \in Builds : db[b].status # "absent" => db[b].created < Made(c)'
    BY <1>1, <1>3 DEF TableInOrder
  <2>2. ASSUME NEW n \in 1 .. Len(deplEvents'), deplEvents'[n].row.status # "absent",
               \A i \in 1 .. n : deplEvents'[i].build # c
        PROVE  deplEvents'[n].row.created < Made(c)'
    <3>1. n \in 1 .. Len(deplEvents)
      <4>1. PICK i \in 1 .. Len(deplEvents) : deplEvents[i].build = c
        BY <1>3, UnmetTold
      <4>2. i \notin 1 .. n
        BY <1>2, <2>2, <4>1
      <4> QED
        BY <1>2, <4>2
    <3>2. \A i \in 1 .. n : i \in 1 .. Len(deplEvents)
      BY <1>2, <3>1
    <3>3. Unmet(c, n)
      BY <1>2, <2>2, <3>2 DEF Unmet
    <3> QED
      BY <1>1, <1>2, <1>3, <2>2, <3>1, <3>3 DEF TableInOrder
  <2> QED
    BY <2>1, <2>2
<1>4. CASE Born(c)
  <2>1. Made(c)' = now /\ deployments'[c] # deployments[c]
    BY <1>4 DEF Born, Made, Unborn
  <2>2. \A b \in Builds : db[b].status # "absent" => db[b].created < Made(c)'
    BY <1>1, <2>1 DEF RecordsPast, Recorded
  <2>3. ASSUME NEW n \in 1 .. Len(deplEvents'), deplEvents'[n].row.status # "absent",
               \A i \in 1 .. n : deplEvents'[i].build # c
        PROVE  deplEvents'[n].row.created < Made(c)'
    <3>1. n \in 1 .. Len(deplEvents)
      BY <1>2, <2>1, <2>3
    <3>2. deplEvents \in Seq(TimelyEvents)
      BY <1>1, MirrorParts
    <3>3. deplEvents[n].build \in Builds
      BY <3>1, <3>2 DEF TimelyEvents, SoundSnapshots, Snapshots
    <3>4. Recorded(deplEvents[n].build, deplEvents[n].row.created)
      BY <1>2, <2>3, <3>1 DEF Recorded
    <3> QED
      BY <1>1, <1>2, <2>1, <3>1, <3>3, <3>4 DEF RecordsPast
  <2> QED
    BY <2>2, <2>3
<1> QED
  BY <1>1, <1>3, <1>4 DEF Births, Live, Made

LEMMA TableStep ==
  ASSUME CloseInv, faults = 0, [Next]_vars
  PROVE  TableSound'
<1>1. /\ MirrorInv /\ LifeInv /\ deplWatch = "up" /\ ~SameSecond /\ CreatedApart /\ RecordsPast
      /\ Births /\ Records
  BY CloseParts, RecordsStep DEF CloseInv, TableSound
<1>2. RecordsPast'
  <2> SUFFICES ASSUME NEW b \in Builds, NEW t, Recorded(b, t)'
               PROVE  t \in Nat /\ t < now'
    BY DEF RecordsPast
  <2>1. Recorded(b, t) \/ (Born(b) /\ t = now)
    BY <1>1 DEF Records
  <2>2. now \in Nat /\ now' \in Nat /\ now <= now'
    BY <1>1 DEF Births
  <2>3. Recorded(b, t) => t \in Nat /\ t < now
    BY <1>1 DEF RecordsPast
  <2> QED
    BY <2>1, <2>2, <2>3 DEF Born
<1>3. CASE HandleDeployment
  <2>1. CreatedApart'
    BY <1>1, <1>3, HandledQueue DEF CreatedApart
  <2>2. deplWatch' = "up"
    BY <1>1, <1>3, HandledQueue
  <2> QED
    BY <1>2, <1>3, <2>1, <2>2, OrderHandled DEF TableSound
<1>4. CASE Untabled
  <2>1. Moves /\ Dated /\ Clocked /\ now' \in Nat /\ deplWatch' = "up"
    BY <1>1, <1>4, StepMoves DEF Untabled, Births
  <2>2. CreatedApart'
    BY <1>1, <2>1, CreatedApartNext
  <2> QED
    BY <1>2, <1>4, <2>1, <2>2, OrderUntabled DEF TableSound
<1> QED
  BY <1>1, <1>3, <1>4, TableSteps

(***************************************************************************)
(* Only the lists of clients delete deployments.                           *)
(***************************************************************************)
LEMMA ListHarmless ==
  ASSUME CloseInv, faults = 0, NEW a \in Actors, NEW list, calls' = [calls EXCEPT ![a] = list],
         a \in Clients \/ list \in Seq(Harmless)
  PROVE  OnlyClientsDelete'
<1>1. calls \in [Actors -> Seq(Calls)] /\ OnlyClientsDelete
  BY CloseParts DEF CloseInv, ListsSound
<1> QED
  BY <1>1 DEF OnlyClientsDelete

LEMMA JobWatchHarmless ==
  ASSUME CloseInv, faults = 0, JobWatch
  PROVE  OnlyClientsDelete'
<1>1. LifeInv /\ OnlyClientsDelete /\ PlacesMet
  BY CloseParts, MirrorParts DEF CloseInv, ListsSound
<1>2. JobWatcher \in Actors
  BY ActorSets
<1>3. CASE StartJobWatch
  BY <1>1, <1>3 DEF StartJobWatch, controller, OnlyClientsDelete
<1>4. CASE HandleJob
  <2> DEFINE e == Head(jobEvents)
  <2>1. e.build \in Builds /\ e.kind \in JobKinds /\ e.state \in JobStates \ {"none"} /\ db[e.build] \in Rows
    BY <1>1, <1>4, HeadEvent DEF HandleJob
  <2> HIDE DEF e
  <2>2. /\ {Apply(e.build, "stop"), Purge(e.build), Unfinalize(e.build)} \subseteq Harmless
        /\ \A report \in GitHubStates : Notify(e.build, report) \in Harmless
        /\ \A c \in Calls : c.op = "patch" => c \in Harmless
    <3>1. {Apply(e.build, "stop"), Purge(e.build), Unfinalize(e.build)} \subseteq Harmless
      BY <2>1, HarmlessCalls DEF Modes
    <3> QED
      BY <2>1, <3>1, HarmlessCalls DEF Harmless
  <2>3. OnJobEvent(e.build, db[e.build], e.kind, e.state) \in Seq(Harmless)
    BY <2>1, <2>2, OnJobEventWithin
  <2>4. calls' = calls \/
        calls' = [calls EXCEPT ![JobWatcher] = OnJobEvent(e.build, db[e.build], e.kind, e.state)]
    BY <1>4 DEF HandleJob, e
  <2>5. CASE calls' = calls
    BY <1>1, <2>5 DEF OnlyClientsDelete
  <2> QED
    BY <1>2, <2>3, <2>4, <2>5, ListHarmless
<1>5. CASE HandleJobLookup
  <2> DEFINE e == Head(jobEvents)
  <2>1. calls' = [calls EXCEPT ![JobWatcher] = << Purge(e.build) >>]
    BY <1>1, <1>5 DEF HandleJobLookup, PlacesMet
  <2>2. e.build \in Builds
    BY <1>1, <1>5, HeadEvent, InvParts DEF HandleJobLookup, LookupOfEvent
  <2> HIDE DEF e
  <2>3. << Purge(e.build) >> \in Seq(Harmless)
    <3>1. Purge(e.build) \in Harmless
      BY <2>2, HarmlessCalls
    <3> QED
      BY <3>1
  <2> QED
    BY <1>2, <2>1, <2>3, ListHarmless
<1> QED
  BY <1>3, <1>4, <1>5 DEF JobWatch

LEMMA TaskHarmless ==
  ASSUME CloseInv, faults = 0, NEW t \in Tasks, Pass(t) \/ NextBuild(t)
  PROVE  OnlyClientsDelete'
<1>1. OnlyClientsDelete /\ "undeployer" \notin Tasks /\ t \in Actors
  BY ActorSets DEF CloseInv, ListsSound
<1>2. CASE Pass(t)
  BY <1>1, <1>2 DEF Pass, OnlyClientsDelete
<1>3. CASE NextBuild(t)
  <2> DEFINE s == Head(todo[t])
  <2>1. s \in Snapshots
    BY <1>3, CloseParts DEF NextBuild, TypeOK
  <2>2. calls' = [calls EXCEPT ![t] = MethodOf(t, s.build, s.row)]
    BY <1>3 DEF NextBuild
  <2> HIDE DEF s
  <2>3. s.build \in Builds /\ s.row \in Rows
    BY <2>1 DEF Snapshots
  <2>4. t \in {"cleaner", "initializer", "stopper"}
    BY <1>1, TasksAssumption
  <2>5. MethodOf(t, s.build, s.row) \in Seq(Harmless)
    BY <2>3, <2>4, HarmlessMethods DEF MethodOf
  <2> QED
    BY <1>1, <2>2, <2>5, ListHarmless
<1> QED
  BY <1>2, <1>3

LEMMA CallHarmless ==
  ASSUME CloseInv, faults = 0, NEW a \in Actors, Call(a)
  PROVE  OnlyClientsDelete'
<1>1. OnlyClientsDelete
  BY DEF CloseInv, ListsSound
<1>2. calls' = [calls EXCEPT ![a] = << >>] \/ calls' = [calls EXCEPT ![a] = Tail(calls[a])]
  BY DEF Call, Abort
<1>3. a \in Clients \/ (calls[a] \in Seq(Harmless) /\ calls[a] # << >>)
  BY <1>1 DEF OnlyClientsDelete, Call
<1>4. a \in Clients \/ (<< >> \in Seq(Harmless) /\ Tail(calls[a]) \in Seq(Harmless))
  BY <1>3
<1> QED
  BY <1>2, <1>4, ListHarmless

(***************************************************************************)
(* The steps, one by one: each undeploys nothing, or is the call of a      *)
(* client, or the query of one.                                            *)
(***************************************************************************)
LEMMA SparedSame ==
  ASSUME \A b \in Builds : Live(b) => Live(b)', \A c \in Clients : calls'[c] = calls[c]
  PROVE  Spared
BY DEF Spared, Kept, Del

LEMMA DoomedLive ==
  ASSUME CloseInv, Unborn' \subseteq Unborn, NEW b \in Builds, Live(b), b \notin Doomed',
         deployments'[b] \in Deployments
  PROVE  Live(b)'
<1>1. b \notin Unborn'
  BY CloseParts
<1> QED
  BY <1>1 DEF Unborn, Doomed, Live, Deployments, Phases

LEMMA TailList ==
  ASSUME CloseInv, NEW a \in Clients, calls[a] # << >>, calls' = [calls EXCEPT ![a] = Tail(calls[a])]
  PROVE  Popped(a)
<1>1. calls \in [Actors -> Seq(Calls)] /\ a \in Actors
  BY CloseParts, ActorSets
<1>2. /\ Len(calls[a]) \in Nat /\ calls'[a] = Tail(calls[a])
      /\ Len(calls'[a]) = Len(calls[a]) - 1
      /\ \A i \in 1 .. Len(calls[a]) - 1 : calls'[a][i] = calls[a][i + 1]
  BY <1>1
<1>3. \A i \in Positions : i \in 1 .. Len(calls'[a]) <=> i + 1 \in 1 .. Len(calls[a])
  BY <1>2 DEF Positions
<1> QED
  BY <1>2, <1>3 DEF Popped, Del

LEMMA CallKinds ==
  ASSUME CloseInv, faults = 0, NEW a \in Actors, Call(a)
  PROVE  Spared \/ \E k \in Clients : \E z \in Builds : Undeployed(k, z)
<1> DEFINE c == Head(calls[a])
<1>1. /\ LifeInv /\ ClusterTypeOK /\ deployments \in [Builds -> Deployments]
      /\ calls \in [Actors -> Seq(Calls)] /\ calls[a] # << >>
      /\ Clients \subseteq Actors /\ OnlyClientsDelete
  BY CloseParts, ActorSets DEF CloseInv, ListsSound, Call
<1>2. c \in SoundCalls /\ c \in Calls /\ c.build \in Builds /\ c = calls[a][1] /\ 1 \in 1 .. Len(calls[a])
  BY <1>1, HeadCall
<1>3. \/ /\ ~Raises(c) /\ Perform(c) /\ calls' = [calls EXCEPT ![a] = Tail(calls[a])]
      \/ /\ Raises(c) /\ calls' = [calls EXCEPT ![a] = << >>] /\ deployments' = deployments
  BY DEF Call, Abort, cluster
<1>4. \A b : Del(a, 1, b) <=> c.op = "delete" /\ c.build = b
  BY <1>2 DEF Del
<1> HIDE DEF c
<1>5. \A d \in Clients \ {a} : calls'[d] = calls[d] /\ Kept(d)
  <2>1. \A d \in Clients \ {a} : calls'[d] = calls[d]
    BY <1>1, <1>3
  <2> QED
    BY <2>1 DEF Kept, Del
<1>6. CASE Raises(c)
  <2>1. \A b \in Builds : Live(b) => Live(b)'
    BY <1>3, <1>6 DEF Live, Raises, Perform
  <2>2. CASE a \notin Clients
    BY <1>5, <2>1, <2>2, SparedSame
  <2>3. CASE a \in Clients
    <3>1. calls'[a] = << >>
      BY <1>1, <1>3, <1>6
    <3>2. Emptied(a)
      BY <3>1 DEF Emptied, Del, Positions
    <3>3. c.op = "delete" => ~Present(deployments[c.build])
      BY <1>2, <1>6 DEF Raises, Calls
    <3>4. \A b \in Builds : Del(a, 1, b) => ~Live(b)
      BY <1>4, <3>3 DEF Live, Present
    <3> QED
      BY <1>5, <2>1, <3>2, <3>4 DEF Spared
  <2> QED
    BY <2>2, <2>3
<1>7. CASE ~Raises(c)
  <2>1. /\ Perform(c) /\ calls' = [calls EXCEPT ![a] = Tail(calls[a])]
        /\ Unborn' \subseteq Unborn
        /\ \A k \in Doomed' : k \in Doomed \/ (Undoes(c) /\ k = c.build)
    BY <1>1, <1>2, <1>3, <1>7, PerformUndoes
  <2>2. a \in Clients => Popped(a)
    BY <1>1, <2>1, TailList
  <2>3. \A b \in Builds : deployments'[b] \in Deployments
    <3>1. [Next]_vars
      BY DEF Next, Background
    <3> QED
      BY <3>1, CloseParts, MirrorStep, NextTyped DEF TypeOK, ClusterTypeOK
  <2>4. ASSUME NEW b \in Builds, Live(b), ~(c.op = "delete" /\ c.build = b)
        PROVE  Live(b)'
    <3>1. b \notin Doomed
      BY <2>4 DEF Live, Doomed
    <3>2. c.op \in {"purge", "unfinalize"} => c.build \in Doomed
      BY <1>2 DEF SoundCalls
    <3>3. b \notin Doomed'
      BY <2>1, <2>4, <3>1, <3>2 DEF Undoes
    <3> QED
      BY <2>1, <2>3, <2>4, <3>3, DoomedLive
  <2>5. CASE ~(c.op = "delete" /\ Live(c.build))
    <3>1. \A b \in Builds : Live(b) => Live(b)'
      BY <2>4, <2>5
    <3>2. CASE a \notin Clients
      BY <1>5, <3>1, <3>2, SparedSame
    <3>3. CASE a \in Clients
      BY <1>4, <1>5, <2>2, <2>5, <3>1, <3>3 DEF Spared
    <3> QED
      BY <3>2, <3>3
  <2>6. ASSUME NEW z \in Builds, c.op = "delete", c.build = z, Live(z)
        PROVE  \E k \in Clients : Undeployed(k, z)
    <3>1. a \in Clients
      <4>1. ASSUME a \notin Clients
            PROVE  FALSE
        <5>1. calls[a] \in Seq(Harmless)
          BY <1>1, <4>1 DEF OnlyClientsDelete
        <5>2. c \in Harmless
          BY <1>2, <5>1
        <5> QED
          BY <2>6, <5>2 DEF Harmless
      <4> QED
        BY <4>1
    <3>2. SetDeployment(z, Deleted(deployments[z])) /\ now' = now
      BY <1>2, <2>1, <2>6
         DEF Perform, ApplyDeployment, ApplyJob, ApplyOthers, PatchDeployment, RemoveFinalizers,
             DeleteDeployment, DeleteResources, KillJob, NotifyStatus
    <3>3. deployments' = [deployments EXCEPT ![z] = Deleted(deployments[z])]
      BY <3>2 DEF SetDeployment
    <3>4. Deleted(deployments[z]).phase \in {"deleting", "gone"}
      <4>1. deployments[z] \in Deployments /\ Present(deployments[z])
        BY <1>1, <2>6 DEF Present, Live
      <4> QED
        BY <4>1 DEF Deleted, NoDeployment, Deployments
    <3>5. ~Live(z)' /\ \A b \in Builds \ {z} : deployments'[b] = deployments[b]
      BY <1>1, <3>3, <3>4 DEF Live
    <3>6. Undeployed(a, z)
      BY <1>4, <1>5, <2>2, <2>6, <3>1, <3>2, <3>5 DEF Undeployed
    <3> QED
      BY <3>1, <3>6
  <2> QED
    BY <1>2, <2>5, <2>6
<1> QED
  BY <1>6, <1>7

LEMMA BackgroundKinds ==
  ASSUME CloseInv, faults = 0, faults' = 0, Background
  PROVE  /\ OnlyClientsDelete'
         /\ Spared \/ \E k \in Clients : \E z \in Builds : Undeployed(k, z)
<1>1. /\ ClusterTypeOK /\ OnlyClientsDelete /\ calls \in [Actors -> Seq(Calls)]
      /\ JobWatcher \in Actors /\ Tasks \subseteq Actors /\ Clients \subseteq Actors
      /\ JobWatcher \notin Clients /\ Tasks \intersect Clients = {}
  BY CloseParts, ActorSets DEF CloseInv, ListsSound
<1>2. CASE UNCHANGED calls /\ \A b \in Builds : Live(b) => Live(b)'
  BY <1>1, <1>2, SparedSame DEF OnlyClientsDelete
<1>3. CASE DeploymentWatcher \/ Wait
  BY <1>2, <1>3 DEF DeploymentWatcher, StartDeploymentWatch, ListDeployments, HandleDeployment,
                    controller, cluster, Wait, vars, clusterVars, Live
<1>4. CASE Environment /\ UNCHANGED << controller, requests, faults >>
  <2>1. Unborn' = Unborn /\ Doomed' = Doomed
    BY <1>1, <1>4, EnvironmentUndoes
  <2>2. \A b \in Builds : deployments'[b] \in Deployments
    <3>1. [Next]_vars
      BY DEF Next
    <3> QED
      BY <3>1, CloseParts, MirrorStep, NextTyped DEF TypeOK, ClusterTypeOK
  <2>3. \A b \in Builds : Live(b) => Live(b)'
    BY <2>1, <2>2, DoomedLive DEF Live, Doomed
  <2> QED
    BY <1>2, <1>4, <2>3 DEF controller
<1>5. CASE JobWatch
  <2>1. deployments' = deployments /\ \A c \in Clients : calls'[c] = calls[c]
    BY <1>1, <1>5 DEF JobWatch, StartJobWatch, HandleJob, HandleJobLookup, controller, cluster
  <2> QED
    BY <1>5, <2>1, JobWatchHarmless, SparedSame DEF Live
<1>6. ASSUME NEW t \in Tasks, Pass(t) \/ NextBuild(t)
      PROVE  OnlyClientsDelete' /\ Spared
  <2>1. deployments' = deployments /\ \A c \in Clients : calls'[c] = calls[c]
    BY <1>1, <1>6 DEF Pass, NextBuild, clusterVars
  <2> QED
    BY <1>6, <2>1, TaskHarmless, SparedSame DEF Live
<1>7. ASSUME NEW a \in Actors, Call(a)
      PROVE  /\ OnlyClientsDelete'
             /\ Spared \/ \E k \in Clients : \E z \in Builds : Undeployed(k, z)
  BY <1>7, CallHarmless, CallKinds
<1>8. ~Faults
  <2>1. \A kind : ~Fault(kind)
    BY DEF Fault
  <2> QED
    BY <2>1 DEF Faults, CallFails, DeploymentWatchBreaks, JobWatchBreaks, ControllerRestarts
<1> QED
  BY <1>3, <1>4, <1>5, <1>6, <1>7, <1>8 DEF Background

LEMMA DeployCommitSpares ==
  ASSUME CloseInv, faults = 0, NEW c \in Clients, NEW info, DeployCommitOf(c, info)
  PROVE  OnlyClientsDelete' /\ Spared
<1>1. /\ OnlyClientsDelete /\ calls \in [Actors -> Seq(Calls)] /\ Clients \subseteq Actors
  BY CloseParts, ActorSets DEF CloseInv, ListsSound
<1>2. CASE UNCHANGED vars
  BY <1>1, <1>2, SparedSame DEF vars, clusterVars, OnlyClientsDelete, Live
<1>3. ASSUME NEW b \in Builds, DeployCommit(c, b)
      PROVE  OnlyClientsDelete' /\ Spared
  <2>1. /\ calls[c] = << >> /\ calls' = [calls EXCEPT ![c] = DeployBuild(b)]
        /\ deployments' = deployments
    BY <1>3 DEF DeployCommit, Request, clusterVars
  <2>2. OnlyClientsDelete'
    BY <1>1, <2>1, ListHarmless
  <2>3. \A d \in Clients \ {c} : calls'[d] = calls[d]
    BY <1>1, <2>1
  <2>4. calls'[c] = << Apply(b, "deployment"), Notify(b, "pending") >>
    BY <1>1, <2>1 DEF DeployBuild
  <2>5. \A i \in 1 .. Len(calls'[c]) : calls'[c][i].op # "delete"
    BY <2>4 DEF Apply, Notify
  <2>6. Kept(c)
    BY <2>1, <2>5 DEF Kept, Del, Positions
  <2> QED
    BY <2>1, <2>2, <2>3, <2>6 DEF Spared, Kept, Del, Live
<1> QED
  BY <1>2, <1>3 DEF DeployCommitOf

LEMMA DeliverKinds ==
  ASSUME CloseInv, faults = 0, NEW c \in Clients, Deliver(c)
  PROVE  /\ OnlyClientsDelete'
         /\ \/ Spared /\ condemned' = condemned
            \/ \E pr : \E q : Queried(c, pr, q)
<1>1. /\ OnlyClientsDelete /\ Clients \subseteq Actors
  BY ActorSets DEF CloseInv, ListsSound
<1>2. ASSUME UNCHANGED << vars, condemned >>
      PROVE  OnlyClientsDelete' /\ Spared /\ condemned' = condemned
  BY <1>1, <1>2, SparedSame DEF vars, clusterVars, OnlyClientsDelete, Live
<1>3. ASSUME NEW info, DeployCommitOf(c, info), UNCHANGED condemned
      PROVE  OnlyClientsDelete' /\ Spared /\ condemned' = condemned
  BY <1>3, DeployCommitSpares
<1>4. ASSUME NEW pr, UndeployBuildsOf(c, pr), condemned' = condemned \union BuildsOfPull(pr)
      PROVE  /\ OnlyClientsDelete'
             /\ \/ Spared /\ condemned' = condemned
                \/ \E q : Queried(c, pr, q)
  <2>1. CASE UNCHANGED vars /\ BuildsOfPull(pr) = {}
    <3>1. condemned' = condemned
      BY <1>4, <2>1
    <3> QED
      BY <1>2, <2>1, <3>1
  <2>2. CASE UndeployBuilds(c, pr)
    <3>1. PICK q \in SearchPr(db, pr) : Request(c, "close", [i \in 1 .. Len(q) |-> Delete(q[i])])
      BY <2>2 DEF UndeployBuilds
    <3>2. Queried(c, pr, q)
      BY <1>4, <2>2, <3>1 DEF Queried, Request, UndeployBuilds
    <3>3. OnlyClientsDelete'
      BY <1>1, <3>1, ListHarmless DEF Request
    <3> QED
      BY <3>2, <3>3
  <2> QED
    BY <1>4, <2>1, <2>2 DEF UndeployBuildsOf
<1>5. PICK d \in deliveries : ReceivePayload(c, d)
  BY DEF Deliver
<1>6. CASE d.event = "trigger" /\ DeployCommitOf(c, d.info) /\ UNCHANGED condemned
  BY <1>3, <1>6
<1>7. CASE ReceivePush(c, d)
  BY <1>2, <1>3, <1>7 DEF ReceivePush
<1>8. CASE ReceivePullRequest(c, d)
  <2>1. CASE ~IsSupported(BaseBranch)
    BY <1>2, <1>8, <2>1 DEF ReceivePullRequest
  <2>2. CASE IsSupported(BaseBranch) /\ d.action \in {"opened", "synchronize"}
    BY <1>3, <1>8, <2>2 DEF ReceivePullRequest
  <2>3. CASE IsSupported(BaseBranch) /\ d.action = "closed"
    BY <1>4, <1>8, <2>3 DEF ReceivePullRequest
  <2>4. CASE IsSupported(BaseBranch) /\ d.action \notin {"opened", "synchronize", "closed"}
    BY <1>2, <1>8, <2>4 DEF ReceivePullRequest
  <2> QED
    BY <2>1, <2>2, <2>3, <2>4
<1> QED
  BY <1>5, <1>6, <1>7, <1>8 DEF ReceivePayload

LEMMA StepKinds ==
  ASSUME CloseInv, faults = 0, faults' = 0, [WebhookNext]_allVars
  PROVE  /\ OnlyClientsDelete'
         /\ \/ Spared /\ condemned' = condemned
            \/ (\E k \in Clients : \E z \in Builds : Undeployed(k, z)) /\ condemned' = condemned
            \/ \E c \in Clients : \E pr : \E q : Queried(c, pr, q)
<1>1. OnlyClientsDelete /\ "reset" \notin ClientOps
  BY CloseParts DEF CloseInv, ListsSound, LifeInv, CleanupInv
<1>2. CASE UNCHANGED << vars, condemned >>
  BY <1>1, <1>2, SparedSame DEF vars, clusterVars, OnlyClientsDelete, Live
<1>3. CASE Background /\ UNCHANGED hookVars
  BY <1>3, BackgroundKinds DEF hookVars
<1>4. ASSUME NEW c \in Clients, Deliver(c) \/ \E b \in Builds : Reset(c, b)
      PROVE  /\ OnlyClientsDelete'
             /\ \/ Spared /\ condemned' = condemned
                \/ \E pr : \E q : Queried(c, pr, q)
  BY <1>1, <1>4, DeliverKinds DEF Reset, ResetBuild, Request
<1>5. CASE \/ GitHubEvent
           \/ \E ref \in Refs : TriggerBranch(ref)
           \/ \E n \in Pulls : TriggerPull(n)
  <2>1. UNCHANGED << vars, condemned >>
    BY <1>5 DEF GitHubEvent, Push, PullRequest, Sends, TriggerBranch, TriggerPull, Trigger
  <2> QED
    BY <1>2, <2>1
<1> QED
  BY <1>2, <1>3, <1>4, <1>5 DEF WebhookNext, allVars

(***************************************************************************)
(* The theorem.                                                            *)
(***************************************************************************)
LEMMA CloseStep ==
  ASSUME CloseInv, [WebhookNext]_allVars
  PROVE  CloseInv'
<1>1. [Next]_vars /\ MirrorInv
  BY WebhookStep, CloseParts
<1>2. MirrorInv' /\ (\A b \in Builds : Info[b].pr # NoPr => Info[b].branch = BaseBranch)
  BY <1>1, MirrorStep DEF CloseInv
<1>3. faults' = 0 => faults = 0
  <2>1. faults' = faults \/ faults' = faults + 1
    BY <1>1, FaultsGrow
  <2>2. faults \in Nat
    BY CloseParts
  <2> QED
    BY <2>1, <2>2
<1>4. (\A b \in Builds : Made(b) \in Nat)'
  <2>1. \A b \in Builds : deployments'[b] \in Deployments
    BY <1>2, NextTyped DEF TypeOK, ClusterTypeOK
  <2> QED
    BY <2>1 DEF Made, Deployments
<1>5. ASSUME faults = 0, faults' = 0
      PROVE  TableSound' /\ ListsSound' /\ DuesSound'
  <2>1. TableSound' /\ Births /\ Records /\ Unborn' \subseteq Unborn
    BY <1>1, <1>5, TableStep, RecordsStep
  <2>2. condemned \subseteq Builds \ Unborn
    BY <1>5 DEF CloseInv, DuesSound
  <2>3. OnlyClientsDelete'
    BY <1>5, StepKinds
  <2>4. CASE Spared /\ condemned' = condemned
    <3>1. ListsOfPulls' /\ ListsInOrder' /\ LaterDue'
      BY <1>5, <2>1, <2>4, SparedLists
    <3>2. OlderDue' /\ CondemnedDue'
      BY <1>4, <1>5, <2>1, <2>4, SparedDues
    <3> QED
      BY <2>1, <2>2, <2>3, <2>4, <3>1, <3>2 DEF ListsSound, DuesSound
  <2>5. ASSUME NEW k \in Clients, NEW z \in Builds, Undeployed(k, z), condemned' = condemned
        PROVE  ListsSound' /\ DuesSound'
    <3>1. ListsOfPulls' /\ ListsInOrder' /\ LaterDue'
      BY <1>4, <1>5, <2>1, <2>5, UndeployedLists
    <3>2. OlderDue' /\ CondemnedDue'
      BY <1>4, <1>5, <2>1, <2>5, UndeployedDues
    <3> QED
      BY <2>1, <2>2, <2>3, <2>5, <3>1, <3>2 DEF ListsSound, DuesSound
  <2>6. ASSUME NEW c \in Clients, NEW pr, NEW q, Queried(c, pr, q)
        PROVE  ListsSound' /\ DuesSound'
    BY <1>5, <2>3, <2>6, QueriedLists, QueriedDues DEF ListsSound, DuesSound
  <2> QED
    BY <1>5, <2>1, <2>4, <2>5, <2>6, StepKinds
<1> QED
  BY <1>2, <1>3, <1>5 DEF CloseInv

LEMMA CloseInit ==
  ASSUME WebhookInit, "undeployer" \notin Tasks, "reset" \notin ClientOps,
         FaultKinds \subseteq {"call"}, ~SameSecond,
         \A b \in Builds : Info[b].pr # NoPr => Info[b].branch = BaseBranch
  PROVE  CloseInv
<1>1. LifeInv
  BY StartedCleanupInv, BlankLife DEF WebhookInit, StartedInit
<1>2. /\ deployments = [b \in Builds |-> NoDeployment("unborn")]
      /\ deplWatch = "up" /\ deplEvents = << >> /\ jobEvents = << >>
      /\ db = EmptyTable /\ lookup = NoLookup
      /\ todo = [t \in Tasks |-> << >>] /\ calls = [a \in Actors |-> << >>]
      /\ \A b \in Builds : \A k \in JobKinds : jobs[b][k] = "none"
      /\ condemned = {}
  BY DEF WebhookInit, StartedInit, ClusterBlank, ControllerBlank
<1>3. \A b \in Builds : deployments[b].phase = "unborn"
  BY <1>2 DEF NoDeployment
<1>4. \A b \in Builds : db[b] = AbsentRow /\ RowOf(deployments[b]) = AbsentRow
  BY <1>2, <1>3 DEF EmptyTable, RowOf, Present
<1>5. Len(deplEvents) = 0 /\ Len(jobEvents) = 0
  BY <1>2
<1>6. MirrorInv
  <2>1. \A b \in Builds : Mirrored(b)
    BY <1>4, <1>5 DEF Mirrored
  <2>2. PlacesMet
    BY <1>2, <1>4 DEF PlacesMet, Timely, AbsentRow, NoLookup
  <2> QED
    BY <1>1, <1>2, <2>1, <2>2 DEF MirrorInv, NotLoaded
<1>7. TableSound
  <2>1. \A b \in Builds : \A t : ~Recorded(b, t)
    BY <1>3, <1>4, <1>5 DEF Recorded, Present, AbsentRow
  <2> QED
    BY <1>2, <1>3, <2>1 DEF TableSound, CreatedApart, RecordsPast, TableInOrder, Live
<1>8. \A c \in Clients : \A i \in Positions : \A b \in Builds : ~Del(c, i, b)
  BY <1>2, ActorSets DEF Del, Positions
<1>9. ListsSound
  <2>1. << >> \in Seq(Harmless)
    OBVIOUS
  <2> QED
    BY <1>2, <1>8, <2>1 DEF ListsSound, OnlyClientsDelete, ListsOfPulls, ListsInOrder
<1>10. DuesSound
  BY <1>2, <1>3, <1>8 DEF DuesSound, OlderDue, LaterDue, CondemnedDue, Live
<1> QED
  BY <1>6, <1>7, <1>9, <1>10 DEF CloseInv

\* When no call fails, what undeploy_builds found when a pull request was
\* closed is undeployed in the end, although it stops at the first build that
\* is already gone, and although closes are delivered late, repeated and
\* handled together (undeploy_builds, search, receive_payload).  No reset is
\* asked for, which would bring a build back, the watches hold and the
\* controller does not restart; creation times are distinct, because sqlite
\* orders the rows of one second as it likes, and a pull request is for one
\* branch, because search puts branches before creation times.
THEOREM ClosedGetUndeployed ==
  ASSUME "undeployer" \notin Tasks, "reset" \notin ClientOps, FaultKinds \subseteq {"call"},
         ~SameSecond, \A b \in Builds : Info[b].pr # NoPr => Info[b].branch = BaseBranch
  PROVE  WebhookSpec => []SettledClosedUndeployed
<1>1. WebhookInit => CloseInv
  BY CloseInit
<1>2. CloseInv /\ [WebhookNext]_allVars => CloseInv'
  BY CloseStep
<1>3. CloseInv => SettledClosedUndeployed
  <2> SUFFICES ASSUME CloseInv, AllHandled, faults = 0, NEW b \in condemned, Live(b)
               PROVE  FALSE
    BY DEF SettledClosedUndeployed
  <2>1. Due(b, now)
    BY DEF CloseInv, DuesSound, CondemnedDue
  <2>2. \A c \in Clients : calls[c] = << >>
    BY ActorSets DEF AllHandled, Settled
  <2>3. PICK c \in Clients, i \in Positions : i \in 1 .. Len(calls[c])
    BY <2>1 DEF Due, Del
  <2> QED
    BY <2>2, <2>3
<1> QED
  BY <1>1, <1>2, <1>3, PTL DEF WebhookSpec
=============================================================================
