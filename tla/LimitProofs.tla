---------------------------- MODULE LimitProofs -----------------------------
(***************************************************************************)
(* The initializer keeps its limit, although it counts the builds that are *)
(* marked as started in a table that lags, and a build whose job it has    *)
(* launched is marked later: as long as builds are only deployed, started  *)
(* and stopped, and the controller has started on an empty namespace.      *)
(*                                                                         *)
(* A build that was picked counts for nothing until its mark is in the     *)
(* table.  But it is then picked again, with those created before it,      *)
(* because the queries take the oldest first and the table learns of       *)
(* builds in the order of their creation.  So the invariant counts as busy *)
(* the builds that are marked, and those that wait and are as old as one   *)
(* that was picked.                                                        *)
(***************************************************************************)
EXTENDS SettledProofs

NoUndeploys == ClientOps \subseteq {"deploy", "start", "stop"} /\ "undeployer" \notin Tasks

\* Nothing is deleted, and what is marked was launched.
StillInv ==
  /\ MirrorInv /\ BranchInv /\ MarksLaunched
  /\ NoUndeploys
  /\ deplWatch = "up" /\ Doomed = {}
  /\ calls \in [Actors -> Seq(Harmless)]

(***************************************************************************)
(* The builds that were picked by the initializer, on their way to a job   *)
(* and then with one, and those that are busy.                             *)
(***************************************************************************)
InTodo(b) ==
  \E t \in Tasks : t = "initializer" /\ \E i \in 1 .. Len(todo[t]) : todo[t][i].build = b

InCalls(b) ==
  \E a \in Actors : \E i \in 1 .. Len(calls[a]) : Launches(calls[a][i]) /\ calls[a][i].build = b

Picked == {b \in Builds : jobs[b]["initialize"] # "none" \/ InTodo(b) \/ InCalls(b)}

Waiting == WithInitStatus(db, "todo")
Before(S) == {c \in Waiting : \E b \in Waiting \intersect S : db[c].created <= db[b].created}
Busy == WithInitStatus(db, "started") \union Before(Picked)

(***************************************************************************)
(* The order in which the table learns of the builds, and of what becomes  *)
(* of each.                                                                *)
(***************************************************************************)
Unheard(c, n) == db[c].status = "absent" /\ \A i \in 1 .. n : deplEvents[i].build # c

\* What is in the table, or will be before c, was created before c.
ToldInOrder ==
  \A c \in Builds : Live(c) =>
    /\ \A b \in Builds : db[b].status # "absent" /\ db[c].status = "absent" =>
         deployments[b].created < deployments[c].created
    /\ \A n \in 1 .. Len(deplEvents) : Unheard(c, n) =>
         deployments[deplEvents[n].build].created < deployments[c].created

Later(x, y) == x = y \/ x = "todo" \/ (x = "started" /\ y \in Outcomes)

InitsInOrder ==
  \A b \in Builds :
    /\ Later(db[b].init, deployments[b].init)
    /\ \A i \in 1 .. Len(deplEvents) : deplEvents[i].build = b =>
         /\ Later(db[b].init, deplEvents[i].row.init)
         /\ Later(deplEvents[i].row.init, deployments[b].init)
         /\ \A j \in 1 .. Len(deplEvents) : i < j /\ deplEvents[j].build = b =>
              Later(deplEvents[i].row.init, deplEvents[j].row.init)

LimitInv == StillInv /\ ToldInOrder /\ InitsInOrder /\ Cardinality(Busy) <= MaxInitializing

(***************************************************************************)
(* Nothing is deleted.                                                     *)
(***************************************************************************)
LEMMA StillParts ==
  ASSUME StillInv
  PROVE  /\ LifeInv /\ TypeOK /\ ClusterTypeOK /\ CreatedApart /\ PlacesMet
         /\ db \in [Builds -> Rows] /\ db \in Tables
         /\ deployments \in [Builds -> Deployments]
         /\ jobs \in [Builds -> [JobKinds -> JobStates]]
         /\ todo \in [Tasks -> Seq(MetSnapshots)]
         /\ jobEvents \in Seq(MetJobEvents)
         /\ deplEvents \in Seq(TimelyEvents)
         /\ \A b \in Builds : deployments[b].phase \in {"unborn", "live"}
         /\ ~lookup.busy
<1>1. MirrorInv /\ BranchInv /\ Doomed = {}
  BY DEF StillInv
<1>2. LifeInv /\ ClusterTypeOK /\ PlacesMet /\ LookupSound /\ jobEvents \in Seq(MetJobEvents)
      /\ LookupOfEvent
  BY <1>1, MirrorParts, InvParts
<1>3. \A b \in Builds : deployments[b].phase \in {"unborn", "live"}
  BY <1>1, <1>2, Phase DEF Phases
<1>4. ~lookup.busy
  <2>1. lookup.busy => deployments[Head(jobEvents).build].phase = "gone" /\ jobEvents # << >>
    BY <1>2 DEF PlacesMet, LookupSound, LookupOfEvent
  <2>2. jobEvents # << >> => Head(jobEvents).build \in Builds
    BY <1>2, HeadEvent
  <2> QED
    BY <1>3, <2>1, <2>2
<1> QED
  BY <1>1, <1>2, <1>3, <1>4, MirrorParts, BranchParts, InvParts

\* A build that has a job, or is about to get one, is in the table.
LEMMA PickedRows ==
  ASSUME StillInv, NEW b \in Picked
  PROVE  b \in Builds /\ db[b].status # "absent"
<1>1. /\ PlacesMet /\ todo \in [Tasks -> Seq(MetSnapshots)] /\ calls \in [Actors -> Seq(MetCalls)]
      /\ \A c \in Builds : deployments[c].phase \in {"unborn", "live"}
  BY StillParts DEF PlacesMet
<1>2. \A c \in Met : db[c].status # "absent"
  BY <1>1 DEF Met
<1>3. ASSUME jobs[b]["initialize"] # "none"
      PROVE  b \in Met
  BY <1>1, <1>3 DEF PlacesMet, JobKinds, Picked
<1>4. ASSUME InTodo(b)
      PROVE  b \in Met
  <2>1. PICK t \in Tasks : \E i \in 1 .. Len(todo[t]) : todo[t][i].build = b
    BY <1>4 DEF InTodo
  <2>2. todo[t] \in Seq(MetSnapshots)
    BY <1>1
  <2> QED
    BY <2>1, <2>2 DEF MetSnapshots
<1>5. ASSUME InCalls(b)
      PROVE  b \in Met
  <2>1. PICK a \in Actors : \E i \in 1 .. Len(calls[a]) : Launches(calls[a][i]) /\ calls[a][i].build = b
    BY <1>5 DEF InCalls
  <2>2. calls[a] \in Seq(MetCalls)
    BY <1>1
  <2> QED
    BY <2>1, <2>2 DEF MetCalls
<1> QED
  BY <1>2, <1>3, <1>4, <1>5 DEF Picked

\* What an actor is given to call deletes nothing, and launches a job only of
\* a build that was picked.
PickedCalls == {c \in Harmless : Launches(c) => c.build \in Picked}

LEMMA HarmlessQuiet ==
  ASSUME NEW list \in Seq(Harmless), list \in Seq(Quiet)
  PROVE  list \in Seq(PickedCalls)
<1>1. \A i \in 1 .. Len(list) : list[i] \in Harmless /\ list[i] \in Quiet
  OBVIOUS
<1>2. \A i \in 1 .. Len(list) : list[i] \in PickedCalls
  BY <1>1 DEF Quiet, PickedCalls
<1> QED
  BY <1>2

LEMMA OnJobEventPicked ==
  ASSUME NEW b \in Builds, NEW row \in Rows, NEW kind \in JobKinds,
         NEW state \in JobStates \ {"none"}
  PROVE  OnJobEvent(b, row, kind, state) \in Seq(PickedCalls)
<1>1. {Apply(b, "stop"), Purge(b), Unfinalize(b)} \subseteq Harmless
  BY HarmlessCalls DEF Modes
<1>2. \A report \in GitHubStates : Notify(b, report) \in Harmless
  BY HarmlessCalls
<1>3. \A c \in Calls : c.op = "patch" => c \in Harmless
  BY DEF Harmless
<1>4. OnJobEvent(b, row, kind, state) \in Seq(Harmless)
  BY <1>1, <1>2, <1>3, OnJobEventWithin
<1> QED
  BY <1>4, OnJobEventQuiet, HarmlessQuiet

LEMMA MethodPicked ==
  ASSUME StillInv, NEW t \in Tasks, todo[t] # << >>
  PROVE  MethodOf(t, Head(todo[t]).build, Head(todo[t]).row) \in Seq(PickedCalls)
<1> DEFINE s == Head(todo[t])
<1>1. /\ todo[t] \in Seq(MetSnapshots) /\ TodoDoomed /\ Doomed = {} /\ t # "undeployer"
  BY StillParts, InvParts DEF StillInv, NoUndeploys, FateInv
<1>2. s \in MetSnapshots /\ s = todo[t][1] /\ 1 \in 1 .. Len(todo[t])
  BY <1>1
<1>3. s.build \in Builds /\ s.row \in Rows
  BY <1>2 DEF MetSnapshots, Snapshots
<1>4. t # "cleaner"
  BY <1>1, <1>2 DEF TodoDoomed
<1>5. CASE t = "initializer"
  <2>1. InTodo(s.build)
    BY <1>2, <1>5 DEF InTodo
  <2>2. s.build \in Picked
    BY <1>3, <2>1 DEF Picked
  <2>3. Apply(s.build, "initialize") \in Harmless /\ Apply(s.build, "initialize").build = s.build
    BY <1>3, HarmlessCalls DEF Modes, Apply
  <2>4. Apply(s.build, "initialize") \in PickedCalls
    BY <2>2, <2>3 DEF PickedCalls
  <2> QED
    BY <1>5, <2>4 DEF MethodOf, Initialize
<1>6. CASE t = "stopper"
  BY <1>3, <1>6, HarmlessMethods, QuietMethods, HarmlessQuiet DEF MethodOf
<1> QED
  BY <1>1, <1>4, <1>5, <1>6, TasksAssumption

LEMMA RequestPicked ==
  ASSUME StillInv, NEW c \in Clients, ClientRequest(c)
  PROVE  /\ \E list \in Seq(PickedCalls) : calls' = [calls EXCEPT ![c] = list]
         /\ UNCHANGED << clusterVars, db, todo, lookup >>
<1>1. db \in [Builds -> Rows] /\ LifeInv /\ NoUndeploys
  BY StillParts DEF StillInv
<1>2. ASSUME NEW list \in Seq(PickedCalls), NEW op, Request(c, op, list)
      PROVE  \E l \in Seq(PickedCalls) : calls' = [calls EXCEPT ![c] = l]
  BY <1>2 DEF Request
<1>3. ASSUME NEW b \in Builds
      PROVE  /\ DeployBuild(b) \in Seq(PickedCalls)
             /\ Start(b, db[b]) \in Seq(PickedCalls)
             /\ Stop(b, db[b]) \in Seq(PickedCalls)
  BY <1>1, HarmlessMethods, QuietMethods, HarmlessQuiet
<1>4. ASSUME NEW b \in Builds, DeployCommit(c, b) \/ StartBuild(c, b) \/ StopBuild(c, b)
      PROVE  \E l \in Seq(PickedCalls) : calls' = [calls EXCEPT ![c] = l]
  BY <1>2, <1>3, <1>4 DEF DeployCommit, StartBuild, StopBuild
<1>5. \A b \in Builds : ~ResetBuild(c, b) /\ ~UndeployBuild(c, b)
  BY <1>1 DEF NoUndeploys, ResetBuild, UndeployBuild, Request
<1>6. \A pr : ~UndeployBuilds(c, pr)
  BY <1>1 DEF NoUndeploys, UndeployBuilds, Request
<1> QED
  BY <1>1, <1>4, <1>5, <1>6, RequestCalls DEF ClientRequest

LEMMA StillCalls ==
  ASSUME StillInv, [Next]_vars
  PROVE  calls' \in [Actors -> Seq(PickedCalls)]
<1>1. /\ calls \in [Actors -> Seq(Harmless)] /\ MirrorInv /\ LifeInv
      /\ db \in [Builds -> Rows] /\ ~lookup.busy /\ Tasks \subseteq Actors
  BY StillParts, ActorSets DEF StillInv
<1>2. calls \in [Actors -> Seq(PickedCalls)]
  <2>1. ASSUME NEW a \in Actors
        PROVE  calls[a] \in Seq(PickedCalls)
    <3>1. calls[a] \in Seq(Harmless)
      BY <1>1
    <3>2. ASSUME NEW i \in 1 .. Len(calls[a])
          PROVE  calls[a][i] \in PickedCalls
      <4>1. calls[a][i] \in Harmless /\ calls[a][i].build \in Builds
        BY <3>1, CallFields DEF Harmless
      <4>2. Launches(calls[a][i]) => InCalls(calls[a][i].build)
        BY DEF InCalls
      <4> QED
        BY <4>1, <4>2 DEF PickedCalls, Picked
    <3> QED
      BY <3>1, <3>2
  <2> QED
    BY <1>1, <2>1
<1>3. ASSUME NEW a \in Actors, calls' = [calls EXCEPT ![a] = << >>]
             \/ (calls[a] # << >> /\ calls' = [calls EXCEPT ![a] = Tail(calls[a])])
      PROVE  calls' \in [Actors -> Seq(PickedCalls)]
  <2>1. << >> \in Seq(PickedCalls) /\ (calls[a] # << >> => Tail(calls[a]) \in Seq(PickedCalls))
    BY <1>2
  <2> QED
    BY <1>2, <1>3, <2>1
<1>4. ASSUME NEW a \in Actors, Call(a)
      PROVE  calls' \in [Actors -> Seq(PickedCalls)]
  BY <1>3, <1>4 DEF Call, Abort
<1>5. ASSUME NEW t \in Tasks, NextBuild(t)
      PROVE  calls' \in [Actors -> Seq(PickedCalls)]
  BY <1>1, <1>2, <1>5, MethodPicked DEF NextBuild
<1>6. CASE HandleJob
  <2> DEFINE e == Head(jobEvents)
  <2>1. e.build \in Builds /\ e.kind \in JobKinds /\ e.state \in JobStates \ {"none"} /\ db[e.build] \in Rows
    BY <1>1, <1>6, HeadEvent DEF HandleJob
  <2> HIDE DEF e
  <2>2. OnJobEvent(e.build, db[e.build], e.kind, e.state) \in Seq(PickedCalls)
    BY <2>1, OnJobEventPicked
  <2>3. calls' = calls \/
        calls' = [calls EXCEPT ![JobWatcher] = OnJobEvent(e.build, db[e.build], e.kind, e.state)]
    BY <1>6 DEF HandleJob, e
  <2> QED
    BY <1>2, <2>2, <2>3
<1>7. ASSUME NEW c \in Clients, ClientRequest(c)
      PROVE  calls' \in [Actors -> Seq(PickedCalls)]
  BY <1>2, <1>7, RequestPicked
<1>8. CASE Faults
  BY <1>1, <1>3, <1>8, FailsOnly DEF CallFails, Abort
<1>9. CASE \/ DeploymentWatcher \/ StartJobWatch \/ (\E t \in Tasks : Pass(t))
           \/ (Environment /\ UNCHANGED << controller, requests, faults >>) \/ Wait \/ UNCHANGED vars
  BY <1>2, <1>9 DEF DeploymentWatcher, StartDeploymentWatch, ListDeployments, HandleDeployment,
                    StartJobWatch, Pass, Wait, vars, controller
<1>10. ~HandleJobLookup
  BY SMTT(30), <1>1 DEF HandleJobLookup
<1> QED
  BY <1>4, <1>5, <1>6, <1>7, <1>8, <1>9, <1>10 DEF Next, Background, JobWatch

LEMMA PerformStill ==
  ASSUME StillInv, NEW a \in Actors, calls[a] # << >>, Perform(Head(calls[a]))
  PROVE  Doomed' = {}
<1> DEFINE c == Head(calls[a])
           d == deployments[c.build]
<1>1. /\ LifeInv /\ Doomed = {} /\ deployments \in [Builds -> Deployments]
      /\ calls \in [Actors -> Seq(Harmless)]
  BY StillParts DEF StillInv
<1>2. c \in SoundCalls /\ c \in Calls /\ c.build \in Builds
  BY <1>1, HeadCall
<1>3. c.op \notin {"delete", "purge", "unfinalize"}
  <2>1. c \in Harmless
    BY <1>1
  <2> QED
    BY <1>1, <1>2, <2>1 DEF SoundCalls, Harmless
<1>4. \A b \in Builds : deployments[b].phase \notin {"deleting", "gone"}
  BY <1>1 DEF Doomed
<1>5. ASSUME NEW e, SetDeployment(c.build, e), e.phase \in {"live", d.phase}
      PROVE  Doomed' = {}
  <2>1. deployments' = [deployments EXCEPT ![c.build] = e]
    BY <1>5 DEF SetDeployment
  <2>2. \A b \in Builds : deployments'[b].phase \notin {"deleting", "gone"}
    BY <1>1, <1>2, <1>4, <1>5, <2>1
  <2> QED
    BY <2>2 DEF Doomed
<1>6. CASE ApplyDeployment(c)
  <2> DEFINE e == IF Present(d)
                  THEN [d EXCEPT !.init = "todo", !.replicas = 0, !.finalizer = TRUE]
                  ELSE [phase |-> "live", init |-> "todo", replicas |-> 0, running |-> FALSE,
                        finalizer |-> TRUE, created |-> now, scaled |-> now]
  <2>1. SetDeployment(c.build, e) /\ e.phase \in {"live", d.phase}
    BY <1>1, <1>2, <1>6 DEF ApplyDeployment, Deployments
  <2> HIDE DEF e
  <2> QED
    BY <1>5, <2>1
<1>7. CASE PatchDeployment(c) /\ Present(d)
  <2> DEFINE e == [d EXCEPT !.init = IF c.init = "keep" THEN @ ELSE c.init,
                            !.replicas = IF c.replicas = Keep THEN @ ELSE c.replicas,
                            !.scaled = IF c.replicas = Keep THEN @ ELSE now]
  <2>1. SetDeployment(c.build, e) /\ e.phase = d.phase
    BY <1>1, <1>2, <1>7 DEF PatchDeployment, Deployments
  <2> HIDE DEF e
  <2> QED
    BY <1>5, <2>1
<1>8. CASE deployments' = deployments
  BY <1>1, <1>8 DEF Doomed
<1> QED
  BY <1>3, <1>6, <1>7, <1>8
     DEF Perform, ApplyJob, ApplyOthers, PatchDeployment, RemoveFinalizers, DeleteDeployment,
         DeleteResources, KillJob, NotifyStatus

LEMMA EnvironmentStill ==
  ASSUME StillInv, Environment
  PROVE  Doomed' = {}
<1>1. Doomed = {} /\ deployments \in [Builds -> Deployments]
  BY StillParts DEF StillInv
<1>2. ASSUME NEW k \in Builds, Scale(k)
      PROVE  Doomed' = {}
  <2>1. deployments' = [deployments EXCEPT ![k] = [deployments[k] EXCEPT !.running = ~@]]
    BY <1>2 DEF Scale, SetDeployment
  <2>2. [deployments[k] EXCEPT !.running = ~@].phase = deployments[k].phase
    BY <1>1 DEF Deployments
  <2>3. \A b \in Builds : deployments'[b].phase = deployments[b].phase
    BY <1>1, <2>1, <2>2
  <2> QED
    BY <1>1, <2>3 DEF Doomed
<1>3. CASE deployments' = deployments
  BY <1>1, <1>3 DEF Doomed
<1> QED
  BY <1>2, <1>3 DEF Environment, InitializeCreatesDatabase, InitializeSucceeds,
                    CleanupSucceeds, JobFails, Tick, cluster

LEMMA StillSteps ==
  ASSUME StillInv, [Next]_vars
  PROVE  HandleDeployment \/ Untabled
BY TableSteps DEF StillInv, BranchInv

LEMMA StillStep ==
  ASSUME StillInv, [Next]_vars
  PROVE  StillInv'
<1>1. /\ MirrorInv /\ BranchInv /\ LifeInv /\ MarksLaunched /\ NoUndeploys
      /\ deplWatch = "up" /\ Doomed = {} /\ ~lookup.busy
  BY StillParts DEF StillInv
<1>2. MirrorInv' /\ BranchInv' /\ MarksLaunched'
  BY <1>1, MirrorStep, BranchStep, LaunchedStep
<1>3. calls' \in [Actors -> Seq(Harmless)]
  <2>1. PickedCalls \subseteq Harmless
    BY DEF PickedCalls
  <2>2. Seq(PickedCalls) \subseteq Seq(Harmless)
    BY <2>1, SeqMono
  <2> QED
    BY <2>2, StillCalls
<1>4. deplWatch' = "up"
  BY <1>1, StillSteps DEF Untabled, HandleDeployment
<1>5. Doomed' = {}
  <2>1. CASE deployments' = deployments
    BY <1>1, <2>1 DEF Doomed
  <2>2. ASSUME NEW a \in Actors, Call(a)
        PROVE  Doomed' = {}
    BY <2>1, <2>2, PerformStill DEF Call, cluster
  <2>3. CASE Environment
    BY <2>3, EnvironmentStill
  <2>4. CASE DeploymentWatcher \/ JobWatch \/ Faults \/ Wait \/ UNCHANGED vars
    BY <2>1, <2>4
       DEF DeploymentWatcher, StartDeploymentWatch, ListDeployments, HandleDeployment, JobWatch,
           StartJobWatch, HandleJob, HandleJobLookup, Faults, CallFails, DeploymentWatchBreaks,
           JobWatchBreaks, ControllerRestarts, Wait, cluster, vars, clusterVars
  <2>5. ASSUME NEW t \in Tasks, Pass(t) \/ NextBuild(t)
        PROVE  deployments' = deployments
    BY <2>5 DEF Pass, NextBuild, clusterVars
  <2>6. ASSUME NEW c \in Clients, ClientRequest(c)
        PROVE  deployments' = deployments
    BY <1>1, <2>6, RequestCalls DEF clusterVars
  <2> QED
    BY <2>1, <2>2, <2>3, <2>4, <2>5, <2>6 DEF Next, Background
<1> QED
  BY <1>1, <1>2, <1>3, <1>4, <1>5 DEF StillInv, NoUndeploys

\* Only a pass of the initializer picks a build that was not picked.
LEMMA PickedStep ==
  ASSUME StillInv, [Next]_vars, ~\E t \in Tasks : t = "initializer" /\ Pass(t)
  PROVE  Picked' \subseteq Picked
<1>1. /\ LifeInv /\ MirrorInv /\ todo \in [Tasks -> Seq(MetSnapshots)] /\ ~lookup.busy
      /\ Tasks \subseteq Actors
  BY StillParts, ActorSets DEF StillInv
<1>2. ASSUME NEW b \in Builds, InCalls(b)'
      PROVE  b \in Picked
  <2>1. PICK a \in Actors :
          \E i \in 1 .. Len(calls'[a]) : Launches(calls'[a][i]) /\ calls'[a][i].build = b
    BY <1>2 DEF InCalls, Launches
  <2>2. calls'[a] \in Seq(PickedCalls)
    BY StillCalls
  <2> QED
    BY <2>1, <2>2 DEF PickedCalls
<1>3. ASSUME NEW b \in Builds, jobs'[b]["initialize"] # "none"
      PROVE  b \in Picked
  <2>1. CASE jobs' = jobs
    BY <1>3, <2>1 DEF Picked
  <2>2. ASSUME NEW a \in Actors, Call(a)
        PROVE  b \in Picked
    <3>1. CASE calls[a] # << >> /\ Perform(Head(calls[a]))
      <4>1. \/ jobs[b]["initialize"] # "none"
            \/ Launches(Head(calls[a])) /\ Head(calls[a]).build = b
        BY <1>1, <1>3, <3>1, PerformLaunched DEF JobKinds
      <4>2. Head(calls[a]) = calls[a][1] /\ 1 \in 1 .. Len(calls[a])
        BY <1>1, <3>1, HeadCall
      <4> QED
        BY <4>1, <4>2 DEF Picked, InCalls
    <3> QED
      BY <2>1, <2>2, <3>1 DEF Call, cluster
  <2>3. CASE Environment
    BY <1>1, <1>3, <2>3, EnvironmentLaunched DEF Picked, JobKinds
  <2>4. CASE DeploymentWatcher \/ JobWatch \/ Faults \/ Wait \/ UNCHANGED vars
    BY <2>1, <2>4
       DEF DeploymentWatcher, StartDeploymentWatch, ListDeployments, HandleDeployment, JobWatch,
           StartJobWatch, HandleJob, HandleJobLookup, Faults, CallFails, DeploymentWatchBreaks,
           JobWatchBreaks, ControllerRestarts, Wait, cluster, vars, clusterVars
  <2>5. ASSUME NEW t \in Tasks, Pass(t) \/ NextBuild(t)
        PROVE  jobs' = jobs
    BY <2>5 DEF Pass, NextBuild, clusterVars
  <2>6. ASSUME NEW c \in Clients, ClientRequest(c)
        PROVE  jobs' = jobs
    BY <1>1, <2>6, RequestCalls DEF clusterVars
  <2> QED
    BY <2>1, <2>2, <2>3, <2>4, <2>5, <2>6 DEF Next, Background
<1>4. ASSUME NEW b \in Builds, InTodo(b)'
      PROVE  InTodo(b)
  <2>1. PICK t \in Tasks : t = "initializer" /\ \E i \in 1 .. Len(todo'[t]) : todo'[t][i].build = b
    BY <1>4 DEF InTodo
  <2>2. todo[t] \in Seq(MetSnapshots)
    BY <1>1
  <2>3. CASE todo'[t] = todo[t]
    BY <2>1, <2>3 DEF InTodo
  <2>4. CASE todo[t] # << >> /\ todo'[t] = Tail(todo[t])
    <3>1. PICK i \in 1 .. Len(Tail(todo[t])) : Tail(todo[t])[i].build = b
      BY <2>1, <2>4
    <3>2. i + 1 \in 1 .. Len(todo[t]) /\ Tail(todo[t])[i] = todo[t][i + 1]
      BY <2>2, <2>4, <3>1
    <3> QED
      BY <2>1, <3>1, <3>2 DEF InTodo
  <2>5. todo'[t] # << >>
    BY <2>1
  <2>6. ASSUME NEW a \in Actors, Call(a)
        PROVE  todo'[t] \in {todo[t], << >>}
    BY <1>1, <2>6 DEF Call, Abort
  <2>7. ASSUME NEW k \in Tasks, Pass(k)
        PROVE  todo'[t] = todo[t]
    BY <1>1, <2>1, <2>7 DEF Pass
  <2>8. ASSUME NEW k \in Tasks, NextBuild(k)
        PROVE  todo'[t] = todo[t] \/ (todo[t] # << >> /\ todo'[t] = Tail(todo[t]))
    BY <1>1, <2>8 DEF NextBuild
  <2>9. ASSUME NEW c \in Clients, ClientRequest(c)
        PROVE  todo' = todo
    BY <1>1, <2>9, RequestCalls
  <2>10. ASSUME NEW a \in Actors, CallFails(a)
         PROVE  todo'[t] \in {todo[t], << >>}
    BY <1>1, <2>10 DEF CallFails, Abort
  <2>11. ASSUME \/ DeploymentWatcher \/ JobWatch \/ Wait \/ UNCHANGED vars
                \/ (Environment /\ UNCHANGED << controller, requests, faults >>)
         PROVE  todo' = todo
    BY <1>1, <2>11 DEF DeploymentWatcher, StartDeploymentWatch, ListDeployments, HandleDeployment,
                 JobWatch, StartJobWatch, HandleJob, HandleJobLookup, Wait, vars, controller
  <2> QED
    BY <1>1, <2>3, <2>4, <2>5, <2>6, <2>7, <2>8, <2>9, <2>10, <2>11, FailsOnly DEF Next, Background
<1> QED
  BY <1>2, <1>3, <1>4 DEF Picked

(***************************************************************************)
(* The order in which the table learns.                                    *)
(***************************************************************************)
\* A row is of a live build, and has its creation time; so has an event.
LEMMA RowDates ==
  ASSUME StillInv
  PROVE  /\ \A b \in Builds : db[b].status # "absent" =>
              Live(b) /\ db[b].created = deployments[b].created
         /\ \A i \in 1 .. Len(deplEvents) :
              /\ deplEvents[i].build \in Builds /\ Live(deplEvents[i].build)
              /\ deplEvents[i].row.status # "absent"
              /\ deplEvents[i].row.created = deployments[deplEvents[i].build].created
<1>1. /\ LifeInv /\ PlacesMet /\ ClusterTypeOK /\ db \in [Builds -> Rows]
      /\ deplEvents \in Seq(TimelyEvents) /\ PlacesSound
      /\ \A b \in Builds : deployments[b].phase \in {"unborn", "live"}
  BY StillParts, InvParts
<1>2. \A b \in Builds : b \notin Unborn => Live(b) /\ Present(deployments[b])
  BY <1>1 DEF Unborn, Live, Present
<1>3. ASSUME NEW b \in Builds, db[b].status # "absent"
      PROVE  Live(b) /\ db[b].created = deployments[b].created
  <2>1. [build |-> b, row |-> db[b]] \in SoundSnapshots /\ Timely(b, db[b])
    BY <1>1 DEF PlacesSound, PlacesMet
  <2> QED
    BY <1>2, <1>3, <2>1 DEF SoundSnapshots, Timely
<1>4. ASSUME NEW i \in 1 .. Len(deplEvents)
      PROVE  /\ deplEvents[i].build \in Builds /\ Live(deplEvents[i].build)
             /\ deplEvents[i].row.status # "absent"
             /\ deplEvents[i].row.created = deployments[deplEvents[i].build].created
  <2>1. deplEvents[i] \in TimelyEvents
    BY <1>1
  <2> QED
    BY <1>1, <1>2, <2>1 DEF TimelyEvents, SoundSnapshots, Snapshots, Timely
<1> QED
  BY <1>3, <1>4

LEMMA DatesOfRows ==
  StillInv => \A b \in Builds : db[b].status # "absent" =>
    Live(b) /\ db[b].created = deployments[b].created
BY RowDates

LEMMA NextDatesOfRows ==
  (StillInv => \A b \in Builds : db[b].status # "absent" =>
    Live(b) /\ db[b].created = deployments[b].created)'
BY DatesOfRows, PTL

\* The row a watch of deployments handles is of a live build.
LEMMA HandledLive ==
  ASSUME StillInv, HandleDeployment
  PROVE  LET e == Head(deplEvents) IN
         /\ e = deplEvents[1] /\ 1 \in 1 .. Len(deplEvents) /\ e.build \in Builds
         /\ Live(e.build) /\ e.row.status # "absent"
         /\ db'[e.build].status # "absent" /\ db'[e.build].init = e.row.init
         /\ \A b \in Builds \ {e.build} : db'[b] = db[b]
         /\ UNCHANGED << deployments, jobs, todo, calls >>
         /\ Len(deplEvents) \in Nat /\ Len(deplEvents') = Len(deplEvents) - 1
         /\ \A i \in 1 .. Len(deplEvents') :
              i + 1 \in 1 .. Len(deplEvents) /\ deplEvents'[i] = deplEvents[i + 1]
<1> DEFINE e == Head(deplEvents)
<1>1. MirrorInv /\ deplEvents \in Seq(TimelyEvents)
  BY StillParts DEF StillInv
<1>2. /\ e = deplEvents[1] /\ 1 \in 1 .. Len(deplEvents) /\ e.build \in Builds
      /\ \A b \in Builds \ {e.build} : db'[b] = db[b]
      /\ e.row.status # "absent" =>
           \/ db'[e.build] = e.row
           \/ db'[e.build] = db[e.build] /\ SameBuild(db[e.build], e.row)
  BY <1>1, HandledRow
<1>3. Live(e.build) /\ e.row.status # "absent"
  BY <1>2, RowDates
<1>4. db'[e.build].status # "absent" /\ db'[e.build].init = e.row.init
  BY <1>2, <1>3 DEF SameBuild
<1>5. deplEvents # << >> /\ deplEvents' = Tail(deplEvents) /\ UNCHANGED << deployments, jobs, todo, calls >>
  BY DEF HandleDeployment, cluster
<1>6. /\ Len(deplEvents) \in Nat /\ Len(deplEvents') = Len(deplEvents) - 1
      /\ \A i \in 1 .. Len(deplEvents') :
           i + 1 \in 1 .. Len(deplEvents) /\ deplEvents'[i] = deplEvents[i + 1]
  BY <1>1, <1>5
<1> HIDE DEF e
<1> QED
  BY <1>2, <1>3, <1>4, <1>5, <1>6 DEF e

\* What a step of the cluster does to live builds, and adds to the events.
LEMMA KeptLive ==
  ASSUME StillInv, [Next]_vars, Untabled, NEW b \in Builds
  PROVE  /\ Live(b) => deployments'[b].phase = "live"
                       /\ deployments'[b].created = deployments[b].created
         /\ deployments'[b].phase = "live" /\ ~Live(b) =>
              /\ deployments'[b].created = now
              /\ \A c \in Builds : Live(c) => deployments[c].created < now
         /\ Later(deployments[b].init, deployments'[b].init)
<1>1. /\ LifeInv /\ CreatedApart /\ ClusterTypeOK /\ Doomed' = {}
      /\ deployments[b].phase \in {"unborn", "live"} /\ Doomed = {} /\ BuildSound(b)
  BY StillParts, StillStep, InvParts DEF StillInv
<1>2. Advances(b) /\ deployments[b].init \in BuildInitStatus /\ (b \in Unborn <=> ~Live(b))
  BY <1>1, StepAdvances, Phase DEF Live
<1>3. b \notin Doomed'
  BY <1>1
<1>4. deployments'[b].phase \notin {"deleting", "gone"}
  BY <1>3, PhaseNext
<1>5. Live(b) => deployments'[b].phase = "live"
  BY <1>2, <1>4 DEF Advances, Live
<1>6. Live(b) => deployments'[b].created = deployments[b].created
  BY <1>2, <1>5 DEF Untabled, Dated, Present
<1>7. ASSUME deployments'[b].phase = "live", ~Live(b)
      PROVE  /\ deployments'[b].created = now
             /\ \A c \in Builds : Live(c) => deployments[c].created < now
  BY <1>1, <1>7 DEF Untabled, Clocked, Live, CreatedApart
<1>8. Later(deployments[b].init, deployments'[b].init)
  <2>1. CASE Live(b)
    <3>1. LifeInv'
      BY <1>1, LifeStep
    <3>2. deployments'[b].init \in BuildInitStatus
      BY <3>1 DEF LifeInv, CleanupInv, TypeInv, TypeOK, ClusterTypeOK, Deployments
    <3> QED
      BY <1>2, <1>5, <2>1, <3>2 DEF Advances, Live, Later, BuildInitStatus, Outcomes
  <2>2. CASE ~Live(b)
    BY <1>1, <1>2, <2>2 DEF BuildSound, Later
  <2> QED
    BY <2>1, <2>2
<1> QED
  BY <1>5, <1>6, <1>7, <1>8

LEMMA AddedEvent ==
  ASSUME StillInv, [Next]_vars, Untabled
  PROVE  /\ Len(deplEvents) \in Nat /\ Len(deplEvents') \in Nat /\ Len(deplEvents) <= Len(deplEvents')
         /\ \A i \in 1 .. Len(deplEvents) : deplEvents'[i] = deplEvents[i]
         /\ \A n \in 1 .. Len(deplEvents') : n \notin 1 .. Len(deplEvents) =>
              /\ n = Len(deplEvents) + 1 /\ n = Len(deplEvents')
              /\ deplEvents'[n].build \in Builds
              /\ deplEvents'[n].row.init = deployments'[deplEvents'[n].build].init
              /\ \A b \in Builds \ {deplEvents'[n].build} : deployments'[b] = deployments[b]
<1>1. deplEvents \in Seq(TimelyEvents) /\ Len(deplEvents) \in Nat /\ ClusterTypeOK
  BY StillParts
<1>2. CASE deplEvents' = deplEvents
  BY <1>1, <1>2
<1>3. ASSUME NEW k \in Builds,
             deplEvents' = Append(deplEvents, [build |-> k, row |-> RowOf(deployments'[k])]),
             RowOf(deployments'[k]) # RowOf(deployments[k]),
             \A b \in Builds \ {k} : deployments'[b] = deployments[b]
      PROVE  /\ Len(deplEvents') \in Nat /\ Len(deplEvents) <= Len(deplEvents')
             /\ \A i \in 1 .. Len(deplEvents) : deplEvents'[i] = deplEvents[i]
             /\ \A n \in 1 .. Len(deplEvents') : n \notin 1 .. Len(deplEvents) =>
                  /\ n = Len(deplEvents) + 1 /\ n = Len(deplEvents')
                  /\ deplEvents'[n].build \in Builds
                  /\ deplEvents'[n].row.init = deployments'[deplEvents'[n].build].init
                  /\ \A b \in Builds \ {deplEvents'[n].build} : deployments'[b] = deployments[b]
  <2> DEFINE e == [build |-> k, row |-> RowOf(deployments'[k])]
  <2>1. deployments'[k].phase = "live"
    <3>1. deployments[k].phase \in {"unborn", "live"} /\ LifeInv /\ Advances(k)
      BY StillParts, StepAdvances
    <3>2. Live(k) => deployments'[k].phase = "live"
      BY <1>3, KeptLive
    <3>3. deployments[k].phase = "unborn" => deployments'[k].phase \in {"unborn", "live"}
      BY <3>1 DEF Advances
    <3>4. deployments[k].phase = "unborn" /\ deployments'[k].phase = "unborn" => FALSE
      BY <1>3 DEF RowOf, Present
    <3> QED
      BY <3>1, <3>2, <3>3, <3>4 DEF Live
  <2>2. e.build = k /\ e.row.init = deployments'[k].init
    BY <2>1 DEF RowOf, Present
  <2>3. deplEvents' = Append(deplEvents, e)
    BY <1>3
  <2> HIDE DEF e
  <2>4. deplEvents \in Seq(TimelyEvents \union {e})
    BY <1>1, SeqMono
  <2>5. /\ Len(deplEvents') = Len(deplEvents) + 1 /\ deplEvents'[Len(deplEvents) + 1] = e
        /\ \A i \in 1 .. Len(deplEvents) : deplEvents'[i] = deplEvents[i]
    BY <2>3, <2>4
  <2> QED
    BY <1>1, <1>3, <2>2, <2>5
<1> QED
  BY <1>1, <1>2, <1>3 DEF Untabled, Told

\* A build the table and the events do not know is not born.
LEMMA LiveHeard ==
  ASSUME StillInv, NEW c \in Builds, Live(c), db[c].status = "absent"
  PROVE  \E i \in 1 .. Len(deplEvents) : deplEvents[i].build = c
<1>1. Mirrored(c) /\ deployments[c].phase = "live" /\ deployments[c] \in Deployments
  BY StillParts DEF StillInv, MirrorInv, Live
<1>2. db[c] # RowOf(deployments[c])
  BY <1>1 DEF RowOf, Present, StatusFromDeployment, Deployments, BuildInitStatus
<1> QED
  BY <1>1, <1>2 DEF Mirrored

LEMMA ToldStep ==
  ASSUME StillInv, ToldInOrder, [Next]_vars
  PROVE  ToldInOrder'
<1>1. CASE HandleDeployment
  <2> DEFINE e == Head(deplEvents)
  <2>1. /\ e = deplEvents[1] /\ 1 \in 1 .. Len(deplEvents) /\ e.build \in Builds
        /\ db'[e.build].status # "absent"
        /\ \A b \in Builds \ {e.build} : db'[b] = db[b]
        /\ deployments' = deployments
        /\ Len(deplEvents) \in Nat /\ Len(deplEvents') = Len(deplEvents) - 1
        /\ \A i \in 1 .. Len(deplEvents') :
             i + 1 \in 1 .. Len(deplEvents) /\ deplEvents'[i] = deplEvents[i + 1]
    BY <1>1, HandledLive
  <2> HIDE DEF e
  <2> SUFFICES ASSUME NEW c \in Builds, Live(c)
               PROVE  /\ \A b \in Builds : db'[b].status # "absent" /\ db'[c].status = "absent" =>
                           deployments[b].created < deployments[c].created
                      /\ \A n \in 1 .. Len(deplEvents') :
                           db'[c].status = "absent" /\ (\A i \in 1 .. n : deplEvents'[i].build # c) =>
                             deployments[deplEvents'[n].build].created < deployments[c].created
    BY <2>1 DEF ToldInOrder, Live, Unheard
  <2>2. db'[c].status = "absent" => c # e.build /\ db[c].status = "absent"
    BY <2>1
  <2>3. ASSUME NEW b \in Builds, db'[b].status # "absent", db'[c].status = "absent"
        PROVE  deployments[b].created < deployments[c].created
    <3>1. CASE b # e.build
      BY <2>1, <2>2, <2>3, <3>1 DEF ToldInOrder
    <3>2. CASE b = e.build
      <4>1. Unheard(c, 1)
        BY <2>1, <2>2, <2>3 DEF Unheard
      <4> QED
        BY <2>1, <3>2, <4>1 DEF ToldInOrder
    <3> QED
      BY <3>1, <3>2
  <2>4. ASSUME NEW n \in 1 .. Len(deplEvents'), db'[c].status = "absent",
               \A i \in 1 .. n : deplEvents'[i].build # c
        PROVE  deployments[deplEvents'[n].build].created < deployments[c].created
    <3>1. n + 1 \in 1 .. Len(deplEvents) /\ deplEvents'[n] = deplEvents[n + 1]
      BY <2>1
    <3>2. ASSUME NEW i \in 1 .. n + 1
          PROVE  deplEvents[i].build # c
      <4>1. CASE i = 1
        BY <2>1, <2>2, <2>4, <4>1
      <4>2. CASE i # 1
        <5>1. i - 1 \in 1 .. n /\ i - 1 \in 1 .. Len(deplEvents')
          BY <2>1, <4>2
        <5>2. deplEvents'[i - 1] = deplEvents[i]
          BY <2>1, <5>1
        <5> QED
          BY <2>4, <5>1, <5>2
      <4> QED
        BY <4>1, <4>2
    <3>3. Unheard(c, n + 1)
      BY <2>2, <2>4, <3>2 DEF Unheard
    <3> QED
      BY <3>1, <3>3 DEF ToldInOrder
  <2> QED
    BY <2>3, <2>4
<1>2. CASE Untabled
  <2>1. db' = db
    BY <1>2 DEF Untabled
  <2>2. \A b \in Builds : db[b].status # "absent" => Live(b)
    BY RowDates
  <2>3. \A i \in 1 .. Len(deplEvents) : deplEvents[i].build \in Builds /\ Live(deplEvents[i].build)
    BY RowDates
  <2>4. \A b \in Builds :
          Live(b) => deployments'[b].phase = "live" /\ deployments'[b].created = deployments[b].created
    BY <1>2, KeptLive
  <2>5. /\ Len(deplEvents) \in Nat /\ Len(deplEvents') \in Nat /\ Len(deplEvents) <= Len(deplEvents')
        /\ \A i \in 1 .. Len(deplEvents) : deplEvents'[i] = deplEvents[i]
        /\ \A n \in 1 .. Len(deplEvents') : n \notin 1 .. Len(deplEvents) =>
             /\ n = Len(deplEvents) + 1 /\ n = Len(deplEvents')
             /\ \A b \in Builds \ {deplEvents'[n].build} : deployments'[b] = deployments[b]
    BY <1>2, AddedEvent
  <2> SUFFICES ASSUME NEW c \in Builds, deployments'[c].phase = "live", db[c].status = "absent"
               PROVE  /\ \A b \in Builds : db[b].status # "absent" =>
                           deployments'[b].created < deployments'[c].created
                      /\ \A n \in 1 .. Len(deplEvents') :
                           (\A i \in 1 .. n : deplEvents'[i].build # c) =>
                             deployments'[deplEvents'[n].build].created < deployments'[c].created
    BY <2>1 DEF ToldInOrder, Live, Unheard
  <2>6. CASE Live(c)
    <3>1. \A b \in Builds : db[b].status # "absent" =>
            deployments'[b].created < deployments'[c].created
      BY <2>2, <2>4, <2>6 DEF ToldInOrder
    <3>2. ASSUME NEW n \in 1 .. Len(deplEvents'), \A i \in 1 .. n : deplEvents'[i].build # c
          PROVE  deployments'[deplEvents'[n].build].created < deployments'[c].created
      <4>1. n \in 1 .. Len(deplEvents)
        <5>1. PICK i \in 1 .. Len(deplEvents) : deplEvents[i].build = c
          BY <2>6, LiveHeard
        <5>2. i \notin 1 .. n
          BY <2>5, <3>2, <5>1
        <5> QED
          BY <2>5, <5>2
      <4>2. Unheard(c, n)
        <5>1. \A i \in 1 .. n : i \in 1 .. Len(deplEvents)
          BY <2>5, <4>1
        <5> QED
          BY <2>5, <3>2, <5>1 DEF Unheard
      <4> QED
        BY <2>3, <2>4, <2>5, <2>6, <4>1, <4>2 DEF ToldInOrder
    <3> QED
      BY <3>1, <3>2
  <2>7. CASE ~Live(c)
    <3>1. deployments'[c].created = now /\ \A b \in Builds : Live(b) => deployments[b].created < now
      BY <1>2, <2>7, KeptLive
    <3>2. \A b \in Builds : Live(b) => deployments'[b].created < deployments'[c].created
      BY <2>4, <3>1
    <3>3. ASSUME NEW n \in 1 .. Len(deplEvents'), \A i \in 1 .. n : deplEvents'[i].build # c
          PROVE  deployments'[deplEvents'[n].build].created < deployments'[c].created
      <4>1. CASE n \in 1 .. Len(deplEvents)
        BY <2>3, <2>5, <3>2, <4>1
      <4>2. CASE n \notin 1 .. Len(deplEvents)
        <5>1. deplEvents'[n].build # c
          BY <3>3
        <5>2. deployments'[c] = deployments[c]
          BY <2>5, <4>2, <5>1
        <5> QED
          BY <2>7, <5>2 DEF Live
      <4> QED
        BY <4>1, <4>2
    <3> QED
      BY <2>2, <3>2, <3>3
  <2> QED
    BY <2>6, <2>7
<1> QED
  BY <1>1, <1>2, StillSteps

LEMMA LaterOn ==
  ASSUME NEW x, NEW y, NEW z, Later(x, y), Later(y, z)
  PROVE  Later(x, z)
BY DEF Later, Outcomes

LEMMA InitsStep ==
  ASSUME StillInv, InitsInOrder, [Next]_vars
  PROVE  InitsInOrder'
<1>1. CASE HandleDeployment
  <2> DEFINE e == Head(deplEvents)
  <2>1. /\ e = deplEvents[1] /\ 1 \in 1 .. Len(deplEvents) /\ e.build \in Builds
        /\ db'[e.build].init = e.row.init
        /\ \A b \in Builds \ {e.build} : db'[b] = db[b]
        /\ deployments' = deployments
        /\ Len(deplEvents) \in Nat /\ Len(deplEvents') = Len(deplEvents) - 1
        /\ \A i \in 1 .. Len(deplEvents') :
             i + 1 \in 1 .. Len(deplEvents) /\ deplEvents'[i] = deplEvents[i + 1]
    BY <1>1, HandledLive
  <2> HIDE DEF e
  <2> SUFFICES ASSUME NEW b \in Builds
               PROVE  /\ Later(db'[b].init, deployments[b].init)
                      /\ \A i \in 1 .. Len(deplEvents') : deplEvents'[i].build = b =>
                           /\ Later(db'[b].init, deplEvents'[i].row.init)
                           /\ Later(deplEvents'[i].row.init, deployments[b].init)
                           /\ \A j \in 1 .. Len(deplEvents') : i < j /\ deplEvents'[j].build = b =>
                                Later(deplEvents'[i].row.init, deplEvents'[j].row.init)
    BY <2>1 DEF InitsInOrder, Later
  <2>2. Later(db'[b].init, deployments[b].init)
    BY <2>1 DEF InitsInOrder
  <2>3. ASSUME NEW i \in 1 .. Len(deplEvents'), deplEvents'[i].build = b
        PROVE  /\ Later(db'[b].init, deplEvents'[i].row.init)
               /\ Later(deplEvents'[i].row.init, deployments[b].init)
               /\ \A j \in 1 .. Len(deplEvents') : i < j /\ deplEvents'[j].build = b =>
                    Later(deplEvents'[i].row.init, deplEvents'[j].row.init)
    <3>1. i + 1 \in 1 .. Len(deplEvents) /\ deplEvents'[i] = deplEvents[i + 1] /\ 1 < i + 1
      BY <2>1
    <3>2. Later(db'[b].init, deplEvents'[i].row.init)
      BY <2>1, <2>3, <3>1 DEF InitsInOrder
    <3>3. Later(deplEvents'[i].row.init, deployments[b].init)
      BY <2>3, <3>1 DEF InitsInOrder
    <3>4. ASSUME NEW j \in 1 .. Len(deplEvents'), i < j, deplEvents'[j].build = b
          PROVE  Later(deplEvents'[i].row.init, deplEvents'[j].row.init)
      <4>1. j + 1 \in 1 .. Len(deplEvents) /\ deplEvents'[j] = deplEvents[j + 1] /\ i + 1 < j + 1
        BY <2>1, <3>4
      <4> QED
        BY <2>3, <3>1, <3>4, <4>1 DEF InitsInOrder
    <3> QED
      BY <3>2, <3>3, <3>4
  <2> QED
    BY <2>2, <2>3
<1>2. CASE Untabled
  <2>1. db' = db
    BY <1>2 DEF Untabled
  <2>2. \A b \in Builds : Later(deployments[b].init, deployments'[b].init)
    BY <1>2, KeptLive
  <2>3. /\ Len(deplEvents) \in Nat /\ Len(deplEvents') \in Nat /\ Len(deplEvents) <= Len(deplEvents')
        /\ \A i \in 1 .. Len(deplEvents) : deplEvents'[i] = deplEvents[i]
        /\ \A n \in 1 .. Len(deplEvents') : n \notin 1 .. Len(deplEvents) =>
             /\ n = Len(deplEvents')
             /\ deplEvents'[n].row.init = deployments'[deplEvents'[n].build].init
    BY <1>2, AddedEvent
  <2> SUFFICES ASSUME NEW b \in Builds
               PROVE  /\ Later(db[b].init, deployments'[b].init)
                      /\ \A i \in 1 .. Len(deplEvents') : deplEvents'[i].build = b =>
                           /\ Later(db[b].init, deplEvents'[i].row.init)
                           /\ Later(deplEvents'[i].row.init, deployments'[b].init)
                           /\ \A j \in 1 .. Len(deplEvents') : i < j /\ deplEvents'[j].build = b =>
                                Later(deplEvents'[i].row.init, deplEvents'[j].row.init)
    BY <2>1 DEF InitsInOrder, Later
  <2>4. Later(db[b].init, deployments[b].init) /\ Later(deployments[b].init, deployments'[b].init)
    BY <2>2 DEF InitsInOrder
  <2>5. Later(db[b].init, deployments'[b].init)
    BY <2>4, LaterOn
  <2>6. ASSUME NEW i \in 1 .. Len(deplEvents'), deplEvents'[i].build = b
        PROVE  /\ Later(db[b].init, deplEvents'[i].row.init)
               /\ Later(deplEvents'[i].row.init, deployments'[b].init)
               /\ \A j \in 1 .. Len(deplEvents') : i < j /\ deplEvents'[j].build = b =>
                    Later(deplEvents'[i].row.init, deplEvents'[j].row.init)
    <3>1. CASE i \in 1 .. Len(deplEvents)
      <4>1. deplEvents'[i] = deplEvents[i]
        BY <2>3, <3>1
      <4>2. Later(db[b].init, deplEvents'[i].row.init) /\ Later(deplEvents'[i].row.init, deployments[b].init)
        BY <2>6, <3>1, <4>1 DEF InitsInOrder
      <4>3. Later(deplEvents'[i].row.init, deployments'[b].init)
        BY <2>4, <4>2, LaterOn
      <4>4. ASSUME NEW j \in 1 .. Len(deplEvents'), i < j, deplEvents'[j].build = b
            PROVE  Later(deplEvents'[i].row.init, deplEvents'[j].row.init)
        <5>1. CASE j \in 1 .. Len(deplEvents)
          <6>1. deplEvents'[j] = deplEvents[j]
            BY <2>3, <5>1
          <6> QED
            BY <2>6, <3>1, <4>1, <4>4, <5>1, <6>1 DEF InitsInOrder
        <5>2. CASE j \notin 1 .. Len(deplEvents)
          <6>1. deplEvents'[j].row.init = deployments'[b].init
            BY <2>3, <4>4, <5>2
          <6> QED
            BY <4>3, <6>1
        <5> QED
          BY <5>1, <5>2
      <4> QED
        BY <4>2, <4>3, <4>4
    <3>2. CASE i \notin 1 .. Len(deplEvents)
      <4>1. i = Len(deplEvents') /\ deplEvents'[i].row.init = deployments'[b].init
        BY <2>3, <2>6, <3>2
      <4>2. \A j \in 1 .. Len(deplEvents') : ~(i < j)
        BY <2>3, <4>1
      <4>3. Later(deployments'[b].init, deployments'[b].init)
        BY DEF Later
      <4> QED
        BY <2>5, <4>1, <4>2, <4>3
    <3> QED
      BY <3>1, <3>2
  <2> QED
    BY <2>5, <2>6
<1> QED
  BY <1>1, <1>2, StillSteps

(***************************************************************************)
(* The busy builds.                                                        *)
(***************************************************************************)
LEMMA BusySame ==
  ASSUME db' = db, Picked' \subseteq Picked
  PROVE  Busy' \subseteq Busy
BY DEF Busy, Before, Waiting, WithInitStatus, Names

LEMMA BusyHandle ==
  ASSUME StillInv, ToldInOrder, InitsInOrder, HandleDeployment
  PROVE  Busy' \subseteq Busy
<1> DEFINE e == Head(deplEvents)
<1>1. /\ e = deplEvents[1] /\ 1 \in 1 .. Len(deplEvents) /\ e.build \in Builds
      /\ Live(e.build) /\ db'[e.build].status # "absent" /\ db'[e.build].init = e.row.init
      /\ \A b \in Builds \ {e.build} : db'[b] = db[b]
      /\ UNCHANGED << deployments, jobs, todo, calls >>
  BY HandledLive
<1>2. [Next]_vars /\ MarksLaunched /\ Doomed = {} /\ LifeInv
  BY StillParts DEF StillInv, Next, Background, DeploymentWatcher
<1>3. \A b \in Builds : db'[b].status # "absent" => db'[b].created = deployments[b].created
  BY <1>1, <1>2, StillStep, NextDatesOfRows
<1>4. \A b \in Builds : db[b].status # "absent" => db[b].created = deployments[b].created
  BY RowDates
<1>5. \A b \in Builds : Later(db[b].init, db'[b].init) /\ Later(db'[b].init, deployments[b].init)
  BY <1>1 DEF InitsInOrder, Later
<1>6. Picked' = Picked
  BY <1>1 DEF Picked, InTodo, InCalls
<1> HIDE DEF e
<1>7. \A b \in Builds : db[b].status # "absent" => db'[b].status # "absent"
  BY <1>1
<1>8. ASSUME NEW b \in Builds, db'[b].status # "absent", db'[b].init = "todo"
      PROVE  db[b].init = "todo"
  BY <1>5, <1>8 DEF Later, Outcomes
<1>9. ASSUME NEW b \in Waiting', b \in Picked
      PROVE  b \in Waiting
  <2>1. b \in Builds /\ db'[b].status # "absent" /\ db'[b].init = "todo"
    BY <1>9 DEF Waiting, WithInitStatus, Names
  <2>2. db[b].status # "absent"
    BY <1>9, PickedRows
  <2> QED
    BY <1>8, <2>1, <2>2 DEF Waiting, WithInitStatus, Names
<1>10. ASSUME NEW x \in Before(Picked)'
       PROVE  x \in Before(Picked)
  <2>1. PICK b \in Builds : b \in Waiting' /\ b \in Picked /\ db'[x].created <= db'[b].created
    BY <1>6, <1>10 DEF Before, Waiting, WithInitStatus, Names
  <2>2. x \in Builds /\ db'[x].status # "absent" /\ db'[x].init = "todo"
    BY <1>10 DEF Before, Waiting, WithInitStatus, Names
  <2>3. b \in Waiting /\ db[b].status # "absent"
    BY <1>9, <2>1 DEF Waiting, WithInitStatus, Names
  <2>4. deployments[x].created <= deployments[b].created
    BY <1>3, <1>7, <2>1, <2>2, <2>3
  <2>5. db[x].status # "absent"
    <3>1. ASSUME db[x].status = "absent"
          PROVE  FALSE
      <4>1. x = e.build /\ Live(x)
        BY <1>1, <2>2, <3>1
      <4>2. deployments[b].created < deployments[x].created
        BY <2>2, <2>3, <3>1, <4>1 DEF ToldInOrder
      <4>3. deployments[b].created \in Nat /\ deployments[x].created \in Nat
        BY <2>1, <2>2, BranchParts DEF StillInv
      <4> QED
        BY <2>4, <4>2, <4>3
    <3> QED
      BY <3>1
  <2>6. x \in Waiting /\ db[x].created <= db[b].created
    BY <1>4, <1>8, <2>2, <2>3, <2>4, <2>5 DEF Waiting, WithInitStatus, Names
  <2> QED
    BY <2>1, <2>3, <2>6 DEF Before
<1>11. ASSUME NEW x \in WithInitStatus(db', "started")
       PROVE  x \in Busy
  <2>1. x \in Builds /\ db'[x].status # "absent" /\ db'[x].init = "started"
    BY <1>11 DEF WithInitStatus, Names
  <2>2. deployments[x].init # "todo" /\ db[x].init \in {"todo", "started"}
    BY <1>5, <2>1 DEF Later, Outcomes
  <2>3. x \in Picked
    BY <1>2, <2>1, <2>2 DEF MarksLaunched, Launched, Picked
  <2>4. db[x].status # "absent"
    BY <2>3, PickedRows
  <2>5. CASE db[x].init = "started"
    BY <2>1, <2>4, <2>5 DEF Busy, WithInitStatus, Names
  <2>6. CASE db[x].init = "todo"
    <3>1. x \in Waiting
      BY <2>1, <2>4, <2>6 DEF Waiting, WithInitStatus, Names
    <3>2. db[x].created <= db[x].created
      BY <2>1, StillParts DEF Rows
    <3> QED
      BY <2>3, <3>1, <3>2 DEF Busy, Before
  <2> QED
    BY <2>2, <2>5, <2>6
<1> QED
  BY <1>10, <1>11 DEF Busy

\* A list of a query is a list of the oldest of its set, no longer than asked.
LEMMA OldestPrefix ==
  ASSUME NEW S \in SUBSET Builds, NEW time, \A b \in Builds : time[b] \in Nat,
         NEW n \in Nat, NEW q \in Limit(OldestFirst(S, time), n)
  PROVE  /\ ToSet(q) \subseteq S /\ IsFiniteSet(ToSet(q)) /\ Cardinality(ToSet(q)) <= n
         /\ \A y \in ToSet(q) : \A x \in S : time[x] < time[y] => x \in ToSet(q)
<1> DEFINE R == {q[i] : i \in 1 .. Len(q)}
<1>1. IsFiniteSet(S)
  BY FS_Subset, BuildsAssumption
<1>2. PICK p \in OldestFirst(S, time) : q = SubSeq(p, 1, IF n < Len(p) THEN n ELSE Len(p))
  BY DEF Limit
<1>3. /\ p \in Seq(S) /\ Len(p) \in Nat /\ \A x \in S : \E i \in 1 .. Len(p) : p[i] = x
      /\ \A i, j \in 1 .. Len(p) : i < j => time[p[i]] <= time[p[j]]
  BY <1>1, <1>2, SetToSeqsType, Listed DEF OldestFirst
<1> DEFINE m == IF n < Len(p) THEN n ELSE Len(p)
<1>4. m \in Nat /\ m <= n /\ m <= Len(p)
  BY <1>3
<1>5. q = SubSeq(p, 1, m)
  BY <1>2
<1> HIDE DEF m
<1>6. q \in Seq(S) /\ Len(q) = m /\ \A i \in 1 .. m : q[i] = p[i] /\ i \in 1 .. Len(p)
  BY <1>3, <1>4, <1>5
<1>7. IsFiniteSet(R) /\ Cardinality(R) <= n
  <2> DEFINE f == [i \in 1 .. m |-> q[i]]
  <2>1. f \in Surjection(1 .. m, R)
    BY <1>6 DEF Surjection
  <2>2. IsFiniteSet(1 .. m) /\ Cardinality(1 .. m) = m
    BY <1>4, FS_Interval
  <2> HIDE DEF f, R
  <2>3. IsFiniteSet(R) /\ Cardinality(R) <= m
    BY <2>1, <2>2, FS_Surjection
  <2> QED
    BY <1>4, <2>3, FS_CardinalityType
<1>8. ASSUME NEW y \in R, NEW x \in S, time[x] < time[y]
      PROVE  x \in R
  <2>1. PICK i \in 1 .. m : y = p[i] /\ i \in 1 .. Len(p)
    BY <1>6, <1>8
  <2>2. PICK j \in 1 .. Len(p) : p[j] = x
    BY <1>3, <1>8
  <2>3. x \in Builds /\ y \in Builds
    BY <1>6, <1>8
  <2>4. ~(i < j)
    <3>1. time[x] \in Nat /\ time[y] \in Nat
      BY <2>3
    <3>2. i < j => time[y] <= time[x]
      BY <1>3, <2>1, <2>2
    <3> QED
      BY <1>8, <3>1, <3>2
  <2>5. j \in 1 .. m
    BY <1>3, <1>4, <2>1, <2>2, <2>4
  <2> QED
    BY <1>6, <2>2, <2>5
<1>9. R \subseteq S
  BY <1>6
<1>10. R = ToSet(q)
  BY <1>4, <1>6 DEF ToSet
<1> HIDE DEF R
<1> QED
  BY <1>7, <1>8, <1>9, <1>10

\* The initializer picks the oldest of those that wait, and leaves the limit
\* to those that are busy already.
LEMMA BusyPass ==
  ASSUME StillInv, Cardinality(Busy) <= MaxInitializing, "initializer" \in Tasks,
         Pass("initializer")
  PROVE  Cardinality(Busy') <= MaxInitializing
<1> DEFINE started == WithInitStatus(db, "started")
           n == Max0(MaxInitializing - Cardinality(started))
<1>1. /\ db \in [Builds -> Rows] /\ CreatedApart /\ todo \in [Tasks -> Seq(MetSnapshots)]
      /\ \A b \in Builds : db[b].created \in Nat /\ deployments[b].created \in Nat
  BY StillParts, BranchParts DEF StillInv, Rows
<1>2. PICK q \in Selections("initializer") :
        todo' = [todo EXCEPT !["initializer"] = [i \in 1 .. Len(q) |-> [build |-> q[i], row |-> db[q[i]]]]]
  BY DEF Pass
<1>3. UNCHANGED << db, jobs, calls >>
  BY DEF Pass, clusterVars
<1>4. /\ IsFiniteSet(started) /\ IsFiniteSet(Busy) /\ Cardinality(started) \in Nat
      /\ Cardinality(started) <= MaxInitializing /\ MaxInitializing \in Nat
  <2>1. started \subseteq Busy /\ Busy \subseteq Builds
    BY DEF Busy, Before, Waiting, WithInitStatus, Names
  <2> HIDE DEF started
  <2>2. /\ IsFiniteSet(Busy) /\ IsFiniteSet(started)
        /\ Cardinality(started) <= Cardinality(Busy)
    BY <2>1, FS_Subset, BuildsAssumption
  <2> QED
    BY <2>2, FS_CardinalityType, LimitsAssumption
<1>5. n \in Nat /\ n = MaxInitializing - Cardinality(started)
  BY <1>4 DEF Max0
<1>6. q \in Limit(OldestFirst(Waiting, Created(db)), n)
  BY <1>2 DEF Selections, ToInitialize, Waiting, CountByInitStatus
<1> DEFINE R == ToSet(q)
<1>7. /\ R \subseteq Waiting /\ IsFiniteSet(R) /\ Cardinality(R) <= n
      /\ \A y \in R : \A x \in Waiting : db[x].created < db[y].created => x \in R
  <2> DEFINE time == Created(db)
  <2>1. Waiting \in SUBSET Builds /\ \A b \in Builds : time[b] = db[b].created
    BY DEF Waiting, WithInitStatus, Names, Created
  <2>2. q \in Limit(OldestFirst(Waiting, time), n)
    BY <1>6
  <2> HIDE DEF n, time
  <2>3. \A b \in Builds : time[b] \in Nat
    BY <1>1, <2>1
  <2>4. /\ R \subseteq Waiting /\ IsFiniteSet(R) /\ Cardinality(R) <= n
        /\ \A y \in R : \A x \in Waiting : time[x] < time[y] => x \in R
    BY <1>5, <2>1, <2>2, <2>3, OldestPrefix
  <2> QED
    BY <2>1, <2>4
<1>8. Picked' \subseteq Picked \union R
  <2> SUFFICES ASSUME NEW b \in Builds, InTodo(b)'
               PROVE  b \in R
    BY <1>3 DEF Picked, InCalls
  <2> DEFINE list == [i \in 1 .. Len(q) |-> [build |-> q[i], row |-> db[q[i]]]]
  <2>1. PICK i \in 1 .. Len(todo'["initializer"]) : todo'["initializer"][i].build = b
    BY DEF InTodo
  <2>2. todo'["initializer"] = list
    BY <1>1, <1>2
  <2>3. Len(q) \in Nat
    <3>1. q \in Seq(Builds)
      BY SelectionsType, <1>2, StillParts
    <3> QED
      BY <3>1
  <2>4. Len(list) = Len(q)
    BY <2>3
  <2>5. i \in 1 .. Len(q) /\ list[i].build = b
    BY <2>1, <2>2, <2>4
  <2>6. q[i] = b /\ i \in DOMAIN q
    <3>1. q \in Seq(Builds)
      BY SelectionsType, <1>2, StillParts
    <3> QED
      BY <2>5, <3>1
  <2> QED
    BY <2>6 DEF ToSet
<1> HIDE DEF R, n
<1>9. \A x, y \in Waiting : db[x].created = db[y].created => x = y
  BY RowDates, <1>1 DEF Waiting, WithInitStatus, Names, CreatedApart, Live
<1>10. \A x \in Waiting : x \in Builds /\ db[x].created \in Nat
  BY <1>1 DEF Waiting, WithInitStatus, Names
<1>11. Busy' \subseteq started \union Before(Picked) \union R
  <2> SUFFICES ASSUME NEW x \in Waiting, NEW b \in Waiting, b \in Picked',
                      db[x].created <= db[b].created
               PROVE  x \in Before(Picked) \union R
    BY <1>3 DEF Busy, Before, Waiting, WithInitStatus, Names
  <2>1. CASE b \in Picked
    BY <1>10, <2>1 DEF Before
  <2>2. CASE b \in R
    BY <1>7, <1>9, <1>10, <2>2
  <2> QED
    BY <1>8, <2>1, <2>2
<1>12. CASE R \subseteq Before(Picked)
  <2>1. Busy' \in SUBSET Busy
    BY <1>11, <1>12 DEF Busy
  <2>2. Cardinality(Busy') <= Cardinality(Busy) /\ IsFiniteSet(Busy')
    BY <1>4, <2>1, FS_Subset
  <2> QED
    BY <1>4, <2>2, FS_CardinalityType
<1>13. ASSUME NEW r \in R, r \notin Before(Picked)
       PROVE  Cardinality(Busy') <= MaxInitializing
  <2>1. Before(Picked) \subseteq R
    <3> SUFFICES ASSUME NEW x \in Waiting, NEW b \in Waiting, b \in Picked,
                        db[x].created <= db[b].created
                 PROVE  x \in R
      BY DEF Before, Waiting, WithInitStatus, Names
    <3>1. ~(db[r].created <= db[b].created)
      BY <1>7, <1>10, <1>13 DEF Before
    <3>2. db[x].created < db[r].created
      BY <1>7, <1>10, <3>1
    <3> QED
      BY <1>7, <3>2
  <2>2. Busy' \in SUBSET (started \union R)
    BY <1>11, <2>1
  <2> HIDE DEF started
  <2>3. /\ IsFiniteSet(started \union R) /\ IsFiniteSet(started \intersect R)
        /\ Cardinality(started \union R) =
             Cardinality(started) + Cardinality(R) - Cardinality(started \intersect R)
    BY <1>4, <1>7, FS_Union, FS_Intersection
  <2>4. Cardinality(R) \in Nat /\ Cardinality(started \intersect R) \in Nat
        /\ Cardinality(started \union R) \in Nat
    BY <1>7, <2>3, FS_CardinalityType
  <2>5. IsFiniteSet(Busy') /\ Cardinality(Busy') <= Cardinality(started \union R)
    BY <2>2, <2>3, FS_Subset
  <2>6. Cardinality(Busy') \in Nat
    BY <2>5, FS_CardinalityType
  <2> QED
    BY <1>4, <1>5, <1>7, <2>3, <2>4, <2>5, <2>6
<1> QED
  BY <1>12, <1>13

LEMMA LimitStep ==
  ASSUME LimitInv, [Next]_vars
  PROVE  LimitInv'
<1>1. /\ StillInv /\ ToldInOrder /\ InitsInOrder /\ Cardinality(Busy) <= MaxInitializing
      /\ IsFiniteSet(Busy) /\ Cardinality(Busy) \in Nat /\ MaxInitializing \in Nat
  <2>1. Busy \in SUBSET Builds
    BY DEF Busy, Before, Waiting, WithInitStatus, Names
  <2> QED
    BY <2>1, FS_Subset, FS_CardinalityType, BuildsAssumption, LimitsAssumption DEF LimitInv
<1>2. StillInv' /\ ToldInOrder' /\ InitsInOrder'
  BY <1>1, StillStep, ToldStep, InitsStep
<1>3. Busy' \subseteq Busy => Cardinality(Busy') <= MaxInitializing
  BY <1>1, FS_Subset, FS_CardinalityType
<1>4. CASE \E t \in Tasks : t = "initializer" /\ Pass(t)
  BY <1>1, <1>2, <1>4, BusyPass DEF LimitInv
<1>5. CASE ~\E t \in Tasks : t = "initializer" /\ Pass(t)
  <2>1. Picked' \subseteq Picked
    BY <1>1, <1>5, PickedStep
  <2>2. Busy' \subseteq Busy
    BY <1>1, <2>1, StillSteps, BusyHandle, BusySame DEF Untabled
  <2> QED
    BY <1>2, <1>3, <2>2 DEF LimitInv
<1> QED
  BY <1>4, <1>5

\* Whoever has an active job is busy.
LEMMA ActiveBusy ==
  ASSUME LimitInv
  PROVE  InitializationLimit
<1> DEFINE A == {b \in Builds : jobs[b]["initialize"] = "active"}
<1>1. /\ StillInv /\ InitsInOrder /\ Cardinality(Busy) <= MaxInitializing /\ MaxInitializing \in Nat
      /\ Busy \in SUBSET Builds
  BY LimitsAssumption DEF LimitInv, Busy, Before, Waiting, WithInitStatus, Names
<1>2. ASSUME NEW b \in A
      PROVE  b \in Busy
  <2>1. b \in Picked /\ b \in Builds
    BY DEF Picked
  <2>2. db[b].status # "absent" /\ db[b] \in Rows
    BY <1>1, <2>1, PickedRows, StillParts
  <2>3. db[b].init \notin Outcomes
    <3>1. Later(db[b].init, deployments[b].init) /\ BuildSound(b) /\ b \notin Doomed
      BY <1>1, <2>1, StillParts, InvParts DEF InitsInOrder, StillInv
    <3> QED
      BY <3>1 DEF Later, BuildSound, Outcomes
  <2>4. db[b].init \in {"todo", "started"}
    BY <2>2, <2>3 DEF Rows, BuildInitStatus, Outcomes
  <2>5. CASE db[b].init = "started"
    BY <2>1, <2>2, <2>5 DEF Busy, WithInitStatus, Names
  <2>6. CASE db[b].init = "todo"
    <3>1. b \in Waiting /\ db[b].created <= db[b].created
      BY <2>1, <2>2, <2>6 DEF Waiting, WithInitStatus, Names, Rows
    <3> QED
      BY <2>1, <3>1 DEF Busy, Before
  <2> QED
    BY <2>4, <2>5, <2>6
<1>3. A \in SUBSET Busy
  BY <1>2
<1> HIDE DEF A
<1>4. /\ IsFiniteSet(Busy) /\ IsFiniteSet(A) /\ Cardinality(A) <= Cardinality(Busy)
  BY <1>1, <1>3, FS_Subset, BuildsAssumption
<1>5. Cardinality(A) \in Nat /\ Cardinality(Busy) \in Nat
  BY <1>4, FS_CardinalityType
<1>6. Cardinality(A) <= MaxInitializing
  BY <1>1, <1>4, <1>5
<1> QED
  BY <1>6 DEF InitializationLimit, A

(***************************************************************************)
(* The theorem.                                                            *)
(***************************************************************************)
LEMMA LimitInit ==
  ASSUME StartedInit, NoUndeploys, FaultKinds \subseteq {"call"}, ~SameSecond
  PROVE  LimitInv
<1>1. LifeInv /\ "reset" \notin ClientOps /\ "undeploy" \notin ClientOps
  BY StartedCleanupInv, BlankLife DEF NoUndeploys, StartedInit
<1>2. /\ deployments = [b \in Builds |-> NoDeployment("unborn")]
      /\ deplWatch = "up" /\ deplEvents = << >> /\ jobEvents = << >>
      /\ db = EmptyTable /\ lookup = NoLookup
      /\ todo = [t \in Tasks |-> << >>] /\ calls = [a \in Actors |-> << >>]
      /\ \A b \in Builds : \A k \in JobKinds : jobs[b][k] = "none"
  BY DEF StartedInit, ClusterBlank, ControllerBlank
<1>3. \A b \in Builds : deployments[b].phase = "unborn" /\ deployments[b].init = "todo"
  BY <1>2 DEF NoDeployment
<1>4. \A b \in Builds : db[b] = AbsentRow /\ RowOf(deployments[b]) = AbsentRow
  BY <1>2, <1>3 DEF EmptyTable, RowOf, Present
<1>5. Len(deplEvents) = 0 /\ Len(jobEvents) = 0
  BY <1>2
<1>6. \A a \in Actors : calls[a] = << >> /\ Len(calls[a]) = 0
  BY <1>2
<1>7. Doomed = {} /\ CreatedApart
  BY <1>3 DEF Doomed, CreatedApart
<1>8. MirrorInv
  <2>1. \A b \in Builds : Mirrored(b)
    BY <1>4, <1>5 DEF Mirrored
  <2>2. PlacesMet
    BY <1>2, <1>4 DEF PlacesMet, Timely, AbsentRow, NoLookup
  <2> QED
    BY <1>1, <1>2, <2>1, <2>2 DEF MirrorInv, NotLoaded
<1>9. BranchInv
  <2>1. AbsentRow \in Rows /\ AbsentRow.status = "absent"
    BY DEF AbsentRow, Rows, BuildInitStatus
  <2>2. \A b \in Builds : [build |-> b, row |-> db[b]] \in DatedSnapshots
    BY <1>4, <2>1 DEF DatedSnapshots, SoundSnapshots, Snapshots
  <2>3. /\ << >> \in Seq(DatedSnapshots) /\ << >> \in Seq(Evictions)
        /\ << >> \in Seq(OutdoneCalls)
    OBVIOUS
  <2>4. PlacesDated
    BY <1>2, <1>7, <2>2, <2>3 DEF PlacesDated, NoLookup
  <2> QED
    BY <1>1, <1>7, <2>4 DEF BranchInv
<1>10. MarksLaunched
  BY <1>3, <1>5, <1>6, ActorSets DEF MarksLaunched
<1>11. StillInv
  <2>1. << >> \in Seq(Harmless)
    OBVIOUS
  <2> QED
    BY <1>2, <1>7, <1>8, <1>9, <1>10, <2>1 DEF StillInv
<1>12. ToldInOrder /\ InitsInOrder
  BY <1>3, <1>4, <1>5 DEF ToldInOrder, Live, InitsInOrder, Later, AbsentRow
<1>13. Busy = {}
  BY <1>4 DEF Busy, Before, Waiting, WithInitStatus, Names, AbsentRow
<1> QED
  BY <1>11, <1>12, <1>13, FS_EmptySet, LimitsAssumption DEF LimitInv

\* No more jobs run than the limit, although the initializer counts only the
\* builds that are marked as started, in a table that lags, and a build that
\* it launched is marked later (to_initialize, on_initialize_started).  Calls
\* may fail.  The controller has started on an empty namespace, creation
\* times are distinct, and no build is undeployed: an initialization that is
\* launched for a build that is gone by then is counted by nobody.
THEOREM InitializationsWithinLimit ==
  ASSUME ClientOps \subseteq {"deploy", "start", "stop"}, "undeployer" \notin Tasks,
         FaultKinds \subseteq {"call"}, ~SameSecond
  PROVE  StartedSpec => []InitializationLimit
<1>1. StartedInit => LimitInv
  BY LimitInit DEF NoUndeploys
<1>2. LimitInv /\ [Next]_vars => LimitInv'
  BY LimitStep
<1>3. LimitInv => InitializationLimit
  BY ActiveBusy
<1> QED
  BY <1>1, <1>2, <1>3, PTL DEF StartedSpec
=============================================================================
