-------------------------- MODULE ControllerProofs --------------------------
(***************************************************************************)
(* Theorems about Controller.tla, for every value of its constants.        *)
(***************************************************************************)
EXTENDS ControllerProperties, SequenceTheorems, FiniteSetTheorems, TLAPS

(***************************************************************************)
(* Rows and queries.                                                       *)
(***************************************************************************)

\* The snapshot of a deployment is a row, and it says undeploying exactly
\* when the deployment is being deleted.
LEMMA RowOfType ==
  ASSUME NEW d \in Deployments
  PROVE  /\ RowOf(d) \in Rows
         /\ RowOf(d).status = "undeploying" <=> d.phase = "deleting"
BY DEF RowOf, Rows, Deployments, Present, Phases, BuildStatus, BuildInitStatus,
       AbsentRow, StatusFromDeployment

\* A query with an order lists members of the set it selects from.
LEMMA OldestFirstType ==
  ASSUME NEW S, IsFiniteSet(S), NEW time
  PROVE  OldestFirst(S, time) \subseteq Seq(S)
<1>1. Cardinality(S) \in Nat
  BY FS_CardinalityType
<1> QED
  BY <1>1 DEF OldestFirst, SetToSeqs

LEMMA LimitType ==
  ASSUME NEW S, NEW queries, queries \subseteq Seq(S), NEW n \in Int
  PROVE  Limit(queries, n) \subseteq Seq(S)
<1> SUFFICES ASSUME NEW q \in queries
             PROVE  SubSeq(q, 1, IF n < Len(q) THEN n ELSE Len(q)) \in Seq(S)
  BY DEF Limit
<1> DEFINE m == IF n < Len(q) THEN n ELSE Len(q)
<1>1. q \in Seq(S) /\ Len(q) \in Nat /\ m \in Int /\ m <= Len(q)
  BY LenProperties
<1>2. \A i \in 1 .. m : q[i] \in S
  BY <1>1, ElementOfSeq
<1> QED
  BY <1>1, <1>2, SubSeqProperties

LEMMA SetToSeqsType ==
  ASSUME NEW S, IsFiniteSet(S), NEW q \in SetToSeqs(S)
  PROVE  /\ q \in Seq(S)
         /\ Len(q) \in Nat
         /\ \A i \in 1 .. Len(q) : q[i] \in S
<1>1. Cardinality(S) \in Nat
  BY FS_CardinalityType
<1>2. q \in Seq(S)
  BY <1>1 DEF SetToSeqs
<1> QED
  BY <1>2, LenProperties, ElementOfSeq

\* A list over a subset of S is a list over S.
LEMMA SeqMono ==
  ASSUME NEW S, NEW R, R \subseteq S, NEW q \in Seq(R)
  PROVE  q \in Seq(S)
<1>1. Len(q) \in Nat /\ q \in [1 .. Len(q) -> R]
  BY LenProperties
<1>2. q \in [1 .. Len(q) -> S]
  BY <1>1
<1> QED
  BY <1>1, <1>2

\* The elements of the list a query returns have the status it asks for.
LEMMA QueryType ==
  ASSUME NEW table, NEW R, R \subseteq Builds, NEW time, NEW n \in Int
  PROVE  Limit(OldestFirst(R, time), n) \subseteq Seq(Builds)
<1>1. IsFiniteSet(R)
  BY FS_Subset, BuildsAssumption
<1>2. Limit(OldestFirst(R, time), n) \subseteq Seq(R)
  BY <1>1, OldestFirstType, LimitType
<1> QED
  BY <1>2, SeqMono

(***************************************************************************)
(* Calls.  Benign calls are those that neither create a deployment nor     *)
(* launch a cleanup job; every method but Build.deploy, Build.redeploy and *)
(* Build.cleanup makes only such calls.                                    *)
(***************************************************************************)
Benign == {c \in Calls : c.op = "apply" => c.mode \notin {"deployment", "cleanup"}}

LEMMA CallFields ==
  ASSUME NEW c \in Calls
  PROVE  /\ c.build \in Builds
         /\ c.op \in {"apply", "delete", "purge", "unfinalize", "kill", "notify", "patch"}
         /\ c.op = "apply" => c.mode \in Modes
         /\ c.op = "kill" => c.kind \in JobKinds
         /\ c.op = "notify" => c.state \in GitHubStates
         /\ c.op = "patch" => /\ c.init \in BuildInitStatus \union {"keep"}
                              /\ c.replicas \in {Keep, 0, 1}
BY DEF Calls

LEMMA CallTypes ==
  ASSUME NEW b \in Builds
  PROVE  /\ \A mode \in Modes : Apply(b, mode) \in Calls
         /\ \A mode \in Modes \ {"deployment", "cleanup"} : Apply(b, mode) \in Benign
         /\ Delete(b) \in Benign
         /\ Purge(b) \in Benign
         /\ Unfinalize(b) \in Benign
         /\ \A kind \in JobKinds : Kill(b, kind) \in Benign
         /\ \A state \in GitHubStates : Notify(b, state) \in Benign
BY DEF Benign, Calls, Apply, Delete, Purge, Unfinalize, Kill, Notify, Modes

LEMMA PatchType ==
  ASSUME NEW b \in Builds, NEW row, NEW init \in BuildInitStatus \union {"keep"},
         NEW replicas \in {Keep, 0, 1}, NEW notFoundOk \in BOOLEAN
  PROVE  Patch(b, row, init, replicas, notFoundOk) \in Seq(Benign)
<1> DEFINE newInit == IF init = row.init THEN "keep" ELSE init
           newReplicas == IF replicas = row.replicas THEN Keep ELSE replicas
           c == [op |-> "patch", build |-> b, init |-> newInit,
                 replicas |-> newReplicas, notFoundOk |-> notFoundOk]
<1>1. newInit \in BuildInitStatus \union {"keep"} /\ newReplicas \in {Keep, 0, 1}
  OBVIOUS
<1> HIDE DEF newInit, newReplicas
<1>2. c \in Benign
  BY <1>1 DEF Benign, Calls
<1> HIDE DEF c
<1>3. << c >> \in Seq(Benign) /\ << >> \in Seq(Benign)
  BY <1>2
<1> USE DEF newInit, newReplicas, c
<1>4. Patch(b, row, init, replicas, notFoundOk) \in {<< c >>, << >>}
  BY DEF Patch
<1> QED
  BY <1>3, <1>4

LEMMA BenignMethods ==
  ASSUME NEW b \in Builds, NEW row \in Rows
  PROVE  /\ Start(b, row) \in Seq(Benign)
         /\ Stop(b, row) \in Seq(Benign)
         /\ Undeploy(b) \in Seq(Benign)
         /\ Initialize(b) \in Seq(Benign)
         /\ DeleteDeploymentResources(b) \in Seq(Benign)
         /\ OnInitializeStarted(b, row) \in Seq(Benign)
         /\ OnInitializeSucceeded(b, row) \in Seq(Benign)
         /\ OnInitializeFailed(b, row) \in Seq(Benign)
         /\ OnCleanupSucceeded(b) \in Seq(Benign)
<1>1. /\ Apply(b, "start") \in Benign
      /\ Apply(b, "stop") \in Benign
      /\ Apply(b, "initialize") \in Benign
  BY CallTypes DEF Modes
<1>2. /\ Notify(b, "pending") \in Benign
      /\ Notify(b, "success") \in Benign
      /\ Notify(b, "failure") \in Benign
  BY CallTypes DEF GitHubStates
<1>3. /\ Patch(b, row, "keep", 0, FALSE) \in Seq(Benign)
      /\ Patch(b, row, "keep", 1, FALSE) \in Seq(Benign)
      /\ Patch(b, row, "started", 0, FALSE) \in Seq(Benign)
      /\ Patch(b, row, "succeeded", Keep, FALSE) \in Seq(Benign)
      /\ Patch(b, row, "failed", 0, FALSE) \in Seq(Benign)
  BY PatchType DEF BuildInitStatus
<1>4. << >> \in Seq(Benign) /\ \A c \in Benign : << c >> \in Seq(Benign)
  OBVIOUS
<1>5. \A c, d \in Benign : << c, d >> \in Seq(Benign)
  OBVIOUS
<1>6. DeleteDeploymentResources(b) \in Seq(Benign) /\ Undeploy(b) \in Seq(Benign)
  BY <1>4, <1>5, CallTypes DEF DeleteDeploymentResources, Undeploy
<1>7. Start(b, row) \in Seq(Benign)
  BY <1>1, <1>3, <1>4, ConcatProperties DEF Start
<1>8. Stop(b, row) \in Seq(Benign)
  BY <1>1, <1>3, <1>4, ConcatProperties DEF Stop
<1>9. OnInitializeStarted(b, row) \in Seq(Benign)
  BY <1>2, <1>3, <1>4, ConcatProperties DEF OnInitializeStarted
<1>10. OnInitializeSucceeded(b, row) \in Seq(Benign)
  BY <1>1, <1>2, <1>3, <1>4, ConcatProperties DEF OnInitializeSucceeded
<1>11. OnInitializeFailed(b, row) \in Seq(Benign)
  BY <1>1, <1>2, <1>3, <1>4, ConcatProperties DEF OnInitializeFailed
<1> QED
  BY <1>1, <1>4, <1>6, <1>7, <1>8, <1>9, <1>10, <1>11 DEF Initialize, OnCleanupSucceeded

LEMMA OnJobEventType ==
  ASSUME NEW b \in Builds, NEW row \in Rows, NEW kind \in JobKinds,
         NEW state \in JobStates \ {"none"}
  PROVE  OnJobEvent(b, row, kind, state) \in Seq(Benign)
<1>1. CASE kind = "initialize"
  BY <1>1, BenignMethods DEF OnJobEvent, JobStates
<1>2. CASE kind = "cleanup"
  <2>1. << >> \in Seq(Benign)
    OBVIOUS
  <2> QED
    BY <1>2, <2>1, BenignMethods DEF OnJobEvent, JobStates
<1> QED
  BY <1>1, <1>2 DEF JobKinds

\* The two methods that create a deployment do so before anything else, and
\* Build.deploy does nothing before.
LEMMA DeployBuildType ==
  ASSUME NEW b \in Builds
  PROVE  /\ DeployBuild(b) \in Seq(Calls)
         /\ Len(DeployBuild(b)) = 2
         /\ DeployBuild(b)[1] = Apply(b, "deployment")
         /\ DeployBuild(b)[2] = Notify(b, "pending")
BY CallTypes DEF DeployBuild, Modes, GitHubStates, Benign

LEMMA RedeployType ==
  ASSUME NEW b \in Builds
  PROVE  Redeploy(b) \in Seq(Calls)
BY CallTypes DEF Redeploy, Modes, JobKinds, GitHubStates, Benign

\* What Build.cleanup calls is benign but for the launch of its job.
Cleaning(b) == Benign \union {Apply(b, "cleanup")}

LEMMA CleanupType ==
  ASSUME NEW b \in Builds, NEW row \in Rows
  PROVE  /\ Cleaning(b) \subseteq Calls
         /\ Cleanup(b, row) \in Seq(Cleaning(b))
<1>1. Cleaning(b) \subseteq Calls
  BY CallTypes DEF Cleaning, Benign, Modes
<1>2. /\ DeleteDeploymentResources(b) \in Seq(Cleaning(b))
      /\ Patch(b, row, "keep", 0, TRUE) \in Seq(Cleaning(b))
  <2>1. Benign \subseteq Cleaning(b)
    BY DEF Cleaning
  <2>2. /\ DeleteDeploymentResources(b) \in Seq(Benign)
        /\ Patch(b, row, "keep", 0, TRUE) \in Seq(Benign)
    BY BenignMethods, PatchType
  <2> QED
    BY <2>1, <2>2, SeqMono
<1>3. Kill(b, "initialize") \in Cleaning(b) /\ Apply(b, "cleanup") \in Cleaning(b)
  BY CallTypes DEF Cleaning, JobKinds
<1>4. << Kill(b, "initialize") >> \in Seq(Cleaning(b)) /\ << Apply(b, "cleanup") >> \in Seq(Cleaning(b))
  BY <1>3
<1> QED
  BY <1>1, <1>2, <1>4, ConcatProperties DEF Cleanup

(***************************************************************************)
(* The cluster has its type after every step that changes it.              *)
(***************************************************************************)
LEMMA DeploymentType ==
  /\ NoDeployment("unborn") \in Deployments
  /\ \A d \in Deployments : Deleted(d) \in Deployments
  /\ \A d \in Deployments, finalizer \in BOOLEAN :
       [d EXCEPT !.finalizer = finalizer] \in Deployments
<1>1. NoDeployment("unborn") \in Deployments /\ NoDeployment("gone") \in Deployments
  BY DEF NoDeployment, Deployments, Phases, BuildInitStatus
<1>2. \A d \in Deployments : [d EXCEPT !.phase = "deleting"] \in Deployments
  BY DEF Deployments, Phases
<1>3. \A d \in Deployments, finalizer \in BOOLEAN :
        [d EXCEPT !.finalizer = finalizer] \in Deployments
  BY DEF Deployments
<1>4. ASSUME NEW d \in Deployments
      PROVE  Deleted(d) \in Deployments
  <2>1. Deleted(d) \in {d, [d EXCEPT !.phase = "deleting"], NoDeployment("gone")}
    BY DEF Deleted
  <2> QED
    BY <1>1, <1>2, <2>1
<1> QED
  BY <1>1, <1>3, <1>4

LEMMA SetDeploymentType ==
  ASSUME ClusterTypeOK, NEW b \in Builds, NEW d \in Deployments, SetDeployment(b, d)
  PROVE  deployments' \in [Builds -> Deployments] /\ deplEvents' \in Seq(DeplEvents)
<1>1. deployments \in [Builds -> Deployments] /\ deplEvents \in Seq(DeplEvents)
  BY DEF ClusterTypeOK
<1>2. deployments' \in [Builds -> Deployments]
  BY <1>1 DEF SetDeployment
<1>3. [build |-> b, row |-> RowOf(d)] \in DeplEvents
  BY RowOfType DEF DeplEvents
<1> QED
  BY <1>1, <1>2, <1>3 DEF SetDeployment

LEMMA SetJobType ==
  ASSUME ClusterTypeOK, NEW b \in Builds, NEW kind \in JobKinds, NEW state \in JobStates,
         SetJob(b, kind, state)
  PROVE  /\ jobs' \in [Builds -> [JobKinds -> JobStates]]
         /\ jobEvents' \in Seq(JobEvents)
<1>1. jobs \in [Builds -> [JobKinds -> JobStates]] /\ jobEvents \in Seq(JobEvents)
  BY DEF ClusterTypeOK
<1>2. jobs' \in [Builds -> [JobKinds -> JobStates]]
  BY <1>1 DEF SetJob
<1> DEFINE e == [build |-> b, kind |-> kind, state |-> state]
<1>3. CASE jobWatch = "up" /\ state # "none"
  <2>1. e \in JobEvents
    BY <1>3 DEF JobEvents
  <2>2. jobEvents' = Append(jobEvents, e)
    BY <1>3 DEF SetJob
  <2> QED
    BY <1>1, <1>2, <2>1, <2>2
<1>4. CASE ~(jobWatch = "up" /\ state # "none")
  BY <1>1, <1>2, <1>4 DEF SetJob
<1> QED
  BY <1>3, <1>4

LEMMA PerformType ==
  ASSUME ClusterTypeOK, NEW c \in Calls, ~Raises(c), Perform(c)
  PROVE  ClusterTypeOK'
<1> DEFINE b == c.build
           d == deployments[b]
<1>1. /\ b \in Builds /\ d \in Deployments
      /\ deployments \in [Builds -> Deployments]
      /\ deplEvents \in Seq(DeplEvents)
      /\ jobs \in [Builds -> [JobKinds -> JobStates]]
      /\ jobEvents \in Seq(JobEvents)
      /\ leftovers \subseteq Builds /\ databases \subseteq Builds
      /\ github \in [Shas -> Statuses]
      /\ deplWatch' \in {"down", "listing", "up"} /\ jobWatch' \in {"down", "up"}
      /\ now \in Nat
  BY CallFields DEF ClusterTypeOK, Perform
<1>2. d.created \in Nat /\ d.scaled \in Nat
  BY <1>1 DEF Deployments
<1>3. CASE ApplyDeployment(c)
  <2> DEFINE e == IF Present(d)
                  THEN [d EXCEPT !.init = "todo", !.replicas = 0, !.finalizer = TRUE]
                  ELSE [phase |-> "live", init |-> "todo", replicas |-> 0,
                        running |-> FALSE, finalizer |-> TRUE,
                        created |-> now, scaled |-> now]
  <2>1. e \in Deployments
    BY <1>1 DEF Deployments, Phases, BuildInitStatus
  <2>2. SetDeployment(b, e)
    BY <1>3 DEF ApplyDeployment
  <2>3. deployments' \in [Builds -> Deployments] /\ deplEvents' \in Seq(DeplEvents)
    BY <1>1, <2>1, <2>2, SetDeploymentType
  <2>4. now' \in Nat /\ leftovers' \subseteq Builds
    BY <1>1, <1>3 DEF ApplyDeployment
  <2> QED
    BY <1>1, <1>3, <2>3, <2>4 DEF ApplyDeployment, ClusterTypeOK
<1>4. CASE ApplyJob(c)
  <2>1. c.mode \in JobKinds
    BY <1>4 DEF ApplyJob
  <2>2. jobs' \in [Builds -> [JobKinds -> JobStates]] /\ jobEvents' \in Seq(JobEvents)
    <3>1. CASE jobs[b][c.mode] = "none"
      <4>1. SetJob(b, c.mode, "active")
        BY <1>4, <3>1 DEF ApplyJob
      <4> QED
        BY <1>1, <2>1, <4>1, SetJobType DEF JobStates
    <3>2. CASE jobs[b][c.mode] # "none"
      BY <1>1, <1>4, <3>2 DEF ApplyJob
    <3> QED
      BY <3>1, <3>2
  <2> QED
    BY <1>1, <1>4, <2>2 DEF ApplyJob, ClusterTypeOK
<1>5. CASE ApplyOthers(c)
  BY <1>1, <1>5 DEF ApplyOthers, ClusterTypeOK
<1>6. CASE PatchDeployment(c)
  <2>1. CASE Present(d)
    <3> DEFINE e == [d EXCEPT !.init = IF c.init = "keep" THEN @ ELSE c.init,
                             !.replicas = IF c.replicas = Keep THEN @ ELSE c.replicas,
                             !.scaled = IF c.replicas = Keep THEN @ ELSE now]
    <3>1. c.init \in BuildInitStatus \union {"keep"} /\ c.replicas \in {Keep, 0, 1}
      BY <1>6, CallFields DEF PatchDeployment
    <3>2. e \in Deployments
      BY <1>1, <3>1 DEF Deployments, Keep
    <3>3. SetDeployment(b, e)
      BY <1>6, <2>1 DEF PatchDeployment
    <3>4. deployments' \in [Builds -> Deployments] /\ deplEvents' \in Seq(DeplEvents)
      BY <1>1, <3>2, <3>3, SetDeploymentType
    <3> QED
      BY <1>1, <1>6, <3>4 DEF PatchDeployment, ClusterTypeOK
  <2>2. CASE ~Present(d)
    BY <1>1, <1>6, <2>2 DEF PatchDeployment, ClusterTypeOK
  <2> QED
    BY <2>1, <2>2
<1>7. CASE RemoveFinalizers(c)
  <2>1. CASE Present(d)
    <3>1. Deleted([d EXCEPT !.finalizer = FALSE]) \in Deployments
      BY <1>1, DeploymentType
    <3>2. SetDeployment(b, Deleted([d EXCEPT !.finalizer = FALSE]))
      BY <1>7, <2>1 DEF RemoveFinalizers
    <3>3. deployments' \in [Builds -> Deployments] /\ deplEvents' \in Seq(DeplEvents)
      BY <1>1, <3>1, <3>2, SetDeploymentType
    <3> QED
      BY <1>1, <1>7, <3>3 DEF RemoveFinalizers, ClusterTypeOK
  <2>2. CASE ~Present(d)
    BY <1>1, <1>7, <2>2 DEF RemoveFinalizers, ClusterTypeOK
  <2> QED
    BY <2>1, <2>2
<1>8. CASE DeleteDeployment(c)
  <2>1. deployments' \in [Builds -> Deployments] /\ deplEvents' \in Seq(DeplEvents)
    BY <1>1, <1>8, DeploymentType, SetDeploymentType DEF DeleteDeployment
  <2> QED
    BY <1>1, <1>8, <2>1 DEF DeleteDeployment, ClusterTypeOK
<1>9. CASE DeleteResources(c)
  <2>1. deployments' \in [Builds -> Deployments] /\ deplEvents' \in Seq(DeplEvents)
    BY <1>1, <1>9, DeploymentType, SetDeploymentType DEF DeleteResources
  <2>2. jobs' \in [Builds -> [JobKinds -> JobStates]] /\ leftovers' \subseteq Builds
    BY <1>1, <1>9 DEF DeleteResources, JobStates
  <2> QED
    BY <1>1, <1>9, <2>1, <2>2 DEF DeleteResources, ClusterTypeOK
<1>10. CASE KillJob(c)
  <2>1. c.kind \in JobKinds /\ SetJob(b, c.kind, "none")
    BY <1>10, CallFields DEF KillJob
  <2>2. jobs' \in [Builds -> [JobKinds -> JobStates]] /\ jobEvents' \in Seq(JobEvents)
    BY <1>1, <2>1, SetJobType DEF JobStates
  <2> QED
    BY <1>1, <1>10, <2>2 DEF KillJob, ClusterTypeOK
<1>11. CASE NotifyStatus(c)
  <2>1. c.state \in GitHubStates
    BY <1>11, CallFields DEF NotifyStatus
  <2>2. Info[b].commit \in Shas /\ [state |-> c.state, build |-> b] \in Statuses
    BY <1>1, <2>1 DEF Shas, Statuses
  <2>3. github' \in [Shas -> Statuses]
    BY <1>1, <1>11, <2>2 DEF NotifyStatus
  <2> QED
    BY <1>1, <1>11, <2>3 DEF NotifyStatus, ClusterTypeOK
<1> QED
  BY <1>3, <1>4, <1>5, <1>6, <1>7, <1>8, <1>9, <1>10, <1>11 DEF Perform

LEMMA EnvironmentType ==
  ASSUME ClusterTypeOK, Environment
  PROVE  ClusterTypeOK'
<1>1. /\ deployments \in [Builds -> Deployments]
      /\ deplEvents \in Seq(DeplEvents)
      /\ jobs \in [Builds -> [JobKinds -> JobStates]]
      /\ jobEvents \in Seq(JobEvents)
      /\ leftovers \subseteq Builds /\ databases \subseteq Builds
      /\ github \in [Shas -> Statuses]
      /\ deplWatch \in {"down", "listing", "up"} /\ jobWatch \in {"down", "up"}
      /\ now \in Nat
  BY DEF ClusterTypeOK
<1>2. ASSUME NEW b \in Builds, InitializeCreatesDatabase(b)
      PROVE  ClusterTypeOK'
  BY <1>1, <1>2 DEF InitializeCreatesDatabase, watches, ClusterTypeOK
<1>3. ASSUME NEW b \in Builds, InitializeSucceeds(b)
      PROVE  ClusterTypeOK'
  <2>1. jobs' \in [Builds -> [JobKinds -> JobStates]] /\ jobEvents' \in Seq(JobEvents)
    BY <1>3, SetJobType DEF InitializeSucceeds, JobKinds, JobStates
  <2> QED
    BY <1>1, <1>3, <2>1 DEF InitializeSucceeds, ClusterTypeOK
<1>4. ASSUME NEW b \in Builds, CleanupSucceeds(b)
      PROVE  ClusterTypeOK'
  <2>1. jobs' \in [Builds -> [JobKinds -> JobStates]] /\ jobEvents' \in Seq(JobEvents)
    BY <1>4, SetJobType DEF CleanupSucceeds, JobKinds, JobStates
  <2> QED
    BY <1>1, <1>4, <2>1 DEF CleanupSucceeds, ClusterTypeOK
<1>5. ASSUME NEW b \in Builds, NEW kind \in JobKinds, JobFails(b, kind)
      PROVE  ClusterTypeOK'
  <2>1. jobs' \in [Builds -> [JobKinds -> JobStates]] /\ jobEvents' \in Seq(JobEvents)
    BY <1>5, SetJobType DEF JobFails, JobStates
  <2> QED
    BY <1>1, <1>5, <2>1 DEF JobFails, ClusterTypeOK
<1>6. ASSUME NEW b \in Builds, Scale(b)
      PROVE  ClusterTypeOK'
  <2> DEFINE e == [deployments[b] EXCEPT !.running = ~@]
  <2>1. e \in Deployments
    BY <1>1 DEF Deployments
  <2>2. deployments' \in [Builds -> Deployments] /\ deplEvents' \in Seq(DeplEvents)
    BY <1>6, <2>1, SetDeploymentType DEF Scale
  <2> QED
    BY <1>1, <1>6, <2>2 DEF Scale, ClusterTypeOK
<1>7. CASE Tick
  BY <1>1, <1>7 DEF Tick, cluster, watches, ClusterTypeOK
<1> QED
  BY <1>2, <1>3, <1>4, <1>5, <1>6, <1>7 DEF Environment

(***************************************************************************)
(* What a pass selects.                                                    *)
(***************************************************************************)
LEMMA SelectionsType ==
  ASSUME db \in Tables, NEW t \in Tasks
  PROVE  /\ Selections(t) \subseteq Seq(Builds)
         /\ t = "cleaner" => Selections(t) \subseteq Seq(WithStatus(db, {"undeploying"}))
<1>1. \A n \in Int : Max0(n) \in Int
  BY DEF Max0
<1>2. \A S \in SUBSET Builds : Cardinality(S) \in Nat
  BY FS_Subset, FS_CardinalityType, BuildsAssumption
<1>3. \A statuses : WithStatus(db, statuses) \subseteq Builds
  BY DEF WithStatus
<1>4. \A init : WithInitStatus(db, init) \subseteq Builds
  BY DEF WithInitStatus, Names
<1>5. CASE t = "cleaner"
  <2>1. IsFiniteSet(WithStatus(db, {"undeploying"}))
    BY <1>3, FS_Subset, BuildsAssumption
  <2>2. Selections(t) \subseteq Seq(WithStatus(db, {"undeploying"}))
    BY <1>5, <2>1, OldestFirstType DEF Selections, ToCleanup
  <2> QED
    BY <1>3, <2>2, SeqMono
<1>6. CASE t = "initializer"
  <2> DEFINE n == Max0(MaxInitializing - CountByInitStatus(db, "started"))
  <2>1. CountByInitStatus(db, "started") \in Nat
    BY <1>2, <1>4 DEF CountByInitStatus
  <2>2. n \in Int
    BY <1>1, <2>1, LimitsAssumption
  <2>3. Selections(t) = Limit(OldestFirst(WithInitStatus(db, "todo"), Created(db)), n)
    BY <1>6 DEF Selections, ToInitialize
  <2> QED
    BY <1>4, <1>6, <2>2, <2>3, QueryType
<1>7. CASE t = "stopper"
  <2> DEFINE n == Max0(CountByStatus(db, "started") - MaxStarted)
  <2>1. CountByStatus(db, "started") \in Nat
    BY <1>2, <1>3 DEF CountByStatus
  <2>2. n \in Int
    BY <1>1, <2>1, LimitsAssumption
  <2>3. Selections(t) = Limit(OldestFirst(WithStatus(db, {"started"}), LastScaled(db)), n)
    BY <1>7 DEF Selections, OldestStarted
  <2> QED
    BY <1>3, <1>7, <2>2, <2>3, QueryType
<1>8. CASE t = "undeployer"
  <2> DEFINE n == Max0(CountDeployed(db) - MaxDeployed)
             R(S) == {b \in WithStatus(db, {"stopping", "stopped", "failed"}) :
                        b \notin S \/ Info[b].pr # NoPr}
  <2>1. CountDeployed(db) \in Nat
    BY <1>2 DEF CountDeployed, Names
  <2>2. n \in Int
    BY <1>1, <2>1, LimitsAssumption
  <2>3. \A S : R(S) \subseteq Builds
    BY <1>3
  <2>4. \A S : Limit(OldestFirst(R(S), LastScaled(db)), n) \subseteq Seq(Builds)
    BY <2>2, <2>3, QueryType
  <2>5. Selections(t) = UNION {Limit(OldestFirst(R(S), LastScaled(db)), n) :
                                 S \in RowNumberOnes(db)}
    BY <1>8 DEF Selections, OldestStopped
  <2> QED
    BY <1>8, <2>4, <2>5
<1> QED
  BY <1>5, <1>6, <1>7, <1>8, TasksAssumption

(***************************************************************************)
(* Type correctness.  It needs that job_watcher, while it reads a          *)
(* deployment, has the event it reads it for.                              *)
(***************************************************************************)
LookupOfEvent ==
  /\ jobEvents # << >> => jobWatch = "up"
  /\ lookup.busy => jobEvents # << >> /\ calls[JobWatcher] = << >>

TypeInv == TypeOK /\ LookupOfEvent

LEMMA ActorSets ==
  /\ JobWatcher \in Actors
  /\ Tasks \subseteq Actors
  /\ Clients \subseteq Actors
  /\ JobWatcher \notin Tasks
  /\ JobWatcher \notin Clients
  /\ Tasks \intersect Clients = {}
BY TasksAssumption, ClientsAssumption DEF Actors, JobWatcher

\* No commit has a status in the beginning.
LEMMA BlankStatuses ==
  [sha \in Shas |-> [state |-> "none", build |-> NoBuild]] \in [Shas -> Statuses]
BY DEF Statuses

LEMMA TypeInit ==
  Init => TypeOK
<1> SUFFICES ASSUME Init
             PROVE  TypeOK
  OBVIOUS
<1>1. ClusterTypeOK
  BY DeploymentType, BlankStatuses DEF Init, ClusterInit, ClusterBlank, ClusterTypeOK, JobStates
<1>2. AbsentRow \in Rows
  BY DEF AbsentRow, Rows, BuildInitStatus
<1>3. db \in Tables /\ lookup \in Lookups
  BY <1>2 DEF Init, ControllerBlank, EmptyTable, Tables, NoLookup, Lookups
<1>4. requests \in 0 .. MaxRequests /\ faults \in 0 .. MaxFaults
  BY BoundsAssumption DEF Init, ControllerBlank
<1>5. todo \in [Tasks -> Seq(Snapshots)] /\ calls \in [Actors -> Seq(Calls)] /\ wake \subseteq Tasks
  BY DEF Init, ControllerBlank
<1> QED
  BY <1>1, <1>3, <1>4, <1>5 DEF TypeOK

\* Every row is a row, and so is the one a table gets from an addition.
LEMMA DbType ==
  ASSUME TypeOK, NEW b \in Builds
  PROVE  /\ db[b] \in Rows
         /\ RowOf(deployments[b]) \in Rows
         /\ AbsentRow \in Rows
         /\ \A row \in Rows : DbAdd(b, row) => db' \in Tables /\ wake' \subseteq Tasks
         /\ DbRemove(b) => db' \in Tables /\ wake' \subseteq Tasks
<1>1. db[b] \in Rows /\ db \in Tables /\ wake \subseteq Tasks
  BY DEF TypeOK, Tables
<1>2. deployments[b] \in Deployments
  BY DEF TypeOK, ClusterTypeOK
<1>3. RowOf(deployments[b]) \in Rows
  BY <1>2, RowOfType
<1>4. AbsentRow \in Rows
  BY DEF AbsentRow, Rows, BuildInitStatus
<1>5. \A row \in Rows : DbAdd(b, row) => db' \in Tables /\ wake' \subseteq Tasks
  BY <1>1 DEF DbAdd, Put, OnBuildEvent, Tables
<1>6. DbRemove(b) => db' \in Tables /\ wake' \subseteq Tasks
  BY <1>1, <1>4 DEF DbRemove, Drop, OnBuildEvent, Tables
<1> QED
  BY <1>1, <1>3, <1>4, <1>5, <1>6

LEMMA DeploymentWatcherType ==
  ASSUME TypeOK, DeploymentWatcher
  PROVE  TypeOK'
<1>1. CASE StartDeploymentWatch
  <2>1. EmptyTable \in Tables
    BY DEF EmptyTable, Tables, AbsentRow, Rows, BuildInitStatus
  <2> QED
    BY <1>1, <2>1 DEF StartDeploymentWatch, TypeOK, ClusterTypeOK, cluster
<1>2. CASE ListDeployments
  <2> DEFINE S == {b \in Builds : Present(deployments[b])}
             events(q) == [i \in 1 .. Len(q) |->
                             [build |-> q[i], row |-> RowOf(deployments[q[i]])]]
  <2>1. PICK q \in SetToSeqs(S) : deplEvents' = events(q)
    BY <1>2 DEF ListDeployments
  <2>2. IsFiniteSet(S)
    BY FS_Subset, BuildsAssumption
  <2>3. Len(q) \in Nat /\ \A i \in 1 .. Len(q) : q[i] \in Builds
    BY <2>2, SetToSeqsType
  <2>4. \A i \in 1 .. Len(q) : [build |-> q[i], row |-> RowOf(deployments[q[i]])] \in DeplEvents
    BY <2>3, DbType DEF DeplEvents
  <2>5. deplEvents' \in Seq(DeplEvents)
    BY <2>1, <2>3, <2>4
  <2> QED
    BY <1>2, <2>5 DEF ListDeployments, TypeOK, ClusterTypeOK, cluster, controller
<1>3. CASE HandleDeployment
  <2> DEFINE e == Head(deplEvents)
  <2>1. deplEvents \in Seq(DeplEvents) /\ deplEvents # << >>
    BY <1>3 DEF HandleDeployment, TypeOK, ClusterTypeOK
  <2>2. e \in DeplEvents /\ Tail(deplEvents) \in Seq(DeplEvents)
    BY <2>1
  <2>3. e.build \in Builds /\ e.row \in Rows
    BY <2>2 DEF DeplEvents
  <2>4. db' \in Tables /\ wake' \subseteq Tasks
    BY <1>3, <2>3, DbType DEF HandleDeployment
  <2> QED
    BY <1>3, <2>2, <2>4 DEF HandleDeployment, TypeOK, ClusterTypeOK, cluster
<1> QED
  BY <1>1, <1>2, <1>3 DEF DeploymentWatcher

LEMMA JobWatchType ==
  ASSUME TypeOK, LookupOfEvent, JobWatch
  PROVE  TypeOK'
<1>1. CASE StartJobWatch
  <2> DEFINE S == {j \in Builds \X JobKinds : jobs[j[1]][j[2]] # "none"}
             events(q) == [i \in 1 .. Len(q) |->
               [build |-> q[i][1], kind |-> q[i][2], state |-> jobs[q[i][1]][q[i][2]]]]
  <2>1. PICK q \in SetToSeqs(S) : jobEvents' = events(q)
    BY <1>1 DEF StartJobWatch
  <2>2. IsFiniteSet(S)
    <3>1. IsFiniteSet(JobKinds)
      <4>1. IsFiniteSet({"initialize"}) /\ IsFiniteSet({"cleanup"})
        BY FS_Singleton
      <4>2. IsFiniteSet({"initialize"} \union {"cleanup"})
        BY <4>1, FS_Union
      <4>3. JobKinds = {"initialize"} \union {"cleanup"}
        BY DEF JobKinds
      <4> QED
        BY <4>2, <4>3
    <3>2. IsFiniteSet(Builds \X JobKinds)
      BY <3>1, FS_Product, BuildsAssumption
    <3> QED
      BY <3>2, FS_Subset
  <2>3. Len(q) \in Nat /\ \A i \in 1 .. Len(q) : q[i] \in S
    BY <2>2, SetToSeqsType
  <2>4. \A j \in S : [build |-> j[1], kind |-> j[2], state |-> jobs[j[1]][j[2]]] \in JobEvents
    <3>1. \A j \in S : /\ j[1] \in Builds /\ j[2] \in JobKinds
                       /\ jobs[j[1]][j[2]] \in JobStates \ {"none"}
      BY DEF TypeOK, ClusterTypeOK
    <3> QED
      BY <3>1 DEF JobEvents
  <2>5. \A i \in 1 .. Len(q) :
          [build |-> q[i][1], kind |-> q[i][2], state |-> jobs[q[i][1]][q[i][2]]] \in JobEvents
    BY <2>3, <2>4
  <2>6. jobEvents' \in Seq(JobEvents)
    BY <2>1, <2>3, <2>5
  <2> QED
    BY <1>1, <2>6 DEF StartJobWatch, TypeOK, ClusterTypeOK, cluster, controller
<1>2. ASSUME jobEvents # << >>
      PROVE  /\ Head(jobEvents) \in JobEvents /\ Tail(jobEvents) \in Seq(JobEvents)
             /\ Head(jobEvents).build \in Builds /\ Head(jobEvents).kind \in JobKinds
             /\ Head(jobEvents).state \in JobStates \ {"none"}
  <2>1. Head(jobEvents) \in JobEvents /\ Tail(jobEvents) \in Seq(JobEvents)
    BY <1>2 DEF TypeOK, ClusterTypeOK
  <2> QED
    BY <2>1 DEF JobEvents
<1>3. \A s \in Seq(Benign) : s \in Seq(Calls)
  <2>1. Benign \subseteq Calls
    BY DEF Benign
  <2> QED
    BY <2>1, SeqMono
<1>4. CASE HandleJob
  <2> DEFINE e == Head(jobEvents)
  <2>1. jobEvents # << >>
    BY <1>4 DEF HandleJob
  <2>2. CASE db[e.build].status # "absent"
    <3>1. OnJobEvent(e.build, db[e.build], e.kind, e.state) \in Seq(Calls)
      BY <1>2, <1>3, <2>1, DbType, OnJobEventType
    <3>2. calls' = [calls EXCEPT ![JobWatcher] =
                      OnJobEvent(e.build, db[e.build], e.kind, e.state)]
      BY <1>4, <2>2 DEF HandleJob
    <3>3. calls' \in [Actors -> Seq(Calls)]
      BY <3>1, <3>2 DEF TypeOK
    <3> QED
      BY <1>2, <1>4, <2>1, <2>2, <3>3 DEF HandleJob, TypeOK, ClusterTypeOK, cluster
  <2>3. CASE db[e.build].status = "absent"
    <3>1. RowOf(deployments[e.build]) \in Rows
      BY <1>2, <2>1, DbType
    <3>2. lookup' = [busy |-> TRUE, row |-> RowOf(deployments[e.build])]
      BY <1>4, <2>3 DEF HandleJob
    <3>3. lookup' \in Lookups
      BY <3>1, <3>2 DEF Lookups
    <3> QED
      BY <1>2, <1>4, <2>1, <2>3, <3>3 DEF HandleJob, TypeOK, ClusterTypeOK, cluster
  <2> QED
    BY <2>2, <2>3
<1>5. CASE HandleJobLookup
  <2> DEFINE e == Head(jobEvents)
  <2>0. jobEvents # << >>
    BY <1>5 DEF HandleJobLookup, LookupOfEvent
  <2>1. lookup.row \in Rows /\ NoLookup \in Lookups
    BY DbType DEF TypeOK, Lookups, NoLookup, AbsentRow, Rows, BuildInitStatus
  <2>2. CASE lookup.row.status = "absent"
    <3>1. << Purge(e.build) >> \in Seq(Calls)
      BY <1>2, <1>5, <2>0, CallTypes DEF Benign
    <3>2. calls' = [calls EXCEPT ![JobWatcher] = << Purge(e.build) >>]
      BY <1>5, <2>2 DEF HandleJobLookup
    <3>3. calls' \in [Actors -> Seq(Calls)]
      BY <3>1, <3>2 DEF TypeOK
    <3> QED
      BY <1>2, <1>5, <2>0, <2>1, <2>2, <3>3 DEF HandleJobLookup, TypeOK, ClusterTypeOK, cluster
  <2>3. CASE lookup.row.status # "absent"
    <3>1. OnJobEvent(e.build, lookup.row, e.kind, e.state) \in Seq(Calls)
      BY <1>2, <1>3, <1>5, <2>0, <2>1, OnJobEventType
    <3>2. calls' = [calls EXCEPT ![JobWatcher] =
                      OnJobEvent(e.build, lookup.row, e.kind, e.state)]
      BY <1>5, <2>3 DEF HandleJobLookup
    <3>3. calls' \in [Actors -> Seq(Calls)]
      BY <3>1, <3>2 DEF TypeOK
    <3>4. db' \in Tables /\ wake' \subseteq Tasks
      BY <1>2, <1>5, <2>0, <2>1, <2>3, DbType DEF HandleJobLookup
    <3> QED
      BY <1>2, <1>5, <2>0, <2>1, <2>3, <3>3, <3>4 DEF HandleJobLookup, TypeOK, ClusterTypeOK, cluster
  <2> QED
    BY <2>2, <2>3
<1> QED
  BY <1>1, <1>4, <1>5 DEF JobWatch

LEMMA MethodOfType ==
  ASSUME NEW t \in Tasks, NEW b \in Builds, NEW row \in Rows
  PROVE  /\ MethodOf(t, b, row) \in Seq(Calls)
         /\ t = "cleaner" => MethodOf(t, b, row) = Cleanup(b, row)
         /\ t # "cleaner" => MethodOf(t, b, row) \in Seq(Benign)
<1>1. Benign \subseteq Calls
  BY DEF Benign
<1>2. CASE t = "cleaner"
  <2>1. MethodOf(t, b, row) = Cleanup(b, row)
    BY <1>2 DEF MethodOf
  <2>2. Cleanup(b, row) \in Seq(Calls)
    BY CleanupType, SeqMono
  <2> QED
    BY <1>2, <2>1, <2>2
<1>3. CASE t # "cleaner"
  <2>1. MethodOf(t, b, row) \in {Initialize(b), Stop(b, row), Undeploy(b)}
    BY <1>3, TasksAssumption DEF MethodOf
  <2>2. MethodOf(t, b, row) \in Seq(Benign)
    BY <2>1, BenignMethods
  <2> QED
    BY <1>1, <1>3, <2>2, SeqMono
<1> QED
  BY <1>2, <1>3

LEMMA PassType ==
  ASSUME TypeOK, NEW t \in Tasks, Pass(t)
  PROVE  TypeOK'
<1> DEFINE list(q) == [i \in 1 .. Len(q) |-> [build |-> q[i], row |-> db[q[i]]]]
<1>1. PICK q \in Selections(t) : todo' = [todo EXCEPT ![t] = list(q)]
  BY DEF Pass
<1>2. q \in Seq(Builds)
  BY <1>1, SelectionsType DEF TypeOK
<1>3. Len(q) \in Nat /\ \A i \in 1 .. Len(q) : q[i] \in Builds
  BY <1>2
<1>4. \A i \in 1 .. Len(q) : [build |-> q[i], row |-> db[q[i]]] \in Snapshots
  BY <1>3, DbType DEF Snapshots
<1>5. list(q) \in Seq(Snapshots)
  BY <1>3, <1>4
<1>6. todo' \in [Tasks -> Seq(Snapshots)]
  BY <1>1, <1>5 DEF TypeOK
<1> QED
  BY <1>6 DEF Pass, TypeOK, ClusterTypeOK, clusterVars

LEMMA NextBuildType ==
  ASSUME TypeOK, NEW t \in Tasks, NextBuild(t)
  PROVE  TypeOK'
<1> DEFINE s == Head(todo[t])
<1>1. todo[t] \in Seq(Snapshots) /\ todo[t] # << >>
  BY DEF NextBuild, TypeOK
<1>2. s \in Snapshots /\ Tail(todo[t]) \in Seq(Snapshots)
  BY <1>1
<1>3. MethodOf(t, s.build, s.row) \in Seq(Calls)
  BY <1>2, MethodOfType DEF Snapshots
<1>4. calls' \in [Actors -> Seq(Calls)] /\ todo' \in [Tasks -> Seq(Snapshots)]
  BY <1>2, <1>3 DEF NextBuild, TypeOK
<1> QED
  BY <1>4 DEF NextBuild, TypeOK, ClusterTypeOK, clusterVars

LEMMA AbortType ==
  ASSUME TypeOK, NEW a \in Actors, Abort(a)
  PROVE  /\ calls' \in [Actors -> Seq(Calls)]
         /\ todo' \in [Tasks -> Seq(Snapshots)]
         /\ jobWatch' \in {"down", "up"}
         /\ jobEvents' \in Seq(JobEvents)
<1>1. << >> \in Seq(Calls) /\ << >> \in Seq(Snapshots) /\ << >> \in Seq(JobEvents)
  OBVIOUS
<1>2. calls' \in [Actors -> Seq(Calls)]
  BY <1>1 DEF Abort, TypeOK
<1>3. todo' \in [Tasks -> Seq(Snapshots)]
  BY <1>1 DEF Abort, TypeOK
<1>4. jobWatch' \in {"down", "up"} /\ jobEvents' \in Seq(JobEvents)
  BY <1>1 DEF Abort, TypeOK, ClusterTypeOK
<1> QED
  BY <1>2, <1>3, <1>4

LEMMA CallType ==
  ASSUME TypeOK, NEW a \in Actors, Call(a)
  PROVE  TypeOK'
<1> DEFINE c == Head(calls[a])
<1>1. calls[a] \in Seq(Calls) /\ calls[a] # << >>
  BY DEF Call, TypeOK
<1>2. c \in Calls /\ Tail(calls[a]) \in Seq(Calls)
  BY <1>1
<1>3. CASE ~Raises(c)
  <2>1. ClusterTypeOK'
    BY <1>2, <1>3, PerformType DEF Call, TypeOK
  <2>2. calls' \in [Actors -> Seq(Calls)] /\ UNCHANGED << todo, db, wake, lookup, requests, faults >>
    BY <1>2, <1>3 DEF Call, TypeOK
  <2> QED
    BY <2>1, <2>2 DEF TypeOK
<1>4. CASE Raises(c)
  <2>1. Abort(a) /\ UNCHANGED << cluster, deplWatch, deplEvents, now, db, wake, lookup, requests, faults >>
    BY <1>4 DEF Call
  <2> QED
    BY <2>1, AbortType DEF TypeOK, ClusterTypeOK, cluster
<1> QED
  BY <1>3, <1>4

LEMMA RequestType ==
  ASSUME TypeOK, NEW c \in Clients, NEW op, NEW list \in Seq(Calls), Request(c, op, list)
  PROVE  TypeOK'
<1>1. requests' \in 0 .. MaxRequests
  BY BoundsAssumption DEF Request, TypeOK
<1>2. calls' \in [Actors -> Seq(Calls)]
  BY DEF Request, TypeOK
<1> QED
  BY <1>1, <1>2 DEF Request, TypeOK, ClusterTypeOK, clusterVars

LEMMA SearchPrType ==
  ASSUME NEW table, NEW pr, NEW q \in SearchPr(table, pr)
  PROVE  [i \in 1 .. Len(q) |-> Delete(q[i])] \in Seq(Benign)
<1> DEFINE S == {b \in Names(table) : Info[b].pr = pr}
<1>1. S \subseteq Builds
  BY DEF Names
<1>2. IsFiniteSet(S)
  BY <1>1, FS_Subset, BuildsAssumption
<1>3. q \in SetToSeqs(S)
  BY DEF SearchPr
<1>4. Len(q) \in Nat /\ \A i \in 1 .. Len(q) : q[i] \in Builds
  BY <1>1, <1>2, <1>3, SetToSeqsType
<1>5. \A i \in 1 .. Len(q) : Delete(q[i]) \in Benign
  BY <1>4, CallTypes
<1> QED
  BY <1>4, <1>5

LEMMA ClientRequestType ==
  ASSUME TypeOK, NEW c \in Clients, ClientRequest(c)
  PROVE  TypeOK'
<1>1. \A s \in Seq(Benign) : s \in Seq(Calls)
  <2>1. Benign \subseteq Calls
    BY DEF Benign
  <2> QED
    BY <2>1, SeqMono
<1>2. \A b \in Builds : db[b] \in Rows
  BY DbType
<1>3. ASSUME NEW b \in Builds, DeployCommit(c, b)
      PROVE  TypeOK'
  BY <1>3, DeployBuildType, RequestType DEF DeployCommit
<1>4. ASSUME NEW b \in Builds, StartBuild(c, b)
      PROVE  TypeOK'
  BY <1>1, <1>2, <1>4, BenignMethods, RequestType DEF StartBuild
<1>5. ASSUME NEW b \in Builds, StopBuild(c, b)
      PROVE  TypeOK'
  BY <1>1, <1>2, <1>5, BenignMethods, RequestType DEF StopBuild
<1>6. ASSUME NEW b \in Builds, ResetBuild(c, b)
      PROVE  TypeOK'
  BY <1>6, RedeployType, RequestType DEF ResetBuild
<1>7. ASSUME NEW b \in Builds, UndeployBuild(c, b)
      PROVE  TypeOK'
  BY <1>1, <1>2, <1>7, BenignMethods, RequestType DEF UndeployBuild
<1>8. ASSUME NEW pr, UndeployBuilds(c, pr)
      PROVE  TypeOK'
  BY <1>1, <1>8, SearchPrType, RequestType DEF UndeployBuilds
<1> QED
  BY <1>3, <1>4, <1>5, <1>6, <1>7, <1>8 DEF ClientRequest

LEMMA FaultsType ==
  ASSUME TypeOK, Faults
  PROVE  TypeOK'
<1>1. \A kind : Fault(kind) => faults' \in 0 .. MaxFaults
  BY BoundsAssumption DEF Fault, TypeOK
<1>2. ASSUME NEW a \in Actors, CallFails(a)
      PROVE  TypeOK'
  BY <1>1, <1>2, AbortType DEF CallFails, TypeOK, ClusterTypeOK, cluster
<1>3. CASE DeploymentWatchBreaks
  BY <1>1, <1>3 DEF DeploymentWatchBreaks, TypeOK, ClusterTypeOK, cluster, controller
<1>4. CASE JobWatchBreaks
  BY <1>1, <1>4 DEF JobWatchBreaks, TypeOK, ClusterTypeOK, cluster, controller
<1>5. CASE ControllerRestarts
  <2>1. EmptyTable \in Tables /\ NoLookup \in Lookups
    BY DEF EmptyTable, Tables, AbsentRow, Rows, BuildInitStatus, NoLookup, Lookups
  <2> QED
    BY <1>1, <1>5, <2>1 DEF ControllerRestarts, TypeOK, ClusterTypeOK, cluster
<1> QED
  BY <1>2, <1>3, <1>4, <1>5 DEF Faults

\* The job events that are undelivered stay so while calls are made and jobs
\* run: the first of them remains the first.
JobEventsGrow ==
  /\ jobWatch' = jobWatch
  /\ jobEvents' # << >> => jobEvents # << >> \/ jobWatch = "up"
  /\ jobEvents # << >> => jobEvents' # << >> /\ Head(jobEvents') = Head(jobEvents)

LEMMA SetJobGrows ==
  ASSUME ClusterTypeOK, NEW b, NEW kind, NEW state, SetJob(b, kind, state),
         jobWatch' = jobWatch
  PROVE  JobEventsGrow
<1> DEFINE e == [build |-> b, kind |-> kind, state |-> state]
<1>1. jobEvents \in Seq(JobEvents)
  BY DEF ClusterTypeOK
<1>2. CASE jobEvents' = jobEvents
  BY <1>2 DEF JobEventsGrow
<1>3. CASE jobWatch = "up" /\ jobEvents' = Append(jobEvents, e)
  <2>0. jobEvents \in Seq(JobEvents \union {e}) /\ e \in JobEvents \union {e}
    BY <1>1, SeqMono
  <2> HIDE DEF e
  <2>1. Append(jobEvents, e) # << >>
    BY <2>0, AppendProperties
  <2>2. jobEvents # << >> => Head(Append(jobEvents, e)) = Head(jobEvents)
    BY <2>0
  <2> QED
    BY <1>3, <2>1, <2>2 DEF JobEventsGrow
<1> QED
  BY <1>2, <1>3 DEF SetJob

LEMMA PerformGrows ==
  ASSUME ClusterTypeOK, NEW c, Perform(c)
  PROVE  JobEventsGrow
<1>1. jobWatch' = jobWatch
  BY DEF Perform
<1>2. CASE jobEvents' = jobEvents
  BY <1>1, <1>2 DEF JobEventsGrow
<1>3. CASE ApplyJob(c)
  BY <1>1, <1>2, <1>3, SetJobGrows DEF ApplyJob
<1>4. CASE KillJob(c)
  BY <1>1, <1>4, SetJobGrows DEF KillJob
<1>5. ASSUME ~ApplyJob(c), ~KillJob(c)
      PROVE  jobEvents' = jobEvents
  BY <1>5 DEF Perform, ApplyDeployment, ApplyOthers, PatchDeployment, RemoveFinalizers,
              DeleteDeployment, DeleteResources, NotifyStatus
<1> QED
  BY <1>2, <1>3, <1>4, <1>5

LEMMA EnvironmentGrows ==
  ASSUME ClusterTypeOK, Environment
  PROVE  JobEventsGrow
<1>1. jobWatch' = jobWatch
  BY DEF Environment, InitializeCreatesDatabase, InitializeSucceeds, CleanupSucceeds, JobFails,
         Scale, Tick, watches
<1>2. CASE jobEvents' = jobEvents
  BY <1>1, <1>2 DEF JobEventsGrow
<1>3. CASE \E b, kind, state : SetJob(b, kind, state)
  BY <1>1, <1>3, SetJobGrows
<1> QED
  BY <1>2, <1>3 DEF Environment, InitializeCreatesDatabase, InitializeSucceeds, CleanupSucceeds,
                    JobFails, Scale, Tick, watches

LEMMA LookupStep ==
  ASSUME TypeInv, [Next]_vars
  PROVE  LookupOfEvent'
<1>1. ClusterTypeOK /\ calls \in [Actors -> Seq(Calls)]
  BY DEF TypeInv, TypeOK
<1>2. /\ jobEvents # << >> => jobWatch = "up"
      /\ lookup.busy => jobEvents # << >> /\ calls[JobWatcher] = << >>
  BY DEF TypeInv, LookupOfEvent
<1>3. ASSUME JobEventsGrow, lookup' = lookup, calls'[JobWatcher] = calls[JobWatcher]
      PROVE  LookupOfEvent'
  BY <1>2, <1>3 DEF JobEventsGrow, LookupOfEvent
<1>4. ASSUME UNCHANGED << jobWatch, jobEvents, lookup >>, calls'[JobWatcher] = calls[JobWatcher]
      PROVE  LookupOfEvent'
  BY <1>2, <1>4 DEF LookupOfEvent
<1>5. CASE DeploymentWatcher
  BY <1>4, <1>5 DEF DeploymentWatcher, StartDeploymentWatch, ListDeployments, HandleDeployment,
                    controller
<1>6. CASE StartJobWatch
  BY <1>2, <1>6 DEF StartJobWatch, LookupOfEvent, controller
<1>7. CASE HandleJob
  BY <1>1, <1>2, <1>7, ActorSets DEF HandleJob, JobWatcherIdle, LookupOfEvent
<1>8. CASE HandleJobLookup
  BY <1>2, <1>8 DEF HandleJobLookup, LookupOfEvent, NoLookup
<1>9. ASSUME NEW t \in Tasks, Pass(t)
      PROVE  LookupOfEvent'
  BY <1>4, <1>9 DEF Pass, clusterVars
<1>10. ASSUME NEW t \in Tasks, NextBuild(t)
       PROVE  LookupOfEvent'
  <2>1. calls'[JobWatcher] = calls[JobWatcher]
    BY <1>1, <1>10, ActorSets DEF NextBuild
  <2> QED
    BY <1>4, <1>10, <2>1 DEF NextBuild, clusterVars
<1>11. ASSUME NEW a \in Actors, Call(a)
       PROVE  LookupOfEvent'
  <2> DEFINE c == Head(calls[a])
  <2>1. lookup.busy => a # JobWatcher
    BY <1>2, <1>11 DEF Call
  <2>2. a # JobWatcher => calls'[JobWatcher] = calls[JobWatcher]
    BY <1>1, <1>11, ActorSets DEF Call, Abort
  <2>3. lookup' = lookup
    BY <1>11 DEF Call
  <2>4. CASE Perform(c)
    <3>1. JobEventsGrow
      BY <1>1, <2>4, PerformGrows
    <3> QED
      BY <1>2, <2>1, <2>2, <2>3, <3>1 DEF JobEventsGrow, LookupOfEvent
  <2>5. CASE Abort(a)
    BY <1>2, <2>1, <2>2, <2>3, <2>5 DEF Abort, LookupOfEvent
  <2> QED
    BY <1>11, <2>4, <2>5 DEF Call
<1>12. ASSUME NEW c \in Clients, ClientRequest(c)
       PROVE  LookupOfEvent'
  <2>1. PICK op, list : Request(c, op, list)
    BY <1>12 DEF ClientRequest, DeployCommit, StartBuild, StopBuild, ResetBuild, UndeployBuild,
                 UndeployBuilds
  <2>2. calls'[JobWatcher] = calls[JobWatcher]
    BY <1>1, <2>1, ActorSets DEF Request
  <2> QED
    BY <1>4, <2>1, <2>2 DEF Request, clusterVars
<1>13. CASE Environment /\ UNCHANGED << controller, requests, faults >>
  BY <1>1, <1>3, <1>13, EnvironmentGrows DEF controller
<1>14. CASE Faults
  <2>1. ASSUME NEW a \in Actors, CallFails(a)
        PROVE  LookupOfEvent'
    <3>1. lookup.busy => a # JobWatcher
      BY <1>2, <2>1 DEF CallFails
    <3>2. a # JobWatcher => calls'[JobWatcher] = calls[JobWatcher]
      BY <1>1, <2>1, ActorSets DEF CallFails, Abort
    <3> QED
      BY <1>2, <2>1, <3>1, <3>2 DEF CallFails, Abort, LookupOfEvent
  <2>2. CASE DeploymentWatchBreaks
    BY <1>4, <2>2 DEF DeploymentWatchBreaks, controller
  <2>3. CASE JobWatchBreaks
    BY <1>2, <2>3 DEF JobWatchBreaks, JobWatcherIdle, LookupOfEvent, controller
  <2>4. CASE ControllerRestarts
    BY <2>4 DEF ControllerRestarts, LookupOfEvent, NoLookup
  <2> QED
    BY <1>14, <2>1, <2>2, <2>3, <2>4 DEF Faults
<1>15. CASE UNCHANGED vars
  BY <1>4, <1>15 DEF vars, clusterVars
<1> QED
  BY <1>5, <1>6, <1>7, <1>8, <1>9, <1>10, <1>11, <1>12, <1>13, <1>14, <1>15
     DEF Next, Background, JobWatch, Wait

LEMMA TypeStep ==
  ASSUME TypeInv, [Next]_vars
  PROVE  TypeInv'
<1> SUFFICES TypeOK'
  BY LookupStep DEF TypeInv
<1>1. TypeOK /\ LookupOfEvent
  BY DEF TypeInv
<1>2. CASE DeploymentWatcher \/ JobWatch \/ Faults
  BY <1>1, <1>2, DeploymentWatcherType, JobWatchType, FaultsType
<1>3. ASSUME NEW t \in Tasks, Pass(t) \/ NextBuild(t)
      PROVE  TypeOK'
  BY <1>1, <1>3, PassType, NextBuildType
<1>4. ASSUME NEW a \in Actors, Call(a)
      PROVE  TypeOK'
  BY <1>1, <1>4, CallType
<1>5. ASSUME NEW c \in Clients, ClientRequest(c)
      PROVE  TypeOK'
  BY <1>1, <1>5, ClientRequestType
<1>6. CASE Environment /\ UNCHANGED << controller, requests, faults >>
  <2>1. ClusterTypeOK'
    BY <1>1, <1>6, EnvironmentType DEF TypeOK
  <2> QED
    BY <1>1, <1>6, <2>1 DEF TypeOK, controller
<1>7. CASE UNCHANGED vars
  <2>1. ClusterTypeOK'
    BY <1>1, <1>7 DEF vars, clusterVars, TypeOK, ClusterTypeOK
  <2> QED
    BY <1>1, <1>7, <2>1 DEF vars, TypeOK
<1> QED
  BY <1>2, <1>3, <1>4, <1>5, <1>6, <1>7 DEF Next, Background, Wait

\* Every variable keeps the type the code gives it, whatever the number of
\* builds, the limits, the requests and the faults.
THEOREM TypeCorrect == Spec => []TypeOK
<1>1. Init => TypeInv
  BY TypeInit DEF TypeInv, LookupOfEvent, Init, ClusterInit, ClusterBlank, ControllerBlank, NoLookup
<1>2. TypeInv /\ [Next]_vars => TypeInv'
  BY TypeStep
<1>3. TypeInv => TypeOK
  BY DEF TypeInv
<1> QED
  BY <1>1, <1>2, <1>3, PTL DEF Spec

(***************************************************************************)
(* No live build is cleaned up, as long as nobody asks for a reset: a      *)
(* proof of NoLiveCleanup.                                                 *)
(*                                                                         *)
(* A cleanup job is launched long after the deployment was seen to be      *)
(* deleted: the fact travels through an event, the db or the lookup of     *)
(* job_watcher, the cleaner's list and its pending calls.  The inductive   *)
(* invariant says that wherever it is on its way, it is about a build that *)
(* is doomed, and a doomed build is so for ever, because a deployment is   *)
(* only created under a name that was never used.  A reset is left out     *)
(* because it applies the deployment of a build of any status.             *)
(***************************************************************************)
Doomed == {b \in Builds : deployments[b].phase \in {"deleting", "gone"}}
Unborn == {b \in Builds : deployments[b].phase = "unborn"}

IsCleanup(c) == c.op = "apply" /\ c.mode = "cleanup"
IsDeploy(c) == c.op = "apply" /\ c.mode = "deployment"

DbDoomed == \A b \in Builds : db[b].status = "undeploying" => b \in Doomed

EventsDoomed ==
  \A i \in 1 .. Len(deplEvents) :
    deplEvents[i].row.status = "undeploying" => deplEvents[i].build \in Doomed

LookupDoomed ==
  lookup.busy /\ lookup.row.status = "undeploying" => Head(jobEvents).build \in Doomed

TodoDoomed ==
  \A t \in Tasks : t = "cleaner" =>
    \A i \in 1 .. Len(todo[t]) : todo[t][i].build \in Doomed

CallsDoomed ==
  \A a \in Actors : \A i \in 1 .. Len(calls[a]) :
    IsCleanup(calls[a][i]) => calls[a][i].build \in Doomed

JobsDoomed == \A b \in Builds : jobs[b]["cleanup"] # "none" => b \in Doomed

\* The call that creates a deployment is the first of its method, its name
\* was never used, and no other actor is about to use it.
DeploysUnborn ==
  \A a \in Actors : \A i \in 1 .. Len(calls[a]) :
    IsDeploy(calls[a][i]) =>
      /\ i = 1
      /\ calls[a][i].build \in Unborn
      /\ \A o \in Actors \ {a} : \A j \in 1 .. Len(calls[o]) :
           IsDeploy(calls[o][j]) => calls[o][j].build # calls[a][i].build

FateInv ==
  /\ DbDoomed
  /\ EventsDoomed
  /\ LookupDoomed
  /\ TodoDoomed
  /\ CallsDoomed
  /\ JobsDoomed
  /\ DeploysUnborn

CleanupInv == TypeInv /\ "reset" \notin ClientOps /\ FateInv

(***************************************************************************)
(* Doomed and unborn builds remain so, and what the watch of deployments   *)
(* queues is about the deployment as it is.                                *)
(***************************************************************************)
Ages == Doomed \subseteq Doomed' /\ Unborn \subseteq Unborn'

Fresh ==
  \/ deplEvents' = deplEvents
  \/ \E b \in Builds :
       deplEvents' = Append(deplEvents, [build |-> b, row |-> RowOf(deployments'[b])])

LEMMA SetDeploymentFresh ==
  ASSUME ClusterTypeOK, NEW b \in Builds, NEW d \in Deployments, SetDeployment(b, d)
  PROVE  /\ deployments' = [deployments EXCEPT ![b] = d]
         /\ deployments'[b] = d
         /\ Fresh
<1>1. deployments' = [deployments EXCEPT ![b] = d] /\ deployments'[b] = d
  BY DEF SetDeployment, ClusterTypeOK
<1>2. deplEvents' = deplEvents
        \/ deplEvents' = Append(deplEvents, [build |-> b, row |-> RowOf(d)])
  BY DEF SetDeployment
<1> QED
  BY <1>1, <1>2 DEF Fresh

LEMMA SetDeploymentAges ==
  ASSUME ClusterTypeOK, NEW b \in Builds, NEW d \in Deployments, SetDeployment(b, d),
         b \in Doomed => d.phase \in {"deleting", "gone"},
         b \in Unborn => d.phase = "unborn"
  PROVE  Ages /\ Fresh
<1>1. deployments \in [Builds -> Deployments]
  BY DEF ClusterTypeOK
<1>2. deployments' = [deployments EXCEPT ![b] = d] /\ Fresh
  BY SetDeploymentFresh
<1> QED
  BY <1>1, <1>2 DEF Ages, Doomed, Unborn

LEMMA DeletedAges ==
  ASSUME NEW d \in Deployments
  PROVE  /\ d.phase \in {"deleting", "gone"} => Deleted(d).phase \in {"deleting", "gone"}
         /\ d.phase = "unborn" => Deleted(d).phase = "unborn"
<1>1. CASE ~Present(d)
  BY <1>1 DEF Deleted
<1>2. CASE Present(d)
  <2>1. Deleted(d).phase \in {"deleting", "gone"}
    BY <1>2 DEF Deleted, NoDeployment, Deployments
  <2> QED
    BY <1>2, <2>1 DEF Present
<1> QED
  BY <1>1, <1>2

LEMMA PerformAges ==
  ASSUME ClusterTypeOK, NEW c \in Calls, Perform(c), ~IsDeploy(c)
  PROVE  Ages /\ Fresh
<1> DEFINE b == c.build
           d == deployments[b]
<1>1. b \in Builds /\ d \in Deployments
  BY CallFields DEF ClusterTypeOK
<1>2. CASE UNCHANGED << deployments, deplEvents >>
  BY <1>2 DEF Ages, Fresh, Doomed, Unborn
<1>3. CASE PatchDeployment(c)
  <2>1. CASE Present(d)
    <3> DEFINE e == [d EXCEPT !.init = IF c.init = "keep" THEN @ ELSE c.init,
                             !.replicas = IF c.replicas = Keep THEN @ ELSE c.replicas,
                             !.scaled = IF c.replicas = Keep THEN @ ELSE now]
    <3>1. c.init \in BuildInitStatus \union {"keep"} /\ c.replicas \in {Keep, 0, 1} /\ now \in Nat
      BY <1>3, CallFields DEF PatchDeployment, ClusterTypeOK
    <3>2. e \in Deployments /\ e.phase = d.phase
      BY <1>1, <3>1 DEF Deployments, Keep
    <3>3. SetDeployment(b, e)
      BY <1>3, <2>1 DEF PatchDeployment
    <3> QED
      BY <1>1, <3>2, <3>3, SetDeploymentAges DEF Doomed, Unborn
  <2>2. CASE ~Present(d)
    BY <1>2, <1>3, <2>2 DEF PatchDeployment
  <2> QED
    BY <2>1, <2>2
<1>4. CASE RemoveFinalizers(c)
  <2>1. CASE Present(d)
    <3> DEFINE f == [d EXCEPT !.finalizer = FALSE]
    <3>1. f \in Deployments /\ f.phase = d.phase
      BY <1>1, DeploymentType DEF Deployments
    <3>2. Deleted(f) \in Deployments
      BY <3>1, DeploymentType
    <3>3. SetDeployment(b, Deleted(f))
      BY <1>4, <2>1 DEF RemoveFinalizers
    <3> QED
      BY <1>1, <3>1, <3>2, <3>3, DeletedAges, SetDeploymentAges DEF Doomed, Unborn
  <2>2. CASE ~Present(d)
    BY <1>2, <1>4, <2>2 DEF RemoveFinalizers
  <2> QED
    BY <2>1, <2>2
<1>5. CASE DeleteDeployment(c) \/ DeleteResources(c)
  <2>1. SetDeployment(b, Deleted(d)) /\ Deleted(d) \in Deployments
    BY <1>1, <1>5, DeploymentType DEF DeleteDeployment, DeleteResources
  <2> QED
    BY <1>1, <2>1, DeletedAges, SetDeploymentAges DEF Doomed, Unborn
<1> QED
  BY <1>2, <1>3, <1>4, <1>5
     DEF Perform, IsDeploy, ApplyDeployment, ApplyJob, ApplyOthers, KillJob, NotifyStatus

LEMMA EnvironmentAges ==
  ASSUME ClusterTypeOK, Environment
  PROVE  /\ Ages /\ Fresh
         /\ \A b \in Builds : jobs'[b]["cleanup"] # "none" => jobs[b]["cleanup"] # "none"
<1>1. deployments \in [Builds -> Deployments] /\ jobs \in [Builds -> [JobKinds -> JobStates]]
  BY DEF ClusterTypeOK
<1>2. CASE \E b \in Builds : Scale(b)
  <2>1. PICK b \in Builds : Scale(b)
    BY <1>2
  <2> DEFINE e == [deployments[b] EXCEPT !.running = ~@]
  <2>2. e \in Deployments /\ e.phase = deployments[b].phase
    BY <1>1 DEF Deployments
  <2>3. Ages /\ Fresh
    BY <2>1, <2>2, SetDeploymentAges DEF Scale, Doomed, Unborn
  <2> QED
    BY <2>1, <2>3 DEF Scale
<1>3. CASE ~\E b \in Builds : Scale(b)
  <2>1. UNCHANGED << deployments, deplEvents >>
    BY <1>3 DEF Environment, InitializeCreatesDatabase, InitializeSucceeds, CleanupSucceeds,
                JobFails, Tick, cluster, watches
  <2>2. \/ jobs' = jobs
        \/ \E b \in Builds, kind \in JobKinds, state \in JobStates :
             SetJob(b, kind, state) /\ jobs[b][kind] = "active"
    BY <1>3 DEF Environment, InitializeCreatesDatabase, InitializeSucceeds, CleanupSucceeds,
                JobFails, Tick, cluster, watches, JobKinds, JobStates
  <2>3. \A b \in Builds : jobs'[b]["cleanup"] # "none" => jobs[b]["cleanup"] # "none"
    <3>1. CASE jobs' = jobs
      BY <3>1
    <3>2. ASSUME NEW k \in Builds, NEW kind \in JobKinds, NEW state \in JobStates,
                 SetJob(k, kind, state), jobs[k][kind] = "active"
          PROVE  \A b \in Builds : jobs'[b]["cleanup"] # "none" => jobs[b]["cleanup"] # "none"
      <4>1. jobs' = [jobs EXCEPT ![k][kind] = state]
        BY <3>2 DEF SetJob
      <4>2. \A b \in Builds : jobs'[b] = IF b = k THEN [jobs[b] EXCEPT ![kind] = state] ELSE jobs[b]
        BY <1>1, <4>1
      <4>3. \A b \in Builds : jobs[b] \in [JobKinds -> JobStates]
        BY <1>1
      <4> QED
        BY <3>2, <4>2, <4>3 DEF JobKinds
    <3> QED
      BY <2>2, <3>1, <3>2
  <2> QED
    BY <2>1, <2>3 DEF Ages, Fresh, Doomed, Unborn
<1> QED
  BY <1>2, <1>3

\* The creation of a deployment: it was unborn, and no other build changes.
LEMMA PerformDeploy ==
  ASSUME ClusterTypeOK, NEW c \in Calls, Perform(c), IsDeploy(c), c.build \in Unborn
  PROVE  /\ Doomed \subseteq Doomed'
         /\ Unborn \ {c.build} \subseteq Unborn'
         /\ Fresh
<1> DEFINE d == deployments[c.build]
           e == [phase |-> "live", init |-> "todo", replicas |-> 0, running |-> FALSE,
                 finalizer |-> TRUE, created |-> now, scaled |-> now]
<1>1. c.build \in Builds /\ deployments \in [Builds -> Deployments] /\ now \in Nat
  BY CallFields DEF ClusterTypeOK
<1>2. ApplyDeployment(c) /\ ~Present(d)
  BY DEF Perform, IsDeploy, ApplyJob, ApplyOthers, PatchDeployment, RemoveFinalizers,
         DeleteDeployment, DeleteResources, KillJob, NotifyStatus, JobKinds, Unborn, Present
<1>3. SetDeployment(c.build, e)
  BY <1>2 DEF ApplyDeployment
<1>4. e \in Deployments
  BY <1>1 DEF Deployments, Phases, BuildInitStatus
<1>5. deployments' = [deployments EXCEPT ![c.build] = e] /\ Fresh
  BY <1>1, <1>3, <1>4, SetDeploymentFresh
<1> QED
  BY <1>1, <1>5 DEF Doomed, Unborn

\* A cleanup job only comes from the call that launches it.
LEMMA PerformJobs ==
  ASSUME ClusterTypeOK, NEW c \in Calls, Perform(c), NEW b \in Builds,
         jobs'[b]["cleanup"] # "none", jobs[b]["cleanup"] = "none"
  PROVE  IsCleanup(c) /\ c.build = b
<1>1. /\ jobs \in [Builds -> [JobKinds -> JobStates]]
      /\ c.build \in Builds
      /\ c.op = "apply" => c.mode \in Modes
      /\ c.op = "kill" => c.kind \in JobKinds
  BY CallFields DEF ClusterTypeOK
<1>2. jobs' # jobs
  OBVIOUS
<1>3. CASE ApplyJob(c)
  <2>1. c.mode \in JobKinds /\ jobs' = [jobs EXCEPT ![c.build][c.mode] = "active"]
    BY <1>2, <1>3 DEF ApplyJob, SetJob
  <2>2. c.build = b /\ c.mode = "cleanup"
    BY <1>1, <2>1 DEF JobKinds
  <2> QED
    BY <1>3, <2>2 DEF ApplyJob, IsCleanup
<1>4. CASE DeleteResources(c)
  <2>1. jobs' = [jobs EXCEPT ![c.build] = [k \in JobKinds |-> "none"]]
    BY <1>4 DEF DeleteResources
  <2>2. jobs'[b]["cleanup"] \in {"none", jobs[b]["cleanup"]}
    BY <1>1, <2>1 DEF JobKinds
  <2> QED
    BY <2>2
<1>5. CASE KillJob(c)
  <2>1. c.kind \in JobKinds /\ jobs' = [jobs EXCEPT ![c.build][c.kind] = "none"]
    BY <1>1, <1>5 DEF KillJob, SetJob
  <2>2. jobs'[b]["cleanup"] \in {"none", jobs[b]["cleanup"]}
    BY <1>1, <2>1 DEF JobKinds
  <2> QED
    BY <2>2
<1> QED
  BY <1>2, <1>3, <1>4, <1>5
     DEF Perform, ApplyDeployment, ApplyOthers, PatchDeployment, RemoveFinalizers,
         DeleteDeployment, NotifyStatus

(***************************************************************************)
(* The conjuncts of the invariant that a step does not disturb, and those  *)
(* on calls when one actor gets another list of calls.                     *)
(***************************************************************************)
LEMMA Undisturbed ==
  ASSUME CleanupInv, Doomed \subseteq Doomed'
  PROVE  /\ db' = db => DbDoomed'
         /\ deplEvents' = deplEvents => EventsDoomed'
         /\ lookup' = lookup /\ JobEventsGrow => LookupDoomed'
         /\ todo' = todo => TodoDoomed'
         /\ calls' = calls => CallsDoomed'
         /\ jobs' = jobs => JobsDoomed'
         /\ calls' = calls /\ Unborn \subseteq Unborn' => DeploysUnborn'
<1>1. lookup.busy => jobEvents # << >>
  BY DEF CleanupInv, TypeInv, LookupOfEvent
<1>2. db' = db => DbDoomed'
  BY DEF CleanupInv, FateInv, DbDoomed
<1>3. deplEvents' = deplEvents => EventsDoomed'
  BY DEF CleanupInv, FateInv, EventsDoomed
<1>4. lookup' = lookup /\ JobEventsGrow => LookupDoomed'
  BY <1>1 DEF CleanupInv, FateInv, LookupDoomed, JobEventsGrow
<1>5. todo' = todo => TodoDoomed'
  BY DEF CleanupInv, FateInv, TodoDoomed
<1>6. calls' = calls => CallsDoomed'
  BY DEF CleanupInv, FateInv, CallsDoomed
<1>7. jobs' = jobs => JobsDoomed'
  BY DEF CleanupInv, FateInv, JobsDoomed
<1>8. calls' = calls /\ Unborn \subseteq Unborn' => DeploysUnborn'
  BY DEF CleanupInv, FateInv, DeploysUnborn
<1> QED
  BY <1>2, <1>3, <1>4, <1>5, <1>6, <1>7, <1>8

LEMMA NewCalls ==
  ASSUME CleanupInv, Doomed \subseteq Doomed',
         NEW a \in Actors, NEW list \in Seq(Calls), calls' = [calls EXCEPT ![a] = list],
         \A i \in 1 .. Len(list) : IsCleanup(list[i]) => list[i].build \in Doomed'
  PROVE  CallsDoomed'
<1>1. calls \in [Actors -> Seq(Calls)]
  BY DEF CleanupInv, TypeInv, TypeOK
<1>2. ASSUME NEW o \in Actors, NEW i \in 1 .. Len(calls'[o]), IsCleanup(calls'[o][i])
      PROVE  calls'[o][i].build \in Doomed'
  <2>1. CASE o = a
    BY <1>1, <1>2, <2>1
  <2>2. CASE o # a
    BY <1>1, <1>2, <2>2 DEF CleanupInv, FateInv, CallsDoomed
  <2> QED
    BY <2>1, <2>2
<1> QED
  BY <1>2 DEF CallsDoomed

LEMMA NoNewDeploy ==
  ASSUME CleanupInv, NEW a \in Actors, NEW list \in Seq(Calls),
         calls' = [calls EXCEPT ![a] = list],
         \A i \in 1 .. Len(list) : ~IsDeploy(list[i]),
         \A o \in Actors \ {a} : \A j \in 1 .. Len(calls[o]) :
           IsDeploy(calls[o][j]) => calls[o][j].build \in Unborn'
  PROVE  DeploysUnborn'
<1>1. calls \in [Actors -> Seq(Calls)]
  BY DEF CleanupInv, TypeInv, TypeOK
<1>2. ASSUME NEW o \in Actors, NEW i \in 1 .. Len(calls'[o]), IsDeploy(calls'[o][i])
      PROVE  o # a /\ calls'[o] = calls[o]
  BY <1>1, <1>2
<1>3. ASSUME NEW o \in Actors, NEW i \in 1 .. Len(calls'[o]), IsDeploy(calls'[o][i])
      PROVE  i = 1 /\ calls'[o][i].build \in Unborn'
  BY <1>2, <1>3 DEF CleanupInv, FateInv, DeploysUnborn
<1>4. ASSUME NEW o \in Actors, NEW i \in 1 .. Len(calls'[o]), IsDeploy(calls'[o][i]),
             NEW p \in Actors \ {o}, NEW j \in 1 .. Len(calls'[p]), IsDeploy(calls'[p][j])
      PROVE  calls'[p][j].build # calls'[o][i].build
  <2>1. calls'[o] = calls[o] /\ calls'[p] = calls[p]
    BY <1>2, <1>4
  <2> QED
    BY <1>4, <2>1 DEF CleanupInv, FateInv, DeploysUnborn
<1> QED
  BY <1>3, <1>4 DEF DeploysUnborn

\* An actor that gets benign calls disturbs nothing.
LEMMA BenignCalls ==
  ASSUME CleanupInv, Doomed \subseteq Doomed', Unborn \subseteq Unborn',
         NEW a \in Actors, NEW list \in Seq(Benign), calls' = [calls EXCEPT ![a] = list]
  PROVE  CallsDoomed' /\ DeploysUnborn'
<1>1. \A i \in 1 .. Len(list) : ~IsCleanup(list[i]) /\ ~IsDeploy(list[i])
  BY DEF Benign, IsCleanup, IsDeploy
<1>2. list \in Seq(Calls)
  <2>1. Benign \subseteq Calls
    BY DEF Benign
  <2> QED
    BY <2>1, SeqMono
<1>3. \A o \in Actors \ {a} : \A j \in 1 .. Len(calls[o]) :
        IsDeploy(calls[o][j]) => calls[o][j].build \in Unborn
  BY DEF CleanupInv, FateInv, DeploysUnborn
<1>4. CallsDoomed'
  BY <1>1, <1>2, NewCalls
<1>5. DeploysUnborn'
  BY <1>1, <1>2, <1>3, NoNewDeploy
<1> QED
  BY <1>4, <1>5

(***************************************************************************)
(* The steps, one action at a time.                                        *)
(***************************************************************************)
LEMMA TailItems ==
  ASSUME NEW S, NEW q \in Seq(S), q # << >>, NEW i \in 1 .. Len(Tail(q))
  PROVE  i + 1 \in 1 .. Len(q) /\ Tail(q)[i] = q[i + 1]
OBVIOUS

LEMMA SameDeployments ==
  ASSUME deployments' = deployments
  PROVE  Ages
BY DEF Ages, Doomed, Unborn

LEMMA SameJobEvents ==
  ASSUME UNCHANGED << jobWatch, jobEvents >>
  PROVE  JobEventsGrow
BY DEF JobEventsGrow

\* A row that is added says undeploying only if it said so where it came from.
LEMMA DbAddDoomed ==
  ASSUME CleanupInv, Doomed' = Doomed, NEW b \in Builds, NEW row \in Rows,
         row.status = "undeploying" => b \in Doomed, DbAdd(b, row)
  PROVE  DbDoomed'
<1>1. db \in [Builds -> Rows]
  BY DEF CleanupInv, TypeInv, TypeOK, Tables
<1>2. \A k \in Builds : db'[k] = db[k] \/ (k = b /\ db'[k] = row)
  BY <1>1 DEF DbAdd, Put
<1> QED
  BY <1>2 DEF CleanupInv, FateInv, DbDoomed

LEMMA DeploymentWatcherFate ==
  ASSUME CleanupInv, DeploymentWatcher
  PROVE  FateInv'
<1>1. /\ deployments' = deployments /\ jobs' = jobs
      /\ UNCHANGED << jobWatch, jobEvents, lookup, todo, calls >>
  BY DEF DeploymentWatcher, StartDeploymentWatch, ListDeployments, HandleDeployment, cluster,
         controller
<1>2. Ages /\ JobEventsGrow /\ Doomed' = Doomed
  BY <1>1, SameDeployments, SameJobEvents DEF Doomed
<1>3. LookupDoomed' /\ TodoDoomed' /\ CallsDoomed' /\ JobsDoomed' /\ DeploysUnborn'
  BY <1>1, <1>2, Undisturbed DEF Ages
<1>4. TypeOK
  BY DEF CleanupInv, TypeInv
<1>5. CASE StartDeploymentWatch
  <2>1. DbDoomed'
    BY <1>5 DEF StartDeploymentWatch, DbDoomed, EmptyTable, AbsentRow
  <2>2. EventsDoomed'
    BY <1>2, <1>5, Undisturbed DEF StartDeploymentWatch
  <2> QED
    BY <1>3, <2>1, <2>2 DEF FateInv
<1>6. CASE ListDeployments
  <2> DEFINE S == {b \in Builds : Present(deployments[b])}
             events(q) == [i \in 1 .. Len(q) |->
                             [build |-> q[i], row |-> RowOf(deployments[q[i]])]]
  <2>1. PICK q \in SetToSeqs(S) : deplEvents' = events(q)
    BY <1>6 DEF ListDeployments
  <2>2. IsFiniteSet(S)
    BY FS_Subset, BuildsAssumption
  <2>3. Len(q) \in Nat /\ \A i \in 1 .. Len(q) : q[i] \in Builds
    BY <2>2, SetToSeqsType
  <2>4. \A b \in Builds : RowOf(deployments[b]).status = "undeploying" => b \in Doomed
    BY <1>4, RowOfType DEF TypeOK, ClusterTypeOK, Doomed
  <2>5. Len(deplEvents') = Len(q)
    BY <2>1, <2>3
  <2>6. \A i \in 1 .. Len(q) : deplEvents'[i].row.status = "undeploying" =>
                                 deplEvents'[i].build \in Doomed
    BY <2>1, <2>3, <2>4
  <2>7. EventsDoomed'
    BY <1>2, <2>5, <2>6 DEF EventsDoomed
  <2>8. DbDoomed'
    BY <1>2, <1>6, Undisturbed DEF ListDeployments, controller
  <2> QED
    BY <1>3, <2>7, <2>8 DEF FateInv
<1>7. CASE HandleDeployment
  <2> DEFINE e == Head(deplEvents)
  <2>1. deplEvents \in Seq(DeplEvents) /\ deplEvents # << >>
    BY <1>4, <1>7 DEF HandleDeployment, TypeOK, ClusterTypeOK
  <2>2. e \in DeplEvents /\ e = deplEvents[1] /\ 1 \in 1 .. Len(deplEvents)
    BY <2>1
  <2>3. e.build \in Builds /\ e.row \in Rows
    BY <2>2 DEF DeplEvents
  <2>4. e.row.status = "undeploying" => e.build \in Doomed
    BY <2>2 DEF CleanupInv, FateInv, EventsDoomed
  <2>5. DbDoomed'
    <3>1. CASE e.row.status = "absent"
      <4>1. DbRemove(e.build) /\ db \in [Builds -> Rows]
        BY <1>4, <1>7, <3>1 DEF HandleDeployment, TypeOK, Tables
      <4>2. \A k \in Builds : db'[k] \in {db[k], AbsentRow}
        BY <4>1 DEF DbRemove, Drop
      <4> QED
        BY <1>2, <4>2 DEF CleanupInv, FateInv, DbDoomed, AbsentRow
    <3>2. CASE e.row.status # "absent"
      BY <1>2, <1>7, <2>3, <2>4, <3>2, DbAddDoomed DEF HandleDeployment
    <3> QED
      BY <3>1, <3>2
  <2>6. EventsDoomed'
    <3>1. deplEvents' = Tail(deplEvents)
      BY <1>7 DEF HandleDeployment
    <3>2. \A i \in 1 .. Len(deplEvents') : /\ i + 1 \in 1 .. Len(deplEvents)
                                           /\ deplEvents'[i] = deplEvents[i + 1]
      BY <2>1, <3>1
    <3> QED
      BY <1>2, <3>2 DEF CleanupInv, FateInv, EventsDoomed
  <2> QED
    BY <1>3, <2>5, <2>6 DEF FateInv
<1> QED
  BY <1>5, <1>6, <1>7 DEF DeploymentWatcher

LEMMA JobWatchFate ==
  ASSUME CleanupInv, JobWatch
  PROVE  FateInv'
<1>1. /\ deployments' = deployments /\ jobs' = jobs /\ UNCHANGED << deplEvents, todo >>
  BY DEF JobWatch, StartJobWatch, HandleJob, HandleJobLookup, cluster, controller
<1>2. Ages /\ Doomed' = Doomed /\ Unborn' = Unborn
  BY <1>1, SameDeployments DEF Doomed, Unborn
<1>3. EventsDoomed' /\ TodoDoomed' /\ JobsDoomed'
  BY <1>1, <1>2, Undisturbed DEF Ages
<1>4. TypeOK /\ LookupOfEvent
  BY DEF CleanupInv, TypeInv
<1>5. ASSUME NEW list \in Seq(Benign), calls' = [calls EXCEPT ![JobWatcher] = list]
      PROVE  CallsDoomed' /\ DeploysUnborn'
  BY <1>2, <1>5, BenignCalls, ActorSets DEF Ages
<1>6. CASE StartJobWatch
  <2>1. UNCHANGED << db, calls, lookup >> /\ ~lookup.busy
    BY <1>4, <1>6 DEF StartJobWatch, controller, LookupOfEvent
  <2>2. LookupDoomed'
    BY <2>1 DEF LookupDoomed
  <2> QED
    BY <1>2, <1>3, <2>1, <2>2, Undisturbed DEF FateInv, Ages
<1>7. ASSUME jobEvents # << >>
      PROVE  /\ Head(jobEvents).build \in Builds /\ Head(jobEvents).kind \in JobKinds
             /\ Head(jobEvents).state \in JobStates \ {"none"}
  <2>1. Head(jobEvents) \in JobEvents
    BY <1>4, <1>7 DEF TypeOK, ClusterTypeOK
  <2> QED
    BY <2>1 DEF JobEvents
<1>8. CASE HandleJob
  <2> DEFINE e == Head(jobEvents)
  <2>1. jobEvents # << >> /\ db' = db /\ ~lookup.busy
    BY <1>8 DEF HandleJob, JobWatcherIdle
  <2>2. DbDoomed'
    BY <1>2, <2>1, Undisturbed DEF Ages
  <2>3. CASE db[e.build].status # "absent"
    <3>1. OnJobEvent(e.build, db[e.build], e.kind, e.state) \in Seq(Benign)
      BY <1>4, <1>7, <2>1, DbType, OnJobEventType
    <3>2. calls' = [calls EXCEPT ![JobWatcher] =
                      OnJobEvent(e.build, db[e.build], e.kind, e.state)]
      BY <1>8, <2>3 DEF HandleJob
    <3>3. LookupDoomed'
      BY <1>8, <2>1, <2>3 DEF HandleJob, LookupDoomed
    <3> QED
      BY <1>3, <1>5, <2>2, <3>1, <3>2, <3>3 DEF FateInv
  <2>4. CASE db[e.build].status = "absent"
    <3>1. /\ lookup' = [busy |-> TRUE, row |-> RowOf(deployments[e.build])]
          /\ UNCHANGED << calls, jobEvents >>
      BY <1>8, <2>4 DEF HandleJob
    <3>2. RowOf(deployments[e.build]).status = "undeploying" => e.build \in Doomed
      BY <1>4, <1>7, <2>1, RowOfType DEF TypeOK, ClusterTypeOK, Doomed
    <3>3. LookupDoomed'
      BY <1>2, <3>1, <3>2 DEF LookupDoomed
    <3> QED
      BY <1>2, <1>3, <2>2, <3>1, <3>3, Undisturbed DEF FateInv, Ages
  <2> QED
    BY <2>3, <2>4
<1>9. CASE HandleJobLookup
  <2> DEFINE e == Head(jobEvents)
  <2>1. lookup.busy /\ jobEvents # << >>
    BY <1>4, <1>9 DEF HandleJobLookup, LookupOfEvent
  <2>2. LookupDoomed'
    BY <1>9 DEF HandleJobLookup, LookupDoomed, NoLookup
  <2>3. CASE lookup.row.status = "absent"
    <3>1. << Purge(e.build) >> \in Seq(Benign)
      BY <1>7, <2>1, CallTypes
    <3>2. calls' = [calls EXCEPT ![JobWatcher] = << Purge(e.build) >>] /\ db' = db
      BY <1>9, <2>3 DEF HandleJobLookup
    <3>3. DbDoomed'
      BY <1>2, <3>2, Undisturbed DEF Ages
    <3> QED
      BY <1>3, <1>5, <2>2, <3>1, <3>2, <3>3 DEF FateInv
  <2>4. CASE lookup.row.status # "absent"
    <3>1. lookup.row \in Rows
      BY <1>4 DEF TypeOK, Lookups
    <3>2. OnJobEvent(e.build, lookup.row, e.kind, e.state) \in Seq(Benign)
      BY <1>7, <2>1, <3>1, OnJobEventType
    <3>3. /\ calls' = [calls EXCEPT ![JobWatcher] =
                         OnJobEvent(e.build, lookup.row, e.kind, e.state)]
          /\ DbAdd(e.build, lookup.row)
      BY <1>9, <2>4 DEF HandleJobLookup
    <3>4. lookup.row.status = "undeploying" => e.build \in Doomed
      BY <2>1 DEF CleanupInv, FateInv, LookupDoomed
    <3>5. DbDoomed'
      BY <1>2, <1>7, <2>1, <3>1, <3>3, <3>4, DbAddDoomed
    <3> QED
      BY <1>3, <1>5, <2>2, <3>2, <3>3, <3>5 DEF FateInv
  <2> QED
    BY <2>3, <2>4
<1> QED
  BY <1>6, <1>8, <1>9 DEF JobWatch

LEMMA PassFate ==
  ASSUME CleanupInv, NEW t \in Tasks, Pass(t)
  PROVE  FateInv'
<1>1. UNCHANGED << deployments, jobs, jobWatch, jobEvents, deplEvents, db, calls, lookup >>
  BY DEF Pass, clusterVars
<1>2. Ages /\ JobEventsGrow /\ Doomed' = Doomed
  BY <1>1, SameDeployments, SameJobEvents DEF Doomed
<1>3. DbDoomed' /\ EventsDoomed' /\ LookupDoomed' /\ CallsDoomed' /\ JobsDoomed' /\ DeploysUnborn'
  BY <1>1, <1>2, Undisturbed DEF Ages
<1>4. TodoDoomed'
  <2> DEFINE list(q) == [i \in 1 .. Len(q) |-> [build |-> q[i], row |-> db[q[i]]]]
  <2>1. PICK q \in Selections(t) : todo' = [todo EXCEPT ![t] = list(q)]
    BY DEF Pass
  <2>2. db \in Tables /\ todo \in [Tasks -> Seq(Snapshots)] /\ TodoDoomed /\ DbDoomed
    BY DEF CleanupInv, TypeInv, TypeOK, FateInv
  <2>3. q \in Seq(Builds) /\ (t = "cleaner" => q \in Seq(WithStatus(db, {"undeploying"})))
    BY <2>1, <2>2, SelectionsType
  <2>4. Len(q) \in Nat /\ Len(list(q)) = Len(q)
    BY <2>3
  <2>5. ASSUME t = "cleaner", NEW i \in 1 .. Len(q)
        PROVE  q[i] \in Doomed
    <3>1. q[i] \in WithStatus(db, {"undeploying"})
      BY <2>3, <2>5
    <3> QED
      BY <2>2, <3>1 DEF WithStatus, DbDoomed
  <2>6. ASSUME NEW u \in Tasks, u = "cleaner", NEW i \in 1 .. Len(todo'[u])
        PROVE  todo'[u][i].build \in Doomed'
    <3>1. CASE u = t
      <4>1. todo'[u] = list(q)
        BY <2>1, <2>2, <3>1
      <4>2. i \in 1 .. Len(q)
        BY <2>4, <2>6, <4>1
      <4> QED
        BY <1>2, <2>5, <2>6, <3>1, <4>1, <4>2
    <3>2. CASE u # t
      <4>1. todo'[u] = todo[u]
        BY <2>1, <2>2, <3>2
      <4> QED
        BY <1>2, <2>2, <2>6, <4>1 DEF TodoDoomed
    <3> QED
      BY <3>1, <3>2
  <2> QED
    BY <2>6 DEF TodoDoomed
<1> QED
  BY <1>3, <1>4 DEF FateInv

LEMMA NextBuildFate ==
  ASSUME CleanupInv, NEW t \in Tasks, NextBuild(t)
  PROVE  FateInv'
<1> DEFINE s == Head(todo[t])
           list == MethodOf(t, s.build, s.row)
<1>1. /\ UNCHANGED << deployments, jobs, jobWatch, jobEvents, deplEvents, db, lookup >>
      /\ calls' = [calls EXCEPT ![t] = list]
      /\ todo' = [todo EXCEPT ![t] = Tail(todo[t])]
      /\ todo[t] # << >>
  BY DEF NextBuild, clusterVars
<1>2. Ages /\ JobEventsGrow /\ Doomed' = Doomed /\ Unborn' = Unborn
  BY <1>1, SameDeployments, SameJobEvents DEF Doomed, Unborn
<1>3. DbDoomed' /\ EventsDoomed' /\ LookupDoomed' /\ JobsDoomed'
  BY <1>1, <1>2, Undisturbed DEF Ages
<1>4. todo \in [Tasks -> Seq(Snapshots)] /\ TodoDoomed /\ t \in Actors
  BY ActorSets DEF CleanupInv, TypeInv, TypeOK, FateInv
<1>5. s \in Snapshots /\ s = todo[t][1] /\ 1 \in 1 .. Len(todo[t])
  BY <1>1, <1>4
<1>6. s.build \in Builds /\ s.row \in Rows
  BY <1>5 DEF Snapshots
<1>7. TodoDoomed'
  <2>1. ASSUME NEW u \in Tasks, u = "cleaner", NEW i \in 1 .. Len(todo'[u])
        PROVE  todo'[u][i].build \in Doomed
    <3>1. CASE u = t
      <4>1. todo'[u] = Tail(todo[t]) /\ todo[t] \in Seq(Snapshots)
        BY <1>1, <1>4, <3>1
      <4>2. i \in 1 .. Len(Tail(todo[t]))
        BY <2>1, <4>1
      <4>3. i + 1 \in 1 .. Len(todo[t]) /\ todo'[u][i] = todo[t][i + 1]
        BY <1>1, <4>1, <4>2, TailItems
      <4> QED
        BY <1>4, <2>1, <3>1, <4>3 DEF TodoDoomed
    <3>2. CASE u # t
      <4>1. todo'[u] = todo[u]
        BY <1>1, <1>4, <3>2
      <4> QED
        BY <1>4, <2>1, <4>1 DEF TodoDoomed
    <3> QED
      BY <3>1, <3>2
  <2> QED
    BY <1>2, <2>1 DEF TodoDoomed
<1>8. CallsDoomed' /\ DeploysUnborn'
  <2>1. CASE t # "cleaner"
    <3>1. list \in Seq(Benign)
      BY <1>6, <2>1, MethodOfType
    <3> QED
      BY <1>1, <1>2, <1>4, <3>1, BenignCalls DEF Ages
  <2>2. CASE t = "cleaner"
    <3>1. list \in Seq(Cleaning(s.build)) /\ list \in Seq(Calls)
      BY <1>6, <2>2, MethodOfType, CleanupType
    <3>2. s.build \in Doomed
      BY <1>4, <1>5, <2>2 DEF TodoDoomed
    <3>3. \A i \in 1 .. Len(list) : list[i] \in Cleaning(s.build)
      BY <3>1
    <3>4. \A i \in 1 .. Len(list) : /\ IsCleanup(list[i]) => list[i].build \in Doomed'
                                    /\ ~IsDeploy(list[i])
      BY <1>2, <3>2, <3>3 DEF Cleaning, Benign, Apply, IsCleanup, IsDeploy
    <3>5. CallsDoomed'
      BY <1>1, <1>2, <1>4, <3>1, <3>4, NewCalls DEF Ages
    <3>6. \A o \in Actors \ {t} : \A j \in 1 .. Len(calls[o]) :
            IsDeploy(calls[o][j]) => calls[o][j].build \in Unborn'
      BY <1>2 DEF CleanupInv, FateInv, DeploysUnborn
    <3>7. DeploysUnborn'
      BY <1>1, <1>4, <3>1, <3>4, <3>6, NoNewDeploy
    <3> QED
      BY <3>5, <3>7
  <2> QED
    BY <2>1, <2>2
<1> QED
  BY <1>3, <1>7, <1>8 DEF FateInv

\* An actor whose method ends, by a call that raises, has no calls left.
LEMMA AbortFate ==
  ASSUME CleanupInv, NEW a \in Actors, Abort(a),
         UNCHANGED << deployments, jobs, deplEvents, db, lookup >>,
         a = JobWatcher => ~lookup.busy
  PROVE  FateInv'
<1>1. Ages /\ Doomed' = Doomed
  BY SameDeployments DEF Doomed
<1>2. DbDoomed' /\ EventsDoomed' /\ JobsDoomed'
  BY <1>1, Undisturbed DEF Ages
<1>3. LookupDoomed'
  <2>1. CASE a = JobWatcher
    BY <2>1 DEF LookupDoomed
  <2>2. CASE a # JobWatcher
    BY <1>1, <2>2, Undisturbed, SameJobEvents DEF Abort, Ages
  <2> QED
    BY <2>1, <2>2
<1>4. TodoDoomed'
  <2>1. todo \in [Tasks -> Seq(Snapshots)] /\ TodoDoomed
    BY DEF CleanupInv, TypeInv, TypeOK, FateInv
  <2>2. \A t \in Tasks : todo'[t] = todo[t] \/ todo'[t] = << >>
    BY <2>1 DEF Abort
  <2> QED
    BY <1>1, <2>1, <2>2 DEF TodoDoomed
<1>5. CallsDoomed' /\ DeploysUnborn'
  <2>1. << >> \in Seq(Benign) /\ calls' = [calls EXCEPT ![a] = << >>]
    BY DEF Abort
  <2> QED
    BY <1>1, <2>1, BenignCalls DEF Ages
<1> QED
  BY <1>2, <1>3, <1>4, <1>5 DEF FateInv

\* The event of a change is about the deployment as it is after the change.
LEMMA FreshEvents ==
  ASSUME CleanupInv, ClusterTypeOK', Doomed \subseteq Doomed', Fresh
  PROVE  EventsDoomed'
<1>1. CASE deplEvents' = deplEvents
  BY <1>1, Undisturbed
<1>2. ASSUME NEW b \in Builds,
             deplEvents' = Append(deplEvents, [build |-> b, row |-> RowOf(deployments'[b])])
      PROVE  EventsDoomed'
  <2> DEFINE e == [build |-> b, row |-> RowOf(deployments'[b])]
  <2>1. deployments'[b] \in Deployments
    BY DEF ClusterTypeOK
  <2>2. e.row.status = "undeploying" => e.build \in Doomed'
    BY <2>1, RowOfType DEF Doomed
  <2>3. deplEvents \in Seq(DeplEvents) /\ EventsDoomed
    BY DEF CleanupInv, TypeInv, TypeOK, ClusterTypeOK, FateInv
  <2>4. Len(deplEvents') = Len(deplEvents) + 1
    BY <1>2, <2>3
  <2>5. \A i \in 1 .. Len(deplEvents') :
          \/ deplEvents'[i] = e
          \/ i \in 1 .. Len(deplEvents) /\ deplEvents'[i] = deplEvents[i]
    BY <1>2, <2>3
  <2> QED
    BY <2>2, <2>3, <2>5 DEF EventsDoomed
<1> QED
  BY <1>1, <1>2 DEF Fresh

LEMMA CallFate ==
  ASSUME CleanupInv, NEW a \in Actors, Call(a)
  PROVE  FateInv'
<1> DEFINE c == Head(calls[a])
<1>1. /\ calls[a] \in Seq(Calls) /\ calls[a] # << >>
      /\ ClusterTypeOK /\ LookupOfEvent /\ FateInv
      /\ db' = db /\ lookup' = lookup
  BY DEF CleanupInv, TypeInv, TypeOK, Call
<1>2. /\ c \in Calls /\ c = calls[a][1] /\ 1 \in 1 .. Len(calls[a])
      /\ Tail(calls[a]) \in Seq(Calls)
  BY <1>1
<1>3. CASE Abort(a) /\ UNCHANGED << cluster, deplWatch, deplEvents, now >>
  <2>1. a = JobWatcher => ~lookup.busy
    BY <1>1 DEF LookupOfEvent
  <2> QED
    BY <1>1, <1>3, <2>1, AbortFate DEF cluster
<1>4. ASSUME ~Raises(c), Perform(c), calls' = [calls EXCEPT ![a] = Tail(@)], todo' = todo
      PROVE  FateInv'
  <2>1. calls' = [calls EXCEPT ![a] = Tail(calls[a])]
    BY <1>4
  <2>2. IsDeploy(c) => /\ c.build \in Unborn
                       /\ \A o \in Actors \ {a} : \A j \in 1 .. Len(calls[o]) :
                            IsDeploy(calls[o][j]) => calls[o][j].build # c.build
    BY <1>1, <1>2 DEF FateInv, DeploysUnborn
  <2>3. /\ Doomed \subseteq Doomed' /\ Fresh
        /\ ~IsDeploy(c) => Unborn \subseteq Unborn'
        /\ IsDeploy(c) => Unborn \ {c.build} \subseteq Unborn'
    <3>1. CASE IsDeploy(c)
      BY <1>1, <1>2, <1>4, <2>2, <3>1, PerformDeploy
    <3>2. CASE ~IsDeploy(c)
      BY <1>1, <1>2, <1>4, <3>2, PerformAges DEF Ages
    <3> QED
      BY <3>1, <3>2
  <2>4. DbDoomed' /\ TodoDoomed' /\ LookupDoomed'
    BY <1>1, <1>4, <2>3, Undisturbed, PerformGrows
  <2>5. EventsDoomed'
    BY <1>1, <1>2, <1>4, <2>3, PerformType, FreshEvents
  <2>6. \A i \in 1 .. Len(Tail(calls[a])) :
          i + 1 \in 1 .. Len(calls[a]) /\ Tail(calls[a])[i] = calls[a][i + 1]
    BY <1>1, TailItems
  <2>7. CallsDoomed'
    <3>1. \A i \in 1 .. Len(Tail(calls[a])) :
            IsCleanup(Tail(calls[a])[i]) => Tail(calls[a])[i].build \in Doomed'
      BY <1>1, <2>3, <2>6 DEF FateInv, CallsDoomed
    <3> QED
      BY <1>2, <2>1, <2>3, <3>1, NewCalls
  <2>8. DeploysUnborn'
    <3>1. \A i \in 1 .. Len(Tail(calls[a])) : ~IsDeploy(Tail(calls[a])[i])
      <4>1. \A i \in 1 .. Len(Tail(calls[a])) : i \in Nat /\ i + 1 # 1
        OBVIOUS
      <4> QED
        BY <1>1, <2>6, <4>1 DEF FateInv, DeploysUnborn
    <3>2. \A o \in Actors \ {a} : \A j \in 1 .. Len(calls[o]) :
            IsDeploy(calls[o][j]) => calls[o][j].build \in Unborn
      BY <1>1 DEF FateInv, DeploysUnborn
    <3>3. \A o \in Actors \ {a} : \A j \in 1 .. Len(calls[o]) :
            IsDeploy(calls[o][j]) => calls[o][j].build \in Unborn'
      BY <2>2, <2>3, <3>2
    <3> QED
      BY <1>2, <2>1, <3>1, <3>3, NoNewDeploy
  <2>9. JobsDoomed'
    <3>1. ASSUME NEW b \in Builds, jobs'[b]["cleanup"] # "none"
          PROVE  b \in Doomed
      <4>1. CASE jobs[b]["cleanup"] = "none"
        <5>1. IsCleanup(c) /\ c.build = b
          BY <1>1, <1>2, <1>4, <3>1, <4>1, PerformJobs
        <5> QED
          BY <1>1, <1>2, <5>1 DEF FateInv, CallsDoomed
      <4>2. CASE jobs[b]["cleanup"] # "none"
        BY <1>1, <4>2 DEF FateInv, JobsDoomed
      <4> QED
        BY <4>1, <4>2
    <3> QED
      BY <2>3, <3>1 DEF JobsDoomed
  <2> QED
    BY <2>4, <2>5, <2>7, <2>8, <2>9 DEF FateInv
<1> QED
  BY <1>3, <1>4 DEF Call

\* What a request leaves alone.
LEMMA RequestKeeps ==
  ASSUME CleanupInv, NEW c \in Clients, NEW op, NEW list, Request(c, op, list)
  PROVE  /\ Doomed' = Doomed /\ Unborn' = Unborn /\ c \in Actors
         /\ calls' = [calls EXCEPT ![c] = list]
         /\ DbDoomed' /\ EventsDoomed' /\ LookupDoomed' /\ TodoDoomed' /\ JobsDoomed'
<1>1. UNCHANGED << deployments, jobs, jobWatch, jobEvents, deplEvents, db, todo, lookup >>
  BY DEF Request, clusterVars
<1>2. Ages /\ JobEventsGrow /\ Doomed' = Doomed /\ Unborn' = Unborn
  BY <1>1, SameDeployments, SameJobEvents DEF Doomed, Unborn
<1>3. DbDoomed' /\ EventsDoomed' /\ LookupDoomed' /\ TodoDoomed' /\ JobsDoomed'
  BY <1>1, <1>2, Undisturbed DEF Ages
<1> QED
  BY <1>2, <1>3, ActorSets DEF Request

LEMMA DeployCommitFate ==
  ASSUME CleanupInv, NEW c \in Clients, NEW b \in Builds, DeployCommit(c, b)
  PROVE  FateInv'
<1> DEFINE list == DeployBuild(b)
<1>1. /\ list \in Seq(Calls) /\ Len(list) = 2
      /\ list[1] = Apply(b, "deployment") /\ list[2] = Notify(b, "pending")
  BY DeployBuildType
<1>2. /\ Doomed' = Doomed /\ Unborn' = Unborn /\ c \in Actors
      /\ calls' = [calls EXCEPT ![c] = list]
      /\ DbDoomed' /\ EventsDoomed' /\ LookupDoomed' /\ TodoDoomed' /\ JobsDoomed'
  BY RequestKeeps DEF DeployCommit
<1>3. b \in Unborn /\ \A a \in Actors : \A i \in 1 .. Len(calls[a]) : calls[a][i].build # b
  BY DEF DeployCommit, Unborn
<1>4. calls \in [Actors -> Seq(Calls)] /\ DeploysUnborn
  BY DEF CleanupInv, TypeInv, TypeOK, FateInv
<1>5. \A i \in 1 .. Len(list) : /\ ~IsCleanup(list[i])
                                /\ IsDeploy(list[i]) => i = 1
                                /\ list[i].build = b
  BY <1>1 DEF IsCleanup, IsDeploy, Apply, Notify
<1>6. CallsDoomed'
  BY <1>1, <1>2, <1>5, NewCalls
<1>7. calls'[c] = list /\ \A a \in Actors \ {c} : calls'[a] = calls[a]
  BY <1>2, <1>4
<1>8. DeploysUnborn'
  <2>1. ASSUME NEW a \in Actors, NEW i \in 1 .. Len(calls'[a]), IsDeploy(calls'[a][i])
        PROVE  i = 1 /\ calls'[a][i].build \in Unborn'
    <3>1. CASE a = c
      BY <1>2, <1>3, <1>5, <1>7, <2>1, <3>1
    <3>2. CASE a # c
      BY <1>2, <1>4, <1>7, <2>1, <3>2 DEF DeploysUnborn
    <3> QED
      BY <3>1, <3>2
  <2>2. ASSUME NEW a \in Actors, NEW i \in 1 .. Len(calls'[a]), IsDeploy(calls'[a][i]),
               NEW o \in Actors \ {a}, NEW j \in 1 .. Len(calls'[o]), IsDeploy(calls'[o][j])
        PROVE  calls'[o][j].build # calls'[a][i].build
    <3>1. CASE a = c
      BY <1>3, <1>5, <1>7, <2>2, <3>1
    <3>2. CASE o = c
      BY <1>3, <1>5, <1>7, <2>2, <3>2
    <3>3. CASE a # c /\ o # c
      <4>1. calls'[a] = calls[a] /\ calls'[o] = calls[o]
        BY <1>7, <3>3
      <4> QED
        BY <1>4, <2>2, <4>1 DEF DeploysUnborn
    <3> QED
      BY <3>1, <3>2, <3>3
  <2> QED
    BY <2>1, <2>2 DEF DeploysUnborn
<1> QED
  BY <1>2, <1>6, <1>8 DEF FateInv

LEMMA ClientRequestFate ==
  ASSUME CleanupInv, NEW c \in Clients, ClientRequest(c)
  PROVE  FateInv'
<1>1. ASSUME NEW op, NEW list \in Seq(Benign), Request(c, op, list)
      PROVE  FateInv'
  <2>1. /\ Doomed' = Doomed /\ Unborn' = Unborn /\ c \in Actors
        /\ calls' = [calls EXCEPT ![c] = list]
        /\ DbDoomed' /\ EventsDoomed' /\ LookupDoomed' /\ TodoDoomed' /\ JobsDoomed'
    BY <1>1, RequestKeeps
  <2> QED
    BY <1>1, <2>1, BenignCalls DEF FateInv
<1>2. \A b \in Builds : db[b] \in Rows
  BY DbType DEF CleanupInv, TypeInv
<1>3. ASSUME NEW b \in Builds, StartBuild(c, b) \/ StopBuild(c, b) \/ UndeployBuild(c, b)
      PROVE  FateInv'
  BY <1>1, <1>2, <1>3, BenignMethods DEF StartBuild, StopBuild, UndeployBuild
<1>4. ASSUME NEW b \in Builds, ResetBuild(c, b)
      PROVE  FALSE
  BY <1>4 DEF ResetBuild, Request, CleanupInv
<1>5. ASSUME NEW pr, UndeployBuilds(c, pr)
      PROVE  FateInv'
  BY <1>1, <1>5, SearchPrType DEF UndeployBuilds
<1> QED
  BY <1>3, <1>4, <1>5, DeployCommitFate DEF ClientRequest

LEMMA EnvironmentFate ==
  ASSUME CleanupInv, Environment, UNCHANGED << controller, requests, faults >>
  PROVE  FateInv'
<1>1. ClusterTypeOK /\ JobsDoomed /\ UNCHANGED << db, todo, calls, lookup >>
  BY DEF CleanupInv, TypeInv, TypeOK, FateInv, controller
<1>2. /\ Ages /\ Fresh
      /\ \A b \in Builds : jobs'[b]["cleanup"] # "none" => jobs[b]["cleanup"] # "none"
  BY <1>1, EnvironmentAges
<1>3. DbDoomed' /\ LookupDoomed' /\ TodoDoomed' /\ CallsDoomed' /\ DeploysUnborn'
  BY <1>1, <1>2, EnvironmentGrows, Undisturbed DEF Ages
<1>4. EventsDoomed'
  BY <1>1, <1>2, EnvironmentType, FreshEvents DEF Ages
<1>5. JobsDoomed'
  BY <1>1, <1>2 DEF JobsDoomed, Ages
<1> QED
  BY <1>3, <1>4, <1>5 DEF FateInv

LEMMA FaultsFate ==
  ASSUME CleanupInv, Faults
  PROVE  FateInv'
<1>1. ASSUME NEW a \in Actors, CallFails(a)
      PROVE  FateInv'
  <2>1. a = JobWatcher => ~lookup.busy
    BY <1>1 DEF CallFails, CleanupInv, TypeInv, LookupOfEvent
  <2> QED
    BY <1>1, <2>1, AbortFate DEF CallFails, cluster
<1>2. CASE DeploymentWatchBreaks
  <2>1. UNCHANGED << deployments, jobs, jobWatch, jobEvents, db, todo, calls, lookup >>
    BY <1>2 DEF DeploymentWatchBreaks, cluster, controller
  <2>2. Ages /\ JobEventsGrow
    BY <2>1, SameDeployments, SameJobEvents
  <2>3. EventsDoomed'
    BY <1>2 DEF DeploymentWatchBreaks, EventsDoomed
  <2> QED
    BY <2>1, <2>2, <2>3, Undisturbed DEF FateInv, Ages
<1>3. CASE JobWatchBreaks
  <2>1. UNCHANGED << deployments, jobs, deplEvents, db, todo, calls, lookup >> /\ ~lookup.busy
    BY <1>3 DEF JobWatchBreaks, JobWatcherIdle, cluster, controller
  <2>2. Ages
    BY <2>1, SameDeployments
  <2>3. LookupDoomed'
    BY <2>1 DEF LookupDoomed
  <2> QED
    BY <2>1, <2>2, <2>3, Undisturbed DEF FateInv, Ages
<1>4. CASE ControllerRestarts
  <2>1. deployments' = deployments /\ jobs' = jobs
    BY <1>4 DEF ControllerRestarts, cluster
  <2>2. JobsDoomed'
    BY <2>1, SameDeployments, Undisturbed DEF Ages
  <2>3. DbDoomed' /\ EventsDoomed' /\ LookupDoomed'
    BY <1>4 DEF ControllerRestarts, DbDoomed, EventsDoomed, LookupDoomed, EmptyTable, AbsentRow,
                NoLookup
  <2>4. TodoDoomed' /\ CallsDoomed' /\ DeploysUnborn'
    BY <1>4 DEF ControllerRestarts, TodoDoomed, CallsDoomed, DeploysUnborn
  <2> QED
    BY <2>2, <2>3, <2>4 DEF FateInv
<1> QED
  BY <1>1, <1>2, <1>3, <1>4 DEF Faults

LEMMA CleanupInit ==
  ASSUME Init, "reset" \notin ClientOps
  PROVE  CleanupInv
<1>1. TypeInv
  BY TypeInit DEF TypeInv, LookupOfEvent, Init, ClusterInit, ClusterBlank, ControllerBlank, NoLookup
<1>2. DbDoomed /\ EventsDoomed /\ LookupDoomed
  BY DEF Init, ClusterInit, ClusterBlank, ControllerBlank, DbDoomed, EventsDoomed, LookupDoomed,
         EmptyTable, AbsentRow, NoLookup
<1>3. TodoDoomed /\ CallsDoomed /\ DeploysUnborn
  BY DEF Init, ControllerBlank, TodoDoomed, CallsDoomed, DeploysUnborn
<1>4. JobsDoomed
  BY DEF Init, ClusterInit, ClusterBlank, JobsDoomed, JobKinds
<1> QED
  BY <1>1, <1>2, <1>3, <1>4 DEF CleanupInv, FateInv

LEMMA StartedTypeInv ==
  ASSUME StartedInit
  PROVE  TypeInv
<1>1. ClusterTypeOK
  BY DeploymentType, BlankStatuses DEF StartedInit, ClusterBlank, ClusterTypeOK, JobStates
<1>2. AbsentRow \in Rows
  BY DEF AbsentRow, Rows, BuildInitStatus
<1>3. db \in Tables /\ lookup \in Lookups
  BY <1>2 DEF StartedInit, ControllerBlank, EmptyTable, Tables, NoLookup, Lookups
<1>4. requests \in 0 .. MaxRequests /\ faults \in 0 .. MaxFaults
  BY BoundsAssumption DEF StartedInit, ControllerBlank
<1>5. todo \in [Tasks -> Seq(Snapshots)] /\ calls \in [Actors -> Seq(Calls)] /\ wake \subseteq Tasks
  BY DEF StartedInit, ControllerBlank
<1> QED
  BY <1>1, <1>3, <1>4, <1>5 DEF TypeInv, TypeOK, LookupOfEvent, StartedInit, ControllerBlank, NoLookup

LEMMA StartedCleanupInv ==
  ASSUME StartedInit, "reset" \notin ClientOps
  PROVE  CleanupInv
<1>1. DbDoomed /\ EventsDoomed /\ LookupDoomed
  BY DEF StartedInit, ClusterBlank, ControllerBlank, DbDoomed, EventsDoomed, LookupDoomed,
         EmptyTable, AbsentRow, NoLookup
<1>2. TodoDoomed /\ CallsDoomed /\ DeploysUnborn
  BY DEF StartedInit, ControllerBlank, TodoDoomed, CallsDoomed, DeploysUnborn
<1>3. JobsDoomed
  BY DEF StartedInit, ClusterBlank, JobsDoomed, JobKinds
<1> QED
  BY StartedTypeInv, <1>1, <1>2, <1>3, BoundsAssumption DEF CleanupInv, FateInv

LEMMA CleanupStep ==
  ASSUME CleanupInv, [Next]_vars
  PROVE  CleanupInv'
<1> SUFFICES FateInv'
  BY TypeStep DEF CleanupInv
<1>1. CASE DeploymentWatcher \/ JobWatch \/ Faults
  BY <1>1, DeploymentWatcherFate, JobWatchFate, FaultsFate
<1>2. ASSUME NEW t \in Tasks, Pass(t) \/ NextBuild(t)
      PROVE  FateInv'
  BY <1>2, PassFate, NextBuildFate
<1>3. ASSUME NEW a \in Actors, Call(a)
      PROVE  FateInv'
  BY <1>3, CallFate
<1>4. ASSUME NEW c \in Clients, ClientRequest(c)
      PROVE  FateInv'
  BY <1>4, ClientRequestFate
<1>5. CASE Environment /\ UNCHANGED << controller, requests, faults >>
  BY <1>5, EnvironmentFate
<1>6. CASE UNCHANGED vars
  <2>1. UNCHANGED << deployments, jobs, jobWatch, jobEvents, deplEvents, db, todo, calls, lookup >>
    BY <1>6 DEF vars, clusterVars
  <2>2. Ages /\ JobEventsGrow
    BY <2>1, SameDeployments, SameJobEvents
  <2> QED
    BY <2>1, <2>2, Undisturbed DEF FateInv, Ages
<1> QED
  BY <1>1, <1>2, <1>3, <1>4, <1>5, <1>6 DEF Next, Background, Wait

\* As long as no reset is asked for, no cleanup job exists for a live build,
\* through every interleaving of the tasks, the watches, the requests, the
\* faults and the restarts of the controller: Build.cleanup only ever runs on
\* a build whose deployment is being deleted or is gone.
THEOREM NeverCleanedUpAlive ==
  ASSUME "reset" \notin ClientOps
  PROVE  Spec => []NoLiveCleanup
<1>1. Init => CleanupInv
  BY CleanupInit
<1>2. CleanupInv /\ [Next]_vars => CleanupInv'
  BY CleanupStep
<1>3. CleanupInv => NoLiveCleanup
  BY DEF CleanupInv, FateInv, JobsDoomed, Doomed, NoLiveCleanup, Live
<1> QED
  BY <1>1, <1>2, <1>3, PTL DEF Spec
=============================================================================
