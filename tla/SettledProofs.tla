---------------------------- MODULE SettledProofs ---------------------------
(***************************************************************************)
(* What the tasks have done when the system has settled, without resets    *)
(* and faults: a call may still raise by itself.                           *)
(*                                                                         *)
(* A task selects from the table, works through its list while the world   *)
(* goes on, and may lose the rest of the list to a call that raises.       *)
(* Nothing is forgotten, because whatever makes its list untrue wakes it   *)
(* up again.  The invariant says of each task that it is awake, or will be *)
(* by an event that is queued, or else that its list and its pending calls *)
(* are what it would decide from the table as it is now.                   *)
(***************************************************************************)
EXTENDS MirrorProofs

\* An event that will change the table, and so wake up the tasks.
News(e) ==
  IF e.row.status = "absent" THEN db[e.build] # AbsentRow ELSE ~SameBuild(db[e.build], e.row)

Restless == \E i \in 1 .. Len(deplEvents) : News(deplEvents[i])
Awake(t) == t \in wake \/ Restless

SureInv == MirrorInv /\ FaultKinds = {}

\* While nothing is about to change in the table, it is the image of the
\* deployments.
LEMMA CalmRows ==
  ASSUME MirrorInv, ~Restless, deplWatch = "up", NEW b \in Builds
  PROVE  SameBuild(db[b], RowOf(deployments[b]))
<1>1. Mirrored(b) /\ db[b] \in Rows /\ RowOf(deployments[b]) \in Rows
  BY MirrorParts, RowOfType DEF MirrorInv
<1>2. CASE \E i \in 1 .. Len(deplEvents) : deplEvents[i] = [build |-> b, row |-> RowOf(deployments[b])]
  <2>1. PICK i \in 1 .. Len(deplEvents) : deplEvents[i] = [build |-> b, row |-> RowOf(deployments[b])]
    BY <1>2
  <2>2. ~News(deplEvents[i])
    BY DEF Restless
  <2>3. CASE RowOf(deployments[b]).status = "absent"
    <3>1. db[b] = AbsentRow
      BY <2>1, <2>2, <2>3 DEF News
    <3>2. ~Present(deployments[b])
      BY <2>3, MirrorParts DEF RowOf, StatusFromDeployment, Present, Deployments, BuildInitStatus
    <3> QED
      BY <3>1, <3>2 DEF RowOf, SameBuild
  <2> QED
    BY <2>1, <2>2, <2>3 DEF News
<1>3. CASE db[b] = RowOf(deployments[b])
  BY <1>3 DEF SameBuild
<1> QED
  BY <1>1, <1>2, <1>3 DEF Mirrored

LEMMA CalmImage ==
  MirrorInv /\ ~Restless /\ deplWatch = "up" =>
    \A b \in Builds : SameBuild(db[b], RowOf(deployments[b]))
BY CalmRows

LEMMA NextCalmImage ==
  (MirrorInv /\ ~Restless /\ deplWatch = "up" =>
    \A b \in Builds : SameBuild(db[b], RowOf(deployments[b])))'
BY CalmImage, PTL

LEMMA NextCalmRows ==
  ASSUME MirrorInv', deplWatch' = "up", NEW b \in Builds, ~SameBuild(db'[b], RowOf(deployments'[b]))
  PROVE  Restless'
BY NextCalmImage

\* A call, or the environment, leaves the events that are queued.
LEMMA ToldRestless ==
  ASSUME MirrorInv, Told, db' = db, Restless
  PROVE  Restless'
<1>1. deplEvents \in Seq(TimelyEvents) /\ Len(deplEvents) \in Nat
  BY MirrorParts
<1>2. PICK i \in 1 .. Len(deplEvents) : News(deplEvents[i])
  BY DEF Restless
<1>3. i \in 1 .. Len(deplEvents') /\ deplEvents'[i] = deplEvents[i]
  <2>1. ASSUME NEW e, deplEvents' = Append(deplEvents, e)
        PROVE  i \in 1 .. Len(deplEvents') /\ deplEvents'[i] = deplEvents[i]
    <3>1. deplEvents \in Seq(TimelyEvents \union {e})
      BY <1>1, SeqMono
    <3> QED
      BY <1>1, <2>1, <3>1
  <2> QED
    BY <2>1 DEF Told
<1>4. ASSUME NEW e, e = deplEvents[i]
      PROVE  IF e.row.status = "absent" THEN db'[e.build] # AbsentRow ELSE ~SameBuild(db'[e.build], e.row)
  BY <1>2, <1>4 DEF News
<1>5. News(deplEvents[i])'
  BY <1>3, <1>4 DEF News
<1> QED
  BY <1>3, <1>5 DEF Restless

LEMMA HandleRestless ==
  ASSUME MirrorInv, HandleDeployment
  PROVE  wake' = Tasks \/ (db' = db /\ wake' = wake /\ (Restless => Restless'))
<1> DEFINE e == Head(deplEvents)
<1>1. /\ deplEvents # << >> /\ deplEvents' = Tail(deplEvents) /\ db \in [Builds -> Rows]
      /\ deplEvents \in Seq(TimelyEvents) /\ Len(deplEvents) \in Nat
  BY MirrorParts DEF HandleDeployment
<1>2. e = deplEvents[1] /\ e.build \in Builds
  BY HandledRow
<1>3. CASE News(e)
  <2>1. wake' = Tasks
    BY <1>3 DEF News, HandleDeployment, DbRemove, DbAdd, OnBuildEvent
  <2> QED
    BY <2>1
<1>4. CASE ~News(e)
  <2>1. db' = db /\ wake' = wake
    <3>1. CASE e.row.status = "absent"
      <4>1. db' = [db EXCEPT ![e.build] = AbsentRow] /\ wake' = wake /\ db[e.build] = AbsentRow
        BY <1>4, <3>1 DEF News, HandleDeployment, DbRemove, Drop
      <4> QED
        BY <1>1, <4>1
    <3>2. CASE e.row.status # "absent"
      BY <1>4, <3>2 DEF News, HandleDeployment, DbAdd, Put
    <3> QED
      BY <3>1, <3>2
  <2>2. ASSUME Restless
        PROVE  Restless'
    <3>1. PICK i \in 1 .. Len(deplEvents) : News(deplEvents[i])
      BY <2>2 DEF Restless
    <3>2. i # 1
      BY <1>2, <1>4, <3>1
    <3>3. i - 1 \in 1 .. Len(deplEvents') /\ deplEvents'[i - 1] = deplEvents[i]
      BY <1>1, <3>2
    <3>4. News(deplEvents[i - 1])'
      BY <2>1, <3>1, <3>3 DEF News
    <3> QED
      BY <3>3, <3>4 DEF Restless
  <2> QED
    BY <2>1, <2>2
<1> QED
  BY <1>3, <1>4

\* A step wakes up every task, or leaves the table, what is queued and the
\* wakeups as they are, but for the wakeup of the task that begins a pass.
LEMMA NewsWakes ==
  ASSUME SureInv, [Next]_vars
  PROVE  \/ wake' = Tasks
         \/ /\ db' = db
            /\ Restless => Restless'
            /\ \A t \in wake : t \in wake' \/ Pass(t)
<1>1. MirrorInv /\ LifeInv /\ FaultKinds = {} /\ NotLoaded /\ wake \subseteq Tasks
  BY MirrorParts DEF SureInv, TypeOK
<1>2. ASSUME UNCHANGED << deplEvents, db >>
      PROVE  Restless => Restless'
  BY <1>2 DEF Restless, News
<1>3. CASE StartDeploymentWatch \/ ListDeployments
  <2>1. /\ deplWatch # "up" /\ wake' = wake
        /\ db' = db \/ db' = EmptyTable
    BY <1>3 DEF StartDeploymentWatch, ListDeployments, controller
  <2>2. deplEvents = << >> /\ db = EmptyTable
    BY <1>1, <2>1 DEF NotLoaded
  <2>3. ~Restless
    BY <2>2 DEF Restless
  <2> QED
    BY <2>1, <2>2, <2>3
<1>4. CASE HandleDeployment
  BY <1>1, <1>4, HandleRestless
<1>5. CASE JobWatch
  <2>1. deplEvents' = deplEvents
    BY <1>5 DEF JobWatch, StartJobWatch, HandleJob, HandleJobLookup
  <2>2. lookup.busy => lookup.row.status = "absent"
    BY <1>1, MirrorParts DEF PlacesMet
  <2>3. db' = db /\ wake' = wake
    BY <1>5, <2>2 DEF JobWatch, StartJobWatch, HandleJob, HandleJobLookup, controller
  <2> QED
    BY <1>2, <2>1, <2>3
<1>6. ASSUME NEW t \in Tasks, Pass(t)
      PROVE  /\ db' = db
             /\ Restless => Restless'
             /\ \A k \in wake : k \in wake' \/ Pass(k)
  <2>1. UNCHANGED << deplEvents, db >> /\ wake' = wake \ {t}
    BY <1>6 DEF Pass, clusterVars
  <2> QED
    BY <1>2, <1>6, <2>1
<1>7. ASSUME NEW t \in Tasks, NextBuild(t)
      PROVE  UNCHANGED << deplEvents, db, wake >>
  BY <1>7 DEF NextBuild, clusterVars
<1>8. ASSUME NEW a \in Actors, Call(a)
      PROVE  db' = db /\ wake' = wake /\ (Restless => Restless')
  <2>1. db' = db /\ wake' = wake /\ calls[a] # << >>
    BY <1>8 DEF Call
  <2>2. CASE Perform(Head(calls[a]))
    BY <1>1, <2>1, <2>2, PerformTold, ToldRestless
  <2>3. CASE deplEvents' = deplEvents
    BY <1>2, <2>1, <2>3
  <2> QED
    BY <1>8, <2>1, <2>2, <2>3 DEF Call
<1>9. CASE Environment /\ UNCHANGED << controller, requests, faults >>
  <2>1. Told /\ db' = db /\ wake' = wake
    BY <1>1, <1>9, EnvironmentTold DEF controller
  <2> QED
    BY <1>1, <2>1, ToldRestless
<1>10. ~Faults
  BY <1>1 DEF Faults, CallFails, DeploymentWatchBreaks, JobWatchBreaks, ControllerRestarts, Fault
<1>11. ASSUME NEW c \in Clients, ClientRequest(c)
       PROVE  UNCHANGED << deplEvents, db, wake >>
  BY <1>11 DEF ClientRequest, DeployCommit, StartBuild, StopBuild, ResetBuild, UndeployBuild,
               UndeployBuilds, Request, clusterVars
<1>12. CASE UNCHANGED vars
  BY <1>2, <1>12 DEF vars, clusterVars
<1> QED
  BY <1>2, <1>3, <1>4, <1>5, <1>6, <1>7, <1>8, <1>9, <1>10, <1>11, <1>12
     DEF Next, Background, DeploymentWatcher, Wait

\* A task that is still asleep after a step has begun a pass in it, or was
\* asleep, and the table is as it was.
LEMMA StillAsleep ==
  ASSUME SureInv, [Next]_vars, NEW t \in Tasks, ~Awake(t)'
  PROVE  db' = db /\ ~Restless /\ ~Restless' /\ (Pass(t) \/ ~Awake(t))
<1>1. t \notin wake' /\ ~Restless'
  BY DEF Awake
<1> QED
  BY <1>1, NewsWakes DEF Awake

\* The members of a list of a query are in its set, and a list is empty only
\* when every list is.
LEMMA OldestFirstItems ==
  ASSUME NEW S \in SUBSET Builds, NEW time, NEW n \in Nat, NEW q \in Limit(OldestFirst(S, time), n)
  PROVE  /\ q \in Seq(S)
         /\ q = << >> => n = 0 \/ S = {}
<1>1. IsFiniteSet(S)
  BY FS_Subset, BuildsAssumption
<1>2. q \in Seq(S)
  BY <1>1, OldestFirstType, LimitType
<1>3. PICK p \in SetToSeqs(S) : q = SubSeq(p, 1, IF n < Len(p) THEN n ELSE Len(p))
  BY DEF Limit, OldestFirst
<1>4. p \in Seq(S) /\ Len(p) \in Nat /\ \A x \in S : \E i \in 1 .. Len(p) : p[i] = x
  BY <1>1, SetToSeqsType, Listed
<1>5. ASSUME q = << >>, n # 0
      PROVE  S = {}
  <2> DEFINE m == IF n < Len(p) THEN n ELSE Len(p)
  <2>1. m \in Nat /\ m <= Len(p) /\ Len(SubSeq(p, 1, m)) = m
    BY <1>4
  <2>2. Len(p) = 0
    BY <1>3, <1>4, <1>5, <2>1
  <2> QED
    BY <1>4, <2>2
<1> QED
  BY <1>2, <1>5

(***************************************************************************)
(* Steps: builds move, and an actor's list and calls are its own.          *)
(***************************************************************************)
LEMMA StepMoves ==
  ASSUME MirrorInv, [Next]_vars
  PROVE  Moves
<1>1. LifeInv
  BY MirrorParts
<1>2. CASE UNCHANGED << deployments, jobs, databases, github >>
  BY <1>1, <1>2, Stays
<1>3. ASSUME NEW a \in Actors, Call(a)
      PROVE  Moves
  BY <1>1, <1>2, <1>3, PerformMoves DEF Call, cluster
<1>4. CASE Environment
  BY <1>1, <1>4, EnvironmentMoves
<1>5. CASE DeploymentWatcher \/ JobWatch \/ Faults \/ Wait \/ UNCHANGED vars
  BY <1>2, <1>5
     DEF DeploymentWatcher, StartDeploymentWatch, ListDeployments, HandleDeployment, JobWatch,
         StartJobWatch, HandleJob, HandleJobLookup, Faults, CallFails, DeploymentWatchBreaks,
         JobWatchBreaks, ControllerRestarts, Wait, cluster, vars, clusterVars
<1>6. ASSUME NEW t \in Tasks, Pass(t) \/ NextBuild(t)
      PROVE  UNCHANGED << deployments, jobs, databases, github >>
  BY <1>6 DEF Pass, NextBuild, clusterVars
<1>7. ASSUME NEW c \in Clients, ClientRequest(c)
      PROVE  UNCHANGED << deployments, jobs, databases, github >>
  BY <1>1, <1>7, RequestCalls DEF clusterVars
<1> QED
  BY <1>2, <1>3, <1>4, <1>5, <1>6, <1>7 DEF Next, Background

LEMMA OwnSteps ==
  ASSUME SureInv, [Next]_vars, NEW a \in Actors
  PROVE  /\ \/ calls'[a] = calls[a]
            \/ Call(a)
            \/ a \in Tasks /\ NextBuild(a)
            \/ a = JobWatcher /\ JobWatch
            \/ a \in Clients /\ ClientRequest(a)
         /\ a \in Tasks => todo'[a] = todo[a] \/ Pass(a) \/ NextBuild(a) \/ Call(a)
<1> DEFINE Own == \/ Call(a)
                  \/ a \in Tasks /\ NextBuild(a)
                  \/ a = JobWatcher /\ JobWatch
                  \/ a \in Clients /\ ClientRequest(a)
           Kept == calls'[a] = calls[a] /\ (a \in Tasks => todo'[a] = todo[a])
<1>1. LifeInv /\ FaultKinds = {} /\ todo \in [Tasks -> Seq(Selected)] /\ calls \in [Actors -> Seq(SoundCalls)]
  BY MirrorParts, InvParts DEF SureInv, PlacesSound
<1>2. ASSUME UNCHANGED << calls, todo >>
      PROVE  Kept
  BY <1>2
<1>3. ASSUME NEW x \in Actors, Call(x)
      PROVE  Own \/ Kept
  <2>1. CASE x = a
    BY <1>3, <2>1
  <2>2. CASE x # a
    BY <1>1, <1>3, <2>2 DEF Call, Abort
  <2> QED
    BY <2>1, <2>2
<1>4. ASSUME NEW t \in Tasks, Pass(t) \/ NextBuild(t)
      PROVE  Own \/ Kept \/ (a \in Tasks /\ Pass(a) /\ calls'[a] = calls[a])
  <2>1. CASE t = a
    BY <1>4, <2>1 DEF Pass
  <2>2. CASE t # a
    BY <1>1, <1>4, <2>2 DEF Pass, NextBuild
  <2> QED
    BY <2>1, <2>2
<1>5. ASSUME JobWatch
      PROVE  Own \/ Kept
  <2>1. todo' = todo /\ \A x \in Actors \ {JobWatcher} : calls'[x] = calls[x]
    BY <1>1, <1>5 DEF JobWatch, StartJobWatch, HandleJob, HandleJobLookup, controller
  <2> QED
    BY <1>5, <2>1
<1>6. ASSUME NEW c \in Clients, ClientRequest(c)
      PROVE  Own \/ Kept
  <2>1. todo' = todo /\ \A x \in Actors \ {c} : calls'[x] = calls[x]
    BY <1>1, <1>6, RequestCalls
  <2> QED
    BY <1>6, <2>1
<1>7. ASSUME DeploymentWatcher \/ (Environment /\ UNCHANGED << controller, requests, faults >>)
               \/ Wait \/ UNCHANGED vars
      PROVE  Kept
  BY <1>2, <1>7 DEF DeploymentWatcher, StartDeploymentWatch, ListDeployments, HandleDeployment,
                    Wait, vars, controller
<1>8. ~Faults
  BY <1>1 DEF Faults, CallFails, DeploymentWatchBreaks, JobWatchBreaks, ControllerRestarts, Fault
<1>9. Kept \/ Own \/ (a \in Tasks /\ Pass(a) /\ calls'[a] = calls[a])
  <2> HIDE DEF Own, Kept
  <2> QED
    BY <1>2, <1>3, <1>4, <1>5, <1>6, <1>7, <1>8 DEF Next, Background
<1> QED
  BY <1>9, ActorSets

(***************************************************************************)
(* The initializer, the stopper and the undeployer.                        *)
(***************************************************************************)
Chosen(t) ==
  CASE t = "initializer" -> WithInitStatus(db, "todo")
    [] t = "stopper" -> WithStatus(db, {"started"})
    [] t = "undeployer" -> WithStatus(db, {"stopping", "stopped", "failed"})

Choosers == Tasks \ {"cleaner"}

\* The snapshots of a list that is as the table would have it now.
Current(t) == {s \in Snapshots : s.build \in Chosen(t) /\ s.row = db[s.build]}

Idle(t) == todo[t] = << >> /\ calls[t] = << >>

\* The initializer has launched a job that is not marked in the table yet.
Taken(t) ==
  t = "initializer" /\ \E b \in Chosen(t) : jobs[b]["initialize"] # "none" \/ b \in Doomed

AtWork(t) ==
  /\ todo[t] \in Seq(Current(t))
  /\ calls[t] = << >> \/ \E b \in Chosen(t) : calls[t] = MethodOf(t, b, db[b])
  /\ Idle(t) => Chosen(t) = {} \/ << >> \in Selections(t) \/ Taken(t)

Supported == \A b \in Builds : Info[b].branch \in SupportedBranches

LEMMA ChosenNames ==
  ASSUME db \in Tables, NEW t \in Choosers
  PROVE  /\ Chosen(t) \subseteq Names(db)
         /\ \A q \in Selections(t) : q \in Seq(Chosen(t))
<1>1. \A S \in SUBSET Builds : Cardinality(S) \in Nat
  BY FS_Subset, FS_CardinalityType, BuildsAssumption
<1>2. \A n \in Int : Max0(n) \in Nat
  BY DEF Max0
<1>3. \A statuses : WithStatus(db, statuses) \subseteq Builds
  BY DEF WithStatus
<1>4. \A init : WithInitStatus(db, init) \subseteq Builds
  BY DEF WithInitStatus, Names
<1>5. CASE t = "initializer"
  <2>1. CountByInitStatus(db, "started") \in Nat
    BY <1>1, <1>4 DEF CountByInitStatus
  <2>2. Max0(MaxInitializing - CountByInitStatus(db, "started")) \in Nat
    BY <1>2, <2>1, LimitsAssumption
  <2>3. \A q \in Selections(t) : q \in Seq(WithInitStatus(db, "todo"))
    BY <1>4, <1>5, <2>2, OldestFirstItems DEF Selections, ToInitialize
  <2> QED
    BY <1>5, <2>3 DEF Chosen, WithInitStatus
<1>6. CASE t = "stopper"
  <2>1. CountByStatus(db, "started") \in Nat
    BY <1>1, <1>3 DEF CountByStatus
  <2>2. Max0(CountByStatus(db, "started") - MaxStarted) \in Nat
    BY <1>2, <2>1, LimitsAssumption
  <2>3. \A q \in Selections(t) : q \in Seq(WithStatus(db, {"started"}))
    BY <1>3, <1>6, <2>2, OldestFirstItems DEF Selections, OldestStarted
  <2> QED
    BY <1>6, <2>3 DEF Chosen, WithStatus, Names
<1>7. CASE t = "undeployer"
  <2> DEFINE n == Max0(CountDeployed(db) - MaxDeployed)
             W == WithStatus(db, {"stopping", "stopped", "failed"})
             R(S) == {b \in W : b \notin S \/ Info[b].pr # NoPr}
  <2>1. CountDeployed(db) \in Nat
    BY <1>1 DEF CountDeployed, Names
  <2>2. n \in Nat
    BY <1>2, <2>1, LimitsAssumption
  <2>3. ASSUME NEW q \in Selections(t)
        PROVE  q \in Seq(W)
    <3>1. PICK S \in RowNumberOnes(db) : q \in Limit(OldestFirst(R(S), LastScaled(db)), n)
      BY <1>7 DEF Selections, OldestStopped
    <3>2. R(S) \subseteq W /\ R(S) \in SUBSET Builds
      BY <1>3
    <3>3. q \in Seq(R(S))
      BY <2>2, <3>1, <3>2, OldestFirstItems
    <3> QED
      BY <3>2, <3>3, SeqMono
  <2>4. Chosen(t) = W /\ W \subseteq Names(db)
    BY <1>7 DEF Chosen, WithStatus, Names
  <2> QED
    BY <2>3, <2>4
<1> QED
  BY <1>5, <1>6, <1>7, TasksAssumption DEF Choosers

\* A pass takes what the query returns, and sleeps over an empty list.
LEMMA PassAtWork ==
  ASSUME SureInv, NEW t \in Choosers, Pass(t)
  PROVE  AtWork(t)'
<1>1. db \in Tables /\ todo \in [Tasks -> Seq(MetSnapshots)] /\ t \in Tasks
  BY MirrorParts DEF SureInv, TypeOK, Choosers
<1>2. PICK q \in Selections(t) :
        todo' = [todo EXCEPT ![t] = [i \in 1 .. Len(q) |-> [build |-> q[i], row |-> db[q[i]]]]]
  BY DEF Pass
<1>3. db' = db /\ calls' = calls /\ calls[t] = << >>
  BY DEF Pass
<1>4. q \in Seq(Chosen(t)) /\ Chosen(t) \subseteq Builds
  BY <1>1, ChosenNames DEF Names
<1>5. \A b \in Chosen(t) : [build |-> b, row |-> db[b]] \in Current(t)
  BY <1>1, <1>4 DEF Current, Snapshots, Tables
<1>6. Len(q) \in Nat /\ \A i \in 1 .. Len(q) : q[i] \in Chosen(t)
  BY <1>4
<1> DEFINE list == [i \in 1 .. Len(q) |-> [build |-> q[i], row |-> db[q[i]]]]
<1>7. list \in Seq(Current(t)) /\ (list = << >> => q = << >>)
  <2>1. list \in Seq(Current(t)) /\ Len(list) = Len(q)
    BY <1>5, <1>6
  <2>2. Len(q) = 0 => q = << >>
    BY <1>4
  <2> HIDE DEF list
  <2> QED
    BY <2>1, <2>2
<1>8. todo'[t] = list
  BY <1>1, <1>2
<1> HIDE DEF list
<1>9. Chosen(t)' = Chosen(t) /\ Selections(t)' = Selections(t) /\ Current(t)' = Current(t)
  BY <1>3 DEF Chosen, Selections, Current
<1>10. Idle(t)' => << >> \in Selections(t)'
  BY <1>2, <1>7, <1>8, <1>9 DEF Idle
<1> QED
  BY <1>3, <1>7, <1>8, <1>9, <1>10 DEF AtWork

\* The methods are decided from the row of the table.
LEMMA NextBuildAtWork ==
  ASSUME SureInv, NEW t \in Choosers, AtWork(t), NextBuild(t)
  PROVE  AtWork(t)'
<1>1. t \in Tasks /\ t \in Actors /\ calls \in [Actors -> Seq(MetCalls)]
      /\ todo \in [Tasks -> Seq(MetSnapshots)]
  BY ActorSets, MirrorParts DEF SureInv, Choosers
<1>2. /\ todo[t] # << >> /\ todo'[t] = Tail(todo[t]) /\ db' = db
      /\ calls'[t] = MethodOf(t, Head(todo[t]).build, Head(todo[t]).row)
  BY <1>1 DEF NextBuild
<1>3. Head(todo[t]) \in Current(t) /\ Tail(todo[t]) \in Seq(Current(t))
  BY <1>2 DEF AtWork
<1>4. ASSUME NEW s \in Current(t), s = Head(todo[t])
      PROVE  s.build \in Chosen(t) /\ calls'[t] = MethodOf(t, s.build, db[s.build])
  BY <1>2, <1>4 DEF Current
<1>5. PICK b \in Chosen(t) : calls'[t] = MethodOf(t, b, db[b])
  BY <1>3, <1>4
<1>6. MethodOf(t, b, db[b]) # << >>
  <2>1. CASE t = "initializer"
    BY <2>1 DEF MethodOf, Initialize
  <2>2. CASE t = "stopper"
    <3>1. db[b].status = "started"
      BY <2>2 DEF Chosen, WithStatus
    <3>2. Len(Stop(b, db[b])) # 0
      BY <3>1 DEF Stop, Patch
    <3> QED
      BY <2>2, <3>2 DEF MethodOf
  <2>3. CASE t = "undeployer"
    BY <2>3 DEF MethodOf, Undeploy
  <2> QED
    BY <2>1, <2>2, <2>3, TasksAssumption DEF Choosers
<1>7. Chosen(t)' = Chosen(t) /\ Current(t)' = Current(t)
  BY <1>2 DEF Chosen, Current
<1> QED
  BY <1>2, <1>3, <1>5, <1>6, <1>7 DEF AtWork, Idle

\* The first call of a method does what the task is for: the initializer's
\* launches the job, that of the others changes the deployment, and so the
\* table, which wakes the task up.
LEMMA LaunchAtWork ==
  ASSUME SureInv, AtWork("initializer"), Call("initializer"), "initializer" \in Tasks, Supported
  PROVE  AtWork("initializer")'
<1> DEFINE t == "initializer"
<1>1. /\ t \in Actors /\ calls \in [Actors -> Seq(MetCalls)] /\ calls[t] # << >>
      /\ jobs \in [Builds -> [JobKinds -> JobStates]] /\ db' = db
  BY ActorSets, MirrorParts, InvParts DEF SureInv, Call
<1>2. PICK b \in Chosen(t) : calls[t] = << Apply(b, "initialize") >>
  BY <1>1 DEF AtWork, MethodOf, Initialize
<1>3. b \in Builds
  BY <1>2 DEF Chosen, WithInitStatus, Names
<1>4. Head(calls[t]) = Apply(b, "initialize") /\ Tail(calls[t]) = << >>
  BY <1>2
<1>5. ~Raises(Head(calls[t]))
  BY <1>3, <1>4 DEF Raises, Apply, Supported
<1>6. Perform(Head(calls[t])) /\ calls'[t] = << >> /\ todo' = todo
  BY <1>1, <1>4, <1>5 DEF Call
<1>7. ApplyJob(Apply(b, "initialize"))
  BY <1>4, <1>6 DEF Perform, ApplyDeployment, ApplyOthers, PatchDeployment, RemoveFinalizers,
                    DeleteDeployment, DeleteResources, KillJob, NotifyStatus, Apply, JobKinds
<1>8. jobs'[b]["initialize"] # "none"
  BY <1>1, <1>3, <1>7 DEF ApplyJob, SetJob, Apply, JobKinds
<1>9. Chosen(t)' = Chosen(t) /\ Current(t)' = Current(t)
  BY <1>1 DEF Chosen, Current
<1> QED
  BY <1>2, <1>6, <1>8, <1>9 DEF AtWork, Taken

LEMMA StopAtWork ==
  ASSUME SureInv, AtWork("stopper"), Call("stopper"), "stopper" \in Tasks, ~Restless
  PROVE  Restless'
<1> DEFINE t == "stopper"
<1>1. /\ t \in Actors /\ calls \in [Actors -> Seq(MetCalls)] /\ calls[t] # << >>
      /\ deployments \in [Builds -> Deployments] /\ db \in [Builds -> Rows] /\ db' = db
      /\ MirrorInv /\ NotLoaded
  BY ActorSets, MirrorParts DEF SureInv, Call
<1>2. PICK b \in Chosen(t) : calls[t] = Stop(b, db[b])
  BY <1>1 DEF AtWork, MethodOf
<1>3. b \in Builds /\ db[b].status = "started"
  BY <1>2 DEF Chosen, WithStatus
<1>4. deplWatch = "up"
  BY <1>1, <1>3 DEF NotLoaded, EmptyTable, AbsentRow
<1>5. SameBuild(db[b], RowOf(deployments[b]))
  BY <1>1, <1>3, <1>4, CalmRows
<1>6. Present(deployments[b]) /\ RowOf(deployments[b]).replicas = 1 /\ db[b].replicas = 1
  BY <1>1, <1>3, <1>5
     DEF SameBuild, RowOf, AbsentRow, StatusFromDeployment, Deployments, Present, BuildInitStatus
<1> DEFINE c == Head(calls[t])
<1>7. c.op = "patch" /\ c.build = b /\ c.replicas = 0
  <2> DEFINE p == [op |-> "patch", build |-> b,
                   init |-> IF "keep" = db[b].init THEN "keep" ELSE "keep", replicas |-> 0,
                   notFoundOk |-> FALSE]
  <2>1. Patch(b, db[b], "keep", 0, FALSE) = << p >>
    BY <1>6 DEF Patch, Keep
  <2>2. Stop(b, db[b]) = << p >> \o << Apply(b, "stop") >>
    BY <1>3, <2>1 DEF Stop
  <2>3. p.op = "patch" /\ p.build = b /\ p.replicas = 0
    OBVIOUS
  <2> HIDE DEF p
  <2>4. Head(<< p >> \o << Apply(b, "stop") >>) = p
    BY ConcatItems
  <2> QED
    BY <1>2, <2>2, <2>3, <2>4
<1> HIDE DEF c
<1>8. ~Raises(c)
  BY <1>6, <1>7 DEF Raises
<1>9. Perform(c)
  BY <1>8 DEF Call, c
<1>10. PatchDeployment(c)
  BY <1>7, <1>9 DEF Perform, ApplyDeployment, ApplyJob, ApplyOthers, RemoveFinalizers,
                    DeleteDeployment, DeleteResources, KillJob, NotifyStatus
<1>11. deployments'[b].replicas = 0 /\ Present(deployments'[b])
  <2>1. deployments' = [deployments EXCEPT ![b] =
          [deployments[b] EXCEPT !.init = IF c.init = "keep" THEN @ ELSE c.init,
                                 !.replicas = IF c.replicas = Keep THEN @ ELSE c.replicas,
                                 !.scaled = IF c.replicas = Keep THEN @ ELSE now]]
    BY <1>6, <1>7, <1>10 DEF PatchDeployment, SetDeployment
  <2> QED
    BY <1>1, <1>3, <1>6, <1>7, <2>1 DEF Keep, Deployments, Present
<1>12. MirrorInv' /\ deplWatch' = deplWatch
  BY <1>1, <1>9, ActorSets, MirrorStep DEF Next, Background, Perform
<1>13. ~SameBuild(db'[b], RowOf(deployments'[b]))
  BY <1>1, <1>6, <1>11 DEF SameBuild, RowOf
<1> QED
  BY <1>3, <1>4, <1>12, <1>13, NextCalmRows

LEMMA EvictAtWork ==
  ASSUME SureInv, AtWork("undeployer"), Call("undeployer"), "undeployer" \in Tasks, ~Restless
  PROVE  Restless'
<1> DEFINE t == "undeployer"
<1>1. /\ t \in Actors /\ calls \in [Actors -> Seq(MetCalls)] /\ calls[t] # << >>
      /\ deployments \in [Builds -> Deployments] /\ db \in [Builds -> Rows] /\ db' = db
      /\ MirrorInv /\ NotLoaded
  BY ActorSets, MirrorParts DEF SureInv, Call
<1>2. PICK b \in Chosen(t) : calls[t] = << Delete(b) >>
  BY <1>1 DEF AtWork, MethodOf, Undeploy
<1>3. b \in Builds /\ db[b].status \in {"stopping", "stopped", "failed"}
  BY <1>2 DEF Chosen, WithStatus
<1>4. deplWatch = "up"
  BY <1>1, <1>3 DEF NotLoaded, EmptyTable, AbsentRow
<1>5. SameBuild(db[b], RowOf(deployments[b]))
  BY <1>1, <1>3, <1>4, CalmRows
<1>6. deployments[b].phase = "live" /\ Present(deployments[b]) /\ deployments[b].finalizer
  <2>1. deployments[b].phase = "live"
    BY <1>1, <1>3, <1>5
       DEF SameBuild, RowOf, AbsentRow, StatusFromDeployment, Deployments, Present, Phases
  <2> QED
    BY <1>1, <1>3, <2>1, MirrorParts, InvParts DEF BuildSound, Present
<1> DEFINE c == Head(calls[t])
<1>7. c.op = "delete" /\ c.build = b
  BY <1>2 DEF Delete
<1> HIDE DEF c
<1>8. ~Raises(c)
  BY <1>6, <1>7 DEF Raises
<1>9. Perform(c)
  BY <1>8 DEF Call, c
<1>10. DeleteDeployment(c)
  BY <1>7, <1>9 DEF Perform, ApplyDeployment, ApplyJob, ApplyOthers, RemoveFinalizers,
                    PatchDeployment, DeleteResources, KillJob, NotifyStatus
<1>11. deployments'[b].phase = "deleting"
  BY <1>1, <1>3, <1>6, <1>7, <1>10 DEF DeleteDeployment, SetDeployment, Deleted, Deployments
<1>12. MirrorInv' /\ deplWatch' = deplWatch
  BY <1>1, <1>9, ActorSets, MirrorStep DEF Next, Background, Perform
<1>13. ~SameBuild(db'[b], RowOf(deployments'[b]))
  BY <1>1, <1>3, <1>11 DEF SameBuild, RowOf, Present, StatusFromDeployment
<1> QED
  BY <1>3, <1>4, <1>12, <1>13, NextCalmRows

\* What others do leaves the list of a task as it is, as long as the table is.
LEMMA OthersAtWork ==
  ASSUME SureInv, [Next]_vars, NEW t \in Choosers, AtWork(t),
         db' = db, todo'[t] = todo[t], calls'[t] = calls[t]
  PROVE  AtWork(t)'
<1>1. Chosen(t)' = Chosen(t) /\ Current(t)' = Current(t) /\ Selections(t)' = Selections(t)
  BY DEF Chosen, Current, Selections
<1>2. ASSUME NEW b \in Builds, jobs[b]["initialize"] # "none" \/ b \in Doomed
      PROVE  jobs'[b]["initialize"] # "none" \/ b \in Doomed'
  <2>1. JobAdvances(b) /\ (b \in Doomed => b \in Doomed')
    BY StepMoves, MirrorParts, MovesEvidence DEF Moves, SureInv
  <2> QED
    BY <1>2, <2>1 DEF JobAdvances, Outcomes
<1>3. Taken(t) => Taken(t)'
  BY <1>1, <1>2 DEF Taken, Chosen, WithInitStatus, Names
<1> QED
  BY <1>1, <1>3 DEF AtWork, Idle

LEMMA AtWorkStep ==
  ASSUME SureInv, [Next]_vars, NEW t \in Choosers, Awake(t) \/ AtWork(t),
         t = "initializer" => Supported
  PROVE  Awake(t)' \/ AtWork(t)'
<1> SUFFICES ASSUME ~Awake(t)'
             PROVE  AtWork(t)'
  OBVIOUS
<1>1. t \in Tasks /\ t \in Actors /\ t # JobWatcher /\ t \notin Clients
  BY ActorSets DEF Choosers
<1>2. db' = db /\ ~Restless /\ ~Restless' /\ (Pass(t) \/ ~Awake(t))
  BY <1>1, StillAsleep
<1>3. CASE Pass(t)
  BY <1>3, PassAtWork
<1>4. CASE ~Pass(t)
  <2>1. AtWork(t)
    BY <1>2, <1>4
  <2>2. CASE NextBuild(t)
    BY <2>1, <2>2, NextBuildAtWork
  <2>3. CASE Call(t)
    <3>1. CASE t = "initializer"
      BY <1>1, <2>1, <2>3, <3>1, LaunchAtWork
    <3>2. CASE t \in {"stopper", "undeployer"}
      BY <1>1, <1>2, <2>1, <2>3, <3>2, StopAtWork, EvictAtWork
    <3> QED
      BY <1>1, <3>1, <3>2, TasksAssumption DEF Choosers
  <2>4. CASE ~NextBuild(t) /\ ~Call(t)
    <3>1. todo'[t] = todo[t] /\ calls'[t] = calls[t]
      BY <1>1, <1>4, <2>4, OwnSteps
    <3> QED
      BY <1>2, <2>1, <3>1, OthersAtWork
  <2> QED
    BY <2>2, <2>3, <2>4
<1> QED
  BY <1>3, <1>4

\* When the controller starts, the table is empty.
LEMMA AtWorkInit ==
  ASSUME Init, "reset" \notin ClientOps, FaultKinds = {}, NEW t \in Choosers
  PROVE  SureInv /\ AtWork(t)
<1>1. SureInv /\ db \in Tables
  <2>1. MirrorInv
    BY MirrorInit
  <2> QED
    BY <2>1, MirrorParts DEF SureInv, TypeOK
<1>2. t \in Tasks /\ t \in Actors /\ Tasks \subseteq Actors
  BY ActorSets DEF Choosers
<1>3. db = EmptyTable /\ todo[t] = << >> /\ calls[t] = << >>
  BY <1>2 DEF Init, ControllerBlank
<1>4. << >> \in Seq(Current(t))
  OBVIOUS
<1>5. Chosen(t) = {}
  BY <1>1, <1>3, ChosenNames DEF Names, EmptyTable, AbsentRow
<1> QED
  BY <1>1, <1>3, <1>4, <1>5 DEF AtWork, Idle

\* The stopper keeps the builds that are started within the limit: when
\* nothing is left to do, no more than max_started run, whatever was started,
\* stopped, evicted or lost to a call that raised meanwhile, and however old
\* the rows were from which it decided (stopper, oldest_started, Build.stop).
THEOREM StartsWithinLimit ==
  ASSUME "stopper" \in Tasks, "reset" \notin ClientOps, FaultKinds = {}
  PROVE  Spec => []SettledStarted
<1> DEFINE Inv == SureInv /\ (Awake("stopper") \/ AtWork("stopper"))
<1>1. Init => Inv
  BY AtWorkInit DEF Choosers
<1>2. Inv /\ [Next]_vars => Inv'
  BY AtWorkStep, MirrorStep DEF Choosers, SureInv
<1>3. Inv => SettledStarted
  <2> SUFFICES ASSUME Inv, Settled
               PROVE  Cardinality({b \in Builds : Live(b) /\ deployments[b].replicas = 1}) <= MaxStarted
    BY DEF SettledStarted
  <2> DEFINE Running == {b \in Builds : Live(b) /\ deployments[b].replicas = 1}
             W == WithStatus(db, {"started"})
  <2>1. ~Awake("stopper") /\ AtWork("stopper") /\ Idle("stopper") /\ deplWatch = "up"
    BY ActorSets DEF Settled, Awake, Restless, Idle
  <2>2. MirrorInv /\ LifeInv /\ db \in Tables /\ deployments \in [Builds -> Deployments]
    BY MirrorParts DEF SureInv, TypeOK
  <2>3. ASSUME NEW b \in Running
        PROVE  b \in W
    <3>1. SameBuild(db[b], RowOf(deployments[b])) /\ deployments[b].init = "succeeded"
      BY <2>1, <2>2, CalmRows, LiveSound DEF RunningIsInitialized, Awake
    <3>2. deployments[b].running = TRUE
      BY <2>2 DEF Settled, Unscaled, Live, Deployments
    <3>3. RowOf(deployments[b]).status = "started"
      BY <3>1, <3>2 DEF RowOf, Present, StatusFromDeployment, Live
    <3> QED
      BY <3>1, <3>3 DEF SameBuild, WithStatus
  <2>4. IsFiniteSet(W) /\ Cardinality(W) \in Nat /\ Cardinality(Running) \in Nat
        /\ Cardinality(Running) <= Cardinality(W)
    BY <2>3, FS_Subset, FS_CardinalityType, BuildsAssumption DEF WithStatus
  <2>5. W = {} => Cardinality(W) = 0
    BY FS_EmptySet
  <2>6. ASSUME << >> \in Selections("stopper"), W # {}
        PROVE  Cardinality(W) <= MaxStarted
    <3> DEFINE n == Max0(Cardinality(W) - MaxStarted)
    <3>1. n \in Nat /\ (n = 0 => Cardinality(W) <= MaxStarted)
      BY <2>4, LimitsAssumption DEF Max0
    <3>2. << >> \in Limit(OldestFirst(W, LastScaled(db)), n) /\ W \in SUBSET Builds
      BY <2>6 DEF Selections, OldestStarted, CountByStatus, WithStatus
    <3> HIDE DEF n, W
    <3>3. n = 0
      BY <2>6, <3>1, <3>2, OldestFirstItems
    <3> QED
      BY <3>1, <3>3
  <2> QED
    BY <2>1, <2>4, <2>5, <2>6, LimitsAssumption DEF AtWork, Taken, Chosen
<1> QED
  BY <1>1, <1>2, <1>3, PTL DEF Spec

(***************************************************************************)
(* job_watcher answers the end of a job, unless it ended in a cleanup that *)
(* failed: the event is queued, or will be when the watch is started       *)
(* again, or the call that answers it is pending, or was made.             *)
(***************************************************************************)
Queued(b, kind, state) ==
  \/ jobWatch = "down"
  \/ \E i \in 1 .. Len(jobEvents) : jobEvents[i] = [build |-> b, kind |-> kind, state |-> state]

Answers(c, b, kind, state) ==
  IF kind = "initialize" THEN Marks(c, b, state) ELSE c = Unfinalize(b)

Answering(b, kind, state) ==
  \E i \in 1 .. Len(calls[JobWatcher]) : Answers(calls[JobWatcher][i], b, kind, state)

Answered(b, kind, state) ==
  IF kind = "initialize"
  THEN b \in Doomed \/ deployments[b].init = state
  ELSE deployments[b].phase = "gone"

EndsAnswered ==
  \A b \in Builds, kind \in JobKinds, state \in Outcomes :
    jobs[b][kind] = state /\ (kind = "initialize" \/ state = "succeeded") =>
      Answered(b, kind, state) \/ Queued(b, kind, state) \/ Answering(b, kind, state)

\* The outcome that a row carries is that of the deployment: job_watcher does
\* not answer an event whose outcome the row has already.
MarkedRow(b, row) == row.init \in Outcomes => b \in Doomed \/ deployments[b].init = row.init
MarkedSnapshots == {s \in Snapshots : MarkedRow(s.build, s.row)}

RowsMarked ==
  /\ \A b \in Builds : MarkedRow(b, db[b])
  /\ deplEvents \in Seq(MarkedSnapshots)

\* What is marked as started was launched.
Launched(b) == b \in Doomed \/ jobs[b]["initialize"] # "none"

MarksLaunched ==
  /\ \A b \in Builds : deployments[b].init # "todo" => Launched(b)
  /\ \A i \in 1 .. Len(jobEvents) :
       jobEvents[i].kind = "initialize" => Launched(jobEvents[i].build)
  /\ \A i \in 1 .. Len(calls[JobWatcher]) :
       calls[JobWatcher][i].op = "patch" => Launched(calls[JobWatcher][i].build)

\* What removes a build comes alone, the removal of the finalizer last.
Sweeps(c) == c.op \in {"purge", "unfinalize"}
Tidy(list) ==
  \/ \A i \in 1 .. Len(list) : ~Sweeps(list[i])
  \/ \E b \in Builds :
       \/ list \in { << Purge(b), Unfinalize(b) >>, << Unfinalize(b) >> }
       \/ list = << Purge(b) >> /\ deployments[b].phase = "gone"

CallsTidy == \A a \in Actors : Tidy(calls[a])

AnswerInv == SureInv /\ RowsMarked /\ MarksLaunched /\ CallsTidy /\ EndsAnswered

(***************************************************************************)
(* The cleaner.                                                            *)
(***************************************************************************)
\* The calls of Build.cleanup, which do not raise.
Surely ==
  {c \in Calls :
     \/ Sweeps(c) \/ c.op = "kill"
     \/ c.op = "patch" /\ c.notFoundOk
     \/ c.op = "apply" /\ c.mode = "cleanup" /\ ~NoCleanupJob}

Has(a, c) == \E i \in 1 .. Len(calls[a]) : calls[a][i] = c

Tended(b) ==
  \/ \E i \in 1 .. Len(todo["cleaner"]) : todo["cleaner"][i].build = b
  \/ Has("cleaner", Apply(b, "cleanup"))
  \/ jobs[b]["cleanup"] # "none"
  \/ \E a \in Actors : Has(a, Unfinalize(b))

CleanerAtWork ==
  /\ calls["cleaner"] \in Seq(Surely)
  /\ Awake("cleaner") \/ \A b \in WithStatus(db, {"undeploying"}) : Tended(b)

\* What a step does to the events and the calls of job_watcher.
Adds == jobEvents' = jobEvents \/ JobEventAdded

HandlesJob ==
  LET e == Head(jobEvents) IN
  /\ calls[JobWatcher] = << >> /\ jobEvents # << >> /\ jobEvents' = Tail(jobEvents)
  /\ UNCHANGED << deployments, jobs, jobWatch >>
  /\ \/ calls'[JobWatcher] = OnJobEvent(e.build, db[e.build], e.kind, e.state)
     \/ deployments[e.build].phase = "gone" /\ calls'[JobWatcher] = << Purge(e.build) >>

Performs(a) ==
  /\ calls[a] # << >> /\ calls'[a] = Tail(calls[a])
  /\ ~Raises(Head(calls[a])) /\ Perform(Head(calls[a]))
  /\ Adds /\ jobWatch' = jobWatch

Gives(a) ==
  /\ calls[a] # << >> /\ calls'[a] = << >> /\ Raises(Head(calls[a]))
  /\ UNCHANGED << deployments, jobs >>
  /\ a = JobWatcher => jobWatch' = "down" /\ jobEvents' = << >>

\* A call that fails although it could be made is a fault.
LEMMA SureParts ==
  ASSUME SureInv
  PROVE  MirrorInv /\ ~Faults
BY DEF SureInv, Faults, CallFails, DeploymentWatchBreaks, JobWatchBreaks, ControllerRestarts, Fault

LEMMA CallSteps ==
  ASSUME MirrorInv, NEW a \in Actors, Call(a)
  PROVE  /\ Performs(a) \/ Gives(a)
         /\ a = JobWatcher \/ (Adds /\ jobWatch' = jobWatch)
<1>1. LifeInv /\ calls \in [Actors -> Seq(MetCalls)]
  BY MirrorParts
<1>2. CASE ~Raises(Head(calls[a])) /\ Perform(Head(calls[a])) /\ calls' = [calls EXCEPT ![a] = Tail(@)]
  <2>1. calls[a] # << >>
    BY DEF Call
  <2>2. Adds /\ jobWatch' = jobWatch
    BY <1>1, <1>2, <2>1, PerformJobEvents DEF Adds, Perform
  <2> QED
    BY <1>1, <1>2, <2>1, <2>2 DEF Performs
<1>3. CASE Raises(Head(calls[a])) /\ Abort(a) /\ UNCHANGED << cluster, deplWatch, deplEvents, now >>
  <2>1. calls[a] # << >>
    BY DEF Call
  <2> QED
    BY <1>1, <1>3, <2>1 DEF Gives, Abort, Adds, cluster
<1> QED
  BY <1>2, <1>3 DEF Call

LEMMA WatcherSteps ==
  ASSUME MirrorInv, ~Faults, [Next]_vars
  PROVE  \/ calls'[JobWatcher] = calls[JobWatcher] /\ Adds /\ jobWatch' = jobWatch
         \/ calls'[JobWatcher] = calls[JobWatcher] /\ StartJobWatch
         \/ HandlesJob
         \/ Performs(JobWatcher)
         \/ Gives(JobWatcher)
<1>1. /\ LifeInv /\ calls \in [Actors -> Seq(MetCalls)]
      /\ JobWatcher \in Actors /\ LookupOfEvent
      /\ lookup.busy => lookup.row.status = "absent"
  BY MirrorParts, InvParts DEF PlacesMet
<1> DEFINE Keeps == calls'[JobWatcher] = calls[JobWatcher] /\ Adds /\ jobWatch' = jobWatch
<1>2. ASSUME NEW a \in Actors, Call(a)
      PROVE  Keeps \/ Performs(JobWatcher) \/ Gives(JobWatcher)
  <2>1. CASE a = JobWatcher
    BY <1>2, <2>1, CallSteps
  <2>2. CASE a # JobWatcher
    <3>1. calls'[JobWatcher] = calls[JobWatcher]
      BY <1>1, <1>2, <2>2 DEF Call, Abort
    <3> QED
      BY <1>2, <2>2, <3>1, CallSteps
  <2> QED
    BY <2>1, <2>2
<1>3. CASE JobWatch
  <2>1. CASE StartJobWatch
    BY <2>1 DEF StartJobWatch, controller
  <2>2. CASE HandleJob
    <3>1. CASE db[Head(jobEvents).build].status # "absent"
      BY <1>1, <2>2, <3>1 DEF HandleJob, HandlesJob, JobWatcherIdle, cluster
    <3>2. CASE db[Head(jobEvents).build].status = "absent"
      BY <2>2, <3>2 DEF HandleJob, Adds
    <3> QED
      BY <3>1, <3>2
  <2>3. CASE HandleJobLookup
    <3>1. jobEvents # << >> /\ calls[JobWatcher] = << >>
      BY <1>1, <2>3 DEF HandleJobLookup, LookupOfEvent
    <3>2. deployments[Head(jobEvents).build].phase = "gone"
      BY <1>1, <2>3, InvParts DEF HandleJobLookup, LookupSound
    <3> QED
      BY <1>1, <2>3, <3>1, <3>2 DEF HandleJobLookup, HandlesJob, cluster
  <2> QED
    BY <1>3, <2>1, <2>2, <2>3 DEF JobWatch
<1>4. ASSUME NEW t \in Tasks, Pass(t) \/ NextBuild(t)
      PROVE  Keeps
  <2>1. t # JobWatcher
    BY ActorSets
  <2> QED
    BY <1>1, <1>4, <2>1 DEF Pass, NextBuild, clusterVars, Adds
<1>5. ASSUME NEW c \in Clients, ClientRequest(c)
      PROVE  Keeps
  <2>1. c # JobWatcher
    BY ActorSets
  <2> QED
    BY <1>1, <1>5, <2>1, RequestCalls DEF clusterVars, Adds
<1>6. CASE Environment /\ UNCHANGED << controller, requests, faults >>
  <2>1. jobWatch' = jobWatch
    BY <1>6 DEF Environment, InitializeCreatesDatabase, InitializeSucceeds, CleanupSucceeds,
                JobFails, Scale, Tick, watches
  <2> QED
    BY <1>1, <1>6, <2>1, EnvironmentJobEvents DEF Adds, controller
<1>7. CASE DeploymentWatcher \/ Wait \/ UNCHANGED vars
  BY <1>7 DEF DeploymentWatcher, StartDeploymentWatch, ListDeployments, HandleDeployment, Wait,
              vars, clusterVars, controller, Adds
<1> QED
  BY <1>2, <1>3, <1>4, <1>5, <1>6, <1>7 DEF Next, Background

\* An event that is queued stays so, or is the one that is handled; and what
\* happens while the watch is down is listed when it is started again.
LEMMA QueuedAdds ==
  ASSUME LifeInv, Adds, jobWatch' = jobWatch, NEW b, NEW kind, NEW state, Queued(b, kind, state)
  PROVE  Queued(b, kind, state)'
<1>1. jobEvents \in Seq(SoundJobEvents) /\ Len(jobEvents) \in Nat
  BY InvParts DEF PlacesSound
<1>2. ASSUME NEW i \in 1 .. Len(jobEvents), jobEvents[i] = [build |-> b, kind |-> kind, state |-> state]
      PROVE  i \in 1 .. Len(jobEvents') /\ jobEvents'[i] = jobEvents[i]
  <2>1. ASSUME NEW e, jobEvents' = Append(jobEvents, e)
        PROVE  i \in 1 .. Len(jobEvents') /\ jobEvents'[i] = jobEvents[i]
    <3>1. jobEvents \in Seq(SoundJobEvents \union {e})
      BY <1>1, SeqMono
    <3> QED
      BY <1>1, <2>1, <3>1
  <2> QED
    BY <2>1 DEF Adds, JobEventAdded
<1> QED
  BY <1>2 DEF Queued

LEMMA StartQueues ==
  ASSUME LifeInv, StartJobWatch, NEW b \in Builds, NEW kind \in JobKinds, NEW state,
         jobs[b][kind] = state, state # "none"
  PROVE  Queued(b, kind, state)'
<1> DEFINE S == {j \in Builds \X JobKinds : jobs[j[1]][j[2]] # "none"}
<1>1. PICK q \in SetToSeqs(S) :
        jobEvents' = [i \in 1 .. Len(q) |->
          [build |-> q[i][1], kind |-> q[i][2], state |-> jobs[q[i][1]][q[i][2]]]]
  BY DEF StartJobWatch
<1>2. IsFiniteSet(S)
  <2>1. IsFiniteSet({"initialize"}) /\ IsFiniteSet({"cleanup"})
    BY FS_Singleton
  <2>2. IsFiniteSet({"initialize"} \union {"cleanup"})
    BY <2>1, FS_Union
  <2>3. JobKinds = {"initialize"} \union {"cleanup"}
    BY DEF JobKinds
  <2>4. IsFiniteSet(Builds \X JobKinds)
    BY <2>2, <2>3, BuildsAssumption, FS_Product
  <2> QED
    BY <2>4, FS_Subset
<1>3. << b, kind >> \in S
  OBVIOUS
<1> HIDE DEF S
<1>4. Len(q) \in Nat /\ \E i \in 1 .. Len(q) : q[i] = << b, kind >>
  BY <1>1, <1>2, <1>3, Listed
<1>5. PICK i \in 1 .. Len(q) : q[i] = << b, kind >>
  BY <1>4
<1>6. i \in 1 .. Len(jobEvents') /\ jobEvents'[i] = [build |-> b, kind |-> kind, state |-> state]
  BY <1>1, <1>4, <1>5
<1> QED
  BY <1>6 DEF Queued

LEMMA HandleQueued ==
  ASSUME LifeInv, HandlesJob, NEW b \in Builds, NEW kind \in JobKinds, NEW state,
         Queued(b, kind, state)
  PROVE  Queued(b, kind, state)' \/ Head(jobEvents) = [build |-> b, kind |-> kind, state |-> state]
<1>1. /\ jobEvents \in Seq(SoundJobEvents) /\ Len(jobEvents) \in Nat /\ jobEvents # << >>
      /\ jobEvents' = Tail(jobEvents) /\ jobWatch' = jobWatch
  BY InvParts DEF PlacesSound, HandlesJob
<1>2. CASE jobWatch = "down"
  BY <1>1, <1>2 DEF Queued
<1>3. ASSUME NEW i \in 1 .. Len(jobEvents), jobEvents[i] = [build |-> b, kind |-> kind, state |-> state]
      PROVE  Queued(b, kind, state)' \/ Head(jobEvents) = [build |-> b, kind |-> kind, state |-> state]
  <2>1. CASE i = 1
    BY <1>1, <1>3, <2>1
  <2>2. CASE i # 1
    <3>1. i - 1 \in 1 .. Len(jobEvents') /\ jobEvents'[i - 1] = jobEvents[i]
      BY <1>1, <2>2
    <3> QED
      BY <1>3, <3>1 DEF Queued
  <2> QED
    BY <2>1, <2>2
<1> QED
  BY <1>2, <1>3 DEF Queued

\* The answer to an event is decided from a row: either it is in the calls,
\* or it was given before.
LEMMA HandleAnswers ==
  ASSUME LifeInv, RowsMarked, HandlesJob, NEW b \in Builds, NEW kind \in JobKinds,
         NEW state \in Outcomes, kind = "initialize" \/ state = "succeeded",
         Head(jobEvents) = [build |-> b, kind |-> kind, state |-> state]
  PROVE  Answered(b, kind, state)' \/ Answering(b, kind, state)'
<1> DEFINE list == calls'[JobWatcher]
           row == db[b]
<1>1. row \in Rows /\ MarkedRow(b, row) /\ deployments' = deployments
  BY InvParts, DbType DEF RowsMarked, HandlesJob
<1>2. Doomed' = Doomed
  BY <1>1 DEF Doomed
<1>3. CASE deployments[b].phase = "gone"
  BY <1>1, <1>2, <1>3 DEF Answered, Doomed
<1>4. CASE deployments[b].phase # "gone"
  <2>1. list = OnJobEvent(b, row, kind, state)
    BY <1>4 DEF HandlesJob
  <2> HIDE DEF row
  <2>2. CASE kind = "cleanup"
    <3>1. list = << Purge(b), Unfinalize(b) >>
      BY <2>1, <2>2 DEF OnJobEvent, OnCleanupSucceeded, DeleteDeploymentResources
    <3>2. 2 \in 1 .. Len(list) /\ list[2] = Unfinalize(b)
      BY <3>1
    <3> QED
      BY <2>2, <3>2 DEF Answering, Answers
  <2>3. CASE kind = "initialize" /\ row.init = state
    BY <1>1, <1>2, <2>3 DEF MarkedRow, Answered
  <2>4. CASE kind = "initialize" /\ row.init # state
    <3> DEFINE replicas == IF state = "succeeded" THEN Keep ELSE 0
               report == IF state = "succeeded" THEN "success" ELSE "failure"
    <3>1. list = << Apply(b, "stop") >> \o Patch(b, row, state, replicas, FALSE) \o << Notify(b, report) >>
      <4>1. CASE state = "succeeded"
        BY <2>1, <2>4, <4>1 DEF OnJobEvent, OnInitializeSucceeded
      <4>2. CASE state = "failed"
        BY <2>1, <2>4, <4>2 DEF OnJobEvent, OnInitializeFailed
      <4> QED
        BY <4>1, <4>2 DEF Outcomes
    <3>2. PICK c \in Calls : Marks(c, b, state) /\ Patch(b, row, state, replicas, FALSE) = << c >>
      BY <1>1, <2>4, MarkPatch
    <3> DEFINE S == {Apply(b, "stop"), c, Notify(b, report)}
    <3>3. list = << Apply(b, "stop"), c, Notify(b, report) >>
      <4>1. Apply(b, "stop") \in S /\ c \in S /\ Notify(b, report) \in S
        OBVIOUS
      <4> HIDE DEF S, report
      <4>2. (<< Apply(b, "stop") >> \o << c >>) \o << Notify(b, report) >>
              = << Apply(b, "stop"), c, Notify(b, report) >>
        BY <4>1, ConcatItems
      <4> QED
        BY <3>1, <3>2, <4>2
    <3>4. 2 \in 1 .. Len(list) /\ list[2] = c
      BY <3>3
    <3> QED
      BY <2>4, <3>2, <3>4 DEF Answering, Answers
  <2> QED
    BY <2>2, <2>3, <2>4 DEF JobKinds
<1> QED
  BY <1>3, <1>4

\* The removal of the finalizer is the end of a deployment.
LEMMA Unfinalized ==
  ASSUME LifeInv, NEW a \in Actors, calls[a] # << >>, NEW b,
         Head(calls[a]) = Unfinalize(b), Perform(Head(calls[a]))
  PROVE  b \in Builds /\ deployments'[b].phase = "gone"
<1> DEFINE c == Head(calls[a])
<1>1. /\ c \in SoundCalls /\ c.build \in Builds /\ c.op = "unfinalize" /\ c.build = b
      /\ deployments \in [Builds -> Deployments]
  BY HeadCall, InvParts DEF Unfinalize
<1> HIDE DEF c
<1>2. RemoveFinalizers(c)
  BY <1>1
     DEF Perform, ApplyDeployment, ApplyJob, ApplyOthers, PatchDeployment, DeleteDeployment,
         DeleteResources, KillJob, NotifyStatus, c
<1>3. deployments[b].phase \in {"deleting", "gone"}
  BY <1>1 DEF SoundCalls, Doomed
<1>4. CASE Present(deployments[b])
  <2> DEFINE f == [deployments[b] EXCEPT !.finalizer = FALSE]
  <2>1. f.phase = deployments[b].phase /\ f.finalizer = FALSE
    BY <1>1 DEF Deployments
  <2>2. Deleted(f) = NoDeployment("gone")
    BY <1>4, <2>1 DEF Deleted, Present
  <2>3. deployments' = [deployments EXCEPT ![b] = NoDeployment("gone")]
    BY <1>1, <1>2, <1>4, <2>2 DEF RemoveFinalizers, SetDeployment
  <2>4. deployments'[b] = NoDeployment("gone")
    BY <1>1, <2>3
  <2> QED
    BY <1>1, <2>4 DEF NoDeployment
<1>5. CASE ~Present(deployments[b])
  <2>1. deployments' = deployments /\ deployments[b].phase = "gone"
    BY <1>1, <1>2, <1>3, <1>5 DEF RemoveFinalizers, Present
  <2> QED
    BY <1>1, <2>1
<1> QED
  BY <1>4, <1>5

\* The patch that marks a build does so, unless it is doomed.
LEMMA MarkMade ==
  ASSUME LifeInv, Moves, NEW a \in Actors, calls[a] # << >>, NEW b, NEW state \in Outcomes,
         Marks(Head(calls[a]), b, state), Perform(Head(calls[a])), b \notin Unborn
  PROVE  b \in Doomed' \/ deployments'[b].init = state
<1> DEFINE c == Head(calls[a])
<1>1. /\ c.build \in Builds /\ c.op = "patch" /\ c.build = b /\ c.init = state
      /\ deployments \in [Builds -> Deployments] /\ ClusterTypeOK
  BY SMTT(30), HeadCall, InvParts DEF Marks
<1> HIDE DEF c
<1>2. PatchDeployment(c)
  BY <1>1
     DEF Perform, ApplyDeployment, ApplyJob, ApplyOthers, RemoveFinalizers, DeleteDeployment,
         DeleteResources, KillJob, NotifyStatus, c
<1>3. CASE b \in Doomed
  BY <1>1, <1>3, MovesEvidence
<1>4. CASE b \notin Doomed
  <2>1. Present(deployments[b])
    BY <1>1, <1>4, Phase DEF Present
  <2>2. deployments' = [deployments EXCEPT ![b] =
          [deployments[b] EXCEPT !.init = IF c.init = "keep" THEN @ ELSE c.init,
                                 !.replicas = IF c.replicas = Keep THEN @ ELSE c.replicas,
                                 !.scaled = IF c.replicas = Keep THEN @ ELSE now]]
    BY <1>1, <1>2, <2>1 DEF PatchDeployment, SetDeployment
  <2>3. state # "keep"
    BY DEF Outcomes
  <2> QED
    BY <1>1, <2>2, <2>3 DEF Deployments
<1> QED
  BY <1>3, <1>4

LEMMA AnswerMade ==
  ASSUME SureInv, Moves, Performs(JobWatcher), NEW b \in Builds, NEW kind \in JobKinds,
         NEW state \in Outcomes, jobs[b][kind] = state, Answering(b, kind, state)
  PROVE  Answered(b, kind, state)' \/ Answering(b, kind, state)'
<1> DEFINE list == calls[JobWatcher]
<1>1. /\ LifeInv /\ JobWatcher \in Actors /\ list \in Seq(SoundCalls) /\ list # << >>
      /\ Head(list) = list[1] /\ Perform(Head(list)) /\ calls'[JobWatcher] = Tail(list)
      /\ BuildSound(b) /\ Len(list) \in Nat
  BY MirrorParts, InvParts, HeadCall DEF SureInv, Performs
<1>2. PICK i \in 1 .. Len(list) : Answers(list[i], b, kind, state)
  BY DEF Answering
<1>3. CASE i # 1
  <2>1. i - 1 \in 1 .. Len(calls'[JobWatcher]) /\ calls'[JobWatcher][i - 1] = list[i]
    BY <1>1, <1>3
  <2> QED
    BY <1>2, <2>1 DEF Answering, Answers, Marks
<1>4. CASE i = 1 /\ kind = "initialize"
  <2>1. b \notin Unborn
    BY <1>1 DEF BuildSound, Outcomes
  <2>2. Marks(Head(list), b, state)
    BY <1>1, <1>2, <1>4 DEF Answers
  <2> HIDE DEF list
  <2>3. b \in Doomed' \/ deployments'[b].init = state
    BY <1>1, <2>1, <2>2, MarkMade DEF list
  <2> QED
    BY <1>4, <2>3 DEF Answered
<1>5. CASE i = 1 /\ kind # "initialize"
  <2>1. Head(list) = Unfinalize(b)
    BY <1>1, <1>2, <1>5 DEF Answers
  <2>2. deployments'[b].phase = "gone"
    BY <1>1, <2>1, Unfinalized
  <2> QED
    BY <1>5, <2>2 DEF Answered
<1> QED
  BY <1>3, <1>4, <1>5

\* The end of a job is an event.
LEMMA EndQueued ==
  ASSUME SureInv, [Next]_vars, NEW b \in Builds, NEW kind \in JobKinds, NEW state \in Outcomes,
         jobs'[b][kind] = state, jobs[b][kind] # state
  PROVE  Queued(b, kind, state)'
<1>1. /\ LifeInv /\ FaultKinds = {} /\ jobs \in [Builds -> [JobKinds -> JobStates]]
      /\ jobEvents \in Seq(SoundJobEvents)
  BY MirrorParts, InvParts DEF SureInv, PlacesSound
<1>2. ASSUME NEW o \in Builds, NEW k \in JobKinds, NEW s \in Outcomes, SetJob(o, k, s),
             jobWatch' = jobWatch
      PROVE  Queued(b, kind, state)'
  <2>1. o = b /\ k = kind /\ s = state
    BY <1>1, <1>2 DEF SetJob
  <2>2. CASE jobWatch = "up"
    <3> DEFINE e == [build |-> b, kind |-> kind, state |-> state]
    <3>1. jobEvents' = Append(jobEvents, e)
      BY <1>2, <2>1, <2>2 DEF SetJob, Outcomes
    <3>2. jobEvents \in Seq(SoundJobEvents \union {e})
      BY <1>1, SeqMono
    <3> HIDE DEF e
    <3>3. Len(jobEvents') \in 1 .. Len(jobEvents') /\ jobEvents'[Len(jobEvents')] = e
      BY <3>1, <3>2
    <3> QED
      BY <3>3 DEF Queued, e
  <2>3. CASE jobWatch # "up"
    BY <1>1, <1>2, <2>3, InvParts DEF Queued, ClusterTypeOK
  <2> QED
    BY <2>2, <2>3
<1>3. CASE Environment
  <2>1. ASSUME NEW o \in Builds, InitializeSucceeds(o) \/ CleanupSucceeds(o)
        PROVE  Queued(b, kind, state)'
    BY <1>2, <2>1 DEF InitializeSucceeds, CleanupSucceeds, JobKinds, Outcomes
  <2>2. ASSUME NEW o \in Builds, NEW k \in JobKinds, JobFails(o, k)
        PROVE  Queued(b, kind, state)'
    BY <1>2, <2>2 DEF JobFails, Outcomes
  <2>3. jobs' # jobs
    OBVIOUS
  <2> QED
    BY <1>3, <2>1, <2>2, <2>3 DEF Environment, InitializeCreatesDatabase, Scale, Tick, cluster
<1>4. ASSUME NEW a \in Actors, Call(a)
      PROVE  FALSE
  <2> DEFINE c == Head(calls[a])
  <2>1. calls[a] # << >> /\ (jobs' = jobs \/ Perform(c))
    BY <1>4 DEF Call, cluster
  <2>2. c.build \in Builds /\ Perform(c)
    BY <1>1, <2>1, HeadCall
  <2> HIDE DEF c
  <2>3. ASSUME NEW k, NEW s \in {"active", "none"}, SetJob(c.build, k, s)
        PROVE  FALSE
    <3>1. jobs'[b][kind] \in {jobs[b][kind], s}
      BY <1>1, <2>2, <2>3 DEF SetJob
    <3> QED
      BY <2>3, <3>1 DEF Outcomes
  <2>4. ~DeleteResources(c)
    BY <1>1, <2>2 DEF DeleteResources, Outcomes
  <2>5. jobs' # jobs
    OBVIOUS
  <2> QED
    BY <2>2, <2>3, <2>4, <2>5
       DEF Perform, ApplyDeployment, ApplyJob, ApplyOthers, PatchDeployment, RemoveFinalizers,
           DeleteDeployment, KillJob, NotifyStatus
<1>5. CASE DeploymentWatcher \/ JobWatch \/ Faults \/ Wait \/ UNCHANGED vars
  BY <1>5
     DEF DeploymentWatcher, StartDeploymentWatch, ListDeployments, HandleDeployment, JobWatch,
         StartJobWatch, HandleJob, HandleJobLookup, Faults, CallFails, DeploymentWatchBreaks,
         JobWatchBreaks, ControllerRestarts, Wait, cluster, vars, clusterVars
<1>6. ASSUME NEW t \in Tasks, Pass(t) \/ NextBuild(t)
      PROVE  FALSE
  BY <1>6 DEF Pass, NextBuild, clusterVars
<1>7. ASSUME NEW c \in Clients, ClientRequest(c)
      PROVE  FALSE
  BY <1>1, <1>7, RequestCalls DEF clusterVars
<1> QED
  BY <1>3, <1>4, <1>5, <1>6, <1>7 DEF Next, Background

LEMMA EndsStep ==
  ASSUME SureInv, RowsMarked, EndsAnswered, [Next]_vars
  PROVE  EndsAnswered'
<1>1. LifeInv /\ Moves /\ JobWatcher \in Actors
  BY StepMoves, MirrorParts, InvParts DEF SureInv
<1>2. ASSUME NEW b \in Builds, NEW kind \in JobKinds, NEW state \in Outcomes,
             jobs'[b][kind] = state, kind = "initialize" \/ state = "succeeded"
      PROVE  Answered(b, kind, state)' \/ Queued(b, kind, state)' \/ Answering(b, kind, state)'
  <2>1. CASE jobs[b][kind] # state
    BY <1>2, <2>1, EndQueued
  <2>2. CASE jobs[b][kind] = state /\ Answered(b, kind, state)
    <3>1. CASE kind = "initialize"
      <4>1. b \in Doomed' \/ deployments'[b].init = state
        BY <1>1, <2>2, <3>1, MovesEvidence DEF Answered
      <4> QED
        BY <3>1, <4>1 DEF Answered
    <3>2. CASE kind # "initialize"
      <4>1. deployments'[b].phase = "gone"
        BY <1>1, <2>2, <3>2, MovesEvidence DEF Answered
      <4> QED
        BY <3>2, <4>1 DEF Answered
    <3> QED
      BY <3>1, <3>2
  <2>3. CASE jobs[b][kind] = state /\ Queued(b, kind, state)
    <3>1. CASE Adds /\ jobWatch' = jobWatch
      BY <1>1, <2>3, <3>1, QueuedAdds
    <3>2. CASE StartJobWatch
      BY <1>1, <2>3, <3>2, StartQueues DEF Outcomes
    <3>3. CASE HandlesJob
      BY <1>1, <1>2, <2>3, <3>3, HandleQueued, HandleAnswers
    <3>4. CASE Gives(JobWatcher)
      BY <3>4 DEF Gives, Queued
    <3> QED
      BY <3>1, <3>2, <3>3, <3>4, WatcherSteps, SureParts DEF Performs
  <2>4. CASE jobs[b][kind] = state /\ Answering(b, kind, state)
    <3>1. CASE calls'[JobWatcher] = calls[JobWatcher]
      BY <2>4, <3>1 DEF Answering, Answers, Marks
    <3>2. CASE HandlesJob
      BY <2>4, <3>2 DEF HandlesJob, Answering
    <3>3. CASE Performs(JobWatcher)
      BY <1>1, <2>4, <3>3, AnswerMade
    <3>4. CASE Gives(JobWatcher)
      BY <3>4 DEF Gives, Queued
    <3> QED
      BY <3>1, <3>2, <3>3, <3>4, WatcherSteps, SureParts
  <2>5. jobs[b][kind] = state =>
          Answered(b, kind, state) \/ Queued(b, kind, state) \/ Answering(b, kind, state)
    BY <1>2 DEF EndsAnswered
  <2> QED
    BY <2>1, <2>2, <2>3, <2>4, <2>5
<1> DEFINE Awaited(b, kind, state) ==
      Answered(b, kind, state) \/ Queued(b, kind, state) \/ Answering(b, kind, state)
<1>3. \A b \in Builds, kind \in JobKinds, state \in Outcomes :
        jobs'[b][kind] = state /\ (kind = "initialize" \/ state = "succeeded") =>
          Awaited(b, kind, state)'
  BY <1>2
<1> QED
  BY <1>3 DEF EndsAnswered

(***************************************************************************)
(* The rows.                                                               *)
(***************************************************************************)
LEMMA RowMarked ==
  ASSUME TypeOK', NEW b \in Builds
  PROVE  /\ MarkedRow(b, RowOf(deployments[b]))'
         /\ MarkedRow(b, AbsentRow)'
         /\ [build |-> b, row |-> RowOf(deployments'[b])] \in MarkedSnapshots'
<1>1. deployments'[b] \in Deployments
  BY DEF TypeOK, ClusterTypeOK
<1>2. RowOf(deployments'[b]) \in Rows
  BY <1>1, RowOfType
<1>3. RowOf(deployments'[b]).init \in Outcomes => deployments'[b].init = RowOf(deployments'[b]).init
  BY DEF RowOf, AbsentRow, Outcomes
<1>4. [build |-> b, row |-> RowOf(deployments'[b])] \in Snapshots
  BY <1>2 DEF Snapshots
<1>5. AbsentRow.init \notin Outcomes
  BY DEF AbsentRow, Outcomes
<1> QED
  BY <1>3, <1>4, <1>5 DEF MarkedRow, MarkedSnapshots

LEMMA MirrorTyped ==
  MirrorInv => TypeOK
BY MirrorParts

LEMMA NextTyped ==
  (MirrorInv => TypeOK)'
BY MirrorTyped, PTL

LEMMA RowsStep ==
  ASSUME SureInv, SureInv', RowsMarked, [Next]_vars
  PROVE  RowsMarked'
<1>1. /\ LifeInv /\ Moves /\ FaultKinds = {} /\ TypeOK' /\ db \in [Builds -> Rows]
      /\ deplEvents \in Seq(MarkedSnapshots)
  BY NextTyped, StepMoves, MirrorParts DEF SureInv, RowsMarked
<1>2. ASSUME NEW b \in Builds, NEW row, MarkedRow(b, row)
      PROVE  row.init \in Outcomes => b \in Doomed' \/ deployments'[b].init = row.init
  BY <1>1, <1>2, MovesEvidence DEF MarkedRow
<1>3. MarkedSnapshots \subseteq MarkedSnapshots'
  BY <1>2 DEF MarkedSnapshots, MarkedRow, Snapshots
<1>4. db' = db => \A b \in Builds : MarkedRow(b, db[b])'
  BY <1>2 DEF RowsMarked, MarkedRow
<1>5. deplEvents' = deplEvents => deplEvents' \in Seq(MarkedSnapshots')
  BY <1>1, <1>3, SeqMono
<1>6. Told => deplEvents' \in Seq(MarkedSnapshots')
  <2>1. ASSUME NEW b \in Builds,
               deplEvents' = Append(deplEvents, [build |-> b, row |-> RowOf(deployments'[b])])
        PROVE  deplEvents' \in Seq(MarkedSnapshots')
    <3>1. deplEvents \in Seq(MarkedSnapshots')
      BY <1>1, <1>3, SeqMono
    <3>2. [build |-> b, row |-> RowOf(deployments'[b])] \in MarkedSnapshots'
      BY <1>1, RowMarked
    <3> QED
      BY <2>1, <3>1, <3>2
  <2> QED
    BY <1>5, <2>1 DEF Told
<1>7. ASSUME NEW a \in Actors, Call(a)
      PROVE  db' = db /\ (Told \/ deplEvents' = deplEvents)
  <2>1. db' = db /\ calls[a] # << >> /\ (deplEvents' = deplEvents \/ Perform(Head(calls[a])))
    BY <1>7 DEF Call
  <2> QED
    BY <1>1, <2>1, PerformTold
<1>8. CASE HandleDeployment
  <2> DEFINE e == Head(deplEvents)
  <2>1. e \in MarkedSnapshots /\ deplEvents' \in Seq(MarkedSnapshots)
    BY <1>1, <1>8 DEF HandleDeployment
  <2>2. MarkedRow(e.build, e.row)
    BY <2>1 DEF MarkedSnapshots
  <2>3. /\ e.build \in Builds /\ \A b \in Builds \ {e.build} : db'[b] = db[b]
        /\ db'[e.build] \in {AbsentRow, e.row, db[e.build]}
    BY <1>8, HandledRow DEF SureInv
  <2> HIDE DEF e
  <2>4. \A b \in Builds : MarkedRow(b, db[b])
    BY DEF RowsMarked
  <2>5. ASSUME NEW b \in Builds
        PROVE  db'[b].init \in Outcomes => b \in Doomed' \/ deployments'[b].init = db'[b].init
    <3>1. AbsentRow.init \notin Outcomes
      BY DEF AbsentRow, Outcomes
    <3>2. CASE db'[b] = db[b]
      BY <1>2, <2>4, <3>2
    <3>3. CASE b = e.build /\ db'[b] = e.row
      BY <1>2, <2>2, <3>3
    <3> QED
      BY <2>3, <3>1, <3>2, <3>3
  <2>6. deplEvents' \in Seq(MarkedSnapshots')
    BY <1>3, <2>1, SeqMono
  <2> QED
    BY <2>5, <2>6 DEF RowsMarked, MarkedRow
<1>9. CASE StartDeploymentWatch
  <2>1. db' = EmptyTable /\ deplEvents' = deplEvents
    BY <1>9 DEF StartDeploymentWatch
  <2>2. \A b \in Builds : MarkedRow(b, db[b])'
    BY <2>1 DEF EmptyTable, MarkedRow, AbsentRow, Outcomes
  <2> QED
    BY <1>5, <2>1, <2>2 DEF RowsMarked
<1>10. CASE ListDeployments
  <2>1. PICK q \in SetToSeqs({b \in Builds : Present(deployments[b])}) :
          deplEvents' = [i \in 1 .. Len(q) |-> [build |-> q[i], row |-> RowOf(deployments[q[i]])]]
    BY <1>10 DEF ListDeployments
  <2>2. IsFiniteSet({b \in Builds : Present(deployments[b])})
    BY FS_Subset, BuildsAssumption
  <2>3. Len(q) \in Nat /\ \A i \in 1 .. Len(q) : q[i] \in Builds
    BY <2>1, <2>2, SetToSeqsType
  <2>4. deployments' = deployments /\ db' = db
    BY <1>10 DEF ListDeployments, cluster, controller
  <2>5. \A b \in Builds : [build |-> b, row |-> RowOf(deployments[b])] \in MarkedSnapshots'
    BY <1>1, <2>4, RowMarked
  <2>6. deplEvents' \in Seq(MarkedSnapshots')
    BY <2>1, <2>3, <2>5
  <2> QED
    BY <1>4, <2>4, <2>6 DEF RowsMarked
<1>11. CASE UNCHANGED << db, deplEvents >>
  BY <1>4, <1>5, <1>11 DEF RowsMarked
<1>12. CASE Environment /\ UNCHANGED << controller, requests, faults >>
  <2>1. Told /\ db' = db
    BY <1>1, <1>12, EnvironmentTold DEF controller
  <2> QED
    BY <1>4, <1>6, <2>1 DEF RowsMarked
<1>13. CASE JobWatch
  <2>1. deplEvents' = deplEvents
    BY <1>13 DEF JobWatch, StartJobWatch, HandleJob, HandleJobLookup
  <2>2. lookup.busy => lookup.row.status = "absent"
    BY MirrorParts DEF SureInv, PlacesMet
  <2>3. db' = db
    BY <1>13, <2>2 DEF JobWatch, StartJobWatch, HandleJob, HandleJobLookup, controller
  <2> QED
    BY <1>11, <2>1, <2>3
<1>14. ASSUME NEW t \in Tasks, Pass(t) \/ NextBuild(t)
       PROVE  UNCHANGED << db, deplEvents >>
  BY <1>14 DEF Pass, NextBuild, clusterVars
<1>15. ASSUME NEW c \in Clients, ClientRequest(c)
       PROVE  UNCHANGED << db, deplEvents >>
  BY <1>1, <1>15, RequestCalls DEF clusterVars
<1>16. CASE Wait \/ UNCHANGED vars
  BY <1>11, <1>16 DEF Wait, vars, clusterVars
<1>17. ~Faults
  BY <1>1 DEF Faults, CallFails, DeploymentWatchBreaks, JobWatchBreaks, ControllerRestarts, Fault
<1>18. ASSUME NEW a \in Actors, Call(a)
       PROVE  RowsMarked'
  BY <1>4, <1>5, <1>6, <1>7, <1>18 DEF RowsMarked
<1> QED
  BY <1>8, <1>9, <1>10, <1>11, <1>12, <1>13, <1>14, <1>15, <1>16, <1>17, <1>18
     DEF Next, Background, DeploymentWatcher

(***************************************************************************)
(* What is marked was launched.                                            *)
(***************************************************************************)
LEMMA LaunchedStays ==
  ASSUME LifeInv, Moves, NEW b \in Builds, Launched(b)
  PROVE  b \in Doomed' \/ jobs'[b]["initialize"] # "none"
<1>1. JobAdvances(b) /\ (b \in Doomed => b \in Doomed')
  BY MovesEvidence DEF Moves
<1> QED
  BY <1>1 DEF JobAdvances, Launched, Outcomes

\* A step that changes an outcome is the call that marks it.
LEMMA StepWrites ==
  ASSUME MirrorInv, [Next]_vars, NEW b \in Builds
  PROVE  \/ deployments'[b].init \in {deployments[b].init, "todo"}
         \/ b \in Doomed'
         \/ Performs(JobWatcher) /\ Marks(Head(calls[JobWatcher]), b, deployments'[b].init)
<1>1. LifeInv
  BY MirrorParts
<1>2. ASSUME NEW a \in Actors, Call(a)
      PROVE  \/ deployments'[b].init \in {deployments[b].init, "todo"}
             \/ b \in Doomed'
             \/ Performs(JobWatcher) /\ Marks(Head(calls[JobWatcher]), b, deployments'[b].init)
  <2>1. CASE Performs(a)
    BY <1>1, <2>1, PerformAdvances DEF Performs, Writes
  <2> QED
    BY <1>2, <2>1, CallSteps DEF Gives
<1>3. CASE Environment
  BY <1>1, <1>3, EnvironmentMoves
<1>4. CASE DeploymentWatcher \/ JobWatch \/ Faults \/ Wait \/ UNCHANGED vars
  BY <1>4
     DEF DeploymentWatcher, StartDeploymentWatch, ListDeployments, HandleDeployment, JobWatch,
         StartJobWatch, HandleJob, HandleJobLookup, Faults, CallFails, DeploymentWatchBreaks,
         JobWatchBreaks, ControllerRestarts, Wait, cluster, vars, clusterVars
<1>5. ASSUME NEW t \in Tasks, Pass(t) \/ NextBuild(t)
      PROVE  deployments' = deployments
  BY <1>5 DEF Pass, NextBuild, clusterVars
<1>6. ASSUME NEW c \in Clients, ClientRequest(c)
      PROVE  deployments' = deployments
  BY <1>1, <1>6, RequestCalls DEF clusterVars
<1> QED
  BY <1>2, <1>3, <1>4, <1>5, <1>6 DEF Next, Background

LEMMA OnJobEventPatches ==
  ASSUME NEW b \in Builds, NEW row \in Rows, NEW kind \in JobKinds,
         NEW state \in JobStates \ {"none"}, NEW list, list = OnJobEvent(b, row, kind, state)
  PROVE  /\ list # << >> /\ kind = "cleanup" => list = << Purge(b), Unfinalize(b) >>
         /\ kind = "initialize" => \A i \in 1 .. Len(list) : list[i].build = b /\ ~Sweeps(list[i])
<1>1. ASSUME NEW c, NEW init, Marks(c, b, init)
      PROVE  c.build = b /\ ~Sweeps(c)
  BY <1>1 DEF Marks, Sweeps
<1>2. /\ Apply(b, "stop").build = b /\ ~Sweeps(Apply(b, "stop"))
      /\ \A report : Notify(b, report).build = b /\ ~Sweeps(Notify(b, report))
  BY DEF Apply, Notify, Sweeps
<1>3. CASE list = << >>
  BY <1>3
<1>4. ASSUME NEW c \in Calls, Marks(c, b, "started"), list = << c, Notify(b, "pending") >>
      PROVE  \A i \in 1 .. Len(list) : list[i].build = b /\ ~Sweeps(list[i])
  BY <1>1, <1>2, <1>4
<1>5. ASSUME NEW c \in Calls, NEW report, Marks(c, b, state),
             list = << Apply(b, "stop"), c, Notify(b, report) >>
      PROVE  \A i \in 1 .. Len(list) : list[i].build = b /\ ~Sweeps(list[i])
  BY <1>1, <1>2, <1>5
<1>6. \/ list = << >>
      \/ /\ kind = "initialize"
         /\ \/ \E c \in Calls : Marks(c, b, "started") /\ list = << c, Notify(b, "pending") >>
            \/ \E c \in Calls, report \in DOMAIN Reports :
                 Marks(c, b, state) /\ list = << Apply(b, "stop"), c, Notify(b, report) >>
      \/ kind = "cleanup" /\ list = << Purge(b), Unfinalize(b) >>
  BY OnJobEventShape
<1>7. kind = "initialize" \/ kind = "cleanup"
  BY DEF JobKinds
<1> QED
  BY <1>3, <1>4, <1>5, <1>6, <1>7

\* A call that fails only empties the list of calls, and the queue of jobs if
\* it was job_watcher's.
LEMMA FailsOnly ==
  ASSUME MirrorInv, Faults
  PROVE  /\ \E a \in Actors : CallFails(a)
         /\ calls'[JobWatcher] \in {calls[JobWatcher], << >>}
         /\ jobEvents' \in {jobEvents, << >>}
         /\ UNCHANGED << cluster, deplWatch, deplEvents, now, db, lookup >>
<1>1. PICK a \in Actors : CallFails(a)
  BY DEF Faults, DeploymentWatchBreaks, JobWatchBreaks, ControllerRestarts, Fault, MirrorInv
<1>2. calls \in [Actors -> Seq(MetCalls)] /\ JobWatcher \in Actors
  BY MirrorParts, ActorSets
<1> QED
  BY <1>1, <1>2 DEF CallFails, Abort

(***************************************************************************)
(* A step handles an event of the watch of deployments, or leaves the      *)
(* table as it is and tells that watch what it does.                       *)
(***************************************************************************)
Untabled == Told /\ Dated /\ Clocked /\ UNCHANGED << db, deplWatch >>

LEMMA UntabledSame ==
  ASSUME now \in Nat, UNCHANGED << deployments, deplEvents, now, db, deplWatch >>
  PROVE  Untabled
BY ToldSame DEF Untabled, Clocked

LEMMA TableSteps ==
  ASSUME MirrorInv, ~SameSecond, deplWatch = "up", [Next]_vars
  PROVE  HandleDeployment \/ Untabled
<1>1. /\ MirrorInv /\ LifeInv /\ ClusterTypeOK /\ deplWatch = "up" /\ now \in Nat /\ ~SameSecond
      /\ lookup.busy => lookup.row.status = "absent"
  BY MirrorParts DEF ClusterTypeOK, PlacesMet
<1>2. Moves
  BY <1>1, StepMoves
<1>3. ASSUME NEW a \in Actors, Call(a)
      PROVE  Untabled
  <2>1. CASE calls[a] # << >> /\ Perform(Head(calls[a])) /\ UNCHANGED db
    BY <1>1, <1>2, <2>1, PerformTold, PerformClocked DEF Untabled, Perform
  <2>2. CASE UNCHANGED << cluster, deplWatch, deplEvents, now, db >>
    BY <1>1, <2>2, UntabledSame DEF cluster
  <2> QED
    BY <1>3, <2>1, <2>2 DEF Call
<1>4. CASE Environment /\ UNCHANGED << controller, requests, faults >>
  <2>1. deplWatch' = deplWatch /\ db' = db
    BY <1>4 DEF Environment, InitializeCreatesDatabase, InitializeSucceeds, CleanupSucceeds,
                JobFails, Scale, Tick, watches, controller
  <2> QED
    BY <1>1, <1>2, <1>4, <2>1, EnvironmentTold, EnvironmentSpares DEF Untabled
<1>5. CASE DeploymentWatcher
  BY <1>1, <1>5 DEF DeploymentWatcher, StartDeploymentWatch, ListDeployments
<1>6. CASE JobWatch
  <2>1. UNCHANGED << deployments, deplEvents, now, db, deplWatch >>
    BY <1>1, <1>6 DEF JobWatch, StartJobWatch, HandleJob, HandleJobLookup, cluster, controller
  <2> QED
    BY <1>1, <2>1, UntabledSame
<1>7. ASSUME NEW t \in Tasks, Pass(t) \/ NextBuild(t)
      PROVE  Untabled
  <2>1. UNCHANGED << deployments, deplEvents, now, db, deplWatch >>
    BY <1>7 DEF Pass, NextBuild, clusterVars
  <2> QED
    BY <1>1, <2>1, UntabledSame
<1>8. CASE Faults
  <2>1. UNCHANGED << deployments, deplEvents, now, db, deplWatch >>
    BY <1>1, <1>8, FailsOnly DEF cluster
  <2> QED
    BY <1>1, <2>1, UntabledSame
<1>9. ASSUME NEW c \in Clients, ClientRequest(c)
      PROVE  Untabled
  <2>1. UNCHANGED << deployments, deplEvents, now, db, deplWatch >>
    BY <1>1, <1>9, RequestCalls DEF clusterVars
  <2> QED
    BY <1>1, <2>1, UntabledSame
<1>10. CASE UNCHANGED vars
  BY <1>1, <1>10, UntabledSame DEF vars, clusterVars
<1> QED
  BY <1>3, <1>4, <1>5, <1>6, <1>7, <1>8, <1>9, <1>10 DEF Next, Background, Wait

LEMMA LaunchedStep ==
  ASSUME MirrorInv, MarksLaunched, [Next]_vars
  PROVE  MarksLaunched'
<1> DEFINE Launched1(b) == b \in Doomed' \/ jobs'[b]["initialize"] # "none"
<1>1. /\ LifeInv /\ Moves /\ JobWatcher \in Actors /\ jobEvents \in Seq(SoundJobEvents)
      /\ calls \in [Actors -> Seq(SoundCalls)] /\ ClusterTypeOK
  BY StepMoves, MirrorParts, InvParts DEF PlacesSound
<1>2. \A b \in Builds : Launched(b) => Launched1(b)
  BY <1>1, LaunchedStays
<1>3. ASSUME NEW i \in 1 .. Len(calls[JobWatcher])
      PROVE  calls[JobWatcher][i].build \in Builds
  <2>1. calls[JobWatcher][i] \in SoundCalls
    BY <1>1
  <2> QED
    BY <2>1, CallFields DEF SoundCalls
<1>4. ASSUME NEW i \in 1 .. Len(jobEvents)
      PROVE  /\ jobEvents[i].build \in Builds /\ jobEvents[i].kind \in JobKinds
             /\ jobEvents[i].state \in JobStates \ {"none"}
  BY <1>1 DEF SoundJobEvents, JobEvents
<1>5. ASSUME NEW b \in Builds, deployments'[b].init # "todo"
      PROVE  Launched1(b)
  <2>1. CASE deployments'[b].init = deployments[b].init
    BY <1>2, <1>5, <2>1 DEF MarksLaunched
  <2>2. CASE Performs(JobWatcher) /\ Marks(Head(calls[JobWatcher]), b, deployments'[b].init)
    <3>1. 1 \in 1 .. Len(calls[JobWatcher]) /\ Head(calls[JobWatcher]) = calls[JobWatcher][1]
      BY <1>1, <2>2, HeadCall DEF Performs
    <3>2. Launched(b)
      BY <2>2, <3>1 DEF MarksLaunched, Marks
    <3> QED
      BY <1>2, <3>2
  <2> QED
    BY <1>5, <2>1, <2>2, StepWrites
<1>6. ASSUME NEW i \in 1 .. Len(jobEvents), jobEvents[i].kind = "initialize"
      PROVE  Launched1(jobEvents[i].build)
  BY <1>2, <1>4, <1>6 DEF MarksLaunched
<1>7. ASSUME NEW i \in 1 .. Len(calls[JobWatcher]), calls[JobWatcher][i].op = "patch"
      PROVE  Launched1(calls[JobWatcher][i].build)
  BY <1>2, <1>3, <1>7 DEF MarksLaunched
<1> HIDE DEF Launched1
<1>8. ASSUME NEW i \in 1 .. Len(jobEvents'), jobEvents'[i].kind = "initialize"
      PROVE  Launched1(jobEvents'[i].build)
  <2>1. CASE jobEvents' = jobEvents
    BY <1>6, <1>8, <2>1
  <2>2. CASE JobEventAdded
    <3>1. PICK b \in Builds, kind \in JobKinds, state \in JobStates \ {"none"} :
            /\ jobEvents' = Append(jobEvents, [build |-> b, kind |-> kind, state |-> state])
            /\ jobs'[b][kind] = state
      BY <2>2 DEF JobEventAdded
    <3> DEFINE e == [build |-> b, kind |-> kind, state |-> state]
    <3>2. jobEvents \in Seq(SoundJobEvents \union {e})
      BY <1>1, SeqMono
    <3>3. e.kind = "initialize" => Launched1(e.build)
      BY <3>1 DEF Launched1
    <3> HIDE DEF e
    <3>4. jobEvents' = Append(jobEvents, e)
      BY <3>1 DEF e
    <3>5. CASE i \in 1 .. Len(jobEvents) /\ jobEvents'[i] = jobEvents[i]
      BY <1>6, <1>8, <3>5
    <3>6. CASE jobEvents'[i] = e
      BY <1>8, <3>3, <3>6
    <3> QED
      BY <3>2, <3>4, <3>5, <3>6
  <2>3. CASE StartJobWatch
    <3>1. PICK q \in SetToSeqs({j \in Builds \X JobKinds : jobs[j[1]][j[2]] # "none"}) :
            jobEvents' = [k \in 1 .. Len(q) |->
              [build |-> q[k][1], kind |-> q[k][2], state |-> jobs[q[k][1]][q[k][2]]]]
      BY <2>3 DEF StartJobWatch
    <3>2. Len(q) \in Nat /\ i \in 1 .. Len(q)
      BY <3>1, ListedJobs
    <3>3. q[i][1] \in Builds /\ jobs[q[i][1]][q[i][2]] # "none"
      BY <3>2, ListedJobs
    <3>4. jobEvents'[i] = [build |-> q[i][1], kind |-> q[i][2], state |-> jobs[q[i][1]][q[i][2]]]
      BY <3>1, <3>2
    <3>5. jobs' = jobs
      BY <2>3 DEF StartJobWatch, cluster
    <3> QED
      BY <1>8, <3>3, <3>4, <3>5 DEF Launched1
  <2>4. CASE HandlesJob
    <3>1. jobEvents # << >> /\ jobEvents' = Tail(jobEvents)
      BY <2>4 DEF HandlesJob
    <3>2. i + 1 \in 1 .. Len(jobEvents) /\ jobEvents'[i] = jobEvents[i + 1]
      BY <1>1, <3>1, TailItems
    <3> QED
      BY <1>6, <1>8, <3>2
  <2>5. CASE Gives(JobWatcher)
    BY <2>5 DEF Gives
  <2>6. CASE Faults
    BY <1>1, <1>6, <1>8, <2>6, FailsOnly
  <2> QED
    BY <2>1, <2>2, <2>3, <2>4, <2>5, <2>6, WatcherSteps DEF Adds, Performs
<1>9. ASSUME NEW i \in 1 .. Len(calls'[JobWatcher]), calls'[JobWatcher][i].op = "patch"
      PROVE  Launched1(calls'[JobWatcher][i].build)
  <2>1. CASE calls'[JobWatcher] = calls[JobWatcher]
    BY <1>7, <1>9, <2>1
  <2>2. CASE HandlesJob
    <3> DEFINE e == Head(jobEvents)
               list == calls'[JobWatcher]
    <3>1. 1 \in 1 .. Len(jobEvents) /\ e = jobEvents[1] /\ db[e.build] \in Rows
      BY <1>1, <2>2, HeadEvent DEF HandlesJob
    <3>2. e.build \in Builds /\ e.kind \in JobKinds /\ e.state \in JobStates \ {"none"}
      BY <1>4, <3>1
    <3>3. e.kind = "initialize" => Launched1(e.build)
      BY <1>6, <3>1
    <3> HIDE DEF e
    <3>4. CASE list = OnJobEvent(e.build, db[e.build], e.kind, e.state)
      <4>1. CASE e.kind = "initialize"
        BY <1>9, <3>1, <3>2, <3>3, <3>4, <4>1, OnJobEventPatches
      <4>2. CASE e.kind = "cleanup"
        BY <1>9, <3>1, <3>2, <3>4, <4>2, OnJobEventPatches DEF Purge, Unfinalize
      <4> QED
        BY <3>2, <4>1, <4>2 DEF JobKinds
    <3>5. CASE list = << Purge(e.build) >>
      BY <1>9, <3>5 DEF Purge
    <3> QED
      BY <2>2, <3>4, <3>5 DEF HandlesJob, e
  <2>3. CASE Performs(JobWatcher)
    <3>1. calls[JobWatcher] # << >> /\ calls'[JobWatcher] = Tail(calls[JobWatcher])
      BY <2>3 DEF Performs
    <3>2. /\ i + 1 \in 1 .. Len(calls[JobWatcher])
          /\ calls'[JobWatcher][i] = calls[JobWatcher][i + 1]
      BY <1>1, <3>1, TailItems
    <3> QED
      BY <1>7, <1>9, <3>2
  <2>4. CASE Gives(JobWatcher)
    BY <1>9, <2>4 DEF Gives
  <2>5. CASE Faults
    BY <1>7, <1>9, <2>5, FailsOnly
  <2> QED
    BY <2>1, <2>2, <2>3, <2>4, <2>5, WatcherSteps
<1> QED
  BY <1>5, <1>8, <1>9 DEF MarksLaunched, Launched, Launched1

(***************************************************************************)
(* What removes a build.                                                   *)
(***************************************************************************)
\* The methods of a build belong to a set when their possible calls do.
LEMMA MethodsWithin ==
  ASSUME NEW b \in Builds, NEW row, NEW Q,
         {Apply(b, "deployment"), Apply(b, "start"), Apply(b, "stop"), Apply(b, "initialize"),
          Delete(b), Notify(b, "pending")} \subseteq Q,
         Scales(b, 0) \subseteq Q, Scales(b, 1) \subseteq Q
  PROVE  /\ Start(b, row) \in Seq(Q) /\ Stop(b, row) \in Seq(Q) /\ Undeploy(b) \in Seq(Q)
         /\ Initialize(b) \in Seq(Q) /\ DeployBuild(b) \in Seq(Q)
<1>1. Patch(b, row, "keep", 0, FALSE) \in Seq(Q) /\ Patch(b, row, "keep", 1, FALSE) \in Seq(Q)
  <2>1. /\ Patch(b, row, "keep", 0, FALSE) \in Seq(Scales(b, 0))
        /\ Patch(b, row, "keep", 1, FALSE) \in Seq(Scales(b, 1))
    BY ScalePatch
  <2> QED
    BY <2>1, SeqMono
<1>2. /\ << >> \in Seq(Q) /\ \A c \in Q : << c >> \in Seq(Q)
      /\ \A c, d \in Q : << c, d >> \in Seq(Q)
  OBVIOUS
<1>3. /\ << Apply(b, "start") >> \in Seq(Q) /\ << Apply(b, "stop") >> \in Seq(Q)
      /\ << Apply(b, "initialize") >> \in Seq(Q) /\ << Delete(b) >> \in Seq(Q)
      /\ << Apply(b, "deployment"), Notify(b, "pending") >> \in Seq(Q)
  BY <1>2
<1>4. /\ << Apply(b, "start") >> \o Patch(b, row, "keep", 1, FALSE) \in Seq(Q)
      /\ Patch(b, row, "keep", 0, FALSE) \o << Apply(b, "stop") >> \in Seq(Q)
  BY <1>1, <1>3, ConcatProperties
<1> QED
  BY <1>2, <1>3, <1>4 DEF Start, Stop, Undeploy, Initialize, DeployBuild

\* Build.cleanup removes the build, or ends with the launch of its cleanup.
LEMMA CleanupShape ==
  ASSUME NEW b \in Builds, NEW row \in Rows, NEW list, list = Cleanup(b, row)
  PROVE  /\ NoCleanupJob => list = << Purge(b), Unfinalize(b) >>
         /\ ~NoCleanupJob => /\ \A i \in 1 .. Len(list) : ~Sweeps(list[i])
                             /\ \E i \in 1 .. Len(list) : list[i] = Apply(b, "cleanup")
         /\ list \in Seq(Surely)
<1>1. CASE NoCleanupJob
  <2>1. Purge(b) \in Surely /\ Unfinalize(b) \in Surely
    BY CallTypes DEF Surely, Sweeps, Purge, Unfinalize, Benign
  <2>2. << Purge(b), Unfinalize(b) >> \in Seq(Surely)
    BY <2>1
  <2> QED
    BY <1>1, <2>2 DEF Cleanup, DeleteDeploymentResources
<1>2. CASE ~NoCleanupJob
  <2> DEFINE newReplicas == IF 0 = row.replicas THEN Keep ELSE 0
             p == [op |-> "patch", build |-> b, init |-> "keep", replicas |-> newReplicas,
                   notFoundOk |-> TRUE]
             patch == Patch(b, row, "keep", 0, TRUE)
             S == {c \in Surely : ~Sweeps(c)}
             K == Kill(b, "initialize")
             A == Apply(b, "cleanup")
  <2>1. patch \in {<< >>, << p >>}
    BY DEF Patch
  <2>2. p \in S
    BY DEF Surely, Sweeps, Calls
  <2>3. K \in S /\ A \in S
    BY <1>2, CallTypes DEF Surely, Sweeps, Kill, Apply, JobKinds, Modes, Benign
  <2>4. list = << K >> \o patch \o << A >>
    BY <1>2 DEF Cleanup
  <2> HIDE DEF patch, p, S, K, A
  <2>5. /\ << >> \in Seq(S) /\ << p >> \in Seq(S) /\ << K >> \in Seq(S) /\ << A >> \in Seq(S)
        /\ Len(<< K >>) = 1 /\ Len(<< A >>) = 1 /\ << A >>[1] = A
    BY <2>2, <2>3
  <2>6. patch \in Seq(S) /\ Len(patch) \in Nat
    BY <2>1, <2>5
  <2>7. << K >> \o patch \in Seq(S) /\ Len(<< K >> \o patch) = 1 + Len(patch)
    BY <2>5, <2>6, ConcatProperties
  <2> DEFINE m == Len(patch) + 2
  <2>8. list \in Seq(S) /\ Len(list) = m /\ list[m] = A
    <3>1. (1 + Len(patch)) + 1 = m /\ 1 \in 1 .. Len(<< A >>)
      BY <2>5, <2>6
    <3>2. list \in Seq(S) /\ Len(list) = (1 + Len(patch)) + 1
      BY <2>4, <2>5, <2>7, ConcatProperties
    <3>3. list[(1 + Len(patch)) + 1] = << A >>[1]
      BY <2>4, <2>5, <2>7, <3>1, ConcatProperties
    <3> QED
      BY <2>5, <3>1, <3>2, <3>3
  <2>9. m \in 1 .. Len(list)
    BY <2>6, <2>8
  <2>10. list \in Seq(Surely)
    <3>1. S \subseteq Surely
      BY DEF S
    <3> QED
      BY <2>8, <3>1, SeqMono
  <2>11. ASSUME NEW i \in 1 .. Len(list)
         PROVE  ~Sweeps(list[i])
    <3>1. list[i] \in S
      BY <2>8
    <3> QED
      BY <3>1 DEF S
  <2> QED
    BY <1>2, <2>8, <2>9, <2>10, <2>11 DEF A
<1> QED
  BY <1>1, <1>2

Sparing == {c \in Calls : ~Sweeps(c)}

LEMMA SparingMethods ==
  ASSUME NEW b \in Builds, NEW row
  PROVE  /\ Start(b, row) \in Seq(Sparing) /\ Stop(b, row) \in Seq(Sparing)
         /\ Undeploy(b) \in Seq(Sparing) /\ Initialize(b) \in Seq(Sparing)
         /\ DeployBuild(b) \in Seq(Sparing) /\ Delete(b) \in Sparing
<1>1. \A mode \in Modes : Apply(b, mode) \in Sparing
  BY CallTypes DEF Sparing, Sweeps, Apply
<1>2. Delete(b) \in Sparing /\ Notify(b, "pending") \in Sparing
  BY CallTypes DEF Sparing, Sweeps, Delete, Notify, GitHubStates, Benign
<1>3. Scales(b, 0) \subseteq Sparing /\ Scales(b, 1) \subseteq Sparing
  BY DEF Scales, Sparing, Sweeps
<1>4. /\ Apply(b, "deployment") \in Sparing /\ Apply(b, "start") \in Sparing
      /\ Apply(b, "stop") \in Sparing /\ Apply(b, "initialize") \in Sparing
  BY <1>1 DEF Modes
<1> QED
  BY <1>2, <1>3, <1>4, MethodsWithin

LEMMA MethodTidy ==
  ASSUME NEW t \in Tasks, NEW b \in Builds, NEW row \in Rows, NEW list, list = MethodOf(t, b, row)
  PROVE  Tidy(list)
<1>1. CASE t = "cleaner"
  <2>1. list = Cleanup(b, row)
    BY <1>1 DEF MethodOf
  <2> QED
    BY <2>1, CleanupShape DEF Tidy
<1>2. CASE t # "cleaner"
  <2>1. list \in Seq(Sparing)
    BY <1>2, SparingMethods, TasksAssumption DEF MethodOf
  <2>2. \A i \in 1 .. Len(list) : ~Sweeps(list[i])
    <3>1. \A i \in 1 .. Len(list) : list[i] \in Sparing
      BY <2>1
    <3> QED
      BY <3>1 DEF Sparing
  <2> QED
    BY <2>2 DEF Tidy
<1> QED
  BY <1>1, <1>2

LEMMA RequestTidy ==
  ASSUME SureInv, NEW c \in Clients, ClientRequest(c)
  PROVE  /\ calls'[c] \in Seq(Sparing) /\ calls[c] = << >>
         /\ \A a \in Actors \ {c} : calls'[a] = calls[a]
         /\ UNCHANGED << deployments, jobs, db, todo >>
<1>1. /\ LifeInv /\ c \in Actors /\ calls \in [Actors -> Seq(MetCalls)] /\ "reset" \notin ClientOps
  BY MirrorParts, ActorSets DEF SureInv, LifeInv, CleanupInv
<1> DEFINE Asks(list) == calls[c] = << >> /\ calls' = [calls EXCEPT ![c] = list]
<1>2. ASSUME NEW b \in Builds,
             DeployCommit(c, b) \/ StartBuild(c, b) \/ StopBuild(c, b) \/ UndeployBuild(c, b)
      PROVE  \E list \in Seq(Sparing) : Asks(list)
  <2>1. \/ Asks(DeployBuild(b)) \/ Asks(Start(b, db[b]))
        \/ Asks(Stop(b, db[b])) \/ Asks(Undeploy(b))
    BY <1>2 DEF DeployCommit, StartBuild, StopBuild, UndeployBuild, Request
  <2> HIDE DEF Asks
  <2> QED
    BY <2>1, SparingMethods
<1>3. ASSUME NEW b \in Builds, ResetBuild(c, b)
      PROVE  FALSE
  BY <1>1, <1>3 DEF ResetBuild, Request
<1>4. ASSUME NEW pr, UndeployBuilds(c, pr)
      PROVE  \E list \in Seq(Sparing) : Asks(list)
  <2>1. PICK q \in SearchPr(db, pr) : Request(c, "close", [i \in 1 .. Len(q) |-> Delete(q[i])])
    BY <1>4 DEF UndeployBuilds
  <2> DEFINE list == [i \in 1 .. Len(q) |-> Delete(q[i])]
  <2>2. IsFiniteSet({b \in Names(db) : Info[b].pr = pr}) /\ Names(db) \subseteq Builds
    BY FS_Subset, BuildsAssumption DEF Names
  <2>3. q \in SetToSeqs({b \in Names(db) : Info[b].pr = pr})
    BY <2>1 DEF SearchPr
  <2>4. Len(q) \in Nat /\ \A i \in 1 .. Len(q) : q[i] \in Builds
    BY <2>2, <2>3, SetToSeqsType
  <2>5. list \in Seq(Sparing)
    BY <2>4, SparingMethods
  <2>6. Asks(list)
    BY <2>1 DEF Request
  <2> HIDE DEF list, Asks
  <2> QED
    BY <2>5, <2>6
<1>5. PICK list \in Seq(Sparing) : Asks(list)
  <2> HIDE DEF Asks
  <2> QED
    BY <1>2, <1>3, <1>4 DEF ClientRequest
<1> QED
  BY <1>1, <1>5, RequestCalls DEF clusterVars

LEMMA TidyStep ==
  ASSUME SureInv, CallsTidy, [Next]_vars
  PROVE  CallsTidy'
<1> DEFINE Clean(list) ==
      \/ \A i \in 1 .. Len(list) : ~Sweeps(list[i])
      \/ \E b \in Builds :
           \/ list \in { << Purge(b), Unfinalize(b) >>, << Unfinalize(b) >> }
           \/ list = << Purge(b) >> /\ deployments'[b].phase = "gone"
<1>1. /\ LifeInv /\ Moves /\ JobWatcher \in Actors /\ calls \in [Actors -> Seq(SoundCalls)]
      /\ todo \in [Tasks -> Seq(MetSnapshots)] /\ jobEvents \in Seq(SoundJobEvents)
  BY StepMoves, MirrorParts, InvParts DEF SureInv, PlacesSound
<1>2. ASSUME NEW list, Tidy(list)
      PROVE  Clean(list)
  BY <1>1, <1>2, MovesEvidence DEF Tidy
<1>3. ASSUME NEW a \in Actors, NEW list, list = calls'[a]
      PROVE  Clean(list)
  <2> HIDE DEF Clean
  <2>1. Tidy(calls[a])
    BY DEF CallsTidy
  <2>2. CASE list = calls[a]
    BY <1>2, <2>1, <2>2
  <2>3. CASE Performs(a)
    <3>1. calls[a] \in Seq(SoundCalls) /\ calls[a] # << >> /\ list = Tail(calls[a])
      BY <1>1, <1>3, <2>3 DEF Performs
    <3>2. CASE \A i \in 1 .. Len(calls[a]) : ~Sweeps(calls[a][i])
      <4>1. \A i \in 1 .. Len(list) : i + 1 \in 1 .. Len(calls[a]) /\ list[i] = calls[a][i + 1]
        BY <3>1, TailItems
      <4>2. \A i \in 1 .. Len(list) : ~Sweeps(list[i])
        BY <3>2, <4>1
      <4> QED
        BY <4>2 DEF Clean
    <3>3. ASSUME NEW b \in Builds, calls[a] = << Purge(b), Unfinalize(b) >>
          PROVE  Clean(list)
      <4>1. list = << Unfinalize(b) >>
        BY <3>1, <3>3
      <4> QED
        BY <4>1 DEF Clean
    <3>4. ASSUME NEW c, calls[a] = << c >>
          PROVE  Clean(list)
      <4>1. list = << >>
        BY <3>1, <3>4
      <4> QED
        BY <4>1 DEF Clean
    <3> QED
      BY <2>1, <3>2, <3>3, <3>4 DEF Tidy
  <2>4. CASE Gives(a)
    BY <1>3, <2>4 DEF Gives, Clean
  <2>5. CASE a \in Tasks /\ NextBuild(a)
    <3>1. Head(todo[a]) \in MetSnapshots
      BY <1>1, <2>5 DEF NextBuild
    <3>2. /\ Head(todo[a]).build \in Builds /\ Head(todo[a]).row \in Rows
          /\ list = MethodOf(a, Head(todo[a]).build, Head(todo[a]).row)
      BY <1>1, <1>3, <2>5, <3>1 DEF MetSnapshots, Snapshots, NextBuild
    <3>3. Tidy(list)
      BY <2>5, <3>2, MethodTidy
    <3> QED
      BY <1>2, <3>3
  <2>6. CASE a = JobWatcher /\ HandlesJob
    <3> DEFINE e == Head(jobEvents)
    <3>1. /\ e.build \in Builds /\ e.kind \in JobKinds /\ e.state \in JobStates \ {"none"}
          /\ db[e.build] \in Rows /\ deployments' = deployments
      BY <1>1, <2>6, HeadEvent DEF HandlesJob
    <3> HIDE DEF e
    <3>2. CASE list = OnJobEvent(e.build, db[e.build], e.kind, e.state)
      <4>1. CASE e.kind = "initialize"
        <5>1. \A i \in 1 .. Len(list) : ~Sweeps(list[i])
          BY <3>1, <3>2, <4>1, OnJobEventPatches
        <5> QED
          BY <5>1 DEF Clean
      <4>2. CASE e.kind = "cleanup"
        <5>1. list = << >> \/ list = << Purge(e.build), Unfinalize(e.build) >>
          BY <3>1, <3>2, <4>2, OnJobEventPatches
        <5> QED
          BY <3>1, <5>1 DEF Clean
      <4> QED
        BY <3>1, <4>1, <4>2 DEF JobKinds
    <3>3. CASE deployments[e.build].phase = "gone" /\ list = << Purge(e.build) >>
      BY <3>1, <3>3 DEF Clean
    <3> QED
      BY <1>3, <2>6, <3>2, <3>3 DEF HandlesJob, e
  <2>7. CASE a \in Clients /\ ClientRequest(a)
    <3>1. \A i \in 1 .. Len(list) : list[i] \in Sparing
      BY <1>3, <2>7, RequestTidy
    <3>2. \A i \in 1 .. Len(list) : ~Sweeps(list[i])
      BY <3>1 DEF Sparing
    <3> QED
      BY <3>2 DEF Clean
  <2> QED
    BY <1>3, <2>2, <2>3, <2>4, <2>5, <2>6, <2>7, OwnSteps, CallSteps, WatcherSteps, SureParts
<1>4. \A a \in Actors : Clean(calls'[a])
  BY <1>3
<1> QED
  BY <1>4 DEF CallsTidy, Tidy, Clean

LEMMA AnswerInit ==
  ASSUME Init, SureInv
  PROVE  AnswerInv
<1>1. /\ deployments = [b \in Builds |-> NoDeployment("unborn")] /\ db = EmptyTable
      /\ jobs = [b \in Builds |-> [k \in JobKinds |-> "none"]]
      /\ calls = [a \in Actors |-> << >>] /\ deplEvents = << >> /\ jobEvents = << >>
      /\ JobWatcher \in Actors
  BY ActorSets DEF Init, ClusterInit, ClusterBlank, ControllerBlank
<1>2. RowsMarked
  <2>1. << >> \in Seq(MarkedSnapshots)
    OBVIOUS
  <2> QED
    BY <1>1, <2>1 DEF RowsMarked, MarkedRow, EmptyTable, AbsentRow, Outcomes
<1>3. MarksLaunched
  BY <1>1 DEF MarksLaunched, NoDeployment
<1>4. CallsTidy
  BY <1>1 DEF CallsTidy, Tidy
<1>5. EndsAnswered
  BY <1>1 DEF EndsAnswered, Outcomes
<1> QED
  BY <1>2, <1>3, <1>4, <1>5 DEF AnswerInv

LEMMA AnswerStep ==
  AnswerInv /\ [Next]_vars => AnswerInv'
<1> SUFFICES ASSUME AnswerInv, [Next]_vars
             PROVE  AnswerInv'
  OBVIOUS
<1>1. SureInv /\ RowsMarked /\ MarksLaunched /\ CallsTidy /\ EndsAnswered
  BY DEF AnswerInv
<1>2. SureInv'
  BY <1>1, MirrorStep DEF SureInv
<1> QED
  BY <1>1, <1>2, RowsStep, LaunchedStep, SureParts, TidyStep, EndsStep DEF AnswerInv

(***************************************************************************)
(* The cleaner and what it began: a build of its list, or a call that is   *)
(* still to be made, or a job, or what the end of the job asked for.       *)
(***************************************************************************)
LEMMA Undeploying ==
  MirrorInv /\ ~Restless =>
    \A b \in WithStatus(db, {"undeploying"}) : deployments[b].phase = "deleting"
<1> SUFFICES ASSUME MirrorInv, ~Restless, NEW b \in Builds, db[b].status = "undeploying"
             PROVE  deployments[b].phase = "deleting"
  BY DEF WithStatus
<1>1. deplWatch = "up"
  BY MirrorParts DEF NotLoaded, EmptyTable, AbsentRow
<1>2. /\ RowOf(deployments[b]).status = "undeploying" /\ deployments[b].phase \in Phases
      /\ deployments[b].init \in BuildInitStatus /\ deployments[b].replicas \in {0, 1}
  BY <1>1, CalmRows, MirrorParts, Phase DEF SameBuild
<1>3. Present(deployments[b])
  BY <1>2 DEF RowOf, AbsentRow
<1>4. StatusFromDeployment(deployments[b]) = "undeploying"
  BY <1>2, <1>3 DEF RowOf
<1>5. deployments[b].phase # "live"
  BY <1>2, <1>4 DEF StatusFromDeployment, BuildInitStatus
<1> QED
  BY <1>3, <1>5 DEF Present

LEMMA NextUndeploying ==
  (MirrorInv /\ ~Restless =>
    \A b \in WithStatus(db, {"undeploying"}) : deployments[b].phase = "deleting")'
BY Undeploying, PTL

\* What the cleaner asks for, and the removal of a finalizer, do not raise.
LEMMA SurelyDone ==
  ASSUME SureInv, NoCleanupJob \/ Supported, NEW a \in Actors, calls[a] # << >>,
         Head(calls[a]) \in Surely
  PROVE  ~Raises(Head(calls[a]))
<1> DEFINE c == Head(calls[a])
<1>1. LifeInv /\ c \in Surely /\ c.build \in Builds /\ BuildSound(c.build)
  BY MirrorParts, InvParts, HeadCall DEF SureInv
<1> HIDE DEF c
<1>2. ~Raises(c)
  BY <1>1 DEF Raises, Surely, Sweeps, Supported, BuildSound
<1> QED
  BY <1>2 DEF c

LEMMA CleanerCalls ==
  ASSUME SureInv, "cleaner" \in Tasks, calls["cleaner"] \in Seq(Surely), [Next]_vars
  PROVE  calls'["cleaner"] \in Seq(Surely)
<1> DEFINE t == "cleaner"
<1>1. t \in Actors /\ t # JobWatcher /\ t \notin Clients /\ todo \in [Tasks -> Seq(MetSnapshots)]
      /\ calls \in [Actors -> Seq(MetCalls)]
  BY ActorSets, MirrorParts DEF SureInv
<1>2. CASE calls'[t] = calls[t]
  BY <1>2
<1>3. CASE Call(t)
  <2>1. calls[t] # << >> /\ calls'[t] \in {Tail(calls[t]), << >>}
    BY <1>1, <1>3 DEF Call, Abort
  <2>2. << >> \in Seq(Surely) /\ Tail(calls[t]) \in Seq(Surely)
    BY <2>1
  <2> QED
    BY <2>1, <2>2
<1>4. CASE NextBuild(t)
  <2>1. Head(todo[t]) \in MetSnapshots
    BY <1>1, <1>4 DEF NextBuild
  <2>2. /\ Head(todo[t]).build \in Builds /\ Head(todo[t]).row \in Rows
        /\ calls'[t] = Cleanup(Head(todo[t]).build, Head(todo[t]).row)
    BY <1>1, <1>4, <2>1 DEF MetSnapshots, Snapshots, NextBuild, MethodOf
  <2> QED
    BY <2>2, CleanupShape
<1> QED
  BY <1>1, <1>2, <1>3, <1>4, OwnSteps

\* A pass lists every build that is undeploying.
LEMMA PassTends ==
  ASSUME SureInv, "cleaner" \in Tasks, Pass("cleaner"), NEW b \in WithStatus(db, {"undeploying"})
  PROVE  \E i \in 1 .. Len(todo'["cleaner"]) : todo'["cleaner"][i].build = b
<1> DEFINE W == WithStatus(db, {"undeploying"})
<1>1. todo \in [Tasks -> Seq(MetSnapshots)] /\ IsFiniteSet(W)
  BY MirrorParts, FS_Subset, BuildsAssumption DEF SureInv, WithStatus
<1>2. PICK q \in ToCleanup(db) :
        todo' = [todo EXCEPT !["cleaner"] = [i \in 1 .. Len(q) |-> [build |-> q[i], row |-> db[q[i]]]]]
  BY DEF Pass, Selections
<1>3. q \in SetToSeqs(W)
  BY <1>2 DEF ToCleanup, OldestFirst
<1>4. Len(q) \in Nat /\ \E i \in 1 .. Len(q) : q[i] = b
  BY <1>1, <1>3, Listed
<1>5. todo'["cleaner"] = [i \in 1 .. Len(q) |-> [build |-> q[i], row |-> db[q[i]]]]
  BY <1>1, <1>2
<1> QED
  BY <1>4, <1>5

\* A cleanup job is only deleted with the other resources of the build.
LEMMA CleanupGone ==
  ASSUME SureInv, [Next]_vars, NEW b \in Builds,
         jobs[b]["cleanup"] # "none", jobs'[b]["cleanup"] = "none"
  PROVE  \E a \in Actors : Performs(a) /\ Head(calls[a]).op = "purge" /\ Head(calls[a]).build = b
<1>1. LifeInv /\ FaultKinds = {} /\ jobs \in [Builds -> [JobKinds -> JobStates]]
  BY MirrorParts, InvParts DEF SureInv
<1>2. ASSUME NEW o \in Builds, NEW k \in JobKinds, NEW s, SetJob(o, k, s), k = "initialize" \/ s # "none"
      PROVE  FALSE
  BY <1>1, <1>2 DEF SetJob, JobKinds
<1>3. jobs' # jobs
  OBVIOUS
<1>4. ~Environment
  <2>1. \A o \in Builds : ~InitializeSucceeds(o) /\ ~CleanupSucceeds(o)
    BY <1>2 DEF InitializeSucceeds, CleanupSucceeds, JobKinds
  <2>2. \A o \in Builds, k \in JobKinds : ~JobFails(o, k)
    BY <1>2 DEF JobFails
  <2> QED
    BY <1>3, <2>1, <2>2 DEF Environment, InitializeCreatesDatabase, Scale, Tick, cluster
<1>5. ASSUME NEW a \in Actors, Call(a)
      PROVE  Performs(a) /\ Head(calls[a]).op = "purge" /\ Head(calls[a]).build = b
  <2>1. Performs(a)
    BY <1>3, <1>5, CallSteps, SureParts DEF Gives
  <2> DEFINE c == Head(calls[a])
  <2>2. c \in SoundCalls /\ c \in Calls /\ c.build \in Builds /\ Perform(c)
    BY <1>1, <2>1, HeadCall DEF Performs
  <2> HIDE DEF c
  <2>3. c.op \in {"apply", "delete", "purge", "unfinalize", "kill", "notify", "patch"}
    BY <2>2, CallFields
  <2>4. ~ApplyJob(c)
    BY <1>2, <1>3, <2>2 DEF ApplyJob
  <2>5. ~KillJob(c)
    BY <1>2, <2>2 DEF KillJob, SoundCalls, JobKinds
  <2>6. DeleteResources(c)
    BY <1>3, <2>2, <2>4, <2>5
       DEF Perform, ApplyDeployment, ApplyOthers, PatchDeployment, RemoveFinalizers,
           DeleteDeployment, NotifyStatus
  <2>7. c.op = "purge" /\ c.build = b
    BY <1>1, <2>2, <2>6 DEF DeleteResources
  <2> QED
    BY <2>1, <2>7 DEF c
<1>6. CASE DeploymentWatcher \/ JobWatch \/ Faults \/ Wait \/ UNCHANGED vars
  BY <1>3, <1>6
     DEF DeploymentWatcher, StartDeploymentWatch, ListDeployments, HandleDeployment, JobWatch,
         StartJobWatch, HandleJob, HandleJobLookup, Faults, CallFails, DeploymentWatchBreaks,
         JobWatchBreaks, ControllerRestarts, Wait, cluster, vars, clusterVars
<1>7. ASSUME NEW t \in Tasks, Pass(t) \/ NextBuild(t)
      PROVE  FALSE
  BY <1>3, <1>7 DEF Pass, NextBuild, clusterVars
<1>8. ASSUME NEW c \in Clients, ClientRequest(c)
      PROVE  FALSE
  BY <1>1, <1>3, <1>8, RequestCalls DEF clusterVars
<1> QED
  BY <1>4, <1>5, <1>6, <1>7, <1>8 DEF Next, Background

\* The removal of the finalizer stays pending until the deployment is gone.
LEMMA SweepStays ==
  ASSUME SureInv, CallsTidy, NoCleanupJob \/ Supported, [Next]_vars,
         NEW b \in Builds, deployments'[b].phase = "deleting",
         NEW a \in Actors, Has(a, Unfinalize(b))
  PROVE  Has(a, Unfinalize(b))'
<1>1. LifeInv /\ calls[a] # << >>
  BY MirrorParts DEF SureInv, Has
<1>2. CASE calls'[a] = calls[a]
  BY <1>2 DEF Has
<1>3. PICK o \in Builds : calls[a] \in { << Purge(o), Unfinalize(o) >>, << Unfinalize(o) >> }
  <2>1. PICK i \in 1 .. Len(calls[a]) : calls[a][i] = Unfinalize(b)
    BY DEF Has
  <2>2. Sweeps(calls[a][i])
    BY <2>1 DEF Sweeps, Unfinalize
  <2>3. ASSUME NEW o, calls[a] = << Purge(o) >>
        PROVE  FALSE
    BY <2>1, <2>3 DEF Purge, Unfinalize
  <2> QED
    BY <2>2, <2>3 DEF CallsTidy, Tidy
<1>4. o = b
  <2>1. PICK i \in 1 .. Len(calls[a]) : calls[a][i] = Unfinalize(b)
    BY DEF Has
  <2>2. calls[a][i] \in {Purge(o), Unfinalize(o)}
    BY <1>3
  <2> QED
    BY <2>1, <2>2 DEF Purge, Unfinalize
<1>5. ~Gives(a)
  <2>1. Head(calls[a]) \in Calls /\ Head(calls[a]) \in {Purge(o), Unfinalize(o)}
    BY <1>1, <1>3, HeadCall
  <2>2. Head(calls[a]) \in Surely
    BY <2>1 DEF Surely, Sweeps, Purge, Unfinalize
  <2> QED
    BY <1>1, <2>2, SurelyDone DEF Gives
<1>6. CASE Performs(a)
  <2>1. CASE calls[a] = << Purge(o), Unfinalize(o) >>
    <3>1. calls'[a] = << Unfinalize(b) >>
      BY <1>4, <1>6, <2>1 DEF Performs
    <3>2. 1 \in 1 .. Len(calls'[a]) /\ calls'[a][1] = Unfinalize(b)
      BY <3>1
    <3> QED
      BY <3>2 DEF Has
  <2>2. CASE calls[a] = << Unfinalize(o) >>
    <3>1. Head(calls[a]) = Unfinalize(b) /\ Perform(Head(calls[a]))
      BY <1>4, <1>6, <2>2 DEF Performs
    <3> QED
      BY <1>1, <3>1, Unfinalized
  <2> QED
    BY <1>3, <2>1, <2>2
<1>7. CASE a \in Clients /\ ClientRequest(a)
  BY <1>1, <1>7, RequestTidy
<1>8. CASE a = JobWatcher
  BY <1>1, <1>2, <1>5, <1>6, <1>8, WatcherSteps, SureParts DEF HandlesJob
<1> QED
  BY <1>1, <1>2, <1>5, <1>6, <1>7, <1>8, OwnSteps, CallSteps, SureParts DEF NextBuild

\* The launch of the cleanup job.
LEMMA CleanupMade ==
  ASSUME LifeInv, NEW a \in Actors, calls[a] # << >>, NEW b,
         Head(calls[a]) = Apply(b, "cleanup"), Perform(Head(calls[a]))
  PROVE  jobs'[b]["cleanup"] # "none"
<1> DEFINE c == Head(calls[a])
<1>1. /\ c.build \in Builds /\ c.op = "apply" /\ c.mode = "cleanup" /\ c.build = b
      /\ jobs \in [Builds -> [JobKinds -> JobStates]]
  BY SMTT(30), HeadCall, InvParts DEF Apply
<1> HIDE DEF c
<1>2. ApplyJob(c)
  BY <1>1
     DEF Perform, ApplyDeployment, ApplyOthers, PatchDeployment, RemoveFinalizers,
         DeleteDeployment, DeleteResources, KillJob, NotifyStatus, c
<1> QED
  BY <1>1, <1>2 DEF ApplyJob, SetJob, JobKinds

LEMMA TendedStep ==
  ASSUME SureInv, CallsTidy, CleanerAtWork, NoCleanupJob \/ Supported, "cleaner" \in Tasks,
         [Next]_vars, ~Awake("cleaner")', NEW b \in WithStatus(db, {"undeploying"})
  PROVE  Tended(b)'
<1> DEFINE t == "cleaner"
<1>1. /\ MirrorInv /\ LifeInv /\ t \in Actors /\ t # JobWatcher /\ t \notin Clients /\ b \in Builds
      /\ todo \in [Tasks -> Seq(MetSnapshots)] /\ calls[t] \in Seq(Surely)
      /\ calls \in [Actors -> Seq(MetCalls)]
  BY ActorSets, MirrorParts DEF SureInv, CleanerAtWork, WithStatus
<1>2. db' = db /\ ~Restless /\ ~Restless' /\ (Pass(t) \/ ~Awake(t))
  BY <1>1, StillAsleep
<1>3. deployments[b].phase = "deleting" /\ deployments'[b].phase = "deleting"
  <2>1. MirrorInv'
    BY <1>1, MirrorStep
  <2>2. b \in WithStatus(db, {"undeploying"})'
    BY <1>2 DEF WithStatus
  <2> QED
    BY <1>1, <1>2, <2>1, <2>2, Undeploying, NextUndeploying
<1>4. CASE Pass(t)
  BY <1>1, <1>4, PassTends DEF Tended
<1>5. ASSUME ~Pass(t), NEW i \in 1 .. Len(todo[t]), todo[t][i].build = b
      PROVE  Tended(b)'
  <2>1. CASE todo'[t] = todo[t]
    BY <1>5, <2>1 DEF Tended
  <2>2. CASE Call(t)
    <3>1. calls[t] # << >> /\ Head(calls[t]) \in Surely
      BY <1>1, <2>2 DEF Call
    <3>2. todo' = todo
      BY <1>1, <2>2, <3>1, SurelyDone DEF Call
    <3> QED
      BY <2>1, <3>2
  <2>3. CASE NextBuild(t)
    <3> DEFINE s == Head(todo[t])
    <3>1. todo[t] # << >> /\ todo'[t] = Tail(todo[t]) /\ s = todo[t][1] /\ s \in MetSnapshots
      BY <1>1, <2>3 DEF NextBuild
    <3>2. CASE i = 1
      <4>1. s.build = b /\ s.row \in Rows
        BY <1>5, <3>1, <3>2 DEF MetSnapshots, Snapshots
      <4>2. calls'[t] = Cleanup(b, s.row)
        BY <1>1, <2>3, <4>1 DEF NextBuild, MethodOf
      <4> HIDE DEF s
      <4>3. CASE NoCleanupJob
        <5>1. calls'[t] = << Purge(b), Unfinalize(b) >>
          BY <1>1, <4>1, <4>2, <4>3, CleanupShape
        <5>2. 2 \in 1 .. Len(calls'[t]) /\ calls'[t][2] = Unfinalize(b)
          BY <5>1
        <5> QED
          BY <1>1, <5>2 DEF Tended, Has
      <4>4. CASE ~NoCleanupJob
        <5>1. \E j \in 1 .. Len(calls'[t]) : calls'[t][j] = Apply(b, "cleanup")
          BY <1>1, <4>1, <4>2, <4>4, CleanupShape
        <5> QED
          BY <5>1 DEF Tended, Has
      <4> QED
        BY <4>3, <4>4
    <3>3. CASE i # 1
      <4>1. i - 1 \in 1 .. Len(todo'[t]) /\ todo'[t][i - 1] = todo[t][i]
        BY <1>1, <1>5, <3>1, <3>3
      <4> QED
        BY <1>5, <4>1 DEF Tended
    <3> QED
      BY <3>2, <3>3
  <2> QED
    BY <1>1, <1>5, <2>1, <2>2, <2>3, OwnSteps
<1>6. ASSUME Has(t, Apply(b, "cleanup"))
      PROVE  Tended(b)'
  <2>1. CASE calls'[t] = calls[t]
    BY <1>6, <2>1 DEF Tended, Has
  <2>2. CASE Call(t)
    <3>1. calls[t] # << >> /\ Head(calls[t]) \in Surely
      BY <1>1, <2>2 DEF Call
    <3>2. Perform(Head(calls[t])) /\ calls'[t] = Tail(calls[t])
      BY <1>1, <2>2, <3>1, SurelyDone DEF Call
    <3>3. PICK i \in 1 .. Len(calls[t]) : calls[t][i] = Apply(b, "cleanup")
      BY <1>6 DEF Has
    <3>4. CASE i = 1
      <4>1. Head(calls[t]) = Apply(b, "cleanup")
        BY <1>1, <3>1, <3>3, <3>4
      <4> QED
        BY <1>1, <3>1, <3>2, <4>1, CleanupMade DEF Tended
    <3>5. CASE i # 1
      <4>1. i - 1 \in 1 .. Len(calls'[t]) /\ calls'[t][i - 1] = calls[t][i]
        BY <1>1, <3>1, <3>2, <3>5
      <4> QED
        BY <3>3, <4>1 DEF Tended, Has
    <3> QED
      BY <3>4, <3>5
  <2>3. calls[t] # << >>
    BY <1>6 DEF Has
  <2> QED
    BY <1>1, <2>1, <2>2, <2>3, OwnSteps DEF NextBuild
<1>7. ASSUME jobs[b]["cleanup"] # "none"
      PROVE  Tended(b)'
  <2>1. CASE jobs'[b]["cleanup"] # "none"
    BY <2>1 DEF Tended
  <2>2. CASE jobs'[b]["cleanup"] = "none"
    <3>1. PICK a \in Actors :
            Performs(a) /\ Head(calls[a]).op = "purge" /\ Head(calls[a]).build = b
      BY <1>1, <1>7, <2>2, CleanupGone
    <3>2. calls[a] # << >> /\ calls'[a] = Tail(calls[a])
          /\ Head(calls[a]) = calls[a][1] /\ 1 \in 1 .. Len(calls[a])
      BY <1>1, <3>1, HeadCall DEF Performs
    <3>3. PICK o \in Builds : calls[a] \in { << Purge(o), Unfinalize(o) >>, << Unfinalize(o) >> }
                                \/ (calls[a] = << Purge(o) >> /\ deployments[o].phase = "gone")
      BY <3>1, <3>2 DEF CallsTidy, Tidy, Sweeps
    <3>4. calls[a] # << Unfinalize(o) >>
      BY <3>1 DEF Unfinalize
    <3>5. calls[a][1] = Purge(o)
      BY <3>3, <3>4
    <3>6. o = b
      BY <3>1, <3>2, <3>5 DEF Purge
    <3>7. calls'[a] = << Unfinalize(b) >>
      <4>1. calls[a] = << Purge(b), Unfinalize(b) >>
        BY <1>3, <3>3, <3>4, <3>6
      <4>2. Tail(<< Purge(b), Unfinalize(b) >>) = << Unfinalize(b) >>
        OBVIOUS
      <4> QED
        BY <3>2, <4>1, <4>2
    <3>8. 1 \in 1 .. Len(calls'[a]) /\ calls'[a][1] = Unfinalize(b)
      BY <3>7
    <3> QED
      BY <3>8 DEF Tended, Has
  <2> QED
    BY <2>1, <2>2
<1>8. ASSUME NEW a \in Actors, Has(a, Unfinalize(b))
      PROVE  Tended(b)'
  BY <1>1, <1>3, <1>8, SweepStays DEF Tended
<1>9. CASE ~Pass(t)
  <2>1. Tended(b)
    BY <1>2, <1>9 DEF CleanerAtWork
  <2> QED
    BY <1>5, <1>6, <1>7, <1>8, <1>9, <2>1 DEF Tended
<1> QED
  BY <1>4, <1>9

LEMMA CleanerStep ==
  ASSUME SureInv, CallsTidy, CleanerAtWork, NoCleanupJob \/ Supported, "cleaner" \in Tasks,
         [Next]_vars
  PROVE  CleanerAtWork'
<1>1. calls'["cleaner"] \in Seq(Surely)
  BY CleanerCalls DEF CleanerAtWork
<1>2. ASSUME ~Awake("cleaner")'
      PROVE  \A b \in WithStatus(db, {"undeploying"})' : Tended(b)'
  <2>1. db' = db
    BY <1>2, StillAsleep
  <2>2. WithStatus(db, {"undeploying"})' = WithStatus(db, {"undeploying"})
    BY <2>1 DEF WithStatus
  <2> QED
    BY <1>2, <2>2, TendedStep
<1> QED
  BY <1>1, <1>2 DEF CleanerAtWork, Surely

LEMMA CleanerInit ==
  ASSUME Init, "cleaner" \in Tasks
  PROVE  CleanerAtWork
<1>1. db = EmptyTable /\ calls["cleaner"] = << >>
  BY ActorSets DEF Init, ControllerBlank
<1>2. << >> \in Seq(Surely)
  OBVIOUS
<1> QED
  BY <1>1, <1>2 DEF CleanerAtWork, WithStatus, EmptyTable, AbsentRow

\* When nothing is left to do, a cleanup job that has not failed is over.
LEMMA SettledClean ==
  ASSUME "cleaner" \in Tasks, AnswerInv, CleanerAtWork
  PROVE  SettledUndeploy
<1> SUFFICES ASSUME AnswerInv, CleanerAtWork, Settled, NEW b \in Builds, Deleting(b)
             PROVE  jobs[b]["cleanup"] = "failed"
  BY DEF SettledUndeploy
<1>1. /\ MirrorInv /\ jobs[b]["cleanup"] \in JobStates /\ jobs[b]["cleanup"] # "active"
      /\ jobWatch = "up" /\ jobEvents = << >> /\ \A a \in Actors : calls[a] = << >>
      /\ ~Restless /\ ~Awake("cleaner") /\ deplWatch = "up" /\ todo["cleaner"] = << >>
      /\ "cleaner" \in Actors /\ JobWatcher \in Actors
  BY MirrorParts, ActorSets
     DEF AnswerInv, SureInv, ClusterTypeOK, Settled, Awake, Restless, JobKinds
<1>2. SameBuild(db[b], RowOf(deployments[b]))
  BY <1>1, CalmRows
<1>3. b \in WithStatus(db, {"undeploying"})
  BY <1>2 DEF Deleting, SameBuild, RowOf, Present, StatusFromDeployment, WithStatus
<1>4. Tended(b)
  BY <1>1, <1>3 DEF CleanerAtWork
<1>5. jobs[b]["cleanup"] # "none"
  BY <1>1, <1>4 DEF Tended, Has
<1>6. ASSUME jobs[b]["cleanup"] = "succeeded"
      PROVE  FALSE
  <2>1. /\ Answered(b, "cleanup", "succeeded") \/ Queued(b, "cleanup", "succeeded")
             \/ Answering(b, "cleanup", "succeeded")
    BY <1>6 DEF AnswerInv, EndsAnswered, JobKinds, Outcomes
  <2> QED
    BY <1>1, <2>1 DEF Answered, Queued, Answering, Deleting
<1> QED
  BY <1>1, <1>5, <1>6 DEF JobStates

\* Every undeploy that was asked for is complete when nothing is left to do,
\* or its cleanup job has failed: the cleaner takes up every deployment that
\* is deleted, whatever it was doing when the request came, and no end of a
\* cleanup job is lost, although job_watcher may lose its watch to a call
\* that raises (cleaner, Build.cleanup, job_watcher, on_cleanup_succeeded).
THEOREM UndeploysComplete ==
  ASSUME "cleaner" \in Tasks, "reset" \notin ClientOps, FaultKinds = {},
         NoCleanupJob \/ Supported
  PROVE  Spec => []SettledUndeploy
<1> DEFINE Inv == AnswerInv /\ CleanerAtWork
<1>1. Init => Inv
  <2> SUFFICES ASSUME Init
               PROVE  AnswerInv /\ CleanerAtWork
    OBVIOUS
  <2>1. SureInv
    BY MirrorInit DEF SureInv
  <2> QED
    BY <2>1, AnswerInit, CleanerInit
<1>2. Inv /\ [Next]_vars => Inv'
  BY AnswerStep, CleanerStep DEF AnswerInv
<1>3. Inv => SettledUndeploy
  BY SettledClean
<1> QED
  BY <1>1, <1>2, <1>3, PTL DEF Spec

(***************************************************************************)
(* What the initializer and the undeployer have left.                      *)
(***************************************************************************)
LEMMA SettledImage ==
  ASSUME SureInv, Settled, NEW b \in Builds
  PROVE  /\ SameBuild(db[b], RowOf(deployments[b])) /\ Timely(b, db[b])
         /\ b \in Names(db) <=> Live(b) \/ Deleting(b)
         /\ b \in WithStatus(db, {"undeploying"}) <=> Deleting(b)
         /\ \A init : b \in WithInitStatus(db, init) <=>
                        (Live(b) \/ Deleting(b)) /\ deployments[b].init = init
<1> DEFINE d == deployments[b]
           r == RowOf(d)
<1>1. MirrorInv /\ deplWatch = "up" /\ ~Restless /\ Timely(b, db[b])
  BY MirrorParts DEF SureInv, Settled, Restless, PlacesMet
<1>2. SameBuild(db[b], r)
  BY <1>1, CalmRows
<1>3. d.init \in BuildInitStatus /\ d.replicas \in {0, 1} /\ (Present(d) <=> Live(b) \/ Deleting(b))
  BY <1>1, MirrorParts, Phase DEF Present, Live, Deleting
<1>4. r.init = IF Present(d) THEN d.init ELSE "todo"
  BY DEF RowOf, AbsentRow
<1>5. /\ r.status = "absent" <=> ~Present(d)
      /\ r.status = "undeploying" <=> Deleting(b)
  <2>1. CASE ~Present(d)
    BY <1>3, <2>1 DEF RowOf, AbsentRow
  <2>2. CASE Present(d)
    <3>1. r.status = StatusFromDeployment(d)
      BY <2>2 DEF RowOf
    <3>2. CASE Deleting(b)
      BY <2>2, <3>1, <3>2 DEF StatusFromDeployment, Deleting
    <3>3. CASE Live(b)
      <4>1. StatusFromDeployment(d) \notin {"absent", "undeploying"}
        BY <1>3, <3>3 DEF StatusFromDeployment, Live, BuildInitStatus
      <4>2. ~Deleting(b)
        BY <3>3 DEF Live, Deleting
      <4> QED
        BY <2>2, <3>1, <4>1, <4>2
    <3> QED
      BY <1>3, <2>2, <3>2, <3>3
  <2> QED
    BY <2>1, <2>2
<1> HIDE DEF d, r
<1>6. db[b].status = r.status /\ db[b].init = r.init
  BY <1>2 DEF SameBuild
<1>7. b \in Names(db) <=> Live(b) \/ Deleting(b)
  BY <1>3, <1>5, <1>6 DEF Names
<1>8. b \in WithStatus(db, {"undeploying"}) <=> Deleting(b)
  BY <1>5, <1>6 DEF WithStatus
<1>9. ASSUME NEW init
      PROVE  b \in WithInitStatus(db, init) <=> (Live(b) \/ Deleting(b)) /\ d.init = init
  BY <1>3, <1>4, <1>6, <1>7 DEF WithInitStatus
<1> QED
  BY <1>1, <1>2, <1>7, <1>8, <1>9 DEF d, r

\* A live build whose job was launched is marked with its outcome.
LEMMA SettledLaunched ==
  ASSUME AnswerInv, Settled, NEW b \in Builds, Live(b), Launched(b)
  PROVE  deployments[b].init \in Outcomes
<1>1. /\ jobs[b]["initialize"] \in JobStates /\ jobs[b]["initialize"] # "active"
      /\ jobWatch = "up" /\ jobEvents = << >> /\ calls[JobWatcher] = << >>
  BY MirrorParts, ActorSets DEF AnswerInv, SureInv, ClusterTypeOK, Settled, JobKinds
<1>2. b \notin Doomed
  BY DEF Live, Doomed
<1>3. jobs[b]["initialize"] \in Outcomes
  BY <1>1, <1>2 DEF Launched, JobStates, Outcomes
<1>4. PICK state \in Outcomes : jobs[b]["initialize"] = state
  BY <1>3
<1>5. Answered(b, "initialize", state) \/ Queued(b, "initialize", state)
        \/ Answering(b, "initialize", state)
  BY <1>4 DEF AnswerInv, EndsAnswered, JobKinds
<1> QED
  BY <1>1, <1>2, <1>4, <1>5 DEF Answered, Queued, Answering

\* No initialization is forgotten: when nothing is left to do, every live
\* build is initialized or flagged as failed, whatever was deployed, started,
\* stopped or undeployed meanwhile, and although the initializer decides from
\* counts that lag behind the jobs it launched.  Only builds that are stuck
\* in their own undeploy, their cleanup job failed before they were
\* initialized, may keep others waiting, since they still count as
\* initializing (initializer, to_initialize, count_by_init_status).
THEOREM InitializationsComplete ==
  ASSUME {"cleaner", "initializer"} \subseteq Tasks, "reset" \notin ClientOps, FaultKinds = {},
         MaxInitializing > 0, Supported
  PROVE  Spec => []((\A b \in Builds : Deleting(b) /\ jobs[b]["cleanup"] = "failed" =>
                                         deployments[b].init \in Outcomes)
                      => SettledInitialization)
<1> DEFINE t == "initializer"
           Unstuck == \A b \in Builds : Deleting(b) /\ jobs[b]["cleanup"] = "failed" =>
                                          deployments[b].init \in Outcomes
           Inv == AnswerInv /\ CleanerAtWork /\ (Awake(t) \/ AtWork(t))
<1>1. t \in Choosers /\ "cleaner" \in Tasks
  BY DEF Choosers
<1>2. Init => Inv
  <2> SUFFICES ASSUME Init
               PROVE  AnswerInv /\ CleanerAtWork /\ (Awake(t) \/ AtWork(t))
    OBVIOUS
  <2>1. SureInv /\ AtWork(t)
    BY <1>1, AtWorkInit
  <2> QED
    BY <1>1, <2>1, AnswerInit, CleanerInit
<1>3. Inv /\ [Next]_vars => Inv'
  BY <1>1, AnswerStep, CleanerStep, AtWorkStep DEF AnswerInv
<1>4. Inv => (Unstuck => SettledInitialization)
  <2> SUFFICES ASSUME Inv, Unstuck, Settled, NEW b \in Builds, Live(b)
               PROVE  deployments[b].init \in Outcomes
    BY DEF SettledInitialization, Outcomes
  <2> DEFINE W == WithInitStatus(db, "todo")
             S == WithInitStatus(db, "started")
  <2>1. SureInv /\ AtWork(t) /\ Idle(t) /\ AnswerInv
    BY <1>1, ActorSets DEF Settled, Awake, Restless, Idle, AnswerInv, Choosers
  <2>2. ASSUME NEW o \in Builds, Live(o) \/ Deleting(o), deployments[o].init \notin Outcomes
        PROVE  Live(o) /\ deployments[o].init = "todo" /\ ~Launched(o)
    <3>1. Live(o)
      BY <1>1, <2>2, SettledClean DEF SettledUndeploy
    <3>2. ~Launched(o)
      BY <2>1, <2>2, <3>1, SettledLaunched
    <3> QED
      BY <2>1, <3>1, <3>2 DEF AnswerInv, MarksLaunched
  <2>3. S = {}
    <3>1. ASSUME NEW o \in S
          PROVE  FALSE
      <4>1. o \in Builds /\ (Live(o) \/ Deleting(o)) /\ deployments[o].init = "started"
        BY <2>1, SettledImage DEF WithInitStatus, Names
      <4> QED
        BY <2>2, <4>1 DEF Outcomes
    <3> QED
      BY <3>1
  <2>4. ASSUME NEW o \in W
        PROVE  ~Launched(o)
    <3>1. o \in Builds /\ (Live(o) \/ Deleting(o)) /\ deployments[o].init = "todo"
      BY <2>1, SettledImage DEF WithInitStatus, Names
    <3> QED
      BY <2>2, <3>1 DEF Outcomes
  <2>5. ~Taken(t) /\ Chosen(t) = W
    BY <2>4 DEF Taken, Chosen, Launched
  <2>6. ASSUME << >> \in Selections(t)
        PROVE  W = {}
    <3>1. CountByInitStatus(db, "started") = 0
      BY <2>3, FS_EmptySet DEF CountByInitStatus
    <3>2. << >> \in Limit(OldestFirst(W, Created(db)), MaxInitializing) /\ W \in SUBSET Builds
      BY <2>6, <3>1, LimitsAssumption DEF Selections, ToInitialize, Max0, WithInitStatus, Names
    <3>3. MaxInitializing \in Nat /\ MaxInitializing # 0
      BY LimitsAssumption
    <3> HIDE DEF W
    <3> QED
      BY <3>2, <3>3, OldestFirstItems
  <2>7. W = {}
    BY <2>1, <2>5, <2>6 DEF AtWork
  <2>8. deployments[b].init # "todo"
    BY <2>1, <2>7, SettledImage
  <2> QED
    BY <2>2, <2>8
<1> QED
  BY <1>2, <1>3, <1>4, PTL DEF Spec

\* The undeployer keeps the builds that are deployed within the limit: when
\* nothing is left to do, the initializations included, either no more than
\* max_deployed builds are live, or every one that does not run is the newest
\* of its branch, whatever was started, stopped or evicted meanwhile
\* (undeployer, oldest_stopped, count_deployed).
THEOREM DeploysWithinLimit ==
  ASSUME "undeployer" \in Tasks, "reset" \notin ClientOps, FaultKinds = {}
  PROVE  Spec => [](SettledInitialization => SettledDeployed)
<1> DEFINE t == "undeployer"
           Inv == SureInv /\ (Awake(t) \/ AtWork(t))
<1>1. t \in Choosers
  BY DEF Choosers
<1>2. Init => Inv
  BY <1>1, AtWorkInit
<1>3. Inv /\ [Next]_vars => Inv'
  BY <1>1, AtWorkStep, MirrorStep DEF SureInv
<1>4. Inv => (SettledInitialization => SettledDeployed)
  <2> DEFINE L == {o \in Builds : Live(o)}
             W == WithStatus(db, {"stopping", "stopped", "failed"})
  <2> SUFFICES ASSUME Inv, SettledInitialization, Settled, Cardinality(L) > MaxDeployed,
                      NEW b \in Builds, Live(b), deployments[b].replicas = 0
               PROVE  /\ Info[b].pr = NoPr
                      /\ \A c \in Builds :
                           Live(c) /\ Info[c].branch = Info[b].branch /\ Info[c].pr = NoPr
                             => deployments[c].created <= deployments[b].created
    BY DEF SettledDeployed
  <2>1. SureInv /\ AtWork(t) /\ Idle(t)
    BY <1>1, ActorSets DEF Settled, Awake, Restless, Idle, Choosers
  <2>2. \A o \in Builds : Live(o) => ~Deleting(o)
    BY DEF Live, Deleting
  <2>3. Names(db) \ WithStatus(db, {"undeploying"}) = L
    BY <2>1, <2>2, SettledImage DEF Names
  <2>4. b \in W
    <3>1. deployments[b] \in Deployments /\ deployments[b].init \in {"succeeded", "failed"}
      BY <2>1, MirrorParts DEF SureInv, SettledInitialization
    <3>2. StatusFromDeployment(deployments[b]) \in {"stopping", "stopped", "failed"}
      BY <3>1 DEF StatusFromDeployment, Live
    <3>3. RowOf(deployments[b]).status \in {"stopping", "stopped", "failed"}
      BY <3>2 DEF RowOf, Present, Live
    <3> QED
      BY <2>1, <3>3, SettledImage DEF SameBuild, WithStatus
  <2> DEFINE n == Max0(CountDeployed(db) - MaxDeployed)
             R(S) == {o \in W : o \notin S \/ Info[o].pr # NoPr}
  <2>5. n \in Nat /\ n # 0
    <3>1. Cardinality(L) \in Nat
      BY FS_Subset, FS_CardinalityType, BuildsAssumption
    <3>2. CountDeployed(db) = Cardinality(L)
      BY <2>3 DEF CountDeployed
    <3> HIDE DEF L
    <3> QED
      BY <3>1, <3>2, LimitsAssumption DEF Max0
  <2>6. << >> \in Selections(t)
    BY <2>1, <2>4 DEF AtWork, Taken, Chosen
  <2>7. PICK S \in RowNumberOnes(db) : << >> \in Limit(OldestFirst(R(S), LastScaled(db)), n)
    BY <2>6 DEF Selections, OldestStopped
  <2>8. R(S) = {}
    <3>1. R(S) \in SUBSET Builds
      BY DEF WithStatus
    <3> HIDE DEF R, n
    <3> QED
      BY <2>5, <2>7, <3>1, OldestFirstItems
  <2>9. b \in S /\ Info[b].pr = NoPr
    BY <2>4, <2>8
  <2>10. b \in Names(db) /\ b \in Newest(db, b)
    <3>1. b \in Names(db) /\ b \in Partition(db, b)
      BY <2>1, SettledImage DEF Partition
    <3> QED
      BY <2>7, <2>9, <3>1 DEF RowNumberOnes
  <2>11. ASSUME NEW c \in Builds, Live(c), Info[c].branch = Info[b].branch, Info[c].pr = NoPr
         PROVE  deployments[c].created <= deployments[b].created
    <3>1. c \in Partition(db, b)
      BY <2>1, <2>9, <2>11, SettledImage DEF Partition
    <3>2. db[c].created <= db[b].created
      BY <2>10, <3>1 DEF Newest
    <3>3. \A o \in Builds : Live(o) => db[o].created = deployments[o].created
      BY <2>1, SettledImage DEF Timely, Names, Present, Live
    <3> QED
      BY <2>11, <3>2, <3>3
  <2> QED
    BY <2>9, <2>11
<1> QED
  BY <1>2, <1>3, <1>4, PTL DEF Spec
=============================================================================
