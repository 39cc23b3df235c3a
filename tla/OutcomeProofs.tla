--------------------------- MODULE OutcomeProofs ----------------------------
(***************************************************************************)
(* The outcome of an initialization: proofs of RunningIsInitialized,       *)
(* InitializedHasDatabase and StatusTruthful, from the invariant of        *)
(* EvidenceProofs.  Each action is shown to keep SoundInv, and then the    *)
(* order of what job_watcher has before it, OrderInv.                      *)
(***************************************************************************)
EXTENDS EvidenceProofs

(***************************************************************************)
(* SoundInv, one action at a time.                                         *)
(***************************************************************************)
LEMMA DbAddSound ==
  ASSUME LifeInv, Moves, NEW b \in Builds, NEW row \in Rows, DbAdd(b, row),
         [build |-> b, row |-> row] \in SoundSnapshots'
  PROVE  \A k \in Builds : [build |-> k, row |-> db'[k]] \in SoundSnapshots'
<1>1. db \in [Builds -> Rows]
  BY InvParts DEF TypeOK, Tables
<1>2. \A k \in Builds : db'[k] = db[k] \/ (k = b /\ db'[k] = row)
  BY <1>1 DEF DbAdd, Put
<1>3. \A k \in Builds : [build |-> k, row |-> db[k]] \in SoundSnapshots'
  BY InvParts, SoundGrows DEF PlacesSound
<1> QED
  BY <1>2, <1>3

LEMMA DeploymentWatcherSound ==
  ASSUME LifeInv, TypeOK', DeploymentWatcher
  PROVE  SoundInv'
<1>1. /\ UNCHANGED << deployments, jobs, databases, github >>
      /\ UNCHANGED << jobWatch, jobEvents, lookup, todo, calls >>
  BY DEF DeploymentWatcher, StartDeploymentWatch, ListDeployments, HandleDeployment, cluster,
         controller
<1>2. Moves /\ JobEventsGrow
  BY <1>1, Stays, SameJobEvents
<1>3. /\ \A b \in Builds : BuildSound(b)'
      /\ todo' \in [Tasks -> Seq(Selected')]
      /\ jobEvents' \in Seq(SoundJobEvents')
      /\ calls' \in [Actors -> Seq(SoundCalls')]
      /\ LookupSound'
  BY <1>1, <1>2, SoundFrame
<1> SUFFICES /\ \A b \in Builds : [build |-> b, row |-> db'[b]] \in SoundSnapshots'
             /\ deplEvents' \in Seq(SoundSnapshots')
  BY <1>3 DEF SoundInv, PlacesSound
<1>4. \A b \in Builds : deployments'[b] \in Deployments /\ deployments'[b] = deployments[b]
  BY <1>1 DEF TypeOK, ClusterTypeOK
<1>5. CASE StartDeploymentWatch
  BY <1>2, <1>5, SoundFrame, AbsentSound DEF StartDeploymentWatch, EmptyTable
<1>6. CASE ListDeployments
  <2> DEFINE S == {b \in Builds : Present(deployments[b])}
             events(q) == [i \in 1 .. Len(q) |->
                             [build |-> q[i], row |-> RowOf(deployments[q[i]])]]
  <2>1. PICK q \in SetToSeqs(S) : deplEvents' = events(q)
    BY <1>6 DEF ListDeployments
  <2>2. Len(q) \in Nat /\ \A i \in 1 .. Len(q) : q[i] \in Builds
    <3>1. IsFiniteSet(S)
      BY FS_Subset, BuildsAssumption
    <3> QED
      BY <3>1, SetToSeqsType
  <2>3. \A i \in 1 .. Len(q) :
          [build |-> q[i], row |-> RowOf(deployments[q[i]])] \in SoundSnapshots'
    BY <1>4, <2>2, RowSound
  <2>4. events(q) \in Seq(SoundSnapshots')
    BY <2>2, <2>3
  <2>5. db' = db
    BY <1>6 DEF ListDeployments, controller
  <2> QED
    BY <1>2, <2>1, <2>4, <2>5, SoundFrame
<1>7. CASE HandleDeployment
  <2> DEFINE e == Head(deplEvents)
  <2>1. deplEvents \in Seq(SoundSnapshots') /\ deplEvents # << >> /\ deplEvents' = Tail(deplEvents)
    BY <1>2, <1>7, InvParts, SoundGrows, SeqMono DEF PlacesSound, HandleDeployment
  <2>2. e \in SoundSnapshots' /\ deplEvents' \in Seq(SoundSnapshots')
    BY <2>1
  <2>3. /\ e.build \in Builds /\ e.row \in Rows
        /\ [build |-> e.build, row |-> e.row] \in SoundSnapshots'
    BY <2>2 DEF SoundSnapshots, Snapshots
  <2>4. CASE e.row.status = "absent"
    <3>1. DbRemove(e.build) /\ db \in [Builds -> Rows]
      BY <1>7, <2>4, InvParts DEF HandleDeployment, TypeOK, Tables
    <3>2. \A k \in Builds : db'[k] \in {db[k], AbsentRow}
      BY <3>1 DEF DbRemove, Drop
    <3>3. \A k \in Builds : [build |-> k, row |-> db[k]] \in SoundSnapshots'
      BY <1>2, InvParts, SoundGrows DEF PlacesSound
    <3> QED
      BY <2>2, <3>2, <3>3, AbsentSound
  <2>5. CASE e.row.status # "absent"
    BY <1>2, <1>7, <2>2, <2>3, <2>5, DbAddSound DEF HandleDeployment
  <2> QED
    BY <2>4, <2>5
<1> QED
  BY <1>5, <1>6, <1>7 DEF DeploymentWatcher

\* The event that job_watcher has before it.
LEMMA HeadEvent ==
  ASSUME LifeInv, jobEvents # << >>
  PROVE  LET e == Head(jobEvents) IN
         /\ e \in SoundJobEvents /\ e = jobEvents[1] /\ 1 \in 1 .. Len(jobEvents)
         /\ jobEvents \in Seq(SoundJobEvents) /\ Tail(jobEvents) \in Seq(SoundJobEvents)
         /\ e.build \in Builds /\ e.kind \in JobKinds /\ e.state \in JobStates \ {"none"}
         /\ e.build \notin Unborn
         /\ db[e.build] \in Rows
<1>1. jobEvents \in Seq(SoundJobEvents)
  BY InvParts DEF PlacesSound
<1>2. /\ Head(jobEvents) \in SoundJobEvents /\ Head(jobEvents) = jobEvents[1]
      /\ 1 \in 1 .. Len(jobEvents) /\ Tail(jobEvents) \in Seq(SoundJobEvents)
  BY <1>1
<1>3. Head(jobEvents) \in JobEvents /\ Head(jobEvents).build \notin Unborn
  BY <1>2 DEF SoundJobEvents
<1> QED
  BY <1>1, <1>2, <1>3, InvParts, DbType DEF JobEvents

LEMMA ListedJobs ==
  ASSUME NEW q \in SetToSeqs({j \in Builds \X JobKinds : jobs[j[1]][j[2]] # "none"})
  PROVE  /\ Len(q) \in Nat
         /\ \A i \in 1 .. Len(q) :
              q[i] \in {j \in Builds \X JobKinds : jobs[j[1]][j[2]] # "none"}
<1>1. IsFiniteSet(JobKinds)
  <2>1. IsFiniteSet({"initialize"}) /\ IsFiniteSet({"cleanup"})
    BY FS_Singleton
  <2>2. IsFiniteSet({"initialize"} \union {"cleanup"})
    BY <2>1, FS_Union
  <2>3. JobKinds = {"initialize"} \union {"cleanup"}
    BY DEF JobKinds
  <2> QED
    BY <2>2, <2>3
<1>2. IsFiniteSet(Builds \X JobKinds)
  BY <1>1, BuildsAssumption, FS_Product
<1>3. IsFiniteSet({j \in Builds \X JobKinds : jobs[j[1]][j[2]] # "none"})
  BY <1>2, FS_Subset
<1> QED
  BY <1>3, SetToSeqsType

LEMMA JobWatchSound ==
  ASSUME LifeInv, TypeOK', JobWatch
  PROVE  SoundInv'
<1>1. /\ UNCHANGED << deployments, jobs, databases, github >>
      /\ UNCHANGED << deplEvents, todo >>
  BY DEF JobWatch, StartJobWatch, HandleJob, HandleJobLookup, cluster, controller
<1>2. Moves /\ Unborn' = Unborn /\ Doomed' = Doomed
  BY <1>1, Stays DEF Unborn, Doomed
<1>3. /\ \A b \in Builds : BuildSound(b)'
      /\ deplEvents' \in Seq(SoundSnapshots')
      /\ todo' \in [Tasks -> Seq(Selected')]
  BY <1>1, <1>2, SoundFrame
<1> SUFFICES /\ \A b \in Builds : [build |-> b, row |-> db'[b]] \in SoundSnapshots'
             /\ jobEvents' \in Seq(SoundJobEvents')
             /\ calls' \in [Actors -> Seq(SoundCalls')]
             /\ LookupSound'
  BY <1>3 DEF SoundInv, PlacesSound
<1>4. /\ SoundJobEvents \subseteq SoundJobEvents' /\ SoundCalls \subseteq SoundCalls'
      /\ SoundSnapshots \subseteq SoundSnapshots'
  BY <1>2, SoundGrows
<1>5. \A b \in Builds : deployments'[b] \in Deployments /\ deployments'[b] = deployments[b]
  BY <1>1 DEF TypeOK, ClusterTypeOK
<1>6. CASE StartJobWatch
  <2> DEFINE S == {j \in Builds \X JobKinds : jobs[j[1]][j[2]] # "none"}
             events(q) == [i \in 1 .. Len(q) |->
                [build |-> q[i][1], kind |-> q[i][2], state |-> jobs[q[i][1]][q[i][2]]]]
  <2>1. PICK q \in SetToSeqs(S) : jobEvents' = events(q)
    BY <1>6 DEF StartJobWatch
  <2>2. Len(q) \in Nat /\ \A i \in 1 .. Len(q) : q[i] \in S
    BY ListedJobs
  <2>3. ASSUME NEW j \in S
        PROVE  [build |-> j[1], kind |-> j[2], state |-> jobs[j[1]][j[2]]] \in SoundJobEvents'
    <3> DEFINE e == [build |-> j[1], kind |-> j[2], state |-> jobs[j[1]][j[2]]]
    <3>1. j[1] \in Builds /\ j[2] \in JobKinds /\ jobs[j[1]][j[2]] \in JobStates \ {"none"}
      BY InvParts
    <3>2. j[1] \notin Unborn /\ (j[2] = "cleanup" => j[1] \in Doomed)
      BY <3>1, InvParts DEF BuildSound, FateInv, JobsDoomed
    <3>3. e \in JobEvents
      BY <3>1 DEF JobEvents
    <3>4. jobs' = jobs
      BY <1>1
    <3> QED
      BY <1>2, <3>2, <3>3, <3>4 DEF SoundJobEvents
  <2>4. events(q) \in Seq(SoundJobEvents')
    BY <2>2, <2>3
  <2>5. UNCHANGED << db, calls, lookup >> /\ ~lookup.busy
    BY <1>6, InvParts DEF StartJobWatch, controller, LookupOfEvent
  <2>6. LookupSound'
    BY <2>5 DEF LookupSound
  <2> QED
    BY <1>2, <2>1, <2>4, <2>5, <2>6, SoundFrame
<1>7. CASE HandleJob
  <2> DEFINE e == Head(jobEvents)
             list == OnJobEvent(e.build, db[e.build], e.kind, e.state)
  <2>1. jobEvents # << >> /\ db' = db /\ ~lookup.busy
    BY <1>7 DEF HandleJob, JobWatcherIdle
  <2>2. \A b \in Builds : [build |-> b, row |-> db'[b]] \in SoundSnapshots'
    BY <1>2, <2>1, SoundFrame
  <2>3. CASE db[e.build].status # "absent"
    <3>1. /\ calls' = [calls EXCEPT ![JobWatcher] = list] /\ lookup' = lookup
          /\ jobEvents' = Tail(jobEvents)
      BY <1>7, <2>3 DEF HandleJob
    <3>2. list \in Seq(SoundCalls')
      BY <1>4, <2>1, HeadEvent, JobCallsSound, SeqMono
    <3>3. calls' \in [Actors -> Seq(SoundCalls')]
      BY <1>2, <3>1, <3>2, CallsSound, ActorSets
    <3>4. jobEvents' \in Seq(SoundJobEvents')
      BY <1>4, <2>1, <3>1, HeadEvent, SeqMono
    <3>5. LookupSound'
      BY <2>1, <3>1 DEF LookupSound
    <3> QED
      BY <2>2, <3>3, <3>4, <3>5
  <2>4. CASE db[e.build].status = "absent"
    <3>1. /\ lookup' = [busy |-> TRUE, row |-> RowOf(deployments[e.build])]
          /\ UNCHANGED << calls, jobEvents >>
      BY <1>7, <2>4 DEF HandleJob
    <3>2. e.build \in Builds /\ e.build \notin Unborn
      BY <2>1, HeadEvent
    <3>3. [build |-> e.build, row |-> RowOf(deployments[e.build])] \in SoundSnapshots'
      BY <1>5, <3>2, RowSound
    <3>4. RowOf(deployments[e.build]).status = "absent" => deployments'[e.build].phase = "gone"
      <4>1. deployments[e.build] \in Deployments /\ deployments[e.build].phase # "unborn"
        BY <1>5, <3>2 DEF Unborn
      <4> QED
        BY <1>5, <3>2, <4>1 DEF RowOf, StatusFromDeployment, Deployments, Present, Phases,
                                BuildInitStatus
    <3>5. LookupSound'
      BY <3>1, <3>3, <3>4 DEF LookupSound
    <3> QED
      BY <1>2, <2>2, <3>1, <3>5, SoundFrame
  <2> QED
    BY <2>3, <2>4
<1>8. CASE HandleJobLookup
  <2> DEFINE e == Head(jobEvents)
             list == OnJobEvent(e.build, lookup.row, e.kind, e.state)
  <2>1. lookup.busy /\ jobEvents # << >> /\ jobEvents' = Tail(jobEvents) /\ lookup' = NoLookup
    BY <1>8, InvParts DEF HandleJobLookup, LookupOfEvent
  <2>2. LookupSound'
    BY <2>1 DEF LookupSound, NoLookup
  <2>3. jobEvents' \in Seq(SoundJobEvents')
    BY <1>4, <2>1, HeadEvent, SeqMono
  <2>4. CASE lookup.row.status = "absent"
    <3>1. calls' = [calls EXCEPT ![JobWatcher] = << Purge(e.build) >>] /\ db' = db
      BY <1>8, <2>4 DEF HandleJobLookup
    <3>2. e.build \in Builds /\ e.build \in Doomed
      BY <2>1, <2>4, HeadEvent, InvParts DEF LookupSound, Doomed
    <3>3. Purge(e.build) \in SoundCalls'
      <4>1. Purge(e.build) \in Calls
        BY <3>2, CallTypes DEF Benign
      <4> QED
        BY <1>4, <3>2, <4>1 DEF SoundCalls, Purge
    <3>4. << Purge(e.build) >> \in Seq(SoundCalls')
      BY <3>3
    <3>5. calls' \in [Actors -> Seq(SoundCalls')]
      BY <1>2, <3>1, <3>4, CallsSound, ActorSets
    <3> QED
      BY <1>2, <2>2, <2>3, <3>1, <3>5, SoundFrame
  <2>5. CASE lookup.row.status # "absent"
    <3>1. /\ calls' = [calls EXCEPT ![JobWatcher] = list]
          /\ DbAdd(e.build, lookup.row)
      BY <1>8, <2>5 DEF HandleJobLookup
    <3>2. lookup.row \in Rows
      BY InvParts DEF TypeOK, Lookups
    <3>3. list \in Seq(SoundCalls')
      BY <1>4, <2>1, <3>2, HeadEvent, JobCallsSound, SeqMono
    <3>4. calls' \in [Actors -> Seq(SoundCalls')]
      BY <1>2, <3>1, <3>3, CallsSound, ActorSets
    <3>5. [build |-> e.build, row |-> lookup.row] \in SoundSnapshots'
      BY <1>4, <2>1, InvParts DEF LookupSound
    <3>6. \A b \in Builds : [build |-> b, row |-> db'[b]] \in SoundSnapshots'
      BY <1>2, <2>1, <3>1, <3>2, <3>5, HeadEvent, DbAddSound
    <3> QED
      BY <2>2, <2>3, <3>4, <3>6
  <2> QED
    BY <2>4, <2>5
<1> QED
  BY <1>6, <1>7, <1>8 DEF JobWatch

LEMMA TaskSound ==
  ASSUME LifeInv, NEW t \in Tasks, Pass(t) \/ NextBuild(t)
  PROVE  SoundInv' /\ OthersPlain'
<1>1. UNCHANGED << clusterVars, db, lookup >>
  BY DEF Pass, NextBuild
<1>2. Moves /\ JobEventsGrow /\ OthersPlain
  BY <1>1, Stays, SameJobEvents, InvParts DEF clusterVars, OrderInv
<1>3. /\ \A b \in Builds : BuildSound(b)'
      /\ \A b \in Builds : [build |-> b, row |-> db'[b]] \in SoundSnapshots'
      /\ deplEvents' \in Seq(SoundSnapshots')
      /\ jobEvents' \in Seq(SoundJobEvents')
      /\ LookupSound'
  BY <1>1, <1>2, SoundFrame DEF clusterVars
<1>4. /\ todo \in [Tasks -> Seq(Selected)] /\ Seq(Selected) \subseteq Seq(Selected')
      /\ t \in Actors /\ t # JobWatcher /\ calls \in [Actors -> Seq(SoundCalls)]
  BY <1>2, InvParts, ActorSets, SoundGrows, SeqMono DEF PlacesSound
<1>5. CASE Pass(t)
  <2> DEFINE list(q) == [i \in 1 .. Len(q) |-> [build |-> q[i], row |-> db[q[i]]]]
  <2>1. PICK q \in Selections(t) : todo' = [todo EXCEPT ![t] = list(q)]
    BY <1>5 DEF Pass
  <2>2. q \in Seq(Names(db))
    BY <2>1, InvParts, SelectionsNames DEF TypeOK
  <2>3. Len(q) \in Nat /\ \A i \in 1 .. Len(q) : q[i] \in Names(db)
    BY <2>2
  <2>4. ASSUME NEW b \in Names(db)
        PROVE  [build |-> b, row |-> db[b]] \in Selected'
    <3>1. b \in Builds /\ db[b].status # "absent"
      BY DEF Names
    <3>2. [build |-> b, row |-> db[b]] \in SoundSnapshots
      BY <3>1, InvParts DEF PlacesSound
    <3>3. [build |-> b, row |-> db[b]] \in Selected
      BY <3>1, <3>2 DEF Selected, SoundSnapshots
    <3> QED
      BY <1>2, <3>3, SoundGrows
  <2>5. list(q) \in Seq(Selected')
    BY <2>3, <2>4
  <2> HIDE DEF list
  <2>6. todo' \in [Tasks -> Seq(Selected')]
    BY <1>4, <2>1, <2>5
  <2>7. calls' = calls
    BY <1>5 DEF Pass
  <2>8. calls' \in [Actors -> Seq(SoundCalls')] /\ OthersPlain'
    BY <1>2, <2>7, SoundFrame DEF OthersPlain, PlainCalls
  <2> QED
    BY <1>3, <2>6, <2>8 DEF SoundInv, PlacesSound
<1>6. CASE NextBuild(t)
  <2> DEFINE s == Head(todo[t])
             list == MethodOf(t, s.build, s.row)
  <2>1. /\ calls' = [calls EXCEPT ![t] = list]
        /\ todo' = [todo EXCEPT ![t] = Tail(todo[t])]
        /\ todo[t] # << >>
    BY <1>6 DEF NextBuild
  <2>2. /\ s \in Selected /\ s = todo[t][1] /\ 1 \in 1 .. Len(todo[t])
        /\ Tail(todo[t]) \in Seq(Selected)
    BY <1>4, <2>1
  <2>3. t = "cleaner" => s.build \in Doomed
    BY <2>2, InvParts DEF FateInv, TodoDoomed
  <2>4. list \in Seq(OthersCalls)
    BY <2>2, <2>3, TaskCalls
  <2>5. list \in Seq(SoundCalls) /\ list \in Seq(PlainCalls)
    BY <2>4, SeqMono DEF OthersCalls
  <2>6. list \in Seq(SoundCalls')
    BY <1>2, <2>5, SoundGrows, SeqMono
  <2> HIDE DEF list
  <2>7. calls' \in [Actors -> Seq(SoundCalls')]
    BY <1>2, <1>4, <2>1, <2>6, CallsSound
  <2>8. todo' \in [Tasks -> Seq(Selected')]
    BY <1>4, <2>1, <2>2
  <2>9. OthersPlain'
    <3>1. \A a \in Actors \ {JobWatcher} : calls'[a] \in Seq(PlainCalls)
      BY <1>2, <1>4, <2>1, <2>5 DEF OthersPlain
    <3> QED
      BY <3>1 DEF OthersPlain, PlainCalls
  <2> QED
    BY <1>3, <2>7, <2>8, <2>9 DEF SoundInv, PlacesSound
<1> QED
  BY <1>5, <1>6

LEMMA RequestSound ==
  ASSUME LifeInv, NEW c \in Clients, ClientRequest(c)
  PROVE  SoundInv' /\ OthersPlain'
<1>1. PICK list \in Seq(OthersCalls) : calls' = [calls EXCEPT ![c] = list]
  BY RequestCalls
<1>2. UNCHANGED << clusterVars, db, todo, lookup >>
  BY RequestCalls
<1>3. Moves /\ JobEventsGrow /\ OthersPlain
  BY <1>2, Stays, SameJobEvents, InvParts DEF clusterVars, OrderInv
<1>4. /\ \A b \in Builds : BuildSound(b)'
      /\ \A b \in Builds : [build |-> b, row |-> db'[b]] \in SoundSnapshots'
      /\ deplEvents' \in Seq(SoundSnapshots')
      /\ todo' \in [Tasks -> Seq(Selected')]
      /\ jobEvents' \in Seq(SoundJobEvents')
      /\ LookupSound'
  BY <1>2, <1>3, SoundFrame DEF clusterVars
<1>5. list \in Seq(SoundCalls) /\ list \in Seq(PlainCalls)
  BY SeqMono DEF OthersCalls
<1>6. list \in Seq(SoundCalls')
  BY <1>3, <1>5, SoundGrows, SeqMono
<1>7. c \in Actors /\ c # JobWatcher /\ calls \in [Actors -> Seq(SoundCalls)]
  BY ActorSets, InvParts DEF PlacesSound
<1>8. calls' \in [Actors -> Seq(SoundCalls')]
  BY <1>1, <1>3, <1>6, <1>7, CallsSound
<1>9. OthersPlain'
  <2>1. \A a \in Actors \ {JobWatcher} : calls'[a] \in Seq(PlainCalls)
    BY <1>1, <1>3, <1>5, <1>7 DEF OthersPlain
  <2> QED
    BY <2>1 DEF OthersPlain, PlainCalls
<1> QED
  BY <1>4, <1>8, <1>9 DEF SoundInv, PlacesSound

\* A method that ends early: an actor loses its calls, job_watcher its events.
LEMMA AbortSound ==
  ASSUME LifeInv, NEW a \in Actors, calls[a] # << >>, Abort(a),
         UNCHANGED << cluster, deplEvents, db, lookup >>
  PROVE  SoundInv' /\ OthersPlain'
<1>1. Moves /\ OthersPlain
  BY Stays, InvParts DEF cluster, OrderInv
<1>2. /\ \A b \in Builds : BuildSound(b)'
      /\ \A b \in Builds : [build |-> b, row |-> db'[b]] \in SoundSnapshots'
      /\ deplEvents' \in Seq(SoundSnapshots')
  BY <1>1, SoundFrame
<1>3. todo' \in [Tasks -> Seq(Selected')]
  <2>1. todo \in [Tasks -> Seq(Selected')]
    <3>1. Seq(Selected) \subseteq Seq(Selected')
      BY <1>1, SoundGrows, SeqMono
    <3> QED
      BY <3>1, InvParts DEF PlacesSound
  <2> QED
    BY <2>1 DEF Abort
<1>4. calls \in [Actors -> Seq(SoundCalls)] /\ calls' = [calls EXCEPT ![a] = << >>]
  BY InvParts DEF PlacesSound, Abort
<1>5. calls' \in [Actors -> Seq(SoundCalls')]
  <2>1. << >> \in Seq(SoundCalls')
    OBVIOUS
  <2> QED
    BY <1>1, <1>4, <2>1, CallsSound
<1>6. jobEvents' \in Seq(SoundJobEvents') /\ LookupSound'
  <2>1. CASE a = JobWatcher
    <3>1. jobEvents' = << >> /\ ~lookup'.busy
      BY <2>1, InvParts DEF Abort, LookupOfEvent
    <3> QED
      BY <3>1 DEF LookupSound
  <2>2. CASE a # JobWatcher
    <3>1. UNCHANGED << jobWatch, jobEvents >>
      BY <2>2 DEF Abort
    <3> QED
      BY <1>1, <3>1, SameJobEvents, SoundFrame
  <2> QED
    BY <2>1, <2>2
<1>7. OthersPlain'
  <2>1. \A o \in Actors \ {JobWatcher} : calls'[o] \in Seq(PlainCalls)
    BY <1>1, <1>4 DEF OthersPlain
  <2> QED
    BY <2>1 DEF OthersPlain, PlainCalls
<1> QED
  BY <1>2, <1>3, <1>5, <1>6, <1>7 DEF SoundInv, PlacesSound

LEMMA CallSound ==
  ASSUME LifeInv, TypeOK', NEW a \in Actors, Call(a)
  PROVE  SoundInv' /\ OthersPlain'
<1> DEFINE c == Head(calls[a])
<1>1. calls[a] # << >> /\ UNCHANGED << db, lookup >>
  BY DEF Call
<1>2. CASE Abort(a) /\ UNCHANGED << cluster, deplWatch, deplEvents, now >>
  BY <1>1, <1>2, AbortSound
<1>3. ASSUME ~Raises(c), Perform(c), calls' = [calls EXCEPT ![a] = Tail(@)], todo' = todo
      PROVE  SoundInv' /\ OthersPlain'
  <2>1. /\ c \in Calls /\ c.build \in Builds /\ calls[a] \in Seq(SoundCalls)
        /\ IsDeploy(c) => c.build \in Unborn
        /\ a # JobWatcher => calls[a] \in Seq(PlainCalls)
        /\ calls \in [Actors -> Seq(SoundCalls)]
    BY <1>1, HeadCall
  <2>2. Moves /\ ClusterTypeOK /\ ClusterTypeOK' /\ OthersPlain
    BY <1>1, <1>3, PerformMoves, InvParts DEF TypeOK, OrderInv
  <2>3. Fresh /\ JobEventsGrow
    BY <1>3, <2>1, <2>2, PerformAges, PerformDeploy, PerformGrows
  <2>4. /\ \A b \in Builds : BuildSound(b)'
        /\ \A b \in Builds : [build |-> b, row |-> db'[b]] \in SoundSnapshots'
        /\ todo' \in [Tasks -> Seq(Selected')]
        /\ LookupSound'
    BY <1>1, <1>3, <2>2, <2>3, SoundFrame
  <2>5. deplEvents' \in Seq(SoundSnapshots')
    BY <2>2, <2>3, FreshSound
  <2>6. jobEvents' \in Seq(SoundJobEvents')
    BY <1>1, <1>3, <2>2, PerformJobEvents, AddedSound
  <2>7. Tail(calls[a]) \in Seq(SoundCalls) /\ calls' = [calls EXCEPT ![a] = Tail(calls[a])]
    BY <1>1, <1>3, <2>1
  <2>8. Tail(calls[a]) \in Seq(SoundCalls')
    BY <2>2, <2>7, SoundGrows, SeqMono
  <2>9. calls' \in [Actors -> Seq(SoundCalls')]
    BY <2>2, <2>7, <2>8, CallsSound
  <2>10. OthersPlain'
    <3>1. a # JobWatcher => Tail(calls[a]) \in Seq(PlainCalls)
      BY <1>1, <2>1
    <3>2. \A o \in Actors \ {JobWatcher} : calls'[o] \in Seq(PlainCalls)
      BY <2>1, <2>2, <2>7, <3>1 DEF OthersPlain
    <3> QED
      BY <3>2 DEF OthersPlain, PlainCalls
  <2> QED
    BY <2>4, <2>5, <2>6, <2>9, <2>10 DEF SoundInv, PlacesSound
<1> QED
  BY <1>2, <1>3 DEF Call

LEMMA EnvironmentSound ==
  ASSUME LifeInv, TypeOK', Environment, UNCHANGED << controller, requests, faults >>
  PROVE  SoundInv'
<1>1. UNCHANGED << db, todo, calls, lookup >> /\ ClusterTypeOK /\ ClusterTypeOK'
  BY InvParts DEF controller, TypeOK
<1>2. Moves /\ Fresh /\ JobEventsGrow
  BY <1>1, EnvironmentMoves, EnvironmentAges, EnvironmentGrows
<1>3. /\ \A b \in Builds : BuildSound(b)'
      /\ \A b \in Builds : [build |-> b, row |-> db'[b]] \in SoundSnapshots'
      /\ todo' \in [Tasks -> Seq(Selected')]
      /\ calls' \in [Actors -> Seq(SoundCalls')]
      /\ LookupSound'
  BY <1>1, <1>2, SoundFrame
<1>4. deplEvents' \in Seq(SoundSnapshots') /\ jobEvents' \in Seq(SoundJobEvents')
  BY <1>1, <1>2, FreshSound, EnvironmentJobEvents, AddedSound
<1> QED
  BY <1>3, <1>4 DEF SoundInv, PlacesSound

LEMMA FaultsSound ==
  ASSUME LifeInv, Faults
  PROVE  SoundInv' /\ OthersPlain'
<1>1. ASSUME NEW a \in Actors, CallFails(a)
      PROVE  SoundInv' /\ OthersPlain'
  BY <1>1, AbortSound DEF CallFails
<1>2. UNCHANGED << deployments, jobs, databases, github >> /\ OthersPlain
  BY InvParts DEF Faults, CallFails, DeploymentWatchBreaks, JobWatchBreaks, ControllerRestarts,
                  cluster, OrderInv
<1>3. Moves
  BY <1>2, Stays
<1>4. CASE DeploymentWatchBreaks
  <2>1. /\ UNCHANGED << jobWatch, jobEvents, db, todo, calls, lookup >> /\ deplEvents' = << >>
    BY <1>4 DEF DeploymentWatchBreaks, controller
  <2>2. /\ \A b \in Builds : BuildSound(b)'
        /\ \A b \in Builds : [build |-> b, row |-> db'[b]] \in SoundSnapshots'
        /\ todo' \in [Tasks -> Seq(Selected')]
        /\ jobEvents' \in Seq(SoundJobEvents')
        /\ calls' \in [Actors -> Seq(SoundCalls')]
        /\ LookupSound'
    BY <1>3, <2>1, SameJobEvents, SoundFrame
  <2>3. deplEvents' \in Seq(SoundSnapshots')
    BY <2>1
  <2> QED
    BY <1>2, <2>1, <2>2, <2>3 DEF SoundInv, PlacesSound, OthersPlain, PlainCalls
<1>5. CASE JobWatchBreaks
  <2>1. /\ UNCHANGED << deplEvents, db, todo, calls, lookup >> /\ jobEvents' = << >>
        /\ ~lookup.busy
    BY <1>5 DEF JobWatchBreaks, JobWatcherIdle, controller
  <2>2. /\ \A b \in Builds : BuildSound(b)'
        /\ \A b \in Builds : [build |-> b, row |-> db'[b]] \in SoundSnapshots'
        /\ deplEvents' \in Seq(SoundSnapshots')
        /\ todo' \in [Tasks -> Seq(Selected')]
        /\ calls' \in [Actors -> Seq(SoundCalls')]
    BY <1>3, <2>1, SoundFrame
  <2>3. jobEvents' \in Seq(SoundJobEvents') /\ LookupSound'
    BY <2>1 DEF LookupSound
  <2> QED
    BY <1>2, <2>1, <2>2, <2>3 DEF SoundInv, PlacesSound, OthersPlain, PlainCalls
<1>6. CASE ControllerRestarts
  <2>1. /\ deplEvents' = << >> /\ jobEvents' = << >> /\ db' = EmptyTable
        /\ todo' = [t \in Tasks |-> << >>] /\ calls' = [a \in Actors |-> << >>]
        /\ ~lookup'.busy
    BY <1>6 DEF ControllerRestarts, NoLookup
  <2>2. \A b \in Builds : BuildSound(b)'
    BY <1>3, BuildStep
  <2>3. \A b \in Builds : [build |-> b, row |-> db'[b]] \in SoundSnapshots'
    BY <2>1, AbsentSound DEF EmptyTable
  <2>4. /\ deplEvents' \in Seq(SoundSnapshots') /\ jobEvents' \in Seq(SoundJobEvents')
        /\ todo' \in [Tasks -> Seq(Selected')] /\ calls' \in [Actors -> Seq(SoundCalls')]
        /\ \A a \in Actors \ {JobWatcher} : calls'[a] \in Seq(PlainCalls)
    BY <2>1
  <2> QED
    BY <2>1, <2>2, <2>3, <2>4 DEF SoundInv, PlacesSound, LookupSound, OthersPlain, PlainCalls
<1> QED
  BY <1>1, <1>4, <1>5, <1>6 DEF Faults

(***************************************************************************)
(* The order of what job_watcher has before it is kept.                    *)
(***************************************************************************)

\* While a job has no outcome nothing speaks of one.
LEMMA NoOutcomeYet ==
  ASSUME LifeInv, NEW b \in Builds, b \notin Doomed, jobs[b]["initialize"] \notin Outcomes
  PROVE  /\ Unconcluded(b)
         /\ \A i \in 1 .. Len(jobEvents) : ~IsInit(jobEvents[i], b, Outcomes)
<1>1. /\ BuildSound(b) /\ jobEvents \in Seq(SoundJobEvents)
      /\ calls[JobWatcher] \in Seq(SoundCalls)
  BY InvParts DEF PlacesSound
<1>2. deployments[b].init \notin Outcomes
  BY <1>1 DEF BuildSound
<1>3. ASSUME NEW i \in 1 .. Len(calls[JobWatcher]), Concludes(calls[JobWatcher][i], b)
      PROVE  FALSE
  <2>1. calls[JobWatcher][i] \in SoundCalls
    BY <1>1
  <2> QED
    BY <1>3, <2>1 DEF SoundCalls, SoundPatch, Concludes, Marks
<1>4. ASSUME NEW i \in 1 .. Len(jobEvents), IsInit(jobEvents[i], b, Outcomes)
      PROVE  FALSE
  <2>1. jobEvents[i] \in SoundJobEvents
    BY <1>1
  <2> QED
    BY <1>4, <2>1 DEF SoundJobEvents, IsInit
<1> QED
  BY <1>2, <1>3, <1>4 DEF Unconcluded

\* What is left to do was to be done before, and an outcome that is written
\* was already there or on its way.
CallsShrink ==
  \A i \in 1 .. Len(calls'[JobWatcher]) :
    \E j \in 1 .. Len(calls[JobWatcher]) : calls'[JobWatcher][i] = calls[JobWatcher][j]

OutcomesExpected ==
  \A b \in Builds : b \notin Doomed' /\ deployments'[b].init \in Outcomes =>
    ~Unconcluded(b)

LEMMA UnconcludedStays ==
  ASSUME CallsShrink, OutcomesExpected, NEW b \in Builds, b \notin Doomed', Unconcluded(b)
  PROVE  Unconcluded(b)'
<1>1. deployments'[b].init \notin Outcomes
  BY DEF OutcomesExpected
<1>2. \A i \in 1 .. Len(calls'[JobWatcher]) : ~Concludes(calls'[JobWatcher][i], b)
  BY DEF CallsShrink, Unconcluded
<1> QED
  BY <1>1, <1>2 DEF Unconcluded, Concludes, Marks

LEMMA StartsAdded ==
  ASSUME LifeInv, Moves, CallsShrink, OutcomesExpected,
         jobEvents' = jobEvents \/ jobEvents' = << >> \/ JobEventAdded
  PROVE  StartsInOrder'
<1> SUFFICES ASSUME NEW b \in Builds, b \notin Doomed', NEW j \in 1 .. Len(jobEvents'),
                    IsInit(jobEvents'[j], b, {"active"})
             PROVE  /\ Unconcluded(b)'
                    /\ \A i \in 1 .. Len(jobEvents') :
                         i < j => ~IsInit(jobEvents'[i], b, Outcomes)
  BY DEF StartsInOrder, IsInit
<1>1. b \notin Doomed /\ StartsInOrder /\ jobEvents \in Seq(SoundJobEvents)
  BY MovesEvidence, InvParts DEF OrderInv, PlacesSound
<1>2. ASSUME j \in 1 .. Len(jobEvents), jobEvents[j] = jobEvents'[j],
             \A i \in 1 .. Len(jobEvents') : i < j => jobEvents'[i] = jobEvents[i]
      PROVE  /\ Unconcluded(b)'
             /\ \A i \in 1 .. Len(jobEvents') : i < j => ~IsInit(jobEvents'[i], b, Outcomes)
  <2>1. /\ Unconcluded(b)
        /\ \A i \in 1 .. Len(jobEvents) : i < j => ~IsInit(jobEvents[i], b, Outcomes)
    BY <1>1, <1>2 DEF StartsInOrder
  <2>2. Unconcluded(b)'
    BY <2>1, UnconcludedStays
  <2>3. ASSUME NEW i \in 1 .. Len(jobEvents'), i < j
        PROVE  ~IsInit(jobEvents'[i], b, Outcomes)
    <3>1. i \in 1 .. Len(jobEvents)
      BY <1>1, <1>2, <2>3
    <3> QED
      BY <1>2, <2>1, <2>3, <3>1
  <2> QED
    BY <2>2, <2>3
<1>3. CASE jobEvents' = jobEvents
  BY <1>2, <1>3
<1>4. CASE jobEvents' = << >>
  BY <1>4
<1>5. ASSUME NEW o \in Builds, NEW kind \in JobKinds, NEW state \in JobStates \ {"none"},
             jobEvents' = Append(jobEvents, [build |-> o, kind |-> kind, state |-> state]),
             kind = "initialize" /\ state = "active" => jobs[o]["initialize"] = "none"
      PROVE  /\ Unconcluded(b)'
             /\ \A i \in 1 .. Len(jobEvents') : i < j => ~IsInit(jobEvents'[i], b, Outcomes)
  <2> DEFINE e == [build |-> o, kind |-> kind, state |-> state]
  <2>1. e.build = o /\ e.kind = kind /\ e.state = state
    OBVIOUS
  <2> HIDE DEF e
  <2>2. /\ Len(jobEvents') = Len(jobEvents) + 1 /\ jobEvents'[Len(jobEvents) + 1] = e
        /\ \A i \in 1 .. Len(jobEvents) : jobEvents'[i] = jobEvents[i]
    BY <1>1, <1>5 DEF e
  <2>3. CASE j \in 1 .. Len(jobEvents)
    <3>1. \A i \in 1 .. Len(jobEvents') : i < j => jobEvents'[i] = jobEvents[i]
      <4>1. \A i \in 1 .. Len(jobEvents') : i < j => i \in 1 .. Len(jobEvents)
        BY <1>1, <2>3
      <4> QED
        BY <2>2, <4>1
    <3> QED
      BY <1>2, <2>2, <2>3, <3>1
  <2>4. CASE j \notin 1 .. Len(jobEvents)
    <3>1. j = Len(jobEvents) + 1
      BY <1>1, <2>2, <2>4
    <3>2. o = b /\ jobs[b]["initialize"] = "none"
      BY <1>5, <2>1, <2>2, <3>1 DEF IsInit
    <3>3. /\ Unconcluded(b)
          /\ \A i \in 1 .. Len(jobEvents) : ~IsInit(jobEvents[i], b, Outcomes)
      BY <1>1, <3>2, NoOutcomeYet DEF Outcomes
    <3>4. Unconcluded(b)'
      BY <3>3, UnconcludedStays
    <3>5. \A i \in 1 .. Len(jobEvents') : i < j => i \in 1 .. Len(jobEvents)
      BY <1>1, <2>2, <3>1
    <3> QED
      BY <2>2, <3>3, <3>4, <3>5
  <2> QED
    BY <2>3, <2>4
<1> QED
  BY <1>3, <1>4, <1>5 DEF JobEventAdded

LEMMA MarksKept ==
  ASSUME LifeInv, Moves, CallsShrink, OutcomesExpected
  PROVE  MarksInOrder'
<1> SUFFICES ASSUME NEW b \in Builds, b \notin Doomed', NEW i \in 1 .. Len(calls'[JobWatcher]),
                    Marks(calls'[JobWatcher][i], b, "started")
             PROVE  Unconcluded(b)'
  BY DEF MarksInOrder, Marks
<1>1. b \notin Doomed /\ MarksInOrder
  BY MovesEvidence, InvParts DEF OrderInv
<1>2. Unconcluded(b)
  BY <1>1 DEF MarksInOrder, CallsShrink
<1> QED
  BY <1>2, UnconcludedStays

\* A step that is not job_watcher's: nothing changes but that events come.
LEMMA OrderFrame ==
  ASSUME LifeInv, Moves, OthersPlain', calls'[JobWatcher] = calls[JobWatcher],
         \A b \in Builds : b \in Doomed' \/ deployments'[b].init = deployments[b].init,
         jobEvents' = jobEvents \/ jobEvents' = << >> \/ JobEventAdded
  PROVE  OrderInv'
<1>1. CallsShrink /\ OutcomesExpected
  BY DEF CallsShrink, OutcomesExpected, Unconcluded
<1>2. ReportsInOrder'
  <2> SUFFICES ASSUME NEW b \in Builds, b \notin Doomed',
                      NEW i \in 1 .. Len(calls[JobWatcher]),
                      calls[JobWatcher][i].op = "notify", calls[JobWatcher][i].build = b,
                      calls[JobWatcher][i].state \in DOMAIN Reports
               PROVE  \/ deployments'[b].init = Reports[calls[JobWatcher][i].state]
                      \/ \E j \in 1 .. Len(calls[JobWatcher]) :
                           j < i /\ Marks(calls[JobWatcher][j], b,
                                          Reports[calls[JobWatcher][i].state])
    BY DEF ReportsInOrder, Marks
  <2>1. b \notin Doomed /\ ReportsInOrder
    BY MovesEvidence, InvParts DEF OrderInv
  <2> QED
    BY <2>1 DEF ReportsInOrder
<1> QED
  BY <1>1, <1>2, StartsAdded, MarksKept DEF OrderInv

\* job_watcher makes a call: the mark that precedes a report is either still
\* before it, or now on the deployment.
LEMMA OrderPerform ==
  ASSUME LifeInv, calls[JobWatcher] # << >>, ~Raises(Head(calls[JobWatcher])),
         Perform(Head(calls[JobWatcher])), OthersPlain',
         calls'[JobWatcher] = Tail(calls[JobWatcher])
  PROVE  OrderInv'
<1> DEFINE list == calls[JobWatcher]
<1>1. /\ list \in Seq(SoundCalls) /\ Head(list) = list[1] /\ 1 \in 1 .. Len(list)
      /\ Head(list).build \in Builds
  BY HeadCall, ActorSets
<1>2. /\ Moves
      /\ \A b \in Builds : Advances(b) /\ Writes(JobWatcher, Head(list), b)
      /\ jobEvents' = jobEvents \/ JobEventAdded
  BY PerformMoves, PerformAdvances, PerformJobEvents, ActorSets
<1>3. \A i \in 1 .. Len(calls'[JobWatcher]) :
        i + 1 \in 1 .. Len(list) /\ calls'[JobWatcher][i] = list[i + 1]
  BY <1>1, TailItems
<1>4. CallsShrink
  BY <1>3 DEF CallsShrink
<1>5. OutcomesExpected
  <2> SUFFICES ASSUME NEW b \in Builds, b \notin Doomed', deployments'[b].init \in Outcomes,
                      Unconcluded(b)
               PROVE  FALSE
    BY DEF OutcomesExpected
  <2>1. deployments'[b].init # deployments[b].init
    BY DEF Unconcluded
  <2>2. Marks(Head(list), b, deployments'[b].init)
    BY <1>2, <2>1 DEF Writes
  <2>3. Concludes(list[1], b)
    BY <1>1, <2>2 DEF Concludes
  <2> QED
    BY <1>1, <2>3 DEF Unconcluded
<1>6. ReportsInOrder'
  <2> SUFFICES ASSUME NEW b \in Builds, b \notin Doomed',
                      NEW i \in 1 .. Len(calls'[JobWatcher]),
                      calls'[JobWatcher][i].op = "notify", calls'[JobWatcher][i].build = b,
                      calls'[JobWatcher][i].state \in DOMAIN Reports
               PROVE  \/ deployments'[b].init = Reports[calls'[JobWatcher][i].state]
                      \/ \E j \in 1 .. Len(calls'[JobWatcher]) :
                           j < i /\ Marks(calls'[JobWatcher][j], b,
                                          Reports[calls'[JobWatcher][i].state])
    BY DEF ReportsInOrder, Marks
  <2> DEFINE outcome == Reports[list[i + 1].state]
  <2>1. b \notin Doomed /\ ReportsInOrder /\ ClusterTypeOK
    BY <1>2, MovesEvidence, InvParts DEF OrderInv
  <2>2. i + 1 \in 1 .. Len(list) /\ calls'[JobWatcher][i] = list[i + 1] /\ outcome \in Outcomes
    BY <1>3 DEF Reports, Outcomes
  <2>3. \/ deployments[b].init = outcome
        \/ \E j \in 1 .. Len(list) : j < i + 1 /\ Marks(list[j], b, outcome)
    BY <2>1, <2>2 DEF ReportsInOrder
  <2>4. CASE deployments[b].init = outcome
    BY <1>2, <2>2, <2>4, MovesEvidence
  <2>5. ASSUME Marks(list[1], b, outcome)
        PROVE  deployments'[b].init = outcome
    <3>1. list[1].op = "patch" /\ list[1].build = b /\ list[1].init = outcome
      BY SMTT(30), <2>5 DEF Marks
    <3>2. PatchDeployment(list[1])
      BY <1>1, <3>1
         DEF Perform, ApplyDeployment, ApplyJob, ApplyOthers, RemoveFinalizers, DeleteDeployment,
             DeleteResources, KillJob, NotifyStatus
    <3>3. Present(deployments[b])
      <4>1. list[1] \in SoundCalls
        BY <1>1
      <4>2. jobs[b]["initialize"] = outcome
        BY <2>1, <2>2, <3>1, <4>1 DEF SoundCalls, SoundPatch
      <4>3. b \notin Unborn
        BY <2>2, <4>2, InvParts DEF BuildSound, JobKinds, Outcomes
      <4> QED
        BY <2>1, <4>3, Phase DEF Present
    <3>4. deployments'[b].init = IF list[1].init = "keep" THEN deployments[b].init
                                 ELSE list[1].init
      <4>1. deployments[b] \in Deployments /\ deployments \in [Builds -> Deployments]
        BY <2>1, Phase, InvParts
      <4>2. SetDeployment(b,
              [deployments[b] EXCEPT !.init = IF list[1].init = "keep" THEN @ ELSE list[1].init,
                        !.replicas = IF list[1].replicas = Keep THEN @ ELSE list[1].replicas,
                        !.scaled = IF list[1].replicas = Keep THEN @ ELSE now])
        BY <3>1, <3>2, <3>3 DEF PatchDeployment
      <4> QED
        BY <4>1, <4>2 DEF SetDeployment, Deployments
    <3> QED
      BY <2>2, <3>1, <3>4 DEF Outcomes
  <2>6. ASSUME NEW j \in 1 .. Len(list), j < i + 1, Marks(list[j], b, outcome), j # 1
        PROVE  \E k \in 1 .. Len(calls'[JobWatcher]) : k < i /\ Marks(calls'[JobWatcher][k], b, outcome)
    <3>1. j - 1 \in 1 .. Len(calls'[JobWatcher]) /\ j - 1 < i /\ (j - 1) + 1 = j
      <4>1. Len(calls'[JobWatcher]) = Len(list) - 1
        BY <1>1
      <4> QED
        BY <1>1, <2>6, <4>1
    <3>2. calls'[JobWatcher][j - 1] = list[j]
      BY <1>3, <3>1
    <3> QED
      BY <2>6, <3>1, <3>2
  <2> QED
    BY <2>2, <2>3, <2>4, <2>5, <2>6
<1> QED
  BY <1>2, <1>4, <1>5, <1>6, StartsAdded, MarksKept DEF OrderInv

\* job_watcher stops: it loses its calls and its events.
LEMMA OrderStopped ==
  ASSUME OthersPlain', calls'[JobWatcher] = << >>, jobEvents' = << >>
  PROVE  OrderInv'
BY DEF OrderInv, StartsInOrder, MarksInOrder, ReportsInOrder

\* job_watcher takes an event: the start of a job is only marked when no
\* outcome is, and the start of a job is not left behind its outcome.
LEMMA OrderHandle ==
  ASSUME LifeInv, jobEvents # << >>, calls[JobWatcher] = << >>,
         UNCHANGED << deployments, jobs >>, Moves, OthersPlain', jobEvents' = Tail(jobEvents),
         NEW row \in Rows, NEW list,
         LET e == Head(jobEvents) IN
           list = << Purge(e.build) >> \/ list = OnJobEvent(e.build, row, e.kind, e.state),
         calls'[JobWatcher] = list
  PROVE  OrderInv'
<1> DEFINE e == Head(jobEvents)
           b == e.build
<1>1. /\ jobEvents \in Seq(SoundJobEvents) /\ e = jobEvents[1] /\ 1 \in 1 .. Len(jobEvents)
      /\ b \in Builds /\ e.kind \in JobKinds /\ e.state \in JobStates \ {"none"}
      /\ StartsInOrder
  BY HeadEvent, InvParts DEF OrderInv
<1>2. \A i \in 1 .. Len(jobEvents') :
        i + 1 \in 1 .. Len(jobEvents) /\ jobEvents'[i] = jobEvents[i + 1] /\ 1 < i + 1
  BY <1>1, TailItems
<1>3. Doomed' = Doomed
  BY DEF Doomed
\* It suffices that the list concludes nothing against what is left.
<1>4. ASSUME NEW o \in Builds, Unconcluded(o),
             \A i \in 1 .. Len(list) : ~Concludes(list[i], o)
      PROVE  Unconcluded(o)'
  BY <1>4 DEF Unconcluded, Concludes, Marks
<1>5. ASSUME \A o \in Builds \ Doomed : \A i \in 1 .. Len(list) :
               Concludes(list[i], o) => o = b /\ IsInit(e, b, Outcomes)
      PROVE  StartsInOrder'
  <2> SUFFICES ASSUME NEW o \in Builds, o \notin Doomed, NEW j \in 1 .. Len(jobEvents'),
                      IsInit(jobEvents'[j], o, {"active"})
               PROVE  /\ Unconcluded(o)'
                      /\ \A i \in 1 .. Len(jobEvents') :
                           i < j => ~IsInit(jobEvents'[i], o, Outcomes)
    BY <1>3 DEF StartsInOrder, IsInit
  <2>1. /\ Unconcluded(o)
        /\ \A i \in 1 .. Len(jobEvents) : i < j + 1 => ~IsInit(jobEvents[i], o, Outcomes)
    BY <1>1, <1>2 DEF StartsInOrder
  <2>2. ~IsInit(e, o, Outcomes)
    BY <1>1, <1>2, <2>1
  <2>3. Unconcluded(o)'
    BY <1>4, <1>5, <2>1, <2>2
  <2>4. ASSUME NEW i \in 1 .. Len(jobEvents'), i < j
        PROVE  ~IsInit(jobEvents'[i], o, Outcomes)
    <3>1. i + 1 \in 1 .. Len(jobEvents) /\ i + 1 < j + 1 /\ jobEvents'[i] = jobEvents[i + 1]
      BY <1>2, <2>4
    <3> QED
      BY <2>1, <3>1
  <2> QED
    BY <2>3, <2>4
<1>6. CASE list = << >>
  BY <1>5, <1>6 DEF OrderInv, MarksInOrder, ReportsInOrder
<1>7. CASE \/ list = << Purge(b) >>
           \/ list = << Purge(b), Unfinalize(b) >>
  <2>1. \A i \in 1 .. Len(list) : list[i].op \in {"purge", "unfinalize"}
    BY <1>7 DEF Purge, Unfinalize
  <2> QED
    BY <1>5, <2>1
       DEF OrderInv, MarksInOrder, ReportsInOrder, Concludes, Marks
<1>8. ASSUME e.kind = "initialize", e.state = "active",
             NEW c \in Calls, Marks(c, b, "started"), list = << c, Notify(b, "pending") >>
      PROVE  OrderInv'
  <2>1. /\ 1 .. Len(list) = {1, 2} /\ list[1] = c /\ list[2] = Notify(b, "pending")
    BY <1>8
  <2>2. \A o \in Builds : \A i \in 1 .. Len(list) : ~Concludes(list[i], o)
    BY <1>8, <2>1 DEF Concludes, Marks, Notify, Outcomes
  <2>3. StartsInOrder'
    BY <1>5, <2>2
  <2>4. MarksInOrder'
    <3> SUFFICES ASSUME NEW o \in Builds, o \notin Doomed, NEW i \in 1 .. Len(list),
                        Marks(list[i], o, "started")
                 PROVE  Unconcluded(o)'
      BY <1>3 DEF MarksInOrder, Marks
    <3>1. o = b
      BY <1>8, <2>1 DEF Marks, Notify
    <3>2. Unconcluded(b)
      BY <1>1, <1>8, <3>1 DEF StartsInOrder, IsInit
    <3> QED
      BY <1>1, <1>4, <2>2, <3>1, <3>2
  <2>5. ReportsInOrder'
    <3>1. \A i \in 1 .. Len(list) : list[i].op = "notify" => list[i].state = "pending"
      BY <1>8, <2>1 DEF Marks, Notify
    <3> QED
      BY <3>1 DEF ReportsInOrder, Reports
  <2> QED
    BY <2>3, <2>4, <2>5 DEF OrderInv
<1>9. ASSUME e.kind = "initialize", e.state \in Outcomes,
             NEW c \in Calls, NEW report \in DOMAIN Reports,
             Marks(c, b, e.state), Reports[report] = e.state,
             list = << Apply(b, "stop"), c, Notify(b, report) >>
      PROVE  OrderInv'
  <2>1. /\ 1 .. Len(list) = {1, 2, 3} /\ list[1] = Apply(b, "stop") /\ list[2] = c
        /\ list[3] = Notify(b, report)
    BY <1>9
  <2>2. \A o \in Builds : \A i \in 1 .. Len(list) :
          Concludes(list[i], o) => o = b /\ IsInit(e, b, Outcomes)
    BY <1>9, <2>1 DEF Concludes, Marks, Notify, Apply, IsInit
  <2>3. StartsInOrder'
    BY <1>5, <2>2
  <2>4. MarksInOrder'
    <3>1. \A o \in Builds : \A i \in 1 .. Len(list) : ~Marks(list[i], o, "started")
      BY <1>9, <2>1 DEF Marks, Notify, Apply, Outcomes
    <3> QED
      BY <3>1 DEF MarksInOrder, Marks
  <2>5. ReportsInOrder'
    <3> SUFFICES ASSUME NEW o \in Builds, NEW i \in 1 .. Len(list),
                        list[i].op = "notify", list[i].build = o
                 PROVE  \E j \in 1 .. Len(list) :
                          j < i /\ Marks(list[j], o, Reports[list[i].state])
      BY DEF ReportsInOrder, Marks
    <3>1. i = 3
      BY <1>9, <2>1 DEF Marks, Apply
    <3>2. list[i].state = report /\ o = b
      BY <2>1, <3>1 DEF Notify
    <3>3. 2 \in 1 .. Len(list) /\ 2 < i
      BY <2>1, <3>1
    <3> QED
      BY <1>9, <2>1, <3>2, <3>3
  <2> QED
    BY <2>3, <2>4, <2>5 DEF OrderInv
<1> QED
  BY <1>1, <1>6, <1>7, <1>8, <1>9, OnJobEventShape

LEMMA OrderListed ==
  ASSUME LifeInv, StartJobWatch, OthersPlain'
  PROVE  OrderInv'
<1>1. UNCHANGED << deployments, jobs, databases, github, calls >> /\ Doomed' = Doomed
  BY DEF StartJobWatch, cluster, controller, Doomed
<1>2. OrderInv /\ Moves
  BY <1>1, InvParts, Stays
<1>3. CallsShrink /\ OutcomesExpected
  BY <1>1 DEF CallsShrink, OutcomesExpected, Unconcluded
<1>4. PICK q \in SetToSeqs({j \in Builds \X JobKinds : jobs[j[1]][j[2]] # "none"}) :
        jobEvents' = [i \in 1 .. Len(q) |->
          [build |-> q[i][1], kind |-> q[i][2], state |-> jobs[q[i][1]][q[i][2]]]]
  BY DEF StartJobWatch
<1>5. \A i \in 1 .. Len(jobEvents') :
        jobs[jobEvents'[i].build][jobEvents'[i].kind] = jobEvents'[i].state
  <2>1. Len(q) \in Nat
    BY ListedJobs
  <2>2. Len(jobEvents') = Len(q)
    BY <1>4, <2>1
  <2> QED
    BY <1>4, <2>2
<1>6. StartsInOrder'
  <2> SUFFICES ASSUME NEW b \in Builds, b \notin Doomed, NEW j \in 1 .. Len(jobEvents'),
                      IsInit(jobEvents'[j], b, {"active"})
               PROVE  /\ Unconcluded(b)'
                      /\ \A i \in 1 .. Len(jobEvents') : ~IsInit(jobEvents'[i], b, Outcomes)
    BY <1>1 DEF StartsInOrder, IsInit
  <2>1. jobs[b]["initialize"] = "active"
    BY <1>5 DEF IsInit
  <2>2. Unconcluded(b)'
    BY <1>1, <1>3, <2>1, NoOutcomeYet, UnconcludedStays DEF Outcomes
  <2>3. \A i \in 1 .. Len(jobEvents') : ~IsInit(jobEvents'[i], b, Outcomes)
    BY <1>5, <2>1 DEF IsInit, Outcomes
  <2> QED
    BY <2>2, <2>3
<1>7. ReportsInOrder'
  BY <1>1, <1>2 DEF OrderInv, ReportsInOrder, Marks
<1> QED
  BY <1>2, <1>3, <1>6, <1>7, MarksKept DEF OrderInv

LEMMA OrderJobWatch ==
  ASSUME LifeInv, JobWatch
  PROVE  OrderInv'
<1>1. UNCHANGED << deployments, jobs, databases, github >> /\ Moves
  BY Stays DEF JobWatch, StartJobWatch, HandleJob, HandleJobLookup, cluster, controller
<1>2. OthersPlain'
  <2>1. \A a \in Actors \ {JobWatcher} : calls'[a] = calls[a]
    BY InvParts
       DEF JobWatch, StartJobWatch, HandleJob, HandleJobLookup, controller, PlacesSound
  <2> QED
    BY <2>1, InvParts DEF OrderInv, OthersPlain, PlainCalls
<1>3. /\ jobEvents # << >> => db[Head(jobEvents).build] \in Rows
      /\ lookup.row \in Rows /\ (lookup.busy => jobEvents # << >> /\ calls[JobWatcher] = << >>)
      /\ calls \in [Actors -> Seq(SoundCalls)] /\ JobWatcher \in Actors
  BY HeadEvent, InvParts DEF TypeOK, Lookups, LookupOfEvent, PlacesSound
<1> DEFINE e == Head(jobEvents)
<1>4. ASSUME HandleJob, db[e.build].status # "absent"
      PROVE  OrderInv'
  <2>1. /\ jobEvents # << >> /\ calls[JobWatcher] = << >> /\ jobEvents' = Tail(jobEvents)
        /\ calls'[JobWatcher] = OnJobEvent(e.build, db[e.build], e.kind, e.state)
    BY <1>3, <1>4 DEF HandleJob, JobWatcherIdle
  <2> QED
    BY <1>1, <1>2, <1>3, <2>1, OrderHandle
<1>5. ASSUME HandleJob, db[e.build].status = "absent"
      PROVE  OrderInv'
  <2>1. UNCHANGED << calls, jobEvents >>
    BY <1>5 DEF HandleJob
  <2> QED
    BY <1>1, <1>2, <2>1, OrderFrame
<1>6. ASSUME HandleJobLookup
      PROVE  OrderInv'
  <2>1. /\ jobEvents # << >> /\ calls[JobWatcher] = << >> /\ jobEvents' = Tail(jobEvents)
        /\ \/ calls'[JobWatcher] = << Purge(e.build) >>
           \/ calls'[JobWatcher] = OnJobEvent(e.build, lookup.row, e.kind, e.state)
    BY <1>3, <1>6 DEF HandleJobLookup
  <2> QED
    BY <1>1, <1>2, <1>3, <2>1, OrderHandle
<1> QED
  BY <1>2, <1>4, <1>5, <1>6, OrderListed DEF JobWatch

LEMMA OrderCall ==
  ASSUME LifeInv, NEW a \in Actors, Call(a), OthersPlain'
  PROVE  OrderInv'
<1>1. calls[a] # << >> /\ calls \in [Actors -> Seq(SoundCalls)] /\ JobWatcher \in Actors
  BY InvParts DEF Call, PlacesSound
<1>2. CASE Abort(a) /\ UNCHANGED cluster
  <2>1. CASE a = JobWatcher
    BY <1>1, <1>2, <2>1, OrderStopped DEF Abort
  <2>2. CASE a # JobWatcher
    <3>1. calls'[JobWatcher] = calls[JobWatcher] /\ jobEvents' = jobEvents
      BY <1>1, <1>2, <2>2 DEF Abort
    <3>2. Moves /\ deployments' = deployments
      BY <1>2, Stays DEF cluster
    <3> QED
      BY <3>1, <3>2, OrderFrame
  <2> QED
    BY <2>1, <2>2
<1>3. CASE /\ ~Raises(Head(calls[a])) /\ Perform(Head(calls[a]))
           /\ calls' = [calls EXCEPT ![a] = Tail(@)]
  <2>1. CASE a = JobWatcher
    <3>1. calls'[JobWatcher] = Tail(calls[JobWatcher])
      BY <1>1, <1>3, <2>1
    <3> QED
      BY <1>1, <1>3, <2>1, <3>1, OrderPerform
  <2>2. CASE a # JobWatcher
    <3>1. calls'[JobWatcher] = calls[JobWatcher]
      BY <1>1, <1>3, <2>2
    <3>2. Moves /\ (jobEvents' = jobEvents \/ JobEventAdded)
      BY <1>1, <1>3, PerformMoves, PerformJobEvents
    <3>3. \A b \in Builds : b \in Doomed' \/ deployments'[b].init = deployments[b].init
      BY <1>1, <1>3, <2>2, PerformAdvances DEF Writes
    <3> QED
      BY <3>1, <3>2, <3>3, OrderFrame
  <2> QED
    BY <2>1, <2>2
<1> QED
  BY <1>2, <1>3 DEF Call

LEMMA OrderFaults ==
  ASSUME LifeInv, Faults, OthersPlain'
  PROVE  OrderInv'
<1>1. UNCHANGED << deployments, jobs, databases, github >>
  BY DEF Faults, CallFails, DeploymentWatchBreaks, JobWatchBreaks, ControllerRestarts, cluster
<1>2. Moves /\ calls \in [Actors -> Seq(SoundCalls)] /\ JobWatcher \in Actors
  BY <1>1, Stays, InvParts DEF PlacesSound
<1>3. ASSUME NEW a \in Actors, CallFails(a)
      PROVE  OrderInv'
  <2>1. CASE a = JobWatcher
    BY <1>2, <1>3, <2>1, OrderStopped DEF CallFails, Abort
  <2>2. CASE a # JobWatcher
    <3>1. calls'[JobWatcher] = calls[JobWatcher] /\ jobEvents' = jobEvents
      BY <1>2, <1>3, <2>2 DEF CallFails, Abort
    <3> QED
      BY <1>1, <1>2, <3>1, OrderFrame
  <2> QED
    BY <2>1, <2>2
<1>4. CASE DeploymentWatchBreaks
  BY <1>1, <1>2, <1>4, OrderFrame DEF DeploymentWatchBreaks, controller
<1>5. CASE JobWatchBreaks
  BY <1>1, <1>2, <1>5, OrderFrame DEF JobWatchBreaks, controller
<1>6. CASE ControllerRestarts
  BY <1>2, <1>6, OrderStopped DEF ControllerRestarts
<1> QED
  BY <1>3, <1>4, <1>5, <1>6 DEF Faults

(***************************************************************************)
(* The invariant, and what it says of every repository, of every number of *)
(* builds and requests, and of every loss, crash and reordering of events. *)
(***************************************************************************)
LEMMA BlankLife ==
  ASSUME CleanupInv, ClusterBlank, ControllerBlank
  PROVE  LifeInv
<1>1. \A b \in Builds : /\ deployments[b].phase = "unborn" /\ deployments[b].init = "todo"
                        /\ deployments[b].replicas = 0 /\ Shown(github, b) = "none"
                        /\ \A k \in JobKinds : jobs[b][k] = "none"
  BY DEF ClusterBlank, NoDeployment, Shown, Shas
<1>2. \A b \in Builds : BuildSound(b)
  BY <1>1 DEF BuildSound, Present, Outcomes, Reports, JobKinds
<1>3. \A b \in Builds : [build |-> b, row |-> db[b]] \in SoundSnapshots
  <2>1. AbsentRow \in Rows /\ AbsentRow.status = "absent"
    BY DEF AbsentRow, Rows, BuildInitStatus
  <2> QED
    BY <2>1 DEF ControllerBlank, EmptyTable, SoundSnapshots, Snapshots
<1>4. /\ deplEvents \in Seq(SoundSnapshots) /\ todo \in [Tasks -> Seq(Selected)]
      /\ jobEvents \in Seq(SoundJobEvents) /\ calls \in [Actors -> Seq(SoundCalls)]
      /\ \A a \in Actors : calls[a] \in Seq(PlainCalls) /\ calls[a] = << >>
  BY DEF ClusterBlank, ControllerBlank
<1>5. LookupSound
  BY DEF ControllerBlank, NoLookup, LookupSound
<1>6. OrderInv
  BY <1>4, ActorSets
     DEF ClusterBlank, OrderInv, OthersPlain, StartsInOrder, MarksInOrder, ReportsInOrder
<1> QED
  BY <1>2, <1>3, <1>4, <1>5, <1>6 DEF LifeInv, SoundInv, PlacesSound

LEMMA LifeInit ==
  ASSUME Init, "reset" \notin ClientOps
  PROVE  LifeInv
BY CleanupInit, BlankLife DEF Init, ClusterInit

LEMMA LifeStep ==
  ASSUME LifeInv, [Next]_vars
  PROVE  LifeInv'
<1>1. CleanupInv' /\ TypeOK'
  <2>1. CleanupInv'
    BY CleanupStep DEF LifeInv
  <2> QED
    BY <2>1 DEF CleanupInv, TypeInv
<1>2. SoundInv' /\ OrderInv'
  <2>1. CASE DeploymentWatcher
    <3>1. UNCHANGED << deployments, jobs, databases, github, calls, jobEvents >>
      BY <2>1 DEF DeploymentWatcher, StartDeploymentWatch, ListDeployments, HandleDeployment,
                  cluster, controller
    <3>2. OthersPlain'
      BY <3>1, InvParts DEF OrderInv, OthersPlain, PlainCalls
    <3> QED
      BY <1>1, <2>1, <3>1, <3>2, Stays, OrderFrame, DeploymentWatcherSound
  <2>2. CASE JobWatch
    BY <1>1, <2>2, JobWatchSound, OrderJobWatch
  <2>3. ASSUME NEW t \in Tasks, Pass(t) \/ NextBuild(t)
        PROVE  SoundInv' /\ OrderInv'
    <3>1. UNCHANGED clusterVars /\ calls'[JobWatcher] = calls[JobWatcher]
      BY <2>3, ActorSets, InvParts DEF Pass, NextBuild, PlacesSound
    <3> QED
      BY <2>3, <3>1, Stays, OrderFrame, TaskSound DEF clusterVars
  <2>4. ASSUME NEW a \in Actors, Call(a)
        PROVE  SoundInv' /\ OrderInv'
    BY <1>1, <2>4, CallSound, OrderCall
  <2>5. CASE Environment /\ UNCHANGED << controller, requests, faults >>
    <3>1. calls' = calls /\ OthersPlain'
      BY <2>5, InvParts DEF controller, OrderInv, OthersPlain, PlainCalls
    <3> QED
      BY <1>1, <2>5, <3>1, EnvironmentMoves, EnvironmentJobEvents, OrderFrame, EnvironmentSound
  <2>6. CASE Faults
    BY <2>6, FaultsSound, OrderFaults
  <2>7. ASSUME NEW c \in Clients, ClientRequest(c)
        PROVE  SoundInv' /\ OrderInv'
    <3>1. UNCHANGED clusterVars /\ calls'[JobWatcher] = calls[JobWatcher]
      BY <2>7, RequestCalls, ActorSets, InvParts DEF PlacesSound
    <3> QED
      BY <2>7, <3>1, Stays, OrderFrame, RequestSound DEF clusterVars
  <2>8. CASE UNCHANGED vars
    <3>1. /\ UNCHANGED << deployments, jobs, databases, github, calls, jobEvents, jobWatch,
                          deplEvents, db, todo, lookup >>
          /\ OthersPlain
      BY <2>8, InvParts DEF vars, clusterVars, OrderInv
    <3>2. Moves /\ OthersPlain' /\ JobEventsGrow
      BY <3>1, Stays, SameJobEvents DEF OthersPlain, PlainCalls
    <3> QED
      BY <3>1, <3>2, SoundFrame, OrderFrame DEF SoundInv, PlacesSound
  <2> QED
    BY <2>1, <2>2, <2>3, <2>4, <2>5, <2>6, <2>7, <2>8 DEF Next, Background, Wait
<1> QED
  BY <1>1, <1>2 DEF LifeInv

LEMMA LifeAlways ==
  ASSUME "reset" \notin ClientOps
  PROVE  Spec => []LifeInv
<1>1. Init => LifeInv
  BY LifeInit
<1>2. LifeInv /\ [Next]_vars => LifeInv'
  BY LifeStep
<1> QED
  BY <1>1, <1>2, PTL DEF Spec

LEMMA LiveSound ==
  ASSUME LifeInv
  PROVE  RunningIsInitialized /\ InitializedHasDatabase /\ StatusTruthful
<1> SUFFICES ASSUME NEW b \in Builds, Live(b)
             PROVE  /\ deployments[b].replicas = 1 => deployments[b].init = "succeeded"
                    /\ deployments[b].init = "succeeded" => b \in databases
                    /\ Shown(github, b) = "success" => deployments[b].init = "succeeded"
                    /\ Shown(github, b) = "failure" => deployments[b].init = "failed"
  BY DEF RunningIsInitialized, InitializedHasDatabase, StatusTruthful, Shown
<1>1. b \notin Doomed /\ BuildSound(b)
  BY InvParts DEF Live, Doomed
<1>2. /\ deployments[b].init \in Outcomes => jobs[b]["initialize"] = deployments[b].init
      /\ deployments[b].replicas = 1 => deployments[b].init = "succeeded"
      /\ jobs[b]["initialize"] = "succeeded" => b \in databases
      /\ Shown(github, b) \in DOMAIN Reports => deployments[b].init = Reports[Shown(github, b)]
  BY <1>1 DEF BuildSound
<1> QED
  BY <1>2 DEF Reports, Outcomes

\* A build only runs once its database is initialized: a start is decided
\* from a row of the db that may be old, and what it was true of stays true
\* of the build until it is undeployed.
THEOREM OnlyInitializedRun ==
  ASSUME "reset" \notin ClientOps
  PROVE  Spec => []RunningIsInitialized
<1>1. Spec => []LifeInv
  BY LifeAlways
<1>2. LifeInv => RunningIsInitialized
  BY LiveSound
<1> QED
  BY <1>1, <1>2, PTL

\* A build that is marked as initialized has its database: the mark comes
\* from the job that made it, and no later initialization or cleanup can
\* drop it before the build is undeployed.
THEOREM InitializedKeepDatabase ==
  ASSUME "reset" \notin ClientOps
  PROVE  Spec => []InitializedHasDatabase
<1>1. Spec => []LifeInv
  BY LifeAlways
<1>2. LifeInv => InitializedHasDatabase
  BY LiveSound
<1> QED
  BY <1>1, <1>2, PTL

\* The outcome that GitHub shows of a commit is the one that the deployment of
\* the build which posted it carries, however many builds of the commit
\* overwrite each other's statuses, whatever calls fail, posts are refused,
\* watches break and jobs are seen again by a controller that restarts.
THEOREM ReportsTruthful ==
  ASSUME "reset" \notin ClientOps
  PROVE  Spec => []StatusTruthful
<1>1. Spec => []LifeInv
  BY LifeAlways
<1>2. LifeInv => StatusTruthful
  BY LiveSound
<1> QED
  BY <1>1, <1>2, PTL

(***************************************************************************)
(* The builds of the controller go through the stages of BuildLifecycle,   *)
(* and the last of them only after a cleanup job that succeeded.           *)
(***************************************************************************)
(***************************************************************************)
(* The refinement: a step changes at most one deployment, and that one     *)
(* advances.                                                               *)
(***************************************************************************)
OneDeployment ==
  \/ deployments' = deployments
  \/ \E b \in Builds, d \in Deployments : deployments' = [deployments EXCEPT ![b] = d]

LEMMA PerformOne ==
  ASSUME LifeInv, NEW a \in Actors, calls[a] # << >>, Perform(Head(calls[a])), TypeOK'
  PROVE  OneDeployment
<1> DEFINE c == Head(calls[a])
<1>1. c.build \in Builds /\ deployments \in [Builds -> Deployments]
  BY SMTT(30), HeadCall, InvParts
<1>2. \/ deployments' = deployments
      \/ \E d : deployments' = [deployments EXCEPT ![c.build] = d]
  BY DEF Perform, ApplyDeployment, ApplyJob, ApplyOthers, PatchDeployment, RemoveFinalizers,
         DeleteDeployment, DeleteResources, KillJob, NotifyStatus, SetDeployment
<1>3. ASSUME NEW d, deployments' = [deployments EXCEPT ![c.build] = d]
      PROVE  d \in Deployments
  <2>1. deployments'[c.build] = d
    BY <1>1, <1>3
  <2> QED
    BY <1>1, <2>1 DEF TypeOK, ClusterTypeOK
<1> QED
  BY <1>1, <1>2, <1>3 DEF OneDeployment

LEMMA StepAdvances ==
  ASSUME LifeInv, [Next]_vars
  PROVE  OneDeployment /\ \A b \in Builds : Advances(b)
<1>1. TypeOK'
  BY LifeStep, InvParts DEF LifeInv, CleanupInv, TypeInv
<1>2. CASE deployments' = deployments
  BY <1>2, AdvancesSame DEF OneDeployment
<1>3. ASSUME NEW a \in Actors, Call(a)
      PROVE  OneDeployment /\ \A b \in Builds : Advances(b)
  <2>1. CASE /\ calls[a] # << >> /\ ~Raises(Head(calls[a])) /\ Perform(Head(calls[a]))
    BY <1>1, <2>1, PerformOne, PerformAdvances
  <2> QED
    BY <1>2, <1>3, <2>1 DEF Call, cluster
<1>4. CASE Environment
  <2>1. \A b \in Builds : Advances(b)
    BY <1>4, EnvironmentMoves DEF Moves
  <2>2. ASSUME NEW b \in Builds, Scale(b)
        PROVE  OneDeployment
    <3>1. deployments' = [deployments EXCEPT ![b] = [deployments[b] EXCEPT !.running = ~@]]
      BY <2>2 DEF Scale, SetDeployment
    <3>2. [deployments[b] EXCEPT !.running = ~@] \in Deployments
      BY InvParts DEF Deployments
    <3> QED
      BY <3>1, <3>2 DEF OneDeployment
  <2>3. deployments' = deployments \/ \E b \in Builds : Scale(b)
    BY <1>4 DEF Environment, InitializeCreatesDatabase, InitializeSucceeds, CleanupSucceeds,
                JobFails, Tick, cluster
  <2> QED
    BY <2>1, <2>2, <2>3 DEF OneDeployment
<1>5. CASE DeploymentWatcher \/ JobWatch \/ Faults \/ Wait \/ UNCHANGED vars
  BY <1>2, <1>5
     DEF DeploymentWatcher, StartDeploymentWatch, ListDeployments, HandleDeployment, JobWatch,
         StartJobWatch, HandleJob, HandleJobLookup, Faults, CallFails, DeploymentWatchBreaks,
         JobWatchBreaks, ControllerRestarts, Wait, cluster, vars, clusterVars
<1>6. ASSUME NEW t \in Tasks, Pass(t) \/ NextBuild(t)
      PROVE  deployments' = deployments
  BY <1>6 DEF Pass, NextBuild, clusterVars
<1>7. ASSUME NEW c \in Clients, ClientRequest(c)
      PROVE  deployments' = deployments
  BY <1>7, RequestCalls DEF clusterVars
<1> QED
  BY <1>2, <1>3, <1>4, <1>5, <1>6, <1>7 DEF Next, Background

\* The stages a build may go to from each.
Passages ==
  ({"absent"} \X {"waiting"})
    \union ({"waiting"} \X {"initializing"})
    \union ({"waiting", "initializing"} \X {"stopped", "failed"})
    \union ({"stopped", "started"} \X {"stopped", "started"})
    \union ({"waiting", "initializing", "failed", "stopped", "started"} \X {"undeploying"})
    \union ({"undeploying"} \X {"gone"})

LEMMA StageAdvances ==
  ASSUME LifeInv, TypeOK', NEW b \in Builds, Advances(b)
  PROVE  Stage(b)' = Stage(b) \/ << Stage(b), Stage(b)' >> \in Passages
<1> DEFINE d == deployments[b]
           e == deployments'[b]
<1>1. /\ d \in Deployments /\ e \in Deployments
      /\ d.phase \in Phases /\ d.init \in BuildInitStatus /\ d.replicas \in {0, 1}
      /\ e.phase \in Phases /\ e.init \in BuildInitStatus /\ e.replicas \in {0, 1}
      /\ BuildSound(b)
  BY InvParts DEF TypeOK, ClusterTypeOK, Deployments
<1>2. << d.phase, e.phase >> \in
       { << "unborn", "unborn" >>, << "unborn", "live" >>, << "live", "live" >>,
         << "live", "deleting" >>, << "deleting", "deleting" >>, << "deleting", "gone" >>,
         << "gone", "gone" >> }
  BY DEF Advances
<1>3. CASE d.phase = e.phase /\ d.phase # "live"
  BY <1>1, <1>3 DEF Stage, Phases
<1>4. CASE d.phase = "unborn" /\ e.phase = "live"
  <2>1. e.init = "todo"
    BY <1>4 DEF Advances
  <2>2. Stage(b) = "absent" /\ Stage(b)' = "waiting"
    BY <1>4, <2>1 DEF Stage
  <2> QED
    BY <2>2 DEF Passages
<1>5. CASE d.phase = "live" /\ e.phase = "deleting"
  <2>1. Stage(b)' = "undeploying"
    BY <1>5 DEF Stage
  <2>2. Stage(b) \in {"waiting", "initializing", "failed", "stopped", "started"}
    BY <1>1, <1>5 DEF Stage, BuildInitStatus
  <2> QED
    BY <2>1, <2>2 DEF Passages
<1>6. CASE d.phase = "deleting" /\ e.phase = "gone"
  <2>1. Stage(b) = "undeploying" /\ Stage(b)' = "gone"
    BY <1>6 DEF Stage
  <2> QED
    BY <2>1 DEF Passages
<1>7. CASE d.phase = "live" /\ e.phase = "live"
  <2>1. /\ d.init \in Outcomes => e.init = d.init
        /\ e.init = "todo" => d.init = "todo"
        /\ e.replicas = 1 => d.init = "succeeded"
    BY <1>7 DEF Advances
  <2>2. CASE d.init = "todo"
    <3>1. Stage(b) = "waiting"
      BY <1>7, <2>2 DEF Stage
    <3>2. Stage(b)' \in {"waiting", "initializing", "stopped", "failed"}
      BY <1>1, <1>7, <2>1, <2>2 DEF Stage, BuildInitStatus
    <3> QED
      BY <3>1, <3>2 DEF Passages
  <2>3. CASE d.init = "started"
    <3>1. Stage(b) = "initializing"
      BY <1>7, <2>3 DEF Stage
    <3>2. Stage(b)' \in {"initializing", "stopped", "failed"}
      BY <1>1, <1>7, <2>1, <2>3 DEF Stage, BuildInitStatus
    <3> QED
      BY <3>1, <3>2 DEF Passages
  <2>4. CASE d.init = "failed"
    BY <1>7, <2>1, <2>4 DEF Stage, Outcomes
  <2>5. CASE d.init = "succeeded"
    <3>1. Stage(b) \in {"stopped", "started"} /\ Stage(b)' \in {"stopped", "started"}
      BY <1>7, <2>1, <2>5 DEF Stage, Outcomes
    <3> QED
      BY <3>1 DEF Passages
  <2> QED
    BY <1>1, <2>2, <2>3, <2>4, <2>5 DEF BuildInitStatus
<1> QED
  BY <1>2, <1>3, <1>4, <1>5, <1>6, <1>7

LEMMA LifecycleStep ==
  ASSUME LifeInv, [Next]_vars
  PROVE  [Lifecycle!Next]_([b \in Builds |-> Stage(b)])
<1> DEFINE stage == [b \in Builds |-> Stage(b)]
           next == [b \in Builds |-> Stage(b)']
<1>1. TypeOK' /\ OneDeployment /\ deployments \in [Builds -> Deployments]
  BY LifeStep, StepAdvances, InvParts DEF LifeInv, CleanupInv, TypeInv
<1>2. CASE deployments' = deployments
  <2>1. \A b \in Builds : Stage(b)' = Stage(b)
    BY <1>2 DEF Stage
  <2> QED
    BY <2>1
<1>3. ASSUME NEW b \in Builds, NEW d \in Deployments,
             deployments' = [deployments EXCEPT ![b] = d]
      PROVE  [Lifecycle!Next]_([k \in Builds |-> Stage(k)])
  <2>1. \A o \in Builds \ {b} : Stage(o)' = Stage(o)
    <3>1. \A o \in Builds \ {b} : deployments'[o] = deployments[o]
      BY <1>1, <1>3
    <3> QED
      BY <3>1 DEF Stage
  <2>2. CASE Stage(b)' = Stage(b)
    <3>1. \A o \in Builds : Stage(o)' = Stage(o)
      BY <2>1, <2>2
    <3> QED
      BY <3>1
  <2>3. CASE << Stage(b), Stage(b)' >> \in Passages
    <3>1. next = [stage EXCEPT ![b] = Stage(b)']
      BY <2>1
    <3>2. stage[b] = Stage(b)
      OBVIOUS
    <3>3. \/ Lifecycle!Deploy(b)
          \/ Lifecycle!InitializationStarts(b)
          \/ Lifecycle!InitializationEnds(b)
          \/ Lifecycle!StartOrStop(b)
          \/ Lifecycle!Undeploy(b)
          \/ Lifecycle!Remove(b)
      BY <2>3, <3>1, <3>2
         DEF Passages, Lifecycle!Deploy, Lifecycle!InitializationStarts,
             Lifecycle!InitializationEnds, Lifecycle!StartOrStop, Lifecycle!Undeploy,
             Lifecycle!Remove, Lifecycle!Passes, Lifecycle!Initialized, Lifecycle!Deployed
    <3> QED
      BY <3>3 DEF Lifecycle!Next
  <2> QED
    BY <1>1, <2>2, <2>3, StepAdvances, StageAdvances
<1> QED
  BY <1>1, <1>2, <1>3 DEF OneDeployment

\* The builds of the controller implement BuildLifecycle: no event that is
\* old, seen twice or missed takes a build back, starts it before its
\* database is there, or brings it back once it is undeployed.
THEOREM ControllerImplementsLifecycle ==
  ASSUME "reset" \notin ClientOps
  PROVE  Spec => LifecycleRespected
<1>1. Init => Lifecycle!Init
  <2> SUFFICES ASSUME Init
               PROVE  [b \in Builds |-> Stage(b)] = [b \in Builds |-> "absent"]
    BY DEF Lifecycle!Init
  <2>1. \A b \in Builds : Stage(b) = "absent"
    BY DEF Init, ClusterInit, ClusterBlank, NoDeployment, Stage
  <2> QED
    BY <2>1
<1>2. Spec => []LifeInv
  BY LifeAlways
<1>3. LifeInv /\ [Next]_vars => [Lifecycle!Next]_([b \in Builds |-> Stage(b)])
  BY LifecycleStep
<1> QED
  BY <1>1, <1>2, <1>3, PTL DEF Spec, LifecycleRespected, Lifecycle!Spec

(***************************************************************************)
(* A purge is only pending when its cleanup job has succeeded.  The event  *)
(* of that job may be seen again while the jobs are being removed; but     *)
(* what job_watcher is finishing it finishes first, and so the deployment  *)
(* is gone when it looks at the next event.                                *)
(***************************************************************************)
Finishing(b) ==
  \E i \in 1 .. Len(calls[JobWatcher]) : calls[JobWatcher][i] = Unfinalize(b)

CleanupDone(b) == Present(deployments[b]) => jobs[b]["cleanup"] = "succeeded"

PurgesInOrder ==
  \A i \in 1 .. Len(calls[JobWatcher]) :
    LET c == calls[JobWatcher][i] IN
    c.op = "purge" =>
      /\ i = 1
      /\ CleanupDone(c.build)
      /\ Present(deployments[c.build]) => Finishing(c.build)

SuccessesInOrder ==
  \A i \in 1 .. Len(jobEvents) :
    LET e == jobEvents[i] IN
    e.kind = "cleanup" /\ e.state = "succeeded" => CleanupDone(e.build) \/ Finishing(e.build)

PurgeInv == LifeInv /\ ~NoCleanupJob /\ PurgesInOrder /\ SuccessesInOrder

\* What job_watcher purges, and what it is told of cleanups, is doomed; and
\* nobody else purges.
LEMMA PurgeDoomed ==
  ASSUME PurgeInv
  PROVE  /\ calls \in [Actors -> Seq(SoundCalls)] /\ jobEvents \in Seq(SoundJobEvents)
         /\ \A i \in 1 .. Len(calls[JobWatcher]) :
              LET c == calls[JobWatcher][i] IN
              c.build \in Builds /\ (c.op = "purge" => c.build \in Doomed)
         /\ \A i \in 1 .. Len(jobEvents) :
              LET e == jobEvents[i] IN
              e.build \in Builds /\ (e.kind = "cleanup" => e.build \in Doomed)
         /\ \A a \in Actors \ {JobWatcher} : \A i \in 1 .. Len(calls[a]) : calls[a][i].op # "purge"
<1>1. LifeInv /\ ~NoCleanupJob
  BY DEF PurgeInv
<1>2. /\ calls \in [Actors -> Seq(SoundCalls)] /\ jobEvents \in Seq(SoundJobEvents)
      /\ JobWatcher \in Actors /\ OthersPlain
  BY <1>1, InvParts DEF PlacesSound, OrderInv
<1>3. ASSUME NEW i \in 1 .. Len(calls[JobWatcher])
      PROVE  /\ calls[JobWatcher][i].build \in Builds
             /\ calls[JobWatcher][i].op = "purge" => calls[JobWatcher][i].build \in Doomed
  <2>1. calls[JobWatcher][i] \in SoundCalls
    BY <1>2
  <2> QED
    BY <2>1, CallFields DEF SoundCalls
<1>4. ASSUME NEW i \in 1 .. Len(jobEvents)
      PROVE  /\ jobEvents[i].build \in Builds
             /\ jobEvents[i].kind = "cleanup" => jobEvents[i].build \in Doomed
  <2>1. jobEvents[i] \in SoundJobEvents
    BY <1>2
  <2> QED
    BY <2>1 DEF SoundJobEvents, JobEvents
<1>5. ASSUME NEW a \in Actors \ {JobWatcher}, NEW i \in 1 .. Len(calls[a])
      PROVE  calls[a][i].op # "purge"
  <2>1. calls[a][i] \in PlainCalls
    BY <1>2 DEF OthersPlain
  <2> QED
    BY <1>1, <2>1 DEF PlainCalls
<1> QED
  BY <1>2, <1>3, <1>4, <1>5

\* A cleanup that was done stays done, unless the jobs are removed.
CleanupKept(b) ==
  jobs[b]["cleanup"] = "succeeded" /\ Present(deployments'[b]) => jobs'[b]["cleanup"] = "succeeded"

LEMMA CleanupStays ==
  ASSUME LifeInv, NEW b \in Doomed, Advances(b)
  PROVE  /\ Present(deployments'[b]) => Present(deployments[b])
         /\ CleanupDone(b) /\ CleanupKept(b) => CleanupDone(b)'
<1>1. << deployments[b].phase, deployments'[b].phase >> \in
       { << "unborn", "unborn" >>, << "unborn", "live" >>, << "live", "live" >>,
         << "live", "deleting" >>, << "deleting", "deleting" >>, << "deleting", "gone" >>,
         << "gone", "gone" >> }
  BY DEF Advances
<1>2. deployments[b].phase \in {"deleting", "gone"}
  BY DEF Doomed
<1> QED
  BY <1>1, <1>2 DEF Present, CleanupDone, CleanupKept

\* The event of a cleanup that succeeds comes when the job shows it.
LEMMA SuccessesAdded ==
  ASSUME jobEvents \in Seq(SoundJobEvents),
         jobEvents' = jobEvents \/ jobEvents' = << >> \/ JobEventAdded,
         ASSUME NEW i \in 1 .. Len(jobEvents), jobEvents[i].kind = "cleanup",
                jobEvents[i].state = "succeeded", NEW b, b = jobEvents[i].build
         PROVE  CleanupDone(b)' \/ Finishing(b)'
  PROVE  SuccessesInOrder'
<1>1. \A i \in 1 .. Len(jobEvents) :
        jobEvents[i].kind = "cleanup" /\ jobEvents[i].state = "succeeded" =>
          \A b : b = jobEvents[i].build => CleanupDone(b)' \/ Finishing(b)'
  OBVIOUS
<1>2. CASE jobEvents' = jobEvents
  BY <1>1, <1>2 DEF SuccessesInOrder, CleanupDone, Finishing
<1>3. CASE jobEvents' = << >>
  BY <1>3 DEF SuccessesInOrder
<1>4. ASSUME NEW o \in Builds, NEW kind \in JobKinds, NEW state \in JobStates \ {"none"},
             jobEvents' = Append(jobEvents, [build |-> o, kind |-> kind, state |-> state]),
             jobs'[o][kind] = state
      PROVE  SuccessesInOrder'
  <2> DEFINE e == [build |-> o, kind |-> kind, state |-> state]
  <2>1. e.build = o /\ e.kind = kind /\ e.state = state
    OBVIOUS
  <2> HIDE DEF e
  <2>2. /\ \A i \in 1 .. Len(jobEvents') :
             i \in 1 .. Len(jobEvents) \/ jobEvents'[i] = e
        /\ \A i \in 1 .. Len(jobEvents) : jobEvents'[i] = jobEvents[i]
    BY <1>4 DEF e
  <2>3. e.kind = "cleanup" /\ e.state = "succeeded" => CleanupDone(o)'
    BY <1>4, <2>1 DEF CleanupDone
  <2>4. ASSUME NEW i \in 1 .. Len(jobEvents'), jobEvents'[i].kind = "cleanup",
               jobEvents'[i].state = "succeeded", NEW b, b = jobEvents'[i].build
        PROVE  CleanupDone(b)' \/ Finishing(b)'
    BY <1>1, <2>1, <2>2, <2>3, <2>4
  <2> QED
    BY <2>4 DEF SuccessesInOrder, CleanupDone, Finishing
<1> QED
  BY <1>2, <1>3, <1>4 DEF JobEventAdded

\* A step that leaves alone what job_watcher is at.
LEMMA PurgeFrame ==
  ASSUME PurgeInv, Moves, \A b \in Doomed : CleanupKept(b),
         calls'[JobWatcher] = calls[JobWatcher],
         jobEvents' = jobEvents \/ jobEvents' = << >> \/ JobEventAdded
  PROVE  PurgesInOrder' /\ SuccessesInOrder'
<1>1. /\ LifeInv /\ Doomed \subseteq Builds /\ jobEvents \in Seq(SoundJobEvents)
      /\ \A b \in Builds : Advances(b)
  BY PurgeDoomed DEF PurgeInv, Moves, Doomed
<1>2. \A b \in Doomed : /\ Present(deployments'[b]) => Present(deployments[b])
                        /\ CleanupDone(b) => CleanupDone(b)'
  BY <1>1, CleanupStays
<1>3. \A b \in Builds : Finishing(b)' <=> Finishing(b)
  BY DEF Finishing
<1>4. PurgesInOrder'
  <2> SUFFICES ASSUME NEW i \in 1 .. Len(calls[JobWatcher]), calls[JobWatcher][i].op = "purge"
               PROVE  LET b == calls[JobWatcher][i].build IN
                      /\ i = 1 /\ CleanupDone(b)'
                      /\ Present(deployments'[b]) => Finishing(b)'
    BY DEF PurgesInOrder, CleanupDone, Finishing
  <2>1. calls[JobWatcher][i].build \in Doomed
    BY PurgeDoomed
  <2> QED
    BY <1>1, <1>2, <1>3, <2>1 DEF PurgeInv, PurgesInOrder
<1>5. ASSUME NEW i \in 1 .. Len(jobEvents), jobEvents[i].kind = "cleanup",
             jobEvents[i].state = "succeeded", NEW b, b = jobEvents[i].build
      PROVE  CleanupDone(b)' \/ Finishing(b)'
  <2>1. b \in Doomed
    BY <1>5, PurgeDoomed
  <2> QED
    BY <1>1, <1>2, <1>3, <1>5, <2>1 DEF PurgeInv, SuccessesInOrder
<1>6. SuccessesInOrder'
  BY <1>1, <1>5, SuccessesAdded
<1> QED
  BY <1>4, <1>6

\* Only a purge removes a cleanup job that succeeded, and only of its build.
LEMMA PerformKeeps ==
  ASSUME LifeInv, NEW a \in Actors, calls[a] # << >>, Perform(Head(calls[a])), NEW b \in Builds
  PROVE  CleanupKept(b) \/ (Head(calls[a]).op = "purge" /\ Head(calls[a]).build = b)
<1> DEFINE c == Head(calls[a])
<1>1. /\ c \in SoundCalls /\ c.build \in Builds
      /\ jobs \in [Builds -> [JobKinds -> JobStates]]
  BY HeadCall, InvParts
<1>2. CASE jobs' = jobs
  BY <1>2 DEF CleanupKept
<1>3. CASE ApplyJob(c)
  <2>1. /\ c.mode \in JobKinds
        /\ \/ jobs' = jobs
           \/ /\ jobs[c.build][c.mode] = "none"
              /\ jobs' = [jobs EXCEPT ![c.build][c.mode] = "active"]
    BY <1>3 DEF ApplyJob, SetJob
  <2> HIDE DEF c
  <2>2. CASE jobs' = [jobs EXCEPT ![c.build][c.mode] = "active"] /\ c.build = b
    <3>1. jobs'[b] = [jobs[b] EXCEPT ![c.mode] = "active"] /\ jobs[b] \in [JobKinds -> JobStates]
      BY <1>1, <2>2
    <3>2. c.mode = "cleanup" => jobs[b]["cleanup"] = "none" \/ jobs' = jobs
      BY <2>1, <2>2
    <3>3. c.mode # "cleanup" => jobs'[b]["cleanup"] = jobs[b]["cleanup"]
      BY <3>1 DEF JobKinds
    <3> QED
      BY <1>2, <3>2, <3>3 DEF CleanupKept
  <2>3. CASE jobs' = [jobs EXCEPT ![c.build][c.mode] = "active"] /\ c.build # b
    BY <1>1, <2>3 DEF CleanupKept
  <2> QED
    BY <1>2, <2>1, <2>2, <2>3
<1>4. CASE KillJob(c)
  <2>1. jobs' = [jobs EXCEPT ![c.build]["initialize"] = "none"]
    BY <1>1, <1>4 DEF KillJob, SetJob, SoundCalls
  <2> QED
    BY <1>1, <2>1 DEF CleanupKept
<1>5. CASE DeleteResources(c)
  <2>1. /\ c.op = "purge"
        /\ jobs' = [jobs EXCEPT ![c.build] = [k \in JobKinds |-> "none"]]
    BY <1>5 DEF DeleteResources
  <2> QED
    BY <1>1, <2>1 DEF CleanupKept
<1> QED
  BY <1>2, <1>3, <1>4, <1>5
     DEF Perform, ApplyDeployment, ApplyOthers, PatchDeployment, RemoveFinalizers,
         DeleteDeployment, NotifyStatus

LEMMA EnvironmentKeeps ==
  ASSUME LifeInv, Environment, NEW b \in Builds
  PROVE  CleanupKept(b)
<1>1. jobs \in [Builds -> [JobKinds -> JobStates]]
  BY InvParts
<1>2. ASSUME NEW o \in Builds, NEW kind \in JobKinds, NEW state, jobs[o][kind] = "active",
             jobs' = [jobs EXCEPT ![o][kind] = state]
      PROVE  CleanupKept(b)
  BY <1>1, <1>2 DEF CleanupKept
<1>3. CASE jobs' = jobs
  BY <1>3 DEF CleanupKept
<1>4. ASSUME NEW o \in Builds, InitializeSucceeds(o) \/ CleanupSucceeds(o)
      PROVE  CleanupKept(b)
  BY <1>2, <1>4 DEF InitializeSucceeds, CleanupSucceeds, SetJob, JobKinds
<1>5. ASSUME NEW o \in Builds, NEW kind \in JobKinds, JobFails(o, kind)
      PROVE  CleanupKept(b)
  BY <1>2, <1>5 DEF JobFails, SetJob
<1> QED
  BY <1>3, <1>4, <1>5 DEF Environment, InitializeCreatesDatabase, Scale, Tick, cluster

\* job_watcher makes a call: a purge leaves the removal of the finalizer, and
\* that leaves no deployment.
LEMMA PurgePerform ==
  ASSUME PurgeInv, calls[JobWatcher] # << >>, ~Raises(Head(calls[JobWatcher])),
         Perform(Head(calls[JobWatcher])), calls'[JobWatcher] = Tail(calls[JobWatcher])
  PROVE  PurgesInOrder' /\ SuccessesInOrder'
<1> DEFINE list == calls[JobWatcher]
           c == Head(list)
<1>1. /\ LifeInv /\ JobWatcher \in Actors /\ list \in Seq(SoundCalls) /\ c = list[1]
      /\ 1 \in 1 .. Len(list) /\ c.build \in Builds /\ jobEvents \in Seq(SoundJobEvents)
      /\ ClusterTypeOK
  BY HeadCall, ActorSets, PurgeDoomed, InvParts DEF PurgeInv
<1>2. /\ \A b \in Builds : Advances(b)
      /\ jobEvents' = jobEvents \/ JobEventAdded
  BY <1>1, PerformAdvances, PerformJobEvents
<1>3. \A i \in 1 .. Len(calls'[JobWatcher]) :
        i + 1 \in 1 .. Len(list) /\ i + 1 # 1 /\ calls'[JobWatcher][i] = list[i + 1]
  BY <1>1, TailItems
<1>4. PurgesInOrder'
  <2>1. \A i \in 1 .. Len(calls'[JobWatcher]) : calls'[JobWatcher][i].op # "purge"
    BY <1>3 DEF PurgeInv, PurgesInOrder
  <2> QED
    BY <2>1 DEF PurgesInOrder
\* What was being finished still is, or is gone.
<1>5. ASSUME NEW b \in Doomed, Finishing(b)
      PROVE  CleanupDone(b)' \/ Finishing(b)'
  <2>1. PICK i \in 1 .. Len(list) : list[i] = Unfinalize(b)
    BY <1>5 DEF Finishing
  <2>2. CASE i = 1
    <3>1. c = Unfinalize(b) /\ c.op = "unfinalize" /\ c.build = b
      BY SMTT(30), <1>1, <2>1, <2>2 DEF Unfinalize
    <3> HIDE DEF c
    <3>2. RemoveFinalizers(c)
      BY <3>1
         DEF Perform, ApplyDeployment, ApplyJob, ApplyOthers, PatchDeployment, DeleteDeployment,
             DeleteResources, KillJob, NotifyStatus, c
    <3>3. /\ deployments \in [Builds -> Deployments] /\ deployments[b] \in Deployments
          /\ deployments[b].phase \in {"deleting", "gone"} /\ b \in Builds
      BY <1>1 DEF ClusterTypeOK, Doomed
    <3>4. ~Present(deployments'[b])
      <4>1. CASE Present(deployments[b])
        <5> DEFINE f == [deployments[b] EXCEPT !.finalizer = FALSE]
        <5>1. f.phase = deployments[b].phase /\ f.finalizer = FALSE
          BY <3>3 DEF Deployments
        <5>2. Deleted(f) = NoDeployment("gone")
          BY <4>1, <5>1 DEF Deleted, Present
        <5>3. deployments' = [deployments EXCEPT ![b] = NoDeployment("gone")]
          BY <3>1, <3>2, <4>1, <5>2 DEF RemoveFinalizers, SetDeployment
        <5>4. deployments'[b] = NoDeployment("gone")
          BY <3>3, <5>3
        <5> QED
          BY <5>4 DEF NoDeployment, Present
      <4>2. CASE ~Present(deployments[b])
        BY <3>1, <3>2, <4>2 DEF RemoveFinalizers
      <4> QED
        BY <4>1, <4>2
    <3> QED
      BY <3>4 DEF CleanupDone
  <2>3. CASE i # 1
    <3>1. i - 1 \in 1 .. Len(calls'[JobWatcher]) /\ (i - 1) + 1 = i
      <4>1. Len(calls'[JobWatcher]) = Len(list) - 1
        BY <1>1
      <4> QED
        BY <1>1, <2>3, <4>1
    <3>2. calls'[JobWatcher][i - 1] = Unfinalize(b)
      BY <1>3, <2>1, <3>1
    <3> QED
      BY <3>1, <3>2 DEF Finishing, Unfinalize
  <2> QED
    BY <2>2, <2>3
<1>6. ASSUME NEW b \in Doomed, CleanupDone(b) \/ Finishing(b)
      PROVE  CleanupDone(b)' \/ Finishing(b)'
  <2>1. CASE Finishing(b)
    BY <1>5, <2>1
  <2>2. CASE CleanupDone(b) /\ ~Finishing(b)
    <3>1. b \in Builds
      BY DEF Doomed
    <3>2. CASE CleanupKept(b)
      BY <1>1, <1>2, <2>2, <3>1, <3>2, CleanupStays
    <3>3. CASE c.op = "purge" /\ c.build = b
      <4>1. ~Present(deployments[b])
        BY <1>1, <2>2, <3>3 DEF PurgeInv, PurgesInOrder
      <4> QED
        BY <1>1, <1>2, <3>1, <4>1, CleanupStays DEF CleanupDone
    <3> QED
      BY <1>1, <3>1, <3>2, <3>3, PerformKeeps
  <2> QED
    BY <1>6, <2>1, <2>2
<1>7. ASSUME NEW i \in 1 .. Len(jobEvents), jobEvents[i].kind = "cleanup",
             jobEvents[i].state = "succeeded", NEW b, b = jobEvents[i].build
      PROVE  CleanupDone(b)' \/ Finishing(b)'
  <2>1. b \in Doomed
    BY <1>7, PurgeDoomed
  <2>2. CleanupDone(b) \/ Finishing(b)
    BY <1>7 DEF PurgeInv, SuccessesInOrder
  <2> QED
    BY <1>6, <2>1, <2>2
<1>8. SuccessesInOrder'
  BY <1>1, <1>2, <1>7, SuccessesAdded
<1> QED
  BY <1>4, <1>8

\* job_watcher takes an event: it has nothing else to finish, so that what
\* it is told of cleanups shows in the jobs.
LEMMA PurgeHandle ==
  ASSUME PurgeInv, jobEvents # << >>, calls[JobWatcher] = << >>,
         UNCHANGED << deployments, jobs >>, jobEvents' = Tail(jobEvents),
         NEW row \in Rows, NEW list, calls'[JobWatcher] = list,
         LET e == Head(jobEvents) IN
           \/ list = << Purge(e.build) >> /\ deployments[e.build].phase = "gone"
           \/ list = OnJobEvent(e.build, row, e.kind, e.state)
  PROVE  PurgesInOrder' /\ SuccessesInOrder'
<1> DEFINE e == Head(jobEvents)
<1>1. /\ LifeInv /\ jobEvents \in Seq(SoundJobEvents) /\ e = jobEvents[1]
      /\ 1 \in 1 .. Len(jobEvents)
      /\ e.build \in Builds /\ e.kind \in JobKinds /\ e.state \in JobStates \ {"none"}
  BY HeadEvent DEF PurgeInv
<1>2. \A i \in 1 .. Len(jobEvents') :
        i + 1 \in 1 .. Len(jobEvents) /\ jobEvents'[i] = jobEvents[i + 1]
  BY <1>1, TailItems
<1>3. \A b : ~Finishing(b) /\ CleanupDone(b)' = CleanupDone(b)
  BY DEF Finishing, CleanupDone
<1>4. \A i \in 1 .. Len(jobEvents) :
        jobEvents[i].kind = "cleanup" /\ jobEvents[i].state = "succeeded" =>
          CleanupDone(jobEvents[i].build)
  BY <1>3 DEF PurgeInv, SuccessesInOrder
<1>5. SuccessesInOrder'
  BY <1>2, <1>4 DEF SuccessesInOrder, CleanupDone
<1>6. CASE list = << Purge(e.build) >> /\ deployments[e.build].phase = "gone"
  <2>1. 1 .. Len(list) = {1} /\ list[1] = Purge(e.build)
    BY <1>6
  <2> QED
    BY <1>5, <1>6, <2>1 DEF PurgesInOrder, CleanupDone, Present, Purge
<1>7. CASE e.kind = "cleanup" /\ e.state = "succeeded" /\ list = << Purge(e.build), Unfinalize(e.build) >>
  <2>1. 1 .. Len(list) = {1, 2} /\ list[1] = Purge(e.build) /\ list[2] = Unfinalize(e.build)
    BY <1>7
  <2>2. CleanupDone(e.build)
    BY <1>1, <1>4, <1>7
  <2>3. \E i \in 1 .. Len(list) : list[i] = Unfinalize(e.build)
    BY <2>1
  <2>4. ASSUME NEW i \in 1 .. Len(list), list[i].op = "purge"
        PROVE  i = 1 /\ list[i].build = e.build
    BY <2>1, <2>4 DEF Purge, Unfinalize
  <2> QED
    BY <1>5, <2>2, <2>3, <2>4 DEF PurgesInOrder, CleanupDone, Finishing, Unfinalize
<1>8. CASE \A i \in 1 .. Len(list) : list[i].op # "purge"
  BY <1>5, <1>8 DEF PurgesInOrder
<1>9. ASSUME NEW c \in Calls, NEW init, Marks(c, e.build, init), NEW report,
             \/ list = << c, Notify(e.build, report) >>
             \/ list = << Apply(e.build, "stop"), c, Notify(e.build, report) >>
      PROVE  \A i \in 1 .. Len(list) : list[i].op # "purge"
  <2>1. c.op # "purge" /\ Notify(e.build, report).op # "purge" /\ Apply(e.build, "stop").op # "purge"
    BY <1>9 DEF Marks, Notify, Apply
  <2>2. CASE list = << c, Notify(e.build, report) >>
    <3>1. 1 .. Len(list) = {1, 2} /\ list[1] = c /\ list[2] = Notify(e.build, report)
      BY <2>2
    <3> QED
      BY <2>1, <3>1
  <2>3. CASE list = << Apply(e.build, "stop"), c, Notify(e.build, report) >>
    <3>1. /\ 1 .. Len(list) = {1, 2, 3} /\ list[1] = Apply(e.build, "stop") /\ list[2] = c
          /\ list[3] = Notify(e.build, report)
      BY <2>3
    <3> QED
      BY <2>1, <3>1
  <2> QED
    BY <1>9, <2>2, <2>3
<1>10. CASE list = << >>
  BY <1>5, <1>10 DEF PurgesInOrder
<1> QED
  BY <1>1, <1>6, <1>7, <1>8, <1>9, <1>10, OnJobEventShape

LEMMA PurgeJobWatch ==
  ASSUME PurgeInv, JobWatch
  PROVE  PurgesInOrder' /\ SuccessesInOrder'
<1> DEFINE e == Head(jobEvents)
<1>1. /\ LifeInv /\ UNCHANGED << deployments, jobs, databases, github >>
      /\ \A b \in Doomed : CleanupKept(b)
  BY DEF PurgeInv, JobWatch, StartJobWatch, HandleJob, HandleJobLookup, cluster, CleanupKept
<1>2. /\ jobEvents # << >> => db[e.build] \in Rows
      /\ lookup.row \in Rows /\ (lookup.busy => jobEvents # << >> /\ calls[JobWatcher] = << >>)
      /\ calls \in [Actors -> Seq(SoundCalls)] /\ JobWatcher \in Actors /\ LookupSound /\ Moves
  BY <1>1, HeadEvent, InvParts, Stays DEF TypeOK, Lookups, LookupOfEvent, PlacesSound
<1>3. CASE StartJobWatch
  <2>1. calls' = calls
    BY <1>3 DEF StartJobWatch, controller
  <2>2. PICK q \in SetToSeqs({j \in Builds \X JobKinds : jobs[j[1]][j[2]] # "none"}) :
          jobEvents' = [i \in 1 .. Len(q) |->
            [build |-> q[i][1], kind |-> q[i][2], state |-> jobs[q[i][1]][q[i][2]]]]
    BY <1>3 DEF StartJobWatch
  <2>3. Len(q) \in Nat
    BY ListedJobs
  <2>4. Len(jobEvents') = Len(q)
    BY <2>2, <2>3
  <2>5. \A i \in 1 .. Len(jobEvents') :
          jobs[jobEvents'[i].build][jobEvents'[i].kind] = jobEvents'[i].state
    BY <2>2, <2>4
  <2>6. SuccessesInOrder'
    BY <1>1, <2>5 DEF SuccessesInOrder, CleanupDone
  <2>7. PurgesInOrder'
    BY <1>1, <2>1 DEF PurgeInv, PurgesInOrder, CleanupDone, Finishing
  <2> QED
    BY <2>6, <2>7
<1>4. ASSUME HandleJob, db[e.build].status # "absent"
      PROVE  PurgesInOrder' /\ SuccessesInOrder'
  <2>1. /\ jobEvents # << >> /\ calls[JobWatcher] = << >> /\ jobEvents' = Tail(jobEvents)
        /\ calls'[JobWatcher] = OnJobEvent(e.build, db[e.build], e.kind, e.state)
    BY <1>2, <1>4 DEF HandleJob, JobWatcherIdle
  <2> QED
    BY <1>1, <1>2, <2>1, PurgeHandle
<1>5. ASSUME HandleJob, db[e.build].status = "absent"
      PROVE  PurgesInOrder' /\ SuccessesInOrder'
  <2>1. UNCHANGED << calls, jobEvents >>
    BY <1>5 DEF HandleJob
  <2> QED
    BY <1>1, <1>2, <2>1, PurgeFrame
<1>6. ASSUME HandleJobLookup
      PROVE  PurgesInOrder' /\ SuccessesInOrder'
  <2>1. /\ jobEvents # << >> /\ calls[JobWatcher] = << >> /\ jobEvents' = Tail(jobEvents)
        /\ \/ /\ calls'[JobWatcher] = << Purge(e.build) >>
              /\ deployments[e.build].phase = "gone"
           \/ calls'[JobWatcher] = OnJobEvent(e.build, lookup.row, e.kind, e.state)
    BY <1>2, <1>6 DEF HandleJobLookup, LookupSound
  <2> QED
    BY <1>1, <1>2, <2>1, PurgeHandle
<1> QED
  BY <1>3, <1>4, <1>5, <1>6 DEF JobWatch

LEMMA PurgeStopped ==
  ASSUME calls'[JobWatcher] = << >>, jobEvents' = << >>
  PROVE  PurgesInOrder' /\ SuccessesInOrder'
BY DEF PurgesInOrder, SuccessesInOrder

LEMMA PurgeStep ==
  ASSUME PurgeInv, [Next]_vars
  PROVE  PurgeInv'
<1>1. LifeInv /\ LifeInv' /\ ~NoCleanupJob
  BY LifeStep DEF PurgeInv
<1>2. calls \in [Actors -> Seq(SoundCalls)] /\ JobWatcher \in Actors
  BY <1>1, InvParts DEF PlacesSound
<1> SUFFICES PurgesInOrder' /\ SuccessesInOrder'
  BY <1>1 DEF PurgeInv
\* A step that leaves the cluster alone, and job_watcher's calls.
<1>3. ASSUME UNCHANGED << deployments, jobs, databases, github >>,
             calls'[JobWatcher] = calls[JobWatcher], jobEvents' = jobEvents \/ jobEvents' = << >>
      PROVE  PurgesInOrder' /\ SuccessesInOrder'
  BY <1>1, <1>3, PurgeFrame, Stays DEF CleanupKept
<1>4. ASSUME NEW a \in Actors, calls[a] # << >>, Abort(a), UNCHANGED cluster
      PROVE  PurgesInOrder' /\ SuccessesInOrder'
  <2>1. CASE a = JobWatcher
    BY <1>2, <1>4, <2>1, PurgeStopped DEF Abort
  <2>2. CASE a # JobWatcher
    <3>1. calls'[JobWatcher] = calls[JobWatcher] /\ jobEvents' = jobEvents
      BY <1>2, <1>4, <2>2 DEF Abort
    <3> QED
      BY <1>3, <1>4, <3>1 DEF cluster
  <2> QED
    BY <2>1, <2>2
<1>5. ASSUME NEW a \in Actors, Call(a)
      PROVE  PurgesInOrder' /\ SuccessesInOrder'
  <2>1. ASSUME calls[a] # << >>, ~Raises(Head(calls[a])), Perform(Head(calls[a])),
               calls' = [calls EXCEPT ![a] = Tail(@)]
        PROVE  PurgesInOrder' /\ SuccessesInOrder'
    <3>1. CASE a = JobWatcher
      <4>1. calls'[JobWatcher] = Tail(calls[JobWatcher])
        BY <1>2, <2>1, <3>1
      <4> QED
        BY <2>1, <3>1, <4>1, PurgePerform
    <3>2. CASE a # JobWatcher
      <4>1. calls'[JobWatcher] = calls[JobWatcher]
        BY <1>2, <2>1, <3>2
      <4>2. Head(calls[a]).op # "purge"
        BY <1>1, <2>1, <3>2, HeadCall, PurgeDoomed
      <4>3. \A b \in Doomed : CleanupKept(b)
        BY <1>1, <2>1, <4>2, PerformKeeps DEF Doomed
      <4> QED
        BY <1>1, <2>1, <4>1, <4>3, PerformMoves, PerformJobEvents, PurgeFrame
    <3> QED
      BY <3>1, <3>2
  <2> QED
    BY <1>4, <1>5, <2>1 DEF Call
<1>6. CASE Environment /\ UNCHANGED << controller, requests, faults >>
  <2>1. \A b \in Doomed : CleanupKept(b)
    BY <1>1, <1>6, EnvironmentKeeps DEF Doomed
  <2> QED
    BY <1>1, <1>6, <2>1, EnvironmentMoves, EnvironmentJobEvents, PurgeFrame DEF controller
<1>7. CASE DeploymentWatcher \/ DeploymentWatchBreaks \/ JobWatchBreaks
  BY <1>3, <1>7
     DEF DeploymentWatcher, StartDeploymentWatch, ListDeployments, HandleDeployment,
         DeploymentWatchBreaks, JobWatchBreaks, cluster, controller
<1>8. CASE ControllerRestarts
  BY <1>2, <1>8, PurgeStopped DEF ControllerRestarts
<1>9. ASSUME NEW a \in Actors, CallFails(a)
      PROVE  PurgesInOrder' /\ SuccessesInOrder'
  BY <1>4, <1>9 DEF CallFails
<1>10. ASSUME NEW t \in Tasks, Pass(t) \/ NextBuild(t)
       PROVE  PurgesInOrder' /\ SuccessesInOrder'
  <2>1. UNCHANGED clusterVars /\ calls'[JobWatcher] = calls[JobWatcher]
    BY <1>2, <1>10, ActorSets DEF Pass, NextBuild
  <2> QED
    BY <1>3, <2>1 DEF clusterVars
<1>11. ASSUME NEW c \in Clients, ClientRequest(c)
       PROVE  PurgesInOrder' /\ SuccessesInOrder'
  <2>1. UNCHANGED clusterVars /\ calls'[JobWatcher] = calls[JobWatcher]
    BY <1>1, <1>2, <1>11, RequestCalls, ActorSets
  <2> QED
    BY <1>3, <2>1 DEF clusterVars
<1>12. CASE UNCHANGED vars
  BY <1>3, <1>12 DEF vars, clusterVars
<1> QED
  BY <1>5, <1>6, <1>7, <1>8, <1>9, <1>10, <1>11, <1>12, PurgeJobWatch
     DEF Next, Background, Wait, Faults

LEMMA BlankPurge ==
  ASSUME LifeInv, ClusterBlank, ControllerBlank, ~NoCleanupJob
  PROVE  PurgeInv
<1>1. calls[JobWatcher] = << >> /\ jobEvents = << >>
  BY ActorSets DEF ClusterBlank, ControllerBlank
<1> QED
  BY <1>1 DEF PurgeInv, PurgesInOrder, SuccessesInOrder

LEMMA PurgeSafe ==
  ASSUME PurgeInv
  PROVE  PurgeAfterCleanup
<1> SUFFICES ASSUME NEW a \in Actors, NEW i \in 1 .. Len(calls[a]), calls[a][i].op = "purge",
                    Present(deployments[calls[a][i].build])
             PROVE  jobs[calls[a][i].build]["cleanup"] = "succeeded"
  BY DEF PurgeAfterCleanup
<1>1. a = JobWatcher
  BY PurgeDoomed
<1> QED
  BY <1>1 DEF PurgeInv, PurgesInOrder, CleanupDone

\* The resources of a build, its finalizer included, are only removed after
\* a cleanup job that succeeded, or when the deployment is gone already:
\* with every call that fails, every restart, and every event seen again.
THEOREM PurgesFollowCleanups ==
  ASSUME "reset" \notin ClientOps, ~NoCleanupJob
  PROVE  Spec => []PurgeAfterCleanup
<1>1. Init => PurgeInv
  BY LifeInit, BlankPurge DEF Init, ClusterInit
<1>2. PurgeInv /\ [Next]_vars => PurgeInv'
  BY PurgeStep
<1>3. PurgeInv => PurgeAfterCleanup
  BY PurgeSafe
<1> QED
  BY <1>1, <1>2, <1>3, PTL DEF Spec
=============================================================================
