---------------------------- MODULE MirrorProofs ----------------------------
(***************************************************************************)
(* The table of BuildsDb mirrors the deployments once the events are       *)
(* handled, as long as the watch of deployments holds, the controller does *)
(* not restart and nobody asks for a reset: calls may still fail.          *)
(*                                                                         *)
(* deployment_watcher is not the only one who writes the table: so does    *)
(* job_watcher, with a deployment it read some time before, when the table *)
(* has no row for the build of a job.  The invariant says that the builds  *)
(* that have jobs are met: they are in the table, or gone for ever.        *)
(*                                                                         *)
(* The second theorem is about what is decided from that table while it    *)
(* may be old: the evictions keep the newest build of a branch.            *)
(***************************************************************************)
EXTENDS OutcomeProofs

Met == {b \in Builds : deplWatch = "up" /\ (db[b].status = "absent" => deployments[b].phase = "gone")}

\* Rows and events of a build that is present have its creation time, which
\* Build.__eq__ does not compare, and only a build that is gone is removed.
Timely(b, row) ==
  row.status # "absent" /\ Present(deployments[b]) => row.created = deployments[b].created

TimelyEvents ==
  {s \in SoundSnapshots : /\ Timely(s.build, s.row)
                          /\ s.row.status = "absent" => deployments[s.build].phase = "gone"}

MetSnapshots == {s \in Snapshots : s.build \in Met}
MetJobEvents == {e \in JobEvents : e.build \in Met}

Launches(c) == c.op = "apply" /\ c.mode \in JobKinds
Quiet == {c \in Calls : ~Launches(c)}
MetCalls == {c \in Calls : Launches(c) => c.build \in Met}

PlacesMet ==
  /\ \A b \in Builds : Timely(b, db[b])
  /\ deplEvents \in Seq(TimelyEvents)
  /\ \A b \in Builds : \A k \in JobKinds : jobs[b][k] # "none" => b \in Met
  /\ todo \in [Tasks -> Seq(MetSnapshots)]
  /\ jobEvents \in Seq(MetJobEvents)
  /\ calls \in [Actors -> Seq(MetCalls)]
  /\ lookup.busy => lookup.row.status = "absent"

NotLoaded == deplWatch # "up" => deplEvents = << >> /\ db = EmptyTable

\* The last event about a build carries its deployment as it is, and when no
\* event is left, so does the table.
Mirrored(b) ==
  \/ \E i \in 1 .. Len(deplEvents) :
       /\ deplEvents[i] = [build |-> b, row |-> RowOf(deployments[b])]
       /\ \A j \in 1 .. Len(deplEvents) : i < j => deplEvents[j].build # b
  \/ /\ db[b] = RowOf(deployments[b])
     /\ \A j \in 1 .. Len(deplEvents) : deplEvents[j].build # b

MirrorInv ==
  /\ LifeInv
  /\ FaultKinds \subseteq {"call"}
  /\ PlacesMet
  /\ NotLoaded
  /\ deplWatch = "up" => \A b \in Builds : Mirrored(b)

(***************************************************************************)
(* What the watch of deployments is told of a step, and that deployments   *)
(* keep their creation time.                                               *)
(***************************************************************************)
Told ==
  \/ /\ deplEvents' = deplEvents
     /\ deplWatch = "up" => \A b \in Builds : RowOf(deployments'[b]) = RowOf(deployments[b])
  \/ \E b \in Builds :
       /\ deplWatch = "up"
       /\ deplEvents' = Append(deplEvents, [build |-> b, row |-> RowOf(deployments'[b])])
       /\ RowOf(deployments'[b]) # RowOf(deployments[b])
       /\ \A k \in Builds \ {b} : deployments'[k] = deployments[k]

Dated ==
  \A b \in Builds :
    Present(deployments'[b]) /\ b \notin Unborn => deployments'[b].created = deployments[b].created

\* A step that leaves the deployments alone has nothing to tell.
LEMMA ToldSame ==
  ASSUME UNCHANGED << deployments, deplEvents >>
  PROVE  Told /\ Dated
BY DEF Told, Dated

LEMMA SetDeploymentTold ==
  ASSUME ClusterTypeOK, NEW b \in Builds, NEW d \in Deployments, SetDeployment(b, d),
         Present(d) /\ b \notin Unborn => d.created = deployments[b].created
  PROVE  Told /\ Dated
<1>1. deployments' = [deployments EXCEPT ![b] = d] /\ deployments \in [Builds -> Deployments]
  BY DEF SetDeployment, ClusterTypeOK
<1>2. deployments'[b] = d /\ \A k \in Builds \ {b} : deployments'[k] = deployments[k]
  BY <1>1
<1>3. Dated
  BY <1>2 DEF Dated
<1>4. CASE deplWatch = "up" /\ RowOf(d) # RowOf(deployments[b])
  <2>1. deplEvents' = Append(deplEvents, [build |-> b, row |-> RowOf(deployments'[b])])
    BY <1>2, <1>4 DEF SetDeployment
  <2> QED
    BY <1>2, <1>3, <1>4, <2>1 DEF Told
<1>5. CASE ~(deplWatch = "up" /\ RowOf(d) # RowOf(deployments[b]))
  <2>1. deplEvents' = deplEvents
    BY <1>5 DEF SetDeployment
  <2>2. deplWatch = "up" => \A k \in Builds : RowOf(deployments'[k]) = RowOf(deployments[k])
    BY <1>2, <1>5
  <2> QED
    BY <1>3, <2>1, <2>2 DEF Told
<1> QED
  BY <1>4, <1>5

LEMMA DeletedDated ==
  ASSUME NEW d \in Deployments
  PROVE  /\ Deleted(d) \in Deployments
         /\ Present(Deleted(d)) => Deleted(d).created = d.created
<1>1. CASE ~Present(d)
  BY <1>1, DeploymentType DEF Deleted
<1>2. CASE Present(d)
  <2>1. [d EXCEPT !.phase = "deleting"].created = d.created
    BY DEF Deployments
  <2>2. ~Present(NoDeployment("gone"))
    BY SMTT(30) DEF Present, NoDeployment
  <2> QED
    BY <1>2, <2>1, <2>2, DeploymentType DEF Deleted
<1> QED
  BY <1>1, <1>2

LEMMA PerformTold ==
  ASSUME LifeInv, NEW a \in Actors, calls[a] # << >>, Perform(Head(calls[a]))
  PROVE  Told /\ Dated
<1> DEFINE c == Head(calls[a])
           d == deployments[c.build]
<1>1. c \in Calls /\ c.build \in Builds /\ (IsDeploy(c) => c.build \in Unborn)
  BY HeadCall
<1>2. ClusterTypeOK /\ d \in Deployments /\ now \in Nat
  BY <1>1, InvParts DEF ClusterTypeOK
<1>3. ASSUME NEW e \in Deployments, SetDeployment(c.build, e),
             Present(e) /\ c.build \notin Unborn => e.created = d.created
      PROVE  Told /\ Dated
  BY <1>1, <1>2, <1>3, SetDeploymentTold
<1>4. CASE ApplyDeployment(c)
  <2> DEFINE e == [phase |-> "live", init |-> "todo", replicas |-> 0, running |-> FALSE,
                   finalizer |-> TRUE, created |-> now, scaled |-> now]
  <2>1. c.build \in Unborn /\ ~Present(d)
    BY <1>1, <1>2, <1>4, Phase DEF ApplyDeployment, IsDeploy, Present
  <2>2. e \in Deployments /\ SetDeployment(c.build, e)
    BY <1>2, <1>4, <2>1 DEF ApplyDeployment, Deployments, Phases, BuildInitStatus
  <2> HIDE DEF e
  <2> QED
    BY <1>3, <2>1, <2>2
<1>5. CASE PatchDeployment(c) /\ Present(d)
  <2> DEFINE e == [d EXCEPT !.init = IF c.init = "keep" THEN @ ELSE c.init,
                            !.replicas = IF c.replicas = Keep THEN @ ELSE c.replicas,
                            !.scaled = IF c.replicas = Keep THEN @ ELSE now]
  <2>1. c.init \in BuildInitStatus \union {"keep"} /\ c.replicas \in {Keep, 0, 1}
    BY <1>1, <1>5, CallFields DEF PatchDeployment
  <2>2. e \in Deployments /\ e.created = d.created
    BY <1>2, <2>1 DEF Deployments, Keep
  <2>3. SetDeployment(c.build, e)
    BY <1>5 DEF PatchDeployment
  <2> HIDE DEF e
  <2> QED
    BY <1>3, <2>2, <2>3
<1>6. CASE RemoveFinalizers(c) /\ Present(d)
  <2> DEFINE f == [d EXCEPT !.finalizer = FALSE]
  <2>1. f \in Deployments /\ f.created = d.created
    BY <1>2 DEF Deployments
  <2>2. SetDeployment(c.build, Deleted(f))
    BY <1>6 DEF RemoveFinalizers
  <2> HIDE DEF f
  <2> QED
    BY <1>3, <2>1, <2>2, DeletedDated
<1>7. CASE DeleteDeployment(c) \/ DeleteResources(c)
  <2>1. SetDeployment(c.build, Deleted(d))
    BY <1>7 DEF DeleteDeployment, DeleteResources
  <2> QED
    BY <1>2, <1>3, <2>1, DeletedDated
<1>8. CASE UNCHANGED << deployments, deplEvents >>
  BY <1>8, ToldSame
<1> QED
  BY <1>4, <1>5, <1>6, <1>7, <1>8
     DEF Perform, ApplyJob, ApplyOthers, PatchDeployment, RemoveFinalizers, KillJob, NotifyStatus

LEMMA EnvironmentTold ==
  ASSUME LifeInv, Environment
  PROVE  Told /\ Dated
<1>1. ClusterTypeOK /\ deployments \in [Builds -> Deployments]
  BY InvParts
<1>2. CASE \E b \in Builds : Scale(b)
  <2>1. PICK b \in Builds : Scale(b)
    BY <1>2
  <2> DEFINE e == [deployments[b] EXCEPT !.running = ~@]
  <2>2. e \in Deployments /\ e.created = deployments[b].created
    BY <1>1 DEF Deployments
  <2>3. SetDeployment(b, e)
    BY <2>1 DEF Scale
  <2> HIDE DEF e
  <2> QED
    BY <1>1, <2>2, <2>3, SetDeploymentTold
<1>3. CASE ~\E b \in Builds : Scale(b)
  <2>1. UNCHANGED << deployments, deplEvents >>
    BY <1>3 DEF Environment, InitializeCreatesDatabase, InitializeSucceeds, CleanupSucceeds,
                JobFails, Tick, cluster, watches
  <2> QED
    BY <2>1, ToldSame
<1> QED
  BY <1>2, <1>3

(***************************************************************************)
(* What is met stays met, and what is timely stays timely.                 *)
(***************************************************************************)
LEMMA MirrorParts ==
  ASSUME MirrorInv
  PROVE  /\ LifeInv /\ PlacesMet /\ NotLoaded /\ TypeOK /\ ClusterTypeOK
         /\ db \in [Builds -> Rows]
         /\ deployments \in [Builds -> Deployments]
         /\ todo \in [Tasks -> Seq(MetSnapshots)]
         /\ jobEvents \in Seq(MetJobEvents)
         /\ calls \in [Actors -> Seq(MetCalls)]
         /\ deplEvents \in Seq(TimelyEvents)
BY InvParts DEF MirrorInv, PlacesMet, TypeOK, Tables

LEMMA MetGrows ==
  ASSUME MirrorInv, Moves, deplWatch = "up" => deplWatch' = "up",
         \A b \in Builds : db'[b].status = "absent" =>
           db[b].status = "absent" \/ deployments[b].phase = "gone"
  PROVE  /\ Met \subseteq Met'
         /\ MetSnapshots \subseteq MetSnapshots'
         /\ MetJobEvents \subseteq MetJobEvents'
         /\ MetCalls \subseteq MetCalls'
<1>1. \A b \in Builds : deployments[b].phase = "gone" => deployments'[b].phase = "gone"
  BY MirrorParts, MovesEvidence
<1>2. Met \subseteq Met'
  BY <1>1 DEF Met
<1> QED
  BY <1>2 DEF MetSnapshots, MetJobEvents, MetCalls

\* The places that a step leaves alone.
LEMMA MetFrame ==
  ASSUME MirrorInv, Met \subseteq Met'
  PROVE  /\ jobs' = jobs =>
              \A b \in Builds : \A k \in JobKinds : jobs'[b][k] # "none" => b \in Met'
         /\ todo' = todo => todo' \in [Tasks -> Seq(MetSnapshots')]
         /\ jobEvents' = jobEvents => jobEvents' \in Seq(MetJobEvents')
         /\ calls' = calls => calls' \in [Actors -> Seq(MetCalls')]
<1>1. /\ Seq(MetSnapshots) \subseteq Seq(MetSnapshots')
      /\ Seq(MetJobEvents) \subseteq Seq(MetJobEvents')
      /\ Seq(MetCalls) \subseteq Seq(MetCalls')
  <2>1. /\ MetSnapshots \subseteq MetSnapshots'
        /\ MetJobEvents \subseteq MetJobEvents'
        /\ MetCalls \subseteq MetCalls'
    BY DEF MetSnapshots, MetJobEvents, MetCalls
  <2> QED
    BY <2>1, SeqMono
<1>2. ASSUME jobs' = jobs, NEW b \in Builds, NEW k \in JobKinds, jobs'[b][k] # "none"
      PROVE  b \in Met'
  BY <1>2 DEF MirrorInv, PlacesMet
<1> QED
  BY <1>1, <1>2, MirrorParts

LEMMA TimelyGrows ==
  ASSUME MirrorInv, Moves, Dated, ClusterTypeOK'
  PROVE  /\ \A s \in SoundSnapshots : Timely(s.build, s.row) => Timely(s.build, s.row)'
         /\ TimelyEvents \subseteq TimelyEvents'
<1>1. ASSUME NEW s \in SoundSnapshots, Timely(s.build, s.row),
             s.row.status # "absent", Present(deployments'[s.build])
      PROVE  s.row.created = deployments'[s.build].created
  <2>1. s.build \in Builds /\ s.build \notin Unborn
    BY <1>1 DEF SoundSnapshots, Snapshots
  <2>2. Advances(s.build)
    BY <2>1 DEF Moves
  <2>3. deployments[s.build].phase # "unborn"
    BY <2>1 DEF Unborn
  <2>4. Present(deployments[s.build])
    BY <1>1, <2>2, <2>3 DEF Advances, Present
  <2> QED
    BY <1>1, <2>1, <2>4 DEF Timely, Dated
<1>2. SoundSnapshots \subseteq SoundSnapshots'
  BY MirrorParts, SoundGrows
<1>3. \A s \in SoundSnapshots : deployments[s.build].phase = "gone" => deployments'[s.build].phase = "gone"
  BY MirrorParts, MovesEvidence DEF SoundSnapshots, Snapshots
<1> QED
  BY <1>1, <1>2, <1>3 DEF Timely, TimelyEvents

(***************************************************************************)
(* The queue of the watch.                                                 *)
(***************************************************************************)
\* An event that is queued carries its deployment as it is.
LEMMA ToldTimely ==
  ASSUME MirrorInv, Moves, ClusterTypeOK', NEW b \in Builds,
         RowOf(deployments'[b]) # RowOf(deployments[b])
  PROVE  [build |-> b, row |-> RowOf(deployments'[b])] \in TimelyEvents'
<1> DEFINE e == [build |-> b, row |-> RowOf(deployments'[b])]
<1>1. deployments'[b] \in Deployments
  BY DEF ClusterTypeOK
<1>2. e \in SoundSnapshots'
  BY <1>1, RowSound
<1>3. e.row.status # "absent" /\ Present(deployments'[b]) => e.row.created = deployments'[b].created
  BY DEF RowOf
<1>4. ASSUME e.row.status = "absent"
      PROVE  deployments'[b].phase = "gone"
  <2>1. ~Present(deployments'[b])
    BY <1>1, <1>4 DEF RowOf, StatusFromDeployment, Present, Deployments, BuildInitStatus
  <2>2. deployments'[b].phase # "unborn"
    <3>1. Advances(b)
      BY DEF Moves
    <3>2. deployments'[b].phase = "unborn" => deployments[b].phase = "unborn"
      BY <3>1 DEF Advances
    <3> QED
      BY <3>2, <2>1 DEF RowOf, Present
  <2> QED
    BY <1>1, <2>1, <2>2 DEF Deployments, Phases, Present
<1> QED
  BY <1>2, <1>3, <1>4 DEF TimelyEvents, Timely

LEMMA ToldMirrored ==
  ASSUME MirrorInv, Told, Dated, Moves, ClusterTypeOK', UNCHANGED << db, deplWatch >>
  PROVE  /\ \A b \in Builds : Timely(b, db[b])'
         /\ deplEvents' \in Seq(TimelyEvents')
         /\ NotLoaded'
         /\ deplWatch' = "up" => \A b \in Builds : Mirrored(b)'
<1>1. \A b \in Builds : Timely(b, db[b])'
  <2>1. \A b \in Builds : [build |-> b, row |-> db[b]] \in SoundSnapshots /\ Timely(b, db[b])
    BY MirrorParts, InvParts DEF PlacesSound, PlacesMet
  <2>2. ASSUME NEW b \in Builds
        PROVE  Timely(b, db[b])'
    <3>1. ASSUME NEW row, row = db[b]
          PROVE  row.status # "absent" /\ Present(deployments'[b]) =>
                   row.created = deployments'[b].created
      <4> DEFINE s == [build |-> b, row |-> row]
      <4>1. s \in SoundSnapshots /\ Timely(s.build, s.row)
        BY <2>1, <3>1
      <4> QED
        BY <4>1, TimelyGrows DEF Timely
    <3> QED
      BY <3>1 DEF Timely
  <2> QED
    BY <2>2
<1>2. deplEvents \in Seq(TimelyEvents') /\ Len(deplEvents) \in Nat
  BY MirrorParts, TimelyGrows, SeqMono, LenProperties
<1>3. CASE /\ deplEvents' = deplEvents
           /\ deplWatch = "up" => \A b \in Builds : RowOf(deployments'[b]) = RowOf(deployments[b])
  <2>1. NotLoaded'
    BY <1>3, MirrorParts DEF NotLoaded
  <2>2. deplWatch' = "up" => \A b \in Builds : Mirrored(b)'
    BY <1>3 DEF MirrorInv, Mirrored
  <2> QED
    BY <1>1, <1>2, <1>3, <2>1, <2>2
<1>4. ASSUME NEW b \in Builds, deplWatch = "up",
             deplEvents' = Append(deplEvents, [build |-> b, row |-> RowOf(deployments'[b])]),
             RowOf(deployments'[b]) # RowOf(deployments[b]),
             \A k \in Builds \ {b} : deployments'[k] = deployments[k]
      PROVE  /\ deplEvents' \in Seq(TimelyEvents')
             /\ NotLoaded'
             /\ deplWatch' = "up" => \A k \in Builds : Mirrored(k)'
  <2> DEFINE e == [build |-> b, row |-> RowOf(deployments'[b])]
  <2>1. e \in TimelyEvents' /\ e.build = b
    BY <1>4, ToldTimely
  <2>2. deplEvents' = Append(deplEvents, e)
    BY <1>4
  <2>3. Mirrored(b)'
    <3>1. /\ Len(deplEvents') = Len(deplEvents) + 1
          /\ deplEvents'[Len(deplEvents) + 1] = e
      BY <1>2, <2>2, <2>1
    <3>2. e = [build |-> b, row |-> RowOf(deployments[b])]'
      OBVIOUS
    <3> HIDE DEF e
    <3> QED
      BY <1>2, <3>1, <3>2 DEF Mirrored
  <2> HIDE DEF e
  <2>4. /\ Len(deplEvents') = Len(deplEvents) + 1 /\ deplEvents' \in Seq(TimelyEvents')
        /\ deplEvents'[Len(deplEvents) + 1] = e
        /\ \A i \in 1 .. Len(deplEvents) : deplEvents'[i] = deplEvents[i]
    BY <1>2, <2>1, <2>2
  <2>5. ASSUME NEW k \in Builds \ {b}
        PROVE  Mirrored(k)'
    <3>1. Mirrored(k) /\ deployments'[k] = deployments[k]
      BY <1>4 DEF MirrorInv
    <3>2. CASE \E i \in 1 .. Len(deplEvents) :
                 /\ deplEvents[i] = [build |-> k, row |-> RowOf(deployments[k])]
                 /\ \A j \in 1 .. Len(deplEvents) : i < j => deplEvents[j].build # k
      <4>1. PICK i \in 1 .. Len(deplEvents) :
                 /\ deplEvents[i] = [build |-> k, row |-> RowOf(deployments[k])]
                 /\ \A j \in 1 .. Len(deplEvents) : i < j => deplEvents[j].build # k
        BY <3>2
      <4>2. i \in 1 .. Len(deplEvents') /\ deplEvents'[i] = [build |-> k, row |-> RowOf(deployments'[k])]
        BY <1>2, <2>4, <3>1, <4>1
      <4>3. \A j \in 1 .. Len(deplEvents') : i < j => deplEvents'[j].build # k
        BY <1>2, <2>1, <2>4, <4>1
      <4> QED
        BY <4>2, <4>3 DEF Mirrored
    <3>3. CASE /\ db[k] = RowOf(deployments[k])
               /\ \A j \in 1 .. Len(deplEvents) : deplEvents[j].build # k
      <4>1. \A j \in 1 .. Len(deplEvents') : deplEvents'[j].build # k
        BY <1>2, <2>1, <2>4, <3>3
      <4> QED
        BY <3>1, <3>3, <4>1 DEF Mirrored
    <3> QED
      BY <3>1, <3>2, <3>3 DEF Mirrored
  <2> QED
    BY <1>4, <2>3, <2>4, <2>5 DEF NotLoaded
<1> QED
  BY <1>1, <1>3, <1>4 DEF Told

(***************************************************************************)
(* deployment_watcher.                                                     *)
(***************************************************************************)
\* The list of a set has each of its members once.
LEMMA Listed ==
  ASSUME NEW S, IsFiniteSet(S), NEW q \in SetToSeqs(S)
  PROVE  /\ Len(q) \in Nat
         /\ \A i \in 1 .. Len(q) : q[i] \in S
         /\ \A i, j \in 1 .. Len(q) : i # j => q[i] # q[j]
         /\ \A x \in S : \E i \in 1 .. Len(q) : q[i] = x
<1> DEFINE D == 1 .. Cardinality(S)
<1>1. Cardinality(S) \in Nat
  BY FS_CardinalityType
<1>2. q \in [D -> S] /\ \A i, j \in D : i # j => q[i] # q[j]
  BY DEF SetToSeqs
<1>3. Len(q) = Cardinality(S)
  BY <1>1, <1>2
<1>4. ASSUME NEW x \in S, \A i \in D : q[i] # x
      PROVE  FALSE
  <2> DEFINE T == S \ {x}
  <2>1. IsFiniteSet(T) /\ Cardinality(T) = Cardinality(S) - 1
    BY FS_RemoveElement
  <2>2. IsFiniteSet(D) /\ Cardinality(D) = Cardinality(S)
    BY <1>1, FS_Interval
  <2>3. q \in [D -> T]
    BY <1>2, <1>4
  <2>4. Cardinality(T) < Cardinality(D)
    BY <1>1, <2>1, <2>2
  <2> HIDE DEF T, D
  <2>5. \E i, j \in D : i # j /\ q[i] = q[j]
    BY <2>1, <2>2, <2>3, <2>4, FS_PigeonHole
  <2> QED
    BY <1>2, <2>5
<1> QED
  BY <1>1, <1>2, <1>3, <1>4

LEMMA StartWatchMirror ==
  ASSUME MirrorInv, StartDeploymentWatch
  PROVE  MirrorInv'
<1>1. /\ deplWatch = "down" /\ deplWatch' = "listing" /\ db' = EmptyTable
      /\ UNCHANGED << deployments, jobs, databases, github, deplEvents, jobEvents, todo, calls, lookup >>
  BY DEF StartDeploymentWatch, cluster
<1>2. LifeInv' /\ Moves
  <2>1. [Next]_vars
    BY DEF Next, Background, DeploymentWatcher
  <2> QED
    BY <1>1, <2>1, MirrorParts, LifeStep, Stays
<1>3. db = EmptyTable /\ deplEvents = << >>
  BY <1>1, MirrorParts DEF NotLoaded
<1>4. Met \subseteq Met'
  BY <1>1 DEF Met
<1>5. PlacesMet'
  <2>1. \A b \in Builds : Timely(b, db[b])'
    BY <1>1 DEF EmptyTable, Timely, AbsentRow
  <2>2. deplEvents' \in Seq(TimelyEvents')
    BY <1>1, <1>3
  <2>3. lookup'.busy => lookup'.row.status = "absent"
    BY <1>1, MirrorParts DEF PlacesMet
  <2> QED
    BY <1>1, <1>4, <2>1, <2>2, <2>3, MetFrame DEF PlacesMet
<1> QED
  BY <1>1, <1>2, <1>3, <1>5 DEF MirrorInv, NotLoaded

LEMMA ListMirror ==
  ASSUME MirrorInv, ListDeployments
  PROVE  MirrorInv'
<1> DEFINE S == {b \in Builds : Present(deployments[b])}
           e(b) == [build |-> b, row |-> RowOf(deployments[b])]
<1>1. /\ deplWatch = "listing" /\ deplWatch' = "up"
      /\ UNCHANGED << deployments, jobs, databases, github, jobEvents, db, todo, calls, lookup >>
  BY DEF ListDeployments, cluster, controller
<1>2. LifeInv' /\ Moves /\ ClusterTypeOK'
  <2>1. [Next]_vars
    BY DEF Next, Background, DeploymentWatcher
  <2>2. LifeInv' /\ Moves
    BY <1>1, <2>1, MirrorParts, LifeStep, Stays
  <2> QED
    BY <2>2 DEF LifeInv, CleanupInv, TypeInv, TypeOK
<1>3. db = EmptyTable
  BY <1>1, MirrorParts DEF NotLoaded
<1>4. PICK q \in SetToSeqs(S) : deplEvents' = [i \in 1 .. Len(q) |-> e(q[i])]
  BY DEF ListDeployments
<1>5. IsFiniteSet(S)
  BY FS_Subset, BuildsAssumption
<1>6. /\ Len(q) \in Nat
      /\ \A i \in 1 .. Len(q) : q[i] \in S
      /\ \A i, j \in 1 .. Len(q) : i # j => q[i] # q[j]
      /\ \A b \in S : \E i \in 1 .. Len(q) : q[i] = b
  <2> HIDE DEF S
  <2> QED
    BY <1>5, Listed
<1>7. ASSUME NEW b \in S
      PROVE  e(b) \in TimelyEvents'
  <2>1. deployments'[b] \in Deployments /\ deployments'[b] = deployments[b]
    BY <1>1, <1>2 DEF ClusterTypeOK
  <2>2. [build |-> b, row |-> RowOf(deployments'[b])] \in SoundSnapshots'
    BY <2>1, RowSound
  <2>3. e(b).row.status # "absent" /\ e(b).row.created = deployments'[b].created
    BY <2>1 DEF RowOf, StatusFromDeployment, Present, Deployments, BuildInitStatus
  <2> QED
    BY <2>1, <2>2, <2>3 DEF TimelyEvents, Timely
<1>8. /\ Len(deplEvents') = Len(q)
      /\ \A i \in 1 .. Len(q) : deplEvents'[i] = e(q[i]) /\ deplEvents'[i].build = q[i]
  BY <1>4, <1>6
<1>9. deplEvents' \in Seq(TimelyEvents')
  BY <1>4, <1>6, <1>7
<1>10. ASSUME NEW b \in Builds
       PROVE  Mirrored(b)'
  <2>1. CASE b \in S
    <3>1. PICK i \in 1 .. Len(q) : q[i] = b
      BY <1>6, <2>1
    <3>2. deplEvents'[i] = [build |-> b, row |-> RowOf(deployments'[b])]
      BY <1>1, <1>8, <3>1
    <3>3. \A j \in 1 .. Len(q) : i < j => deplEvents'[j].build # b
      <4> HIDE DEF S, e
      <4> QED
        BY <1>6, <1>8, <3>1
    <3> QED
      BY <1>8, <3>1, <3>2, <3>3 DEF Mirrored
  <2>2. CASE b \notin S
    <3>1. db'[b] = RowOf(deployments'[b])
      BY <1>1, <1>3, <2>2 DEF RowOf, EmptyTable
    <3>2. \A j \in 1 .. Len(q) : deplEvents'[j].build # b
      <4> HIDE DEF S, e
      <4> QED
        BY <1>6, <1>8, <2>2
    <3> QED
      BY <1>8, <3>1, <3>2 DEF Mirrored
  <2> QED
    BY <2>1, <2>2
<1>11. Met \subseteq Met'
  BY <1>1 DEF Met
<1>12. PlacesMet'
  <2>1. \A b \in Builds : Timely(b, db[b])'
    BY <1>1, MirrorParts DEF PlacesMet, Timely
  <2>2. lookup'.busy => lookup'.row.status = "absent"
    BY <1>1, MirrorParts DEF PlacesMet
  <2> QED
    BY <1>1, <1>9, <1>11, <2>1, <2>2, MetFrame DEF PlacesMet
<1> QED
  BY <1>1, <1>2, <1>10, <1>12 DEF MirrorInv, NotLoaded

\* What db holds of the build of an event once the event is handled.
LEMMA HandledRow ==
  ASSUME MirrorInv, HandleDeployment
  PROVE  LET e == Head(deplEvents) IN
         /\ e \in TimelyEvents /\ e = deplEvents[1] /\ 1 \in 1 .. Len(deplEvents)
         /\ e.build \in Builds /\ e.row \in Rows
         /\ \A b \in Builds \ {e.build} : db'[b] = db[b]
         /\ e.row.status = "absent" =>
              db'[e.build] = AbsentRow /\ deployments[e.build].phase = "gone"
         /\ e.row.status # "absent" =>
              \/ db'[e.build] = e.row
              \/ db'[e.build] = db[e.build] /\ SameBuild(db[e.build], e.row)
<1> DEFINE e == Head(deplEvents)
<1>1. deplEvents # << >> /\ deplEvents \in Seq(TimelyEvents) /\ db \in [Builds -> Rows]
  BY MirrorParts DEF HandleDeployment
<1>2. e \in TimelyEvents /\ e = deplEvents[1] /\ 1 \in 1 .. Len(deplEvents)
  BY <1>1
<1>3. /\ e.build \in Builds /\ e.row \in Rows
      /\ e.row.status = "absent" => deployments[e.build].phase = "gone"
  BY <1>2 DEF TimelyEvents, SoundSnapshots, Snapshots
<1>4. CASE e.row.status = "absent"
  <2>1. db' = [db EXCEPT ![e.build] = AbsentRow]
    BY <1>4 DEF HandleDeployment, DbRemove, Drop
  <2> HIDE DEF e
  <2> QED
    BY <1>1, <1>2, <1>3, <1>4, <2>1 DEF e
<1>5. CASE e.row.status # "absent"
  <2>1. db' = IF SameBuild(db[e.build], e.row) THEN db ELSE [db EXCEPT ![e.build] = e.row]
    BY <1>5 DEF HandleDeployment, DbAdd, Put
  <2> HIDE DEF e
  <2> QED
    BY <1>1, <1>2, <1>3, <1>5, <2>1 DEF e
<1> QED
  BY <1>4, <1>5

\* Rows that are equal for Build.__eq__ and of one deployment are equal.
LEMMA SameRow ==
  ASSUME NEW b \in Builds, NEW r \in Rows, NEW s \in Rows, SameBuild(r, s),
         s.status # "absent", Present(deployments[b]), Timely(b, r), Timely(b, s)
  PROVE  r = s
<1>1. r.status = s.status /\ r.init = s.init /\ r.replicas = s.replicas /\ r.scaled = s.scaled
  BY DEF SameBuild
<1>2. r.created = s.created
  BY <1>1 DEF Timely
<1> QED
  BY <1>1, <1>2 DEF Rows

LEMMA HandleMirror ==
  ASSUME MirrorInv, HandleDeployment
  PROVE  MirrorInv'
<1> DEFINE e == Head(deplEvents)
<1>1. /\ deplEvents # << >> /\ deplEvents' = Tail(deplEvents) /\ deplWatch' = deplWatch
      /\ UNCHANGED << deployments, jobs, databases, github, jobEvents, todo, calls, lookup >>
  BY DEF HandleDeployment, cluster
<1>2. LifeInv' /\ Moves
  <2>1. [Next]_vars
    BY DEF Next, Background, DeploymentWatcher
  <2> QED
    BY <1>1, <2>1, MirrorParts, LifeStep, Stays
<1>3. /\ e \in TimelyEvents /\ e = deplEvents[1] /\ 1 \in 1 .. Len(deplEvents)
      /\ e.build \in Builds /\ e.row \in Rows
      /\ \A b \in Builds \ {e.build} : db'[b] = db[b]
      /\ e.row.status = "absent" =>
           db'[e.build] = AbsentRow /\ deployments[e.build].phase = "gone"
      /\ e.row.status # "absent" =>
           \/ db'[e.build] = e.row
           \/ db'[e.build] = db[e.build] /\ SameBuild(db[e.build], e.row)
  BY HandledRow
<1>4. /\ deplWatch = "up" /\ deplEvents \in Seq(TimelyEvents) /\ Len(deplEvents) \in Nat
      /\ Tail(deplEvents) \in Seq(TimelyEvents) /\ Len(Tail(deplEvents)) = Len(deplEvents) - 1
      /\ \A i \in 1 .. Len(Tail(deplEvents)) : Tail(deplEvents)[i] = deplEvents[i + 1]
  <2>1. deplWatch = "up" /\ deplEvents \in Seq(TimelyEvents)
    BY <1>1, MirrorParts DEF NotLoaded
  <2> QED
    BY <1>1, <2>1
<1>5. /\ db \in [Builds -> Rows] /\ \A b \in Builds : Timely(b, db[b])
      /\ Timely(e.build, e.row)
  BY <1>3, MirrorParts DEF PlacesMet, TimelyEvents
<1> HIDE DEF e
<1>6. TimelyEvents' = TimelyEvents /\ \A b \in Builds : Timely(b, db[b])'
  <2>1. TimelyEvents' = TimelyEvents
    BY <1>1 DEF TimelyEvents, Timely, SoundSnapshots, Unborn, Doomed
  <2>2. ASSUME NEW b \in Builds, db'[b].status # "absent", Present(deployments[b])
        PROVE  db'[b].created = deployments[b].created
    BY <1>3, <1>5, <2>2 DEF Timely, AbsentRow
  <2> QED
    BY <1>1, <2>1, <2>2 DEF Timely
<1>7. Met \subseteq Met'
  <2>1. ASSUME NEW b \in Builds, db'[b].status = "absent"
        PROVE  db[b].status = "absent" \/ deployments[b].phase = "gone"
    BY <1>3, <2>1 DEF SameBuild
  <2> QED
    BY <1>1, <1>2, <2>1, MetGrows
<1>8. ASSUME NEW b \in Builds
      PROVE  Mirrored(b)'
  <2>1. Mirrored(b)
    BY <1>4 DEF MirrorInv
  <2>2. CASE \E i \in 1 .. Len(deplEvents) :
               /\ deplEvents[i] = [build |-> b, row |-> RowOf(deployments[b])]
               /\ \A j \in 1 .. Len(deplEvents) : i < j => deplEvents[j].build # b
    <3>1. PICK i \in 1 .. Len(deplEvents) :
               /\ deplEvents[i] = [build |-> b, row |-> RowOf(deployments[b])]
               /\ \A j \in 1 .. Len(deplEvents) : i < j => deplEvents[j].build # b
      BY <2>2
    <3>2. CASE i = 1
      <4>1. e.build = b /\ e.row = RowOf(deployments[b])
        BY <1>3, <3>1, <3>2
      <4>2. \A j \in 1 .. Len(Tail(deplEvents)) : Tail(deplEvents)[j].build # b
        BY <1>4, <3>1, <3>2
      <4>3. db'[b] = RowOf(deployments[b])
        <5>1. CASE e.row.status = "absent"
          BY <1>3, <4>1, <5>1 DEF RowOf, Present
        <5>2. CASE e.row.status # "absent"
          <6>1. Present(deployments[b])
            BY <4>1, <5>2 DEF RowOf, AbsentRow
          <6>2. SameBuild(db[b], e.row) => db[b] = e.row
            BY <1>3, <1>5, <4>1, <5>2, <6>1, SameRow
          <6> QED
            BY <1>3, <4>1, <5>2, <6>2
        <5> QED
          BY <5>1, <5>2
      <4> QED
        BY <1>1, <4>2, <4>3 DEF Mirrored
    <3>3. CASE i # 1
      <4>1. i - 1 \in 1 .. Len(Tail(deplEvents)) /\ Tail(deplEvents)[i - 1] = deplEvents[i]
        BY <1>4, <3>3
      <4>2. \A j \in 1 .. Len(Tail(deplEvents)) : i - 1 < j => Tail(deplEvents)[j].build # b
        BY <1>4, <3>1
      <4> QED
        BY <1>1, <3>1, <4>1, <4>2 DEF Mirrored
    <3> QED
      BY <3>2, <3>3
  <2>3. CASE /\ db[b] = RowOf(deployments[b])
             /\ \A j \in 1 .. Len(deplEvents) : deplEvents[j].build # b
    <3>1. b # e.build
      BY <1>3, <2>3
    <3>2. \A j \in 1 .. Len(Tail(deplEvents)) : Tail(deplEvents)[j].build # b
      BY <1>4, <2>3
    <3> QED
      BY <1>1, <1>3, <2>3, <3>1, <3>2 DEF Mirrored
  <2> QED
    BY <2>1, <2>2, <2>3 DEF Mirrored
<1>9. PlacesMet'
  <2>1. lookup'.busy => lookup'.row.status = "absent"
    BY <1>1, MirrorParts DEF PlacesMet
  <2> QED
    BY <1>1, <1>4, <1>6, <1>7, <2>1, MetFrame DEF PlacesMet
<1> QED
  BY <1>1, <1>2, <1>4, <1>8, <1>9 DEF MirrorInv, NotLoaded

(***************************************************************************)
(* The steps that leave the deployments and the table alone.               *)
(***************************************************************************)
LEMMA MirrorFrame ==
  ASSUME MirrorInv, [Next]_vars, UNCHANGED << deployments, deplWatch, deplEvents, db >>,
         \A b \in Builds : \A k \in JobKinds : jobs'[b][k] # "none" => b \in Met,
         todo' \in [Tasks -> Seq(MetSnapshots)],
         jobEvents' \in Seq(MetJobEvents),
         calls' \in [Actors -> Seq(MetCalls)],
         lookup'.busy => lookup'.row.status = "absent"
  PROVE  MirrorInv'
<1>1. LifeInv'
  BY MirrorParts, LifeStep
<1>2. Met' = Met
  BY DEF Met
<1>3. MetSnapshots' = MetSnapshots /\ MetJobEvents' = MetJobEvents /\ MetCalls' = MetCalls
  BY <1>2 DEF MetSnapshots, MetJobEvents, MetCalls
<1>4. TimelyEvents' = TimelyEvents
  BY DEF TimelyEvents, Timely, SoundSnapshots, Unborn, Doomed
<1>5. PlacesMet'
  <2>1. \A b \in Builds : Timely(b, db[b])'
    BY MirrorParts DEF PlacesMet, Timely
  <2> QED
    BY <1>2, <1>3, <1>4, <2>1, MirrorParts DEF PlacesMet
<1>6. NotLoaded' /\ (deplWatch' = "up" => \A b \in Builds : Mirrored(b)')
  BY MirrorParts DEF NotLoaded, MirrorInv, Mirrored
<1> QED
  BY <1>1, <1>5, <1>6 DEF MirrorInv

\* The calls that launch no job.
LEMMA QuietCalls ==
  ASSUME NEW b \in Builds
  PROVE  /\ \A mode \in Modes \ JobKinds : Apply(b, mode) \in Quiet
         /\ Delete(b) \in Quiet /\ Purge(b) \in Quiet /\ Unfinalize(b) \in Quiet
         /\ \A kind \in JobKinds : Kill(b, kind) \in Quiet
         /\ \A state \in GitHubStates : Notify(b, state) \in Quiet
         /\ \A replicas : Scales(b, replicas) \subseteq Quiet
<1>1. \A mode \in Modes \ JobKinds : Apply(b, mode) \in Quiet
  BY CallTypes DEF Quiet, Launches, Apply
<1>2. Delete(b) \in Quiet /\ Purge(b) \in Quiet /\ Unfinalize(b) \in Quiet
  BY CallTypes DEF Quiet, Launches, Benign, Delete, Purge, Unfinalize
<1>3. /\ \A kind \in JobKinds : Kill(b, kind) \in Quiet
      /\ \A state \in GitHubStates : Notify(b, state) \in Quiet
  BY CallTypes DEF Quiet, Launches, Benign, Kill, Notify
<1> QED
  BY <1>1, <1>2, <1>3 DEF Quiet, Launches, Scales

LEMMA QuietMet ==
  Quiet \subseteq MetCalls /\ \A q \in Seq(Quiet) : q \in Seq(MetCalls)
<1>1. Quiet \subseteq MetCalls
  BY DEF Quiet, MetCalls
<1> QED
  BY <1>1, SeqMono

\* What OnJobEvent calls belongs to a set when its possible calls do.
LEMMA OnJobEventWithin ==
  ASSUME NEW b \in Builds, NEW row \in Rows, NEW kind \in JobKinds,
         NEW state \in JobStates \ {"none"}, NEW Q,
         {Apply(b, "stop"), Purge(b), Unfinalize(b)} \subseteq Q,
         \A report \in GitHubStates : Notify(b, report) \in Q,
         \A c \in Calls : c.op = "patch" => c \in Q
  PROVE  OnJobEvent(b, row, kind, state) \in Seq(Q)
<1> DEFINE list == OnJobEvent(b, row, kind, state)
<1>1. Apply(b, "stop") \in Q /\ Purge(b) \in Q /\ Unfinalize(b) \in Q
  OBVIOUS
<1>2. \A c \in Calls : \A init : Marks(c, b, init) => c \in Q
  BY DEF Marks
<1>3. DOMAIN Reports \subseteq GitHubStates /\ "pending" \in GitHubStates
  BY DEF Reports, GitHubStates
<1>4. /\ << >> \in Seq(Q)
      /\ \A c, d \in Q : << c, d >> \in Seq(Q)
  OBVIOUS
<1>5. \A c, d, e \in Q : << c, d, e >> \in Seq(Q)
  OBVIOUS
<1>6. CASE \E c \in Calls : /\ Marks(c, b, "started") /\ c.replicas \in {Keep, 0}
                            /\ list = << c, Notify(b, "pending") >>
  BY <1>1, <1>2, <1>3, <1>4, <1>6
<1>7. CASE \E c \in Calls, report \in DOMAIN Reports :
             /\ Marks(c, b, state) /\ c.replicas \in {Keep, 0} /\ Reports[report] = state
             /\ list = << Apply(b, "stop"), c, Notify(b, report) >>
  BY <1>1, <1>2, <1>3, <1>5, <1>7
<1>8. CASE list = << Purge(b), Unfinalize(b) >>
  BY <1>1, <1>4, <1>8
<1>9. CASE list = << >>
  BY <1>4, <1>9
<1> HIDE DEF list
<1>10. \/ list = << >>
       \/ \E c \in Calls : /\ Marks(c, b, "started") /\ c.replicas \in {Keep, 0}
                           /\ list = << c, Notify(b, "pending") >>
       \/ \E c \in Calls, report \in DOMAIN Reports :
             /\ Marks(c, b, state) /\ c.replicas \in {Keep, 0} /\ Reports[report] = state
             /\ list = << Apply(b, "stop"), c, Notify(b, report) >>
       \/ list = << Purge(b), Unfinalize(b) >>
  BY OnJobEventShape DEF list
<1> USE DEF list
<1> QED
  BY <1>6, <1>7, <1>8, <1>9, <1>10

LEMMA OnJobEventQuiet ==
  ASSUME NEW b \in Builds, NEW row \in Rows, NEW kind \in JobKinds,
         NEW state \in JobStates \ {"none"}
  PROVE  OnJobEvent(b, row, kind, state) \in Seq(Quiet)
<1>1. {Apply(b, "stop"), Purge(b), Unfinalize(b)} \subseteq Quiet
  BY QuietCalls DEF Modes, JobKinds
<1>2. \A report \in GitHubStates : Notify(b, report) \in Quiet
  BY QuietCalls
<1>3. \A c \in Calls : c.op = "patch" => c \in Quiet
  BY DEF Quiet, Launches
<1> QED
  BY <1>1, <1>2, <1>3, OnJobEventWithin

(***************************************************************************)
(* job_watcher, which finds the build of an event in the table, or gone.   *)
(***************************************************************************)
LEMMA JobWatchMirror ==
  ASSUME MirrorInv, JobWatch
  PROVE  MirrorInv'
<1>1. [Next]_vars
  BY DEF Next, Background
<1>2. /\ jobEvents \in Seq(MetJobEvents) /\ calls \in [Actors -> Seq(MetCalls)]
      /\ JobWatcher \in Actors /\ db \in [Builds -> Rows]
      /\ lookup.busy => lookup.row.status = "absent"
      /\ \A b \in Builds : \A k \in JobKinds : jobs[b][k] # "none" => b \in Met
      /\ todo \in [Tasks -> Seq(MetSnapshots)]
  BY MirrorParts, InvParts DEF PlacesMet
<1>3. ASSUME jobEvents # << >>
      PROVE  LET e == Head(jobEvents) IN
             /\ e.build \in Met /\ e.build \in Builds /\ e.kind \in JobKinds
             /\ e.state \in JobStates \ {"none"} /\ Tail(jobEvents) \in Seq(MetJobEvents)
  <2>1. Head(jobEvents) \in MetJobEvents /\ Tail(jobEvents) \in Seq(MetJobEvents)
    BY <1>2, <1>3
  <2> QED
    BY <2>1 DEF MetJobEvents, JobEvents
<1>4. CASE StartJobWatch
  <2>1. /\ UNCHANGED << deployments, jobs, deplWatch, deplEvents, db, todo, calls, lookup >>
        /\ \E q \in SetToSeqs({j \in Builds \X JobKinds : jobs[j[1]][j[2]] # "none"}) :
             jobEvents' = [i \in 1 .. Len(q) |->
               [build |-> q[i][1], kind |-> q[i][2], state |-> jobs[q[i][1]][q[i][2]]]]
    BY <1>4 DEF StartJobWatch, cluster, controller
  <2>2. PICK q \in SetToSeqs({j \in Builds \X JobKinds : jobs[j[1]][j[2]] # "none"}) :
             jobEvents' = [i \in 1 .. Len(q) |->
               [build |-> q[i][1], kind |-> q[i][2], state |-> jobs[q[i][1]][q[i][2]]]]
    BY <2>1
  <2>3. /\ Len(q) \in Nat
        /\ \A i \in 1 .. Len(q) :
             q[i] \in {j \in Builds \X JobKinds : jobs[j[1]][j[2]] # "none"}
    BY ListedJobs
  <2>4. jobs \in [Builds -> [JobKinds -> JobStates]]
    BY MirrorParts, InvParts
  <2>5. ASSUME NEW b \in Builds, NEW k \in JobKinds, jobs[b][k] # "none"
        PROVE  [build |-> b, kind |-> k, state |-> jobs[b][k]] \in MetJobEvents
    BY <1>2, <2>4, <2>5 DEF MetJobEvents, JobEvents
  <2>6. jobEvents' \in Seq(MetJobEvents)
    BY <2>2, <2>3, <2>5
  <2> QED
    BY <1>1, <1>2, <2>1, <2>6, MirrorFrame
<1>5. CASE HandleJob
  <2> DEFINE e == Head(jobEvents)
  <2>1. /\ jobEvents # << >> /\ ~lookup.busy
        /\ UNCHANGED << deployments, jobs, deplWatch, deplEvents, db, todo >>
    BY <1>5 DEF HandleJob, JobWatcherIdle, cluster
  <2>2. CASE db[e.build].status # "absent"
    <3>1. OnJobEvent(e.build, db[e.build], e.kind, e.state) \in Seq(MetCalls)
      BY <1>2, <1>3, <2>1, OnJobEventQuiet, QuietMet
    <3>2. /\ calls' = [calls EXCEPT ![JobWatcher] =
                         OnJobEvent(e.build, db[e.build], e.kind, e.state)]
          /\ jobEvents' = Tail(jobEvents) /\ lookup' = lookup
      BY <1>5, <2>2 DEF HandleJob
    <3>3. calls' \in [Actors -> Seq(MetCalls)]
      BY <1>2, <3>1, <3>2
    <3> QED
      BY <1>1, <1>2, <1>3, <2>1, <3>2, <3>3, MirrorFrame
  <2>3. CASE db[e.build].status = "absent"
    <3>1. /\ lookup' = [busy |-> TRUE, row |-> RowOf(deployments[e.build])]
          /\ UNCHANGED << calls, jobEvents >>
      BY <1>5, <2>3 DEF HandleJob
    <3>2. deployments[e.build].phase = "gone"
      BY <1>3, <2>1, <2>3 DEF Met
    <3>3. lookup'.row.status = "absent"
      BY <3>1, <3>2 DEF RowOf, Present, AbsentRow
    <3> QED
      BY <1>1, <1>2, <2>1, <3>1, <3>3, MirrorFrame
  <2> QED
    BY <2>2, <2>3
<1>6. CASE HandleJobLookup
  <2> DEFINE e == Head(jobEvents)
  <2>1. lookup.busy /\ lookup.row.status = "absent" /\ jobEvents # << >>
    BY <1>2, <1>6, MirrorParts, InvParts DEF HandleJobLookup, LookupOfEvent
  <2>2. /\ UNCHANGED << deployments, jobs, deplWatch, deplEvents, db, todo >>
        /\ calls' = [calls EXCEPT ![JobWatcher] = << Purge(e.build) >>]
        /\ lookup' = NoLookup /\ jobEvents' = Tail(jobEvents)
    BY <1>6, <2>1 DEF HandleJobLookup, cluster
  <2>3. Purge(e.build) \in MetCalls
    BY <1>3, <2>1, QuietCalls, QuietMet
  <2>4. << Purge(e.build) >> \in Seq(MetCalls)
    BY <2>3
  <2>5. calls' \in [Actors -> Seq(MetCalls)]
    BY <1>2, <2>2, <2>4
  <2>6. lookup'.busy => lookup'.row.status = "absent"
    BY <2>2 DEF NoLookup
  <2> QED
    BY <1>1, <1>2, <1>3, <2>1, <2>2, <2>5, <2>6, MirrorFrame
<1> QED
  BY <1>4, <1>5, <1>6 DEF JobWatch

(***************************************************************************)
(* The tasks, which take builds from the table.                            *)
(***************************************************************************)
LEMMA QuietMethods ==
  ASSUME NEW b \in Builds, NEW row \in Rows
  PROVE  /\ Start(b, row) \in Seq(Quiet)
         /\ Stop(b, row) \in Seq(Quiet)
         /\ Undeploy(b) \in Seq(Quiet)
         /\ DeployBuild(b) \in Seq(Quiet)
         /\ Patch(b, row, "keep", 0, TRUE) \in Seq(Quiet)
<1>1. /\ Apply(b, "deployment") \in Quiet /\ Apply(b, "start") \in Quiet
      /\ Apply(b, "stop") \in Quiet
      /\ Delete(b) \in Quiet /\ Notify(b, "pending") \in Quiet
  BY QuietCalls DEF Modes, JobKinds, GitHubStates
<1>2. /\ Patch(b, row, "keep", 0, FALSE) \in Seq(Quiet)
      /\ Patch(b, row, "keep", 1, FALSE) \in Seq(Quiet)
      /\ Patch(b, row, "keep", 0, TRUE) \in Seq(Quiet)
  <2>1. Scales(b, 0) \subseteq Quiet /\ Scales(b, 1) \subseteq Quiet
    BY QuietCalls
  <2>2. /\ Patch(b, row, "keep", 0, FALSE) \in Seq(Scales(b, 0))
        /\ Patch(b, row, "keep", 1, FALSE) \in Seq(Scales(b, 1))
        /\ Patch(b, row, "keep", 0, TRUE) \in Seq(Scales(b, 0))
    BY ScalePatch
  <2> QED
    BY <2>1, <2>2, SeqMono
<1>3. << >> \in Seq(Quiet) /\ \A c \in Quiet : << c >> \in Seq(Quiet)
  OBVIOUS
<1>4. \A c, d \in Quiet : << c, d >> \in Seq(Quiet)
  OBVIOUS
<1>5. << Apply(b, "start") >> \o Patch(b, row, "keep", 1, FALSE) \in Seq(Quiet)
  BY <1>1, <1>2, <1>3, ConcatProperties
<1>6. Patch(b, row, "keep", 0, FALSE) \o << Apply(b, "stop") >> \in Seq(Quiet)
  BY <1>1, <1>2, <1>3, ConcatProperties
<1> QED
  BY <1>1, <1>2, <1>3, <1>4, <1>5, <1>6 DEF Start, Stop, Undeploy, DeployBuild

LEMMA MethodMet ==
  ASSUME NEW t \in Tasks, NEW b \in Met, NEW row \in Rows
  PROVE  MethodOf(t, b, row) \in Seq(MetCalls)
<1>1. b \in Builds
  BY DEF Met
<1>2. Apply(b, "cleanup") \in MetCalls /\ Apply(b, "initialize") \in MetCalls
  BY <1>1, CallTypes DEF MetCalls, Modes, Apply
<1>3. /\ << Apply(b, "cleanup") >> \in Seq(MetCalls)
      /\ << Apply(b, "initialize") >> \in Seq(MetCalls)
  BY <1>2
<1>4. /\ Kill(b, "initialize") \in MetCalls /\ Purge(b) \in MetCalls
      /\ Unfinalize(b) \in MetCalls
  BY <1>1, QuietCalls, QuietMet DEF JobKinds
<1>5. /\ << Kill(b, "initialize") >> \in Seq(MetCalls)
      /\ << Purge(b), Unfinalize(b) >> \in Seq(MetCalls)
  BY <1>4
<1>6. /\ Stop(b, row) \in Seq(MetCalls) /\ Undeploy(b) \in Seq(MetCalls)
      /\ Patch(b, row, "keep", 0, TRUE) \in Seq(MetCalls)
  BY <1>1, QuietMethods, QuietMet
<1>7. Cleanup(b, row) \in Seq(MetCalls)
  <2>1. << Kill(b, "initialize") >> \o Patch(b, row, "keep", 0, TRUE) \in Seq(MetCalls)
    BY <1>5, <1>6, ConcatProperties
  <2>2. (<< Kill(b, "initialize") >> \o Patch(b, row, "keep", 0, TRUE)) \o << Apply(b, "cleanup") >>
          \in Seq(MetCalls)
    BY <1>3, <2>1, ConcatProperties
  <2> QED
    BY <1>5, <2>2 DEF Cleanup, DeleteDeploymentResources
<1>8. CASE t = "cleaner"
  BY <1>7, <1>8 DEF MethodOf
<1>9. CASE t = "initializer"
  BY <1>3, <1>9 DEF MethodOf, Initialize
<1>10. CASE t = "stopper"
  BY <1>6, <1>10 DEF MethodOf
<1>11. CASE t = "undeployer"
  BY <1>6, <1>11 DEF MethodOf
<1> QED
  BY <1>8, <1>9, <1>10, <1>11, TasksAssumption

LEMMA TaskMirror ==
  ASSUME MirrorInv, NEW t \in Tasks, Pass(t) \/ NextBuild(t)
  PROVE  MirrorInv'
<1>1. [Next]_vars
  BY DEF Next, Background
<1>2. /\ UNCHANGED << deployments, jobs, deplWatch, deplEvents, db, jobEvents, lookup >>
      /\ jobEvents \in Seq(MetJobEvents) /\ calls \in [Actors -> Seq(MetCalls)]
      /\ db \in [Builds -> Rows] /\ db \in Tables
      /\ lookup.busy => lookup.row.status = "absent"
      /\ \A b \in Builds : \A k \in JobKinds : jobs[b][k] # "none" => b \in Met
      /\ todo \in [Tasks -> Seq(MetSnapshots)] /\ t \in Actors
  BY MirrorParts, ActorSets DEF PlacesMet, Pass, NextBuild, clusterVars, TypeOK
<1>3. CASE Pass(t)
  <2> DEFINE list(q) == [i \in 1 .. Len(q) |-> [build |-> q[i], row |-> db[q[i]]]]
  <2>1. PICK q \in Selections(t) : todo' = [todo EXCEPT ![t] = list(q)]
    BY <1>3 DEF Pass
  <2>2. q \in Seq(Names(db))
    BY <1>2, <2>1, SelectionsNames
  <2>3. Len(q) \in Nat /\ \A i \in 1 .. Len(q) : q[i] \in Names(db)
    BY <2>2
  <2>4. ASSUME NEW b \in Names(db)
        PROVE  [build |-> b, row |-> db[b]] \in MetSnapshots
    <3>1. b \in Builds /\ db[b].status # "absent"
      BY DEF Names
    <3>2. deplWatch = "up"
      BY <3>1, MirrorParts DEF NotLoaded, EmptyTable, AbsentRow
    <3> QED
      BY <1>2, <3>1, <3>2 DEF MetSnapshots, Met, Snapshots
  <2>5. list(q) \in Seq(MetSnapshots)
    BY <2>3, <2>4
  <2> HIDE DEF list
  <2>6. todo' \in [Tasks -> Seq(MetSnapshots)] /\ calls' = calls
    BY <1>2, <1>3, <2>1, <2>5 DEF Pass
  <2> QED
    BY <1>1, <1>2, <2>6, MirrorFrame
<1>4. CASE NextBuild(t)
  <2> DEFINE s == Head(todo[t])
  <2>1. /\ todo[t] # << >> /\ todo' = [todo EXCEPT ![t] = Tail(todo[t])]
        /\ calls' = [calls EXCEPT ![t] = MethodOf(t, s.build, s.row)]
    BY <1>2, <1>4 DEF NextBuild
  <2>2. s \in MetSnapshots /\ Tail(todo[t]) \in Seq(MetSnapshots)
    BY <1>2, <2>1
  <2>3. MethodOf(t, s.build, s.row) \in Seq(MetCalls)
    BY <2>2, MethodMet DEF MetSnapshots, Snapshots
  <2>4. calls' \in [Actors -> Seq(MetCalls)] /\ todo' \in [Tasks -> Seq(MetSnapshots)]
    BY <1>2, <2>1, <2>2, <2>3
  <2> QED
    BY <1>1, <1>2, <2>4, MirrorFrame
<1> QED
  BY <1>3, <1>4

(***************************************************************************)
(* Requests, none of which launches a job itself.                          *)
(***************************************************************************)
LEMMA RequestMirror ==
  ASSUME MirrorInv, NEW c \in Clients, ClientRequest(c)
  PROVE  MirrorInv'
<1>1. [Next]_vars
  BY DEF Next
<1>2. /\ jobEvents \in Seq(MetJobEvents) /\ calls \in [Actors -> Seq(MetCalls)]
      /\ lookup.busy => lookup.row.status = "absent"
      /\ \A b \in Builds : \A k \in JobKinds : jobs[b][k] # "none" => b \in Met
      /\ todo \in [Tasks -> Seq(MetSnapshots)] /\ c \in Actors
      /\ db \in [Builds -> Rows] /\ "reset" \notin ClientOps
  BY MirrorParts, ActorSets DEF PlacesMet, LifeInv, CleanupInv
<1>3. ASSUME NEW op, NEW list \in Seq(Quiet), Request(c, op, list)
      PROVE  MirrorInv'
  <2>1. /\ UNCHANGED << deployments, jobs, deplWatch, deplEvents, db, jobEvents, lookup, todo >>
        /\ calls' = [calls EXCEPT ![c] = list]
    BY <1>3 DEF Request, clusterVars
  <2>2. calls' \in [Actors -> Seq(MetCalls)]
    BY <1>2, <2>1, QuietMet
  <2> QED
    BY <1>1, <1>2, <2>1, <2>2, MirrorFrame
<1>4. ASSUME NEW b \in Builds,
             DeployCommit(c, b) \/ StartBuild(c, b) \/ StopBuild(c, b) \/ UndeployBuild(c, b)
      PROVE  MirrorInv'
  <2>1. /\ DeployBuild(b) \in Seq(Quiet) /\ Start(b, db[b]) \in Seq(Quiet)
        /\ Stop(b, db[b]) \in Seq(Quiet) /\ Undeploy(b) \in Seq(Quiet)
    BY <1>2, QuietMethods
  <2> QED
    BY <1>3, <1>4, <2>1 DEF DeployCommit, StartBuild, StopBuild, UndeployBuild
<1>5. ASSUME NEW b \in Builds, ResetBuild(c, b)
      PROVE  MirrorInv'
  BY <1>2, <1>5 DEF ResetBuild, Request
<1>6. ASSUME NEW pr, UndeployBuilds(c, pr)
      PROVE  MirrorInv'
  <2>1. PICK q \in SearchPr(db, pr) : Request(c, "close", [i \in 1 .. Len(q) |-> Delete(q[i])])
    BY <1>6 DEF UndeployBuilds
  <2> DEFINE list == [i \in 1 .. Len(q) |-> Delete(q[i])]
  <2>2. IsFiniteSet({b \in Names(db) : Info[b].pr = pr}) /\ Names(db) \subseteq Builds
    BY FS_Subset, BuildsAssumption DEF Names
  <2>3. q \in SetToSeqs({b \in Names(db) : Info[b].pr = pr})
    BY <2>1 DEF SearchPr
  <2>4. Len(q) \in Nat /\ \A i \in 1 .. Len(q) : q[i] \in Builds
    BY <2>2, <2>3, SetToSeqsType
  <2>5. \A i \in 1 .. Len(q) : Delete(q[i]) \in Quiet
    BY <2>4, QuietCalls
  <2>6. list \in Seq(Quiet)
    BY <2>4, <2>5
  <2> QED
    BY <1>3, <2>1, <2>6
<1> QED
  BY <1>4, <1>5, <1>6 DEF ClientRequest

(***************************************************************************)
(* Calls and the environment: only the launch of a job makes one.          *)
(***************************************************************************)
LEMMA PerformLaunched ==
  ASSUME LifeInv, NEW a \in Actors, calls[a] # << >>, Perform(Head(calls[a])),
         NEW b \in Builds, NEW k \in JobKinds, jobs'[b][k] # "none"
  PROVE  jobs[b][k] # "none" \/ (Launches(Head(calls[a])) /\ Head(calls[a]).build = b)
<1> DEFINE c == Head(calls[a])
<1>1. c \in Calls /\ c.build \in Builds /\ jobs \in [Builds -> [JobKinds -> JobStates]]
  BY HeadCall, InvParts
<1>2. \A x \in Builds : jobs[x] \in [JobKinds -> JobStates]
  BY <1>1
<1>3. CASE jobs' = jobs
  BY <1>3
<1>4. CASE ApplyJob(c) /\ jobs' # jobs
  <2>1. Launches(c) /\ jobs' = [jobs EXCEPT ![c.build][c.mode] = "active"]
    BY <1>4 DEF ApplyJob, SetJob, Launches
  <2>2. b # c.build => jobs'[b] = jobs[b]
    BY <1>1, <2>1
  <2> QED
    BY <2>1, <2>2
<1>5. CASE KillJob(c)
  <2>1. jobs' = [jobs EXCEPT ![c.build][c.kind] = "none"]
    BY <1>5 DEF KillJob, SetJob
  <2>2. jobs'[b] = IF b = c.build THEN [jobs[b] EXCEPT ![c.kind] = "none"] ELSE jobs[b]
    BY <1>1, <2>1
  <2> QED
    BY <1>2, <2>2
<1>6. CASE DeleteResources(c)
  <2>1. jobs' = [jobs EXCEPT ![c.build] = [kind \in JobKinds |-> "none"]]
    BY <1>6 DEF DeleteResources
  <2> QED
    BY <1>1, <2>1
<1> QED
  BY <1>3, <1>4, <1>5, <1>6
     DEF Perform, ApplyDeployment, ApplyOthers, PatchDeployment, RemoveFinalizers,
         DeleteDeployment, NotifyStatus

LEMMA EnvironmentLaunched ==
  ASSUME LifeInv, Environment, NEW b \in Builds, NEW k \in JobKinds, jobs'[b][k] # "none"
  PROVE  jobs[b][k] # "none"
<1>1. jobs \in [Builds -> [JobKinds -> JobStates]]
  BY InvParts
<1>2. \/ jobs' = jobs
      \/ \E x \in Builds, kind \in JobKinds, state \in JobStates :
           SetJob(x, kind, state) /\ jobs[x][kind] = "active"
  BY DEF Environment, InitializeCreatesDatabase, InitializeSucceeds, CleanupSucceeds,
         JobFails, Scale, Tick, cluster, watches, JobKinds, JobStates
<1>3. ASSUME NEW x \in Builds, NEW kind \in JobKinds, NEW state \in JobStates,
             SetJob(x, kind, state), jobs[x][kind] = "active"
      PROVE  jobs[b][k] # "none"
  <2>1. jobs' = [jobs EXCEPT ![x][kind] = state]
    BY <1>3 DEF SetJob
  <2>2. jobs'[b] = IF b = x THEN [jobs[b] EXCEPT ![kind] = state] ELSE jobs[b]
    BY <1>1, <2>1
  <2>3. jobs[b] \in [JobKinds -> JobStates]
    BY <1>1
  <2> QED
    BY <1>3, <2>2, <2>3
<1> QED
  BY <1>2, <1>3

LEMMA ClusterMirror ==
  ASSUME MirrorInv, LifeInv', Moves, Told, Dated, UNCHANGED << db, deplWatch, lookup, todo >>,
         \A b \in Builds : \A k \in JobKinds : jobs'[b][k] # "none" => b \in Met,
         calls' \in [Actors -> Seq(MetCalls)],
         jobEvents' = jobEvents \/ JobEventAdded
  PROVE  MirrorInv'
<1>1. ClusterTypeOK'
  BY DEF LifeInv, CleanupInv, TypeInv, TypeOK
<1>2. /\ Met \subseteq Met' /\ MetJobEvents \subseteq MetJobEvents'
      /\ MetCalls \subseteq MetCalls'
  BY MetGrows
<1>3. calls' \in [Actors -> Seq(MetCalls')]
  <2>1. Seq(MetCalls) \subseteq Seq(MetCalls')
    BY <1>2, SeqMono
  <2> QED
    BY <2>1
<1>4. jobEvents' \in Seq(MetJobEvents')
  <2>1. jobEvents \in Seq(MetJobEvents')
    BY <1>2, MirrorParts, SeqMono
  <2>2. ASSUME NEW b \in Builds, NEW kind \in JobKinds, NEW state \in JobStates \ {"none"},
               jobEvents' = Append(jobEvents, [build |-> b, kind |-> kind, state |-> state]),
               jobs'[b][kind] = state
        PROVE  jobEvents' \in Seq(MetJobEvents')
    <3>1. b \in Met'
      BY <1>2, <2>2
    <3>2. [build |-> b, kind |-> kind, state |-> state] \in MetJobEvents'
      BY <3>1 DEF MetJobEvents, JobEvents
    <3> QED
      BY <2>1, <2>2, <3>2
  <2> QED
    BY <2>1, <2>2 DEF JobEventAdded
<1>5. /\ \A b \in Builds : Timely(b, db[b])'
      /\ deplEvents' \in Seq(TimelyEvents')
      /\ NotLoaded'
      /\ deplWatch' = "up" => \A b \in Builds : Mirrored(b)'
  BY <1>1, ToldMirrored
<1>6. PlacesMet'
  <2>1. lookup'.busy => lookup'.row.status = "absent"
    BY MirrorParts DEF PlacesMet
  <2>2. todo' \in [Tasks -> Seq(MetSnapshots')]
    BY <1>2, MetFrame
  <2> QED
    BY <1>2, <1>3, <1>4, <1>5, <2>1, <2>2 DEF PlacesMet
<1> QED
  BY <1>5, <1>6 DEF MirrorInv

LEMMA AbortMirror ==
  ASSUME MirrorInv, [Next]_vars, NEW a \in Actors, Abort(a),
         UNCHANGED << cluster, deplWatch, deplEvents, db, lookup >>
  PROVE  MirrorInv'
<1>1. /\ jobEvents \in Seq(MetJobEvents) /\ calls \in [Actors -> Seq(MetCalls)]
      /\ lookup.busy => lookup.row.status = "absent"
      /\ \A b \in Builds : \A k \in JobKinds : jobs[b][k] # "none" => b \in Met
      /\ todo \in [Tasks -> Seq(MetSnapshots)]
  BY MirrorParts DEF PlacesMet
<1>2. jobEvents' \in Seq(MetJobEvents)
  <2>1. << >> \in Seq(MetJobEvents)
    OBVIOUS
  <2> QED
    BY <1>1, <2>1 DEF Abort
<1>3. calls' \in [Actors -> Seq(MetCalls)]
  <2>1. << >> \in Seq(MetCalls)
    OBVIOUS
  <2> QED
    BY <1>1, <2>1 DEF Abort
<1>4. todo' \in [Tasks -> Seq(MetSnapshots)]
  <2>1. << >> \in Seq(MetSnapshots)
    OBVIOUS
  <2> QED
    BY <1>1, <2>1 DEF Abort
<1> QED
  BY <1>1, <1>2, <1>3, <1>4, MirrorFrame DEF cluster

LEMMA CallMirror ==
  ASSUME MirrorInv, NEW a \in Actors, Call(a)
  PROVE  MirrorInv'
<1> DEFINE c == Head(calls[a])
<1>1. [Next]_vars /\ LifeInv
  BY MirrorParts DEF Next, Background
<1>2. /\ calls[a] # << >> /\ calls \in [Actors -> Seq(MetCalls)]
      /\ UNCHANGED << db, lookup >>
      /\ \A b \in Builds : \A k \in JobKinds : jobs[b][k] # "none" => b \in Met
  BY MirrorParts DEF Call, PlacesMet
<1>3. CASE ~Raises(c) /\ Perform(c)
           /\ calls' = [calls EXCEPT ![a] = Tail(calls[a])] /\ UNCHANGED todo
  <2>1. Moves /\ Told /\ Dated /\ (jobEvents' = jobEvents \/ JobEventAdded)
    BY <1>1, <1>2, <1>3, PerformMoves, PerformTold, PerformJobEvents
  <2>2. c \in MetCalls /\ Tail(calls[a]) \in Seq(MetCalls)
    BY <1>2
  <2>3. calls' \in [Actors -> Seq(MetCalls)]
    BY <1>2, <1>3, <2>2
  <2>4. ASSUME NEW b \in Builds, NEW k \in JobKinds, jobs'[b][k] # "none"
        PROVE  b \in Met
    <3>1. jobs[b][k] # "none" \/ (Launches(c) /\ c.build = b)
      BY <1>1, <1>2, <1>3, <2>4, PerformLaunched
    <3> QED
      BY <1>2, <2>2, <3>1 DEF MetCalls
  <2>5. LifeInv' /\ deplWatch' = deplWatch
    BY <1>1, <1>3, LifeStep DEF Perform
  <2> QED
    BY <1>2, <1>3, <2>1, <2>3, <2>4, <2>5, ClusterMirror
<1>4. CASE Abort(a) /\ UNCHANGED << cluster, deplWatch, deplEvents, now >>
  BY <1>1, <1>2, <1>4, AbortMirror
<1> QED
  BY <1>3, <1>4 DEF Call

LEMMA EnvironmentMirror ==
  ASSUME MirrorInv, Environment, UNCHANGED << controller, requests, faults >>
  PROVE  MirrorInv'
<1>1. [Next]_vars /\ LifeInv
  BY MirrorParts DEF Next, Background
<1>2. /\ UNCHANGED << db, lookup, todo, calls >>
      /\ calls' \in [Actors -> Seq(MetCalls)]
      /\ \A b \in Builds : \A k \in JobKinds : jobs[b][k] # "none" => b \in Met
  BY MirrorParts DEF controller, PlacesMet
<1>3. Moves /\ Told /\ Dated /\ (jobEvents' = jobEvents \/ JobEventAdded)
  BY <1>1, EnvironmentMoves, EnvironmentTold, EnvironmentJobEvents
<1>4. \A b \in Builds : \A k \in JobKinds : jobs'[b][k] # "none" => b \in Met
  BY <1>1, <1>2, EnvironmentLaunched
<1>5. LifeInv' /\ deplWatch' = deplWatch
  BY <1>1, LifeStep DEF Environment, InitializeCreatesDatabase, InitializeSucceeds,
     CleanupSucceeds, JobFails, Scale, Tick, cluster, watches
<1> QED
  BY <1>2, <1>3, <1>4, <1>5, ClusterMirror

(***************************************************************************)
(* The theorem.                                                            *)
(***************************************************************************)
LEMMA MirrorInit ==
  ASSUME Init, "reset" \notin ClientOps, FaultKinds \subseteq {"call"}
  PROVE  MirrorInv
<1>1. LifeInv
  BY LifeInit
<1>2. /\ deplWatch = "down" /\ deplEvents = << >> /\ jobEvents = << >> /\ db = EmptyTable
      /\ todo = [t \in Tasks |-> << >>] /\ calls = [a \in Actors |-> << >>]
      /\ lookup = NoLookup
      /\ \A b \in Builds : \A k \in JobKinds : jobs[b][k] = "none"
  BY DEF Init, ClusterInit, ClusterBlank, ControllerBlank
<1>3. PlacesMet
  BY <1>2 DEF PlacesMet, Timely, EmptyTable, AbsentRow, NoLookup
<1> QED
  BY <1>1, <1>2, <1>3 DEF MirrorInv, NotLoaded

LEMMA MirrorStep ==
  ASSUME MirrorInv, [Next]_vars
  PROVE  MirrorInv'
<1>1. CASE DeploymentWatcher
  BY <1>1, StartWatchMirror, ListMirror, HandleMirror DEF DeploymentWatcher
<1>2. CASE JobWatch
  BY <1>2, JobWatchMirror
<1>3. ASSUME NEW t \in Tasks, Pass(t) \/ NextBuild(t)
      PROVE  MirrorInv'
  BY <1>3, TaskMirror
<1>4. ASSUME NEW a \in Actors, Call(a)
      PROVE  MirrorInv'
  BY <1>4, CallMirror
<1>5. CASE Environment /\ UNCHANGED << controller, requests, faults >>
  BY <1>5, EnvironmentMirror
<1>6. CASE Faults
  <2>1. PICK a \in Actors : CallFails(a)
    BY <1>6 DEF Faults, DeploymentWatchBreaks, JobWatchBreaks, ControllerRestarts, Fault, MirrorInv
  <2> QED
    BY <2>1, AbortMirror DEF CallFails
<1>7. ASSUME NEW c \in Clients, ClientRequest(c)
      PROVE  MirrorInv'
  BY <1>7, RequestMirror
<1>8. CASE UNCHANGED vars
  <2>1. UNCHANGED << deployments, jobs, deplWatch, deplEvents, db, todo, jobEvents, calls, lookup >>
    BY <1>8 DEF vars, clusterVars
  <2> QED
    BY <2>1, MirrorParts, MirrorFrame DEF PlacesMet
<1> QED
  BY <1>1, <1>2, <1>3, <1>4, <1>5, <1>6, <1>7, <1>8 DEF Next, Background, Wait

\* When nothing is left to do, the table that the queries, the limits and the
\* requests rely on is the image of the deployments, although job_watcher
\* writes it too, with deployments it read earlier, and although any call may
\* fail (deployment_watcher, get_build, BuildsDb.add and remove).
THEOREM TableMirrorsCluster ==
  ASSUME "reset" \notin ClientOps, FaultKinds \subseteq {"call"}
  PROVE  Spec => []SettledMirrorsCluster
<1>1. Init => MirrorInv
  BY MirrorInit
<1>2. MirrorInv /\ [Next]_vars => MirrorInv'
  BY MirrorStep
<1>3. MirrorInv => SettledMirrorsCluster
  <2> SUFFICES ASSUME MirrorInv, Settled, NEW b \in Builds
               PROVE  db[b] = RowOf(deployments[b])
    BY DEF SettledMirrorsCluster
  <2>1. deplWatch = "up" /\ deplEvents = << >>
    BY DEF Settled
  <2>2. Mirrored(b) /\ Len(deplEvents) = 0
    BY <2>1 DEF MirrorInv
  <2> QED
    BY <2>2 DEF Mirrored
<1> QED
  BY <1>1, <1>2, <1>3, PTL DEF Spec

(***************************************************************************)
(* The eviction keeps the newest build of a branch.  It is decided from    *)
(* rows that may be old: the newest row of a branch may be of a build that *)
(* is gone, and the build to evict may be the newest by the time it is     *)
(* deleted, if the others go first.  The invariant says that a build of a  *)
(* branch that is deleted, or is about to be, is outdone by a live build   *)
(* created after it.  The one that outdoes it may be evicted in turn, but  *)
(* only when it is outdone itself.  Since the creation time of a build     *)
(* that is gone is lost, its rows and events say when it was created.      *)
(***************************************************************************)
OutdoneSince(b, time) ==
  \E c \in Builds :
    /\ deployments[c].phase = "live"
    /\ Info[c].branch = Info[b].branch /\ Info[c].pr = NoPr
    /\ deployments[c].created > time

Outdone ==
  {b \in Builds \ Unborn :
     Info[b].pr = NoPr =>
       deployments[b].phase = "gone" \/ OutdoneSince(b, deployments[b].created)}

\* The creation time of a row is that of the deployment, as long as it lives.
DatedSnapshots ==
  {s \in SoundSnapshots :
     s.row.status # "absent" /\ Info[s.build].pr = NoPr =>
       \/ s.build \notin Doomed /\ s.row.created = deployments[s.build].created
       \/ s.build \in Doomed /\ OutdoneSince(s.build, s.row.created)}

Evictions == {s \in Snapshots : s.build \in Outdone}
OutdoneCalls == {c \in Calls : c.op = "delete" => c.build \in Outdone}

PlacesDated ==
  /\ Doomed \subseteq Outdone
  /\ \A b \in Builds : [build |-> b, row |-> db[b]] \in DatedSnapshots
  /\ deplEvents \in Seq(DatedSnapshots)
  /\ lookup.busy => [build |-> Head(jobEvents).build, row |-> lookup.row] \in DatedSnapshots
  /\ \A t \in Tasks : t = "undeployer" => todo[t] \in Seq(Evictions)
  /\ calls \in [Actors -> Seq(OutdoneCalls)]

\* No two live builds are created in the same second.
CreatedApart ==
  \A b \in Builds : deployments[b].phase = "live" =>
    /\ deployments[b].created < now
    /\ \A c \in Builds \ {b} :
         deployments[c].phase = "live" => deployments[c].created # deployments[b].created

BranchInv == LifeInv /\ ~SameSecond /\ "undeploy" \notin ClientOps /\ PlacesDated /\ CreatedApart

\* What a step takes down is outdone, and what it creates is the newest.
Spares ==
  \A b \in Builds :
    deployments[b].phase = "live" /\ deployments'[b].phase # "live" => b \in Outdone

Clocked ==
  \/ /\ now' >= now
     /\ \A b \in Builds : deployments'[b].phase = "live" => deployments[b].phase = "live"
  \/ /\ now' = now + 1
     /\ \E k \in Unborn : /\ deployments'[k].created = now
                          /\ \A b \in Builds \ {k} : deployments'[b] = deployments[b]

LEMMA BranchParts ==
  ASSUME BranchInv
  PROVE  /\ LifeInv /\ PlacesDated /\ CreatedApart /\ TypeOK /\ ClusterTypeOK /\ LookupOfEvent
         /\ now \in Nat
         /\ db \in [Builds -> Rows] /\ db \in Tables
         /\ deployments \in [Builds -> Deployments]
         /\ todo \in [Tasks -> Seq(Snapshots)]
         /\ \A b \in Builds : deployments[b].created \in Nat
BY InvParts DEF BranchInv, TypeOK, ClusterTypeOK, Tables, Deployments

\* How long a build lives and what it keeps.
LEMMA LifeMoves ==
  ASSUME LifeInv, Moves, Dated, NEW b \in Builds
  PROVE  /\ b \in Doomed => b \in Doomed' /\ b \in Builds
         /\ b \in Unborn' => b \in Unborn
         /\ deployments[b].phase = "gone" => deployments'[b].phase = "gone"
         /\ b \notin Doomed /\ b \notin Unborn <=> deployments[b].phase = "live"
         /\ b \in Doomed' => b \notin Unborn'
         /\ b \notin Unborn /\ deployments'[b].phase # "gone" =>
              deployments'[b].created = deployments[b].created
         /\ deployments[b].phase = "live" /\ b \notin Doomed' => deployments'[b].phase = "live"
         /\ b \in Doomed' => b \notin Unborn
<1>1. ClusterTypeOK /\ LifeInv /\ Advances(b)
  BY InvParts DEF Moves
<1>2. << deployments[b].phase, deployments'[b].phase >> \in
       { << "unborn", "unborn" >>, << "unborn", "live" >>, << "live", "live" >>,
         << "live", "deleting" >>, << "deleting", "deleting" >>, << "deleting", "gone" >>,
         << "gone", "gone" >> }
  BY <1>1 DEF Advances
<1>3. b \notin Unborn /\ deployments'[b].phase # "gone" => Present(deployments'[b])
  BY <1>2 DEF Unborn, Present
<1>4. b \notin Unborn /\ deployments'[b].phase # "gone" =>
        deployments'[b].created = deployments[b].created
  BY <1>3 DEF Dated
<1> QED
  BY <1>1, <1>2, <1>4, Phase, PhaseNext

LEMMA BranchMoves ==
  ASSUME BranchInv, Moves, Dated, NEW b \in Builds
  PROVE  /\ b \in Doomed => b \in Doomed' /\ b \in Builds
         /\ b \in Unborn' => b \in Unborn
         /\ deployments[b].phase = "gone" => deployments'[b].phase = "gone"
         /\ b \notin Doomed /\ b \notin Unborn <=> deployments[b].phase = "live"
         /\ b \in Doomed' => b \notin Unborn'
         /\ b \notin Unborn /\ deployments'[b].phase # "gone" =>
              deployments'[b].created = deployments[b].created
         /\ deployments[b].phase = "live" /\ b \notin Doomed' => deployments'[b].phase = "live"
         /\ b \in Doomed' => b \notin Unborn
BY BranchParts, LifeMoves

\* A build that was outdone stays outdone: if the step takes down the build
\* that outdoes it, that one is outdone by another, which the step spares.
LEMMA OutdoneSinceStays ==
  ASSUME BranchInv, Moves, Dated, OneDeployment, Spares, NEW b \in Builds, NEW time \in Nat,
         OutdoneSince(b, time)
  PROVE  OutdoneSince(b, time)'
<1>1. PICK c \in Builds : /\ deployments[c].phase = "live"
                          /\ Info[c].branch = Info[b].branch /\ Info[c].pr = NoPr
                          /\ deployments[c].created > time
  BY DEF OutdoneSince
<1>2. c \notin Unborn /\ \A k \in Builds : deployments[k].created \in Nat
  BY <1>1, BranchParts DEF Unborn
<1>3. CASE deployments'[c].phase = "live"
  <2>1. deployments'[c].created = deployments[c].created
    BY <1>2, <1>3, BranchMoves
  <2> QED
    BY <1>1, <1>3, <2>1 DEF OutdoneSince
<1>4. CASE deployments'[c].phase # "live"
  <2>1. OutdoneSince(c, deployments[c].created)
    BY <1>1, <1>4 DEF Spares, Outdone
  <2>2. PICK d \in Builds : /\ deployments[d].phase = "live"
                            /\ Info[d].branch = Info[c].branch /\ Info[d].pr = NoPr
                            /\ deployments[d].created > deployments[c].created
    BY <2>1 DEF OutdoneSince
  <2>3. d # c /\ deployments[d].created > time
    BY <1>1, <1>2, <2>2
  <2>4. deployments'[d] = deployments[d]
    <3>1. deployments \in [Builds -> Deployments] /\ deployments'[c] # deployments[c]
      BY <1>1, <1>4, BranchParts
    <3> QED
      BY <2>3, <3>1 DEF OneDeployment
  <2> QED
    BY <1>1, <2>2, <2>3, <2>4 DEF OutdoneSince
<1> QED
  BY <1>3, <1>4

LEMMA OutdoneGrows ==
  ASSUME BranchInv, Moves, Dated, OneDeployment, Spares
  PROVE  /\ Outdone \subseteq Outdone'
         /\ Doomed' \subseteq Outdone'
         /\ OutdoneCalls \subseteq OutdoneCalls'
         /\ Evictions \subseteq Evictions'
<1>1. ASSUME NEW b \in Outdone
      PROVE  b \in Outdone'
  <2>1. b \in Builds /\ b \notin Unborn /\ deployments[b].created \in Nat
    BY BranchParts DEF Outdone
  <2>2. b \in Builds \ Unborn'
    BY <2>1, BranchMoves
  <2>3. ASSUME Info[b].pr = NoPr, deployments'[b].phase # "gone"
        PROVE  OutdoneSince(b, deployments[b].created)'
    <3>1. deployments[b].phase # "gone"
      BY <2>1, <2>3, BranchMoves
    <3>2. OutdoneSince(b, deployments[b].created)
      BY <2>3, <3>1 DEF Outdone
    <3>3. ASSUME NEW time, time = deployments[b].created
          PROVE  OutdoneSince(b, time)'
      BY <2>1, <3>2, <3>3, OutdoneSinceStays
    <3>4. deployments'[b].created = deployments[b].created
      BY <2>1, <2>3, BranchMoves
    <3> QED
      BY <3>3, <3>4 DEF OutdoneSince
  <2> QED
    BY <2>2, <2>3 DEF Outdone
<1>2. ASSUME NEW b \in Doomed'
      PROVE  b \in Outdone'
  <2>1. b \in Builds
    BY DEF Doomed
  <2>2. CASE b \in Doomed
    BY <1>1, <2>2 DEF BranchInv, PlacesDated
  <2>3. CASE b \notin Doomed
    <3>1. deployments[b].phase = "live" /\ deployments'[b].phase # "live"
      BY <2>1, <2>3, BranchMoves, PhaseNext
    <3> QED
      BY <1>1, <2>1, <3>1 DEF Spares
  <2> QED
    BY <2>2, <2>3
<1> QED
  BY <1>1, <1>2 DEF OutdoneCalls, Evictions

LEMMA DatedGrows ==
  ASSUME BranchInv, Moves, Dated, OneDeployment, Spares, NEW s \in DatedSnapshots
  PROVE  s \in DatedSnapshots'
<1> DEFINE b == s.build
           time == s.row.created
<1>1. /\ s \in SoundSnapshots /\ b \in Builds /\ time \in Nat
      /\ s.row.status # "absent" => b \notin Unborn
  BY DEF DatedSnapshots, SoundSnapshots, Snapshots, Rows
<1>2. s \in SoundSnapshots'
  BY <1>1, BranchParts, SoundGrows
<1> SUFFICES ASSUME s.row.status # "absent", Info[b].pr = NoPr
             PROVE  \/ b \notin Doomed' /\ time = deployments'[b].created
                    \/ b \in Doomed' /\ OutdoneSince(b, time)'
  BY <1>2 DEF DatedSnapshots, OutdoneSince
<1>3. \/ b \notin Doomed /\ time = deployments[b].created
      \/ b \in Doomed /\ OutdoneSince(b, time)
  BY DEF DatedSnapshots
<1> HIDE DEF b, time
<1>4. CASE b \in Doomed
  BY <1>1, <1>3, <1>4, BranchMoves, OutdoneSinceStays
<1>5. CASE b \notin Doomed /\ b \notin Doomed'
  <2>1. deployments'[b].phase = "live"
    BY <1>1, <1>5, BranchMoves DEF b
  <2> QED
    BY <1>1, <1>3, <1>5, <2>1, BranchMoves DEF b
<1>6. CASE b \notin Doomed /\ b \in Doomed'
  <2>1. deployments[b].phase = "live" /\ deployments'[b].phase # "live"
    BY <1>1, <1>6, BranchMoves, PhaseNext DEF b
  <2>2. OutdoneSince(b, deployments[b].created)
    BY <1>1, <2>1 DEF Spares, Outdone, b
  <2>3. OutdoneSince(b, time)
    BY <1>3, <1>6, <2>2
  <2> QED
    BY <1>1, <1>6, <2>3, OutdoneSinceStays
<1> QED
  BY <1>4, <1>5, <1>6

LEMMA RowDated ==
  ASSUME NEW b \in Builds, deployments'[b] \in Deployments, Doomed' \subseteq Outdone'
  PROVE  [build |-> b, row |-> RowOf(deployments'[b])] \in DatedSnapshots'
<1> DEFINE e == [build |-> b, row |-> RowOf(deployments'[b])]
<1>1. e \in SoundSnapshots'
  BY RowSound
<1>2. ASSUME Present(deployments'[b]), Info[b].pr = NoPr, b \in Doomed'
      PROVE  OutdoneSince(b, deployments[b].created)'
  <2>1. b \in Outdone' /\ deployments'[b].phase # "gone"
    BY <1>2 DEF Present
  <2> QED
    BY <1>2, <2>1 DEF Outdone
<1>3. e.row.status # "absent" =>
        Present(deployments'[b]) /\ e.row.created = deployments'[b].created
  BY DEF RowOf, AbsentRow
<1>4. ASSUME e.row.status # "absent", Info[b].pr = NoPr, NEW time, time = e.row.created
      PROVE  \/ b \notin Doomed' /\ time = deployments'[b].created
             \/ b \in Doomed' /\ OutdoneSince(b, time)'
  BY <1>2, <1>3, <1>4 DEF OutdoneSince
<1> QED
  BY <1>1, <1>4 DEF DatedSnapshots, OutdoneSince

\* A call only takes down a build that is outdone: the calls that remove what
\* is left are about builds that are doomed already.
LEMMA PerformSpares ==
  ASSUME BranchInv, NEW a \in Actors, calls[a] # << >>, Perform(Head(calls[a]))
  PROVE  Spares
<1> DEFINE c == Head(calls[a])
<1>1. /\ LifeInv /\ deployments \in [Builds -> Deployments] /\ ClusterTypeOK
      /\ calls \in [Actors -> Seq(OutdoneCalls)]
  BY BranchParts DEF PlacesDated
<1>2. /\ c \in SoundCalls /\ c \in Calls /\ c.build \in Builds /\ c \in OutdoneCalls
      /\ IsDeploy(c) => c.build \in Unborn
  BY <1>1, HeadCall
<1> SUFFICES ASSUME NEW b \in Builds, deployments[b].phase = "live",
                    deployments'[b].phase # "live"
             PROVE  b \in Outdone
  BY DEF Spares
<1>3. ASSUME NEW e, SetDeployment(c.build, e)
      PROVE  c.build = b /\ deployments'[b] = e
  BY <1>1, <1>2, <1>3 DEF SetDeployment
<1>4. b \notin Doomed /\ b \notin Unborn /\ Present(deployments[b])
  BY DEF Doomed, Unborn, Present
<1> HIDE DEF c
<1>5. CASE ApplyDeployment(c)
  <2>1. c.build = b
    BY <1>3, <1>5 DEF ApplyDeployment
  <2> QED
    BY <1>2, <1>4, <1>5, <2>1 DEF ApplyDeployment, IsDeploy
<1>6. CASE PatchDeployment(c)
  <2>1. Present(deployments[c.build])
    BY <1>6 DEF PatchDeployment
  <2> DEFINE d == deployments[c.build]
             e == [d EXCEPT !.init = IF c.init = "keep" THEN @ ELSE c.init,
                            !.replicas = IF c.replicas = Keep THEN @ ELSE c.replicas,
                            !.scaled = IF c.replicas = Keep THEN @ ELSE now]
  <2>2. SetDeployment(c.build, e) /\ e.phase = d.phase
    BY <1>1, <1>2, <1>6, <2>1 DEF PatchDeployment, Deployments
  <2> HIDE DEF e
  <2> QED
    BY <1>3, <2>2
<1>7. CASE RemoveFinalizers(c) \/ DeleteResources(c)
  <2>1. c.build \in Doomed
    BY <1>2, <1>7 DEF SoundCalls, RemoveFinalizers, DeleteResources
  <2>2. deployments' = deployments \/ c.build = b
    BY <1>3, <1>7 DEF RemoveFinalizers, DeleteResources
  <2> QED
    BY <1>4, <2>1, <2>2
<1>8. CASE DeleteDeployment(c)
  <2>1. c.build = b /\ c.op = "delete"
    BY <1>3, <1>8 DEF DeleteDeployment
  <2> QED
    BY <1>2, <2>1 DEF OutdoneCalls
<1>9. CASE deployments' = deployments
  BY <1>9
<1> QED
  BY <1>5, <1>6, <1>7, <1>8, <1>9 DEF Perform, ApplyJob, ApplyOthers, KillJob, NotifyStatus, c

LEMMA PerformClocked ==
  ASSUME LifeInv, ~SameSecond, NEW a \in Actors, calls[a] # << >>, Perform(Head(calls[a])), Moves
  PROVE  Clocked
<1> DEFINE c == Head(calls[a])
           d == deployments[c.build]
<1>1. /\ LifeInv /\ deployments \in [Builds -> Deployments] /\ ClusterTypeOK /\ now \in Nat
      /\ ~SameSecond
  BY InvParts DEF ClusterTypeOK
<1>2. c \in Calls /\ c.build \in Builds /\ (IsDeploy(c) => c.build \in Unborn) /\ Perform(c)
  BY <1>1, HeadCall
<1> HIDE DEF c
<1>3. CASE ApplyDeployment(c)
  <2> DEFINE e == [phase |-> "live", init |-> "todo", replicas |-> 0, running |-> FALSE,
                   finalizer |-> TRUE, created |-> now, scaled |-> now]
  <2>1. c.build \in Unborn /\ ~Present(d)
    BY <1>1, <1>2, <1>3, Phase DEF ApplyDeployment, IsDeploy, Present
  <2>2. SetDeployment(c.build, e) /\ now' = now + 1
    BY <1>1, <1>3, <2>1 DEF ApplyDeployment
  <2>3. e.created = now
    OBVIOUS
  <2> HIDE DEF e
  <2>4. deployments' = [deployments EXCEPT ![c.build] = e]
    BY <2>2 DEF SetDeployment
  <2> QED
    BY <1>1, <1>2, <2>1, <2>2, <2>3, <2>4 DEF Clocked
<1>4. CASE ~ApplyDeployment(c)
  <2>1. now' = now
    <3>1. CASE NotifyStatus(c)
      BY <3>1 DEF NotifyStatus
    <3>2. CASE ~NotifyStatus(c)
      BY <1>2, <1>4, <3>2 DEF Perform, ApplyJob, ApplyOthers, PatchDeployment, RemoveFinalizers,
                              DeleteDeployment, DeleteResources, KillJob
    <3> QED
      BY <3>1, <3>2
  <2>2. ~IsDeploy(c)
    BY <1>4 DEF Perform, IsDeploy, ApplyJob, ApplyOthers, PatchDeployment, RemoveFinalizers,
                DeleteDeployment, DeleteResources, KillJob, NotifyStatus, JobKinds, c
  <2>3. Unborn \subseteq Unborn'
    BY <1>1, <1>2, <2>2, PerformAges DEF Ages, c
  <2>4. ASSUME NEW b \in Builds, deployments'[b].phase = "live"
        PROVE  deployments[b].phase = "live"
    <3>1. b \notin Unborn /\ b \notin Doomed'
      BY <2>3, <2>4, PhaseNext
    <3> QED
      BY <1>1, <3>1, AdvancesPhase, PhaseNext, <2>3 DEF Moves
  <2> QED
    BY SMTT(30), <1>1, <2>1, <2>4 DEF Clocked
<1> QED
  BY <1>3, <1>4

LEMMA EnvironmentSpares ==
  ASSUME ClusterTypeOK, Environment
  PROVE  Spares /\ Clocked
<1>1. deployments \in [Builds -> Deployments] /\ now \in Nat
  BY DEF ClusterTypeOK
<1>2. now' >= now
  <2>1. now' = now \/ now' = now + 1
    BY DEF Environment, InitializeCreatesDatabase, InitializeSucceeds, CleanupSucceeds,
           JobFails, Scale, Tick
  <2> QED
    BY <1>1, <2>1
<1>3. \A b \in Builds : deployments'[b].phase = deployments[b].phase
  <2>1. CASE deployments' = deployments
    BY <2>1
  <2>2. ASSUME NEW k \in Builds, Scale(k)
        PROVE  \A b \in Builds : deployments'[b].phase = deployments[b].phase
    <3>1. deployments' = [deployments EXCEPT ![k] = [deployments[k] EXCEPT !.running = ~@]]
      BY <2>2 DEF Scale, SetDeployment
    <3>2. [deployments[k] EXCEPT !.running = ~@].phase = deployments[k].phase
      BY <1>1 DEF Deployments
    <3> QED
      BY <1>1, <3>1, <3>2
  <2> QED
    BY <2>1, <2>2 DEF Environment, InitializeCreatesDatabase, InitializeSucceeds,
                      CleanupSucceeds, JobFails, Tick, cluster
<1> QED
  BY <1>2, <1>3 DEF Spares, Clocked

\* The build created last has a second of its own.
LEMMA CreatedApartNext ==
  ASSUME LifeInv, CreatedApart, Moves, Dated, Clocked, now' \in Nat
  PROVE  CreatedApart'
<1>1. CreatedApart /\ now \in Nat /\ \A b \in Builds : deployments[b].created \in Nat
  BY InvParts DEF ClusterTypeOK, Deployments
<1>2. ASSUME NEW b \in Builds, deployments[b].phase = "live", deployments'[b].phase = "live"
      PROVE  deployments'[b].created = deployments[b].created
  BY <1>2, LifeMoves
<1>3. CASE /\ now' >= now
           /\ \A b \in Builds : deployments'[b].phase = "live" => deployments[b].phase = "live"
  <2> SUFFICES ASSUME NEW b \in Builds, deployments'[b].phase = "live"
               PROVE  /\ deployments'[b].created < now'
                      /\ \A c \in Builds \ {b} : deployments'[c].phase = "live" =>
                           deployments'[c].created # deployments'[b].created
    BY DEF CreatedApart
  <2>1. deployments[b].phase = "live" /\ deployments'[b].created = deployments[b].created
    BY <1>2, <1>3
  <2>2. deployments[b].created < now /\ deployments[b].created \in Nat
    BY <1>1, <2>1 DEF CreatedApart
  <2>3. deployments'[b].created < now'
    BY <1>1, <1>3, <2>1, <2>2
  <2>4. ASSUME NEW c \in Builds \ {b}, deployments'[c].phase = "live"
        PROVE  deployments'[c].created # deployments'[b].created
    <3>1. deployments[c].phase = "live" /\ deployments'[c].created = deployments[c].created
      BY <1>2, <1>3, <2>4
    <3> QED
      BY <1>1, <2>1, <3>1 DEF CreatedApart
  <2> QED
    BY <2>3, <2>4
<1>4. ASSUME now' = now + 1, NEW k \in Unborn, deployments'[k].created = now,
             \A b \in Builds \ {k} : deployments'[b] = deployments[b]
      PROVE  CreatedApart'
  <2>1. \A b \in Builds \ {k} : deployments'[b].phase = "live" =>
          /\ deployments[b].phase = "live" /\ deployments'[b].created = deployments[b].created
          /\ deployments[b].created < now
    BY <1>1, <1>4 DEF CreatedApart
  <2> SUFFICES ASSUME NEW b \in Builds, deployments'[b].phase = "live"
               PROVE  /\ deployments'[b].created < now'
                      /\ \A c \in Builds \ {b} : deployments'[c].phase = "live" =>
                           deployments'[c].created # deployments'[b].created
    BY DEF CreatedApart
  <2>2. deployments'[b].created < now'
    BY <1>1, <1>4, <2>1
  <2>3. ASSUME NEW c \in Builds \ {b}, deployments'[c].phase = "live"
        PROVE  deployments'[c].created # deployments'[b].created
    <3>1. CASE b = k
      BY <1>1, <1>4, <2>1, <2>3, <3>1
    <3>2. CASE c = k
      BY <1>1, <1>4, <2>1, <2>3, <3>2
    <3>3. CASE b # k /\ c # k
      BY <1>1, <2>1, <2>3, <3>3 DEF CreatedApart
    <3> QED
      BY <3>1, <3>2, <3>3
  <2> QED
    BY <2>2, <2>3
<1> QED
  BY <1>3, <1>4 DEF Clocked

\* The steps that leave the deployments alone.
LEMMA BranchFrame ==
  ASSUME BranchInv, [Next]_vars, UNCHANGED << deployments, now >>,
         \A b \in Builds : [build |-> b, row |-> db'[b]] \in DatedSnapshots,
         deplEvents' \in Seq(DatedSnapshots),
         lookup'.busy => [build |-> Head(jobEvents').build, row |-> lookup'.row] \in DatedSnapshots,
         \A t \in Tasks : t = "undeployer" => todo'[t] \in Seq(Evictions),
         calls' \in [Actors -> Seq(OutdoneCalls)]
  PROVE  BranchInv'
<1>1. LifeInv'
  BY LifeStep, BranchParts
<1>2. Unborn' = Unborn /\ Doomed' = Doomed
  BY DEF Unborn, Doomed
<1>3. Outdone' = Outdone /\ SoundSnapshots' = SoundSnapshots
  BY <1>2 DEF Outdone, OutdoneSince, SoundSnapshots
<1>4. DatedSnapshots' = DatedSnapshots /\ Evictions' = Evictions /\ OutdoneCalls' = OutdoneCalls
  BY <1>2, <1>3 DEF DatedSnapshots, OutdoneSince, Evictions, OutdoneCalls
<1>5. PlacesDated'
  BY <1>2, <1>3, <1>4, BranchParts DEF PlacesDated
<1>6. CreatedApart'
  BY BranchParts DEF CreatedApart
<1> QED
  BY <1>1, <1>5, <1>6 DEF BranchInv

\* The steps of the cluster, after which an actor may have a call less.
LEMMA BranchCluster ==
  ASSUME BranchInv, [Next]_vars, Moves, Told, Dated, OneDeployment, Spares, Clocked,
         UNCHANGED << db, lookup, todo >>, JobEventsGrow,
         calls' \in [Actors -> Seq(OutdoneCalls)]
  PROVE  BranchInv'
<1>1. LifeInv' /\ ClusterTypeOK' /\ now' \in Nat
  BY LifeStep, BranchParts DEF LifeInv, CleanupInv, TypeInv, TypeOK, ClusterTypeOK
<1>2. /\ Doomed' \subseteq Outdone' /\ OutdoneCalls \subseteq OutdoneCalls'
      /\ Evictions \subseteq Evictions' /\ DatedSnapshots \subseteq DatedSnapshots'
  BY OutdoneGrows, DatedGrows
<1>3. PlacesDated
  BY BranchParts
<1>4. \A b \in Builds : [build |-> b, row |-> db'[b]] \in DatedSnapshots'
  BY <1>2, <1>3 DEF PlacesDated
<1>5. deplEvents' \in Seq(DatedSnapshots')
  <2>1. deplEvents \in Seq(DatedSnapshots')
    BY <1>2, <1>3, SeqMono DEF PlacesDated
  <2>2. ASSUME NEW b \in Builds
        PROVE  [build |-> b, row |-> RowOf(deployments'[b])] \in DatedSnapshots'
    BY <1>1, <1>2, RowDated DEF ClusterTypeOK
  <2>3. \A e \in DatedSnapshots' : Append(deplEvents, e) \in Seq(DatedSnapshots')
    BY <2>1
  <2> QED
    BY <2>1, <2>2, <2>3 DEF Told
<1>6. lookup'.busy => [build |-> Head(jobEvents').build, row |-> lookup'.row] \in DatedSnapshots'
  <2>1. lookup.busy => jobEvents # << >>
    BY BranchParts DEF LookupOfEvent
  <2> QED
    BY <1>2, <1>3, <2>1 DEF PlacesDated, JobEventsGrow
<1>7. \A t \in Tasks : t = "undeployer" => todo'[t] \in Seq(Evictions')
  BY <1>2, <1>3, SeqMono DEF PlacesDated
<1>8. calls' \in [Actors -> Seq(OutdoneCalls')]
  <2>1. Seq(OutdoneCalls) \subseteq Seq(OutdoneCalls')
    BY <1>2, SeqMono
  <2> QED
    BY <2>1
<1>9. CreatedApart'
  BY <1>1, BranchParts, CreatedApartNext
<1> QED
  BY <1>1, <1>2, <1>4, <1>5, <1>6, <1>7, <1>8, <1>9 DEF BranchInv, PlacesDated

\* What is read of a deployment is dated, when it is read.
LEMMA ReadDated ==
  ASSUME BranchInv, UNCHANGED deployments, NEW b \in Builds
  PROVE  [build |-> b, row |-> RowOf(deployments[b])] \in DatedSnapshots
<1>1. Unborn' = Unborn /\ Doomed' = Doomed
  BY DEF Unborn, Doomed
<1>2. Outdone' = Outdone /\ SoundSnapshots' = SoundSnapshots
  BY <1>1 DEF Outdone, OutdoneSince, SoundSnapshots
<1>3. DatedSnapshots' = DatedSnapshots
  BY <1>1, <1>2 DEF DatedSnapshots, OutdoneSince
<1>4. deployments'[b] \in Deployments /\ Doomed' \subseteq Outdone'
  BY <1>1, <1>2, BranchParts DEF PlacesDated
<1> QED
  BY <1>3, <1>4, RowDated

LEMMA AbsentDated ==
  ASSUME BranchInv, NEW b \in Builds
  PROVE  [build |-> b, row |-> AbsentRow] \in DatedSnapshots
<1>1. AbsentRow \in Rows
  BY DEF AbsentRow, Rows, BuildInitStatus
<1> QED
  BY <1>1 DEF DatedSnapshots, SoundSnapshots, Snapshots, AbsentRow

LEMMA WatcherBranch ==
  ASSUME BranchInv, DeploymentWatcher
  PROVE  BranchInv'
<1>1. [Next]_vars
  BY DEF Next, Background
<1>2. /\ UNCHANGED << deployments, now, lookup, jobEvents, todo, calls >>
  BY DEF DeploymentWatcher, StartDeploymentWatch, ListDeployments, HandleDeployment,
         cluster, controller
<1>3. /\ \A b \in Builds : [build |-> b, row |-> db[b]] \in DatedSnapshots
      /\ deplEvents \in Seq(DatedSnapshots)
      /\ lookup.busy => [build |-> Head(jobEvents).build, row |-> lookup.row] \in DatedSnapshots
      /\ \A t \in Tasks : t = "undeployer" => todo[t] \in Seq(Evictions)
      /\ calls \in [Actors -> Seq(OutdoneCalls)]
      /\ db \in [Builds -> Rows]
  BY BranchParts DEF PlacesDated
<1>4. CASE StartDeploymentWatch
  <2>1. db' = EmptyTable /\ deplEvents' = deplEvents
    BY <1>4 DEF StartDeploymentWatch
  <2>2. \A b \in Builds : [build |-> b, row |-> db'[b]] \in DatedSnapshots
    BY <2>1, AbsentDated DEF EmptyTable
  <2> QED
    BY <1>1, <1>2, <1>3, <2>1, <2>2, BranchFrame
<1>5. CASE ListDeployments
  <2> DEFINE S == {b \in Builds : Present(deployments[b])}
             e(b) == [build |-> b, row |-> RowOf(deployments[b])]
  <2>1. db' = db
    BY <1>5 DEF ListDeployments, controller
  <2>2. PICK q \in SetToSeqs(S) : deplEvents' = [i \in 1 .. Len(q) |-> e(q[i])]
    BY <1>5 DEF ListDeployments
  <2>3. IsFiniteSet(S)
    BY FS_Subset, BuildsAssumption
  <2>4. Len(q) \in Nat /\ \A i \in 1 .. Len(q) : q[i] \in S
    <3> HIDE DEF S
    <3> QED
      BY <2>3, SetToSeqsType
  <2>5. \A b \in Builds : e(b) \in DatedSnapshots
    BY <1>2, ReadDated
  <2>6. \A i \in 1 .. Len(q) : e(q[i]) \in DatedSnapshots
    BY <2>4, <2>5
  <2> HIDE DEF e
  <2>7. deplEvents' \in Seq(DatedSnapshots)
    BY <2>2, <2>4, <2>6
  <2> QED
    BY <1>1, <1>2, <1>3, <2>1, <2>7, BranchFrame
<1>6. CASE HandleDeployment
  <2> DEFINE e == Head(deplEvents)
  <2>1. deplEvents # << >> /\ deplEvents' = Tail(deplEvents)
    BY <1>6 DEF HandleDeployment
  <2>2. e \in DatedSnapshots /\ Tail(deplEvents) \in Seq(DatedSnapshots)
    BY <1>3, <2>1
  <2>3. e.build \in Builds /\ e = [build |-> e.build, row |-> e.row]
    BY <2>2 DEF DatedSnapshots, SoundSnapshots, Snapshots
  <2>4. \/ db' = [db EXCEPT ![e.build] = AbsentRow]
        \/ db' = [db EXCEPT ![e.build] = e.row]
        \/ db' = db
    BY <1>6 DEF HandleDeployment, DbAdd, DbRemove, Put, Drop
  <2> HIDE DEF e
  <2>5. \A b \in Builds : db'[b] = db[b] \/ db'[b] = AbsentRow \/ (b = e.build /\ db'[b] = e.row)
    BY <1>3, <2>3, <2>4
  <2>6. \A b \in Builds : [build |-> b, row |-> db'[b]] \in DatedSnapshots
    BY <1>3, <2>2, <2>3, <2>5, AbsentDated
  <2> QED
    BY <1>1, <1>2, <1>3, <2>1, <2>2, <2>6, BranchFrame
<1> QED
  BY <1>4, <1>5, <1>6 DEF DeploymentWatcher

(***************************************************************************)
(* The calls that delete nothing.                                          *)
(***************************************************************************)
Harmless == {c \in Calls : c.op # "delete"}

LEMMA HarmlessOutdone ==
  /\ Harmless \subseteq OutdoneCalls
  /\ \A q \in Seq(Harmless) : q \in Seq(OutdoneCalls)
<1>1. Harmless \subseteq OutdoneCalls
  BY DEF Harmless, OutdoneCalls
<1> QED
  BY <1>1, SeqMono

LEMMA HarmlessCalls ==
  ASSUME NEW b \in Builds
  PROVE  /\ \A mode \in Modes : Apply(b, mode) \in Harmless
         /\ Purge(b) \in Harmless /\ Unfinalize(b) \in Harmless
         /\ \A kind \in JobKinds : Kill(b, kind) \in Harmless
         /\ \A state \in GitHubStates : Notify(b, state) \in Harmless
         /\ \A replicas : Scales(b, replicas) \subseteq Harmless
<1>1. \A mode \in Modes : Apply(b, mode) \in Harmless
  BY CallTypes DEF Harmless, Apply
<1>2. Purge(b) \in Harmless /\ Unfinalize(b) \in Harmless
  BY CallTypes DEF Harmless, Benign, Purge, Unfinalize
<1>3. /\ \A kind \in JobKinds : Kill(b, kind) \in Harmless
      /\ \A state \in GitHubStates : Notify(b, state) \in Harmless
  BY CallTypes DEF Harmless, Benign, Kill, Notify
<1> QED
  BY <1>1, <1>2, <1>3 DEF Harmless, Scales

LEMMA OnJobEventHarmless ==
  ASSUME NEW b \in Builds, NEW row \in Rows, NEW kind \in JobKinds,
         NEW state \in JobStates \ {"none"}
  PROVE  OnJobEvent(b, row, kind, state) \in Seq(OutdoneCalls)
<1>1. {Apply(b, "stop"), Purge(b), Unfinalize(b)} \subseteq Harmless
  BY HarmlessCalls DEF Modes
<1>2. \A report \in GitHubStates : Notify(b, report) \in Harmless
  BY HarmlessCalls
<1>3. \A c \in Calls : c.op = "patch" => c \in Harmless
  BY DEF Harmless
<1>4. OnJobEvent(b, row, kind, state) \in Seq(Harmless)
  BY <1>1, <1>2, <1>3, OnJobEventWithin
<1> QED
  BY <1>4, HarmlessOutdone

(***************************************************************************)
(* job_watcher deletes no deployment.                                      *)
(***************************************************************************)
LEMMA JobWatchBranch ==
  ASSUME BranchInv, JobWatch
  PROVE  BranchInv'
<1>1. [Next]_vars
  BY DEF Next, Background
<1>2. /\ UNCHANGED << deployments, now, deplEvents, todo >>
      /\ \A b \in Builds : [build |-> b, row |-> db[b]] \in DatedSnapshots
      /\ deplEvents \in Seq(DatedSnapshots)
      /\ lookup.busy => [build |-> Head(jobEvents).build, row |-> lookup.row] \in DatedSnapshots
      /\ \A t \in Tasks : t = "undeployer" => todo[t] \in Seq(Evictions)
      /\ calls \in [Actors -> Seq(OutdoneCalls)]
      /\ db \in [Builds -> Rows] /\ JobWatcher \in Actors
      /\ jobEvents \in Seq(JobEvents)
  BY BranchParts, ActorSets
     DEF PlacesDated, JobWatch, StartJobWatch, HandleJob, HandleJobLookup, cluster, controller,
         ClusterTypeOK
<1>3. ASSUME jobEvents # << >>
      PROVE  /\ Head(jobEvents).build \in Builds /\ Head(jobEvents).kind \in JobKinds
             /\ Head(jobEvents).state \in JobStates \ {"none"}
  <2>1. Head(jobEvents) \in JobEvents
    BY <1>2, <1>3
  <2> QED
    BY <2>1 DEF JobEvents
<1>4. CASE StartJobWatch
  <2>1. db' = db /\ calls' = calls /\ lookup' = lookup /\ jobWatch = "down"
    BY <1>4 DEF StartJobWatch, controller
  <2>2. ~lookup'.busy
    BY <2>1, BranchParts DEF LookupOfEvent
  <2> QED
    BY <1>1, <1>2, <2>1, <2>2, BranchFrame
<1>5. CASE HandleJob
  <2> DEFINE e == Head(jobEvents)
  <2>1. jobEvents # << >> /\ ~lookup.busy /\ db' = db
    BY <1>5 DEF HandleJob, JobWatcherIdle
  <2>2. CASE db[e.build].status # "absent"
    <3>1. OnJobEvent(e.build, db[e.build], e.kind, e.state) \in Seq(OutdoneCalls)
      BY <1>2, <1>3, <2>1, OnJobEventHarmless
    <3>2. /\ calls' = [calls EXCEPT ![JobWatcher] =
                         OnJobEvent(e.build, db[e.build], e.kind, e.state)]
          /\ lookup' = lookup
      BY <1>5, <2>2 DEF HandleJob
    <3>3. calls' \in [Actors -> Seq(OutdoneCalls)]
      BY <1>2, <3>1, <3>2
    <3> QED
      BY <1>1, <1>2, <2>1, <3>2, <3>3, BranchFrame
  <2>3. CASE db[e.build].status = "absent"
    <3>1. /\ lookup' = [busy |-> TRUE, row |-> RowOf(deployments[e.build])]
          /\ UNCHANGED << calls, jobEvents >>
      BY <1>5, <2>3 DEF HandleJob
    <3>2. [build |-> e.build, row |-> RowOf(deployments[e.build])] \in DatedSnapshots
      BY <1>2, <1>3, <2>1, ReadDated
    <3>3. [build |-> Head(jobEvents').build, row |-> lookup'.row] \in DatedSnapshots
      BY <3>1, <3>2
    <3> QED
      BY <1>1, <1>2, <2>1, <3>1, <3>3, BranchFrame
  <2> QED
    BY <2>2, <2>3
<1>6. CASE HandleJobLookup
  <2> DEFINE e == Head(jobEvents)
  <2>1. lookup.busy /\ jobEvents # << >> /\ lookup.row \in Rows
    BY <1>6, BranchParts DEF HandleJobLookup, LookupOfEvent, TypeOK, Lookups
  <2>2. lookup' = NoLookup /\ ~lookup'.busy
    BY <1>6 DEF HandleJobLookup, NoLookup
  <2>3. /\ OnJobEvent(e.build, lookup.row, e.kind, e.state) \in Seq(OutdoneCalls)
        /\ << Purge(e.build) >> \in Seq(OutdoneCalls)
    <3>1. Purge(e.build) \in OutdoneCalls
      BY <1>3, <2>1, HarmlessCalls, HarmlessOutdone
    <3>2. << Purge(e.build) >> \in Seq(OutdoneCalls)
      BY <3>1
    <3> QED
      BY <1>3, <2>1, <3>2, OnJobEventHarmless
  <2>4. \/ calls' = [calls EXCEPT ![JobWatcher] = << Purge(e.build) >>]
        \/ calls' = [calls EXCEPT ![JobWatcher] =
                       OnJobEvent(e.build, lookup.row, e.kind, e.state)]
    BY <1>6 DEF HandleJobLookup
  <2>5. calls' \in [Actors -> Seq(OutdoneCalls)]
    BY <1>2, <2>3, <2>4
  <2>6. db' = db \/ db' = [db EXCEPT ![e.build] = lookup.row]
    BY <1>6 DEF HandleJobLookup, DbAdd, Put
  <2>7. [build |-> e.build, row |-> lookup.row] \in DatedSnapshots
    BY <1>2, <2>1
  <2> HIDE DEF e
  <2>8. \A b \in Builds : db'[b] = db[b] \/ (b = e.build /\ db'[b] = lookup.row)
    BY <1>2, <2>6
  <2>9. \A b \in Builds : [build |-> b, row |-> db'[b]] \in DatedSnapshots
    BY <1>2, <2>7, <2>8
  <2> QED
    BY <1>1, <1>2, <2>2, <2>5, <2>9, BranchFrame
<1> QED
  BY <1>4, <1>5, <1>6 DEF JobWatch

(***************************************************************************)
(* The undeployer evicts a build of a branch when another row of the       *)
(* branch is row number 1, and that row says of a live build, or of one    *)
(* that is outdone, that it was created later.                             *)
(***************************************************************************)
LEMMA EvictsOutdone ==
  ASSUME BranchInv, NEW S \in RowNumberOnes(db), NEW b \in Names(db),
         b \notin S \/ Info[b].pr # NoPr
  PROVE  b \in Outdone
<1>1. /\ \A x \in Builds : [build |-> x, row |-> db[x]] \in DatedSnapshots
      /\ Doomed \subseteq Outdone
      /\ db \in [Builds -> Rows] /\ ClusterTypeOK
      /\ CreatedApart
      /\ \A x \in Builds : deployments[x].created \in Nat
  BY BranchParts DEF PlacesDated
<1>2. b \in Builds /\ b \notin Unborn
  BY <1>1 DEF Names, DatedSnapshots, SoundSnapshots
<1>3. CASE b \in Doomed \/ Info[b].pr # NoPr
  BY <1>1, <1>2, <1>3 DEF Outdone
<1>4. CASE b \notin Doomed /\ Info[b].pr = NoPr
  <2>1. PICK c \in S \intersect Partition(db, b) : TRUE
    <3>1. Cardinality(S \intersect Partition(db, b)) = 1
      BY DEF RowNumberOnes
    <3>2. S \intersect Partition(db, b) # {}
      BY <3>1, FS_EmptySet
    <3> QED
      BY <3>2
  <2>2. c \in Newest(db, b) /\ b \in Partition(db, b)
    BY <2>1 DEF RowNumberOnes, Partition
  <2>3. /\ c # b /\ db[b].created <= db[c].created
        /\ c \in Builds /\ db[c].status # "absent" /\ db[b].status # "absent"
        /\ Info[c].branch = Info[b].branch /\ Info[c].pr = NoPr
    BY <1>2, <1>4, <2>1, <2>2 DEF Newest, Partition, Names
  <2>4. /\ db[b].created = deployments[b].created
        /\ \/ c \notin Doomed /\ db[c].created = deployments[c].created
           \/ c \in Doomed /\ OutdoneSince(c, db[c].created)
        /\ c \notin Unborn /\ db[c].created \in Nat
    <3>1. ASSUME NEW x \in Builds, db[x].status # "absent", Info[x].pr = NoPr
          PROVE  /\ \/ x \notin Doomed /\ db[x].created = deployments[x].created
                    \/ x \in Doomed /\ OutdoneSince(x, db[x].created)
                 /\ x \notin Unborn
      <4> DEFINE s == [build |-> x, row |-> db[x]]
      <4>1. s \in DatedSnapshots /\ s.build = x /\ s.row = db[x]
        BY <1>1
      <4> HIDE DEF s
      <4> QED
        BY <3>1, <4>1 DEF DatedSnapshots, SoundSnapshots
    <3>2. db[c] \in Rows
      BY <1>1, <2>3
    <3> QED
      BY <1>2, <1>4, <2>3, <3>1, <3>2 DEF Rows
  <2>5. CASE c \notin Doomed
    <3>1. deployments[b].phase = "live" /\ deployments[c].phase = "live"
      BY <1>1, <1>2, <1>4, <2>3, <2>4, <2>5, Phase
    <3>2. deployments[c].created # deployments[b].created
      BY <1>1, <1>2, <2>3, <3>1 DEF CreatedApart
    <3>3. deployments[c].created > deployments[b].created
      BY <1>1, <1>2, <2>3, <2>4, <2>5, <3>2
    <3> QED
      BY <1>2, <2>3, <3>1, <3>3 DEF Outdone, OutdoneSince
  <2>6. CASE c \in Doomed
    <3>1. PICK d \in Builds : /\ deployments[d].phase = "live"
                              /\ Info[d].branch = Info[c].branch /\ Info[d].pr = NoPr
                              /\ deployments[d].created > db[c].created
      BY <2>4, <2>6 DEF OutdoneSince
    <3>2. deployments[d].created > deployments[b].created
      BY <1>1, <1>2, <2>3, <2>4, <3>1
    <3> QED
      BY <1>2, <2>3, <3>1, <3>2 DEF Outdone, OutdoneSince
  <2> QED
    BY <2>5, <2>6
<1> QED
  BY <1>3, <1>4

LEMMA SelectionsOutdone ==
  ASSUME BranchInv
  PROVE  Selections("undeployer") \subseteq Seq(Outdone)
<1> DEFINE n == Max0(CountDeployed(db) - MaxDeployed)
           R(S) == {b \in WithStatus(db, {"stopping", "stopped", "failed"}) :
                      b \notin S \/ Info[b].pr # NoPr}
<1>1. n \in Int
  <2>1. Names(db) \ WithStatus(db, {"undeploying"}) \in SUBSET Builds
    BY DEF Names
  <2>2. CountDeployed(db) \in Nat
    BY <2>1, FS_Subset, FS_CardinalityType, BuildsAssumption DEF CountDeployed
  <2> QED
    BY <2>2, LimitsAssumption DEF Max0
<1>2. ASSUME NEW S \in RowNumberOnes(db)
      PROVE  Limit(OldestFirst(R(S), LastScaled(db)), n) \subseteq Seq(Outdone)
  <2>1. R(S) \subseteq Names(db) /\ R(S) \subseteq Builds
    BY DEF WithStatus, Names
  <2>2. R(S) \subseteq Outdone
    BY <2>1, EvictsOutdone
  <2>3. IsFiniteSet(R(S))
    BY <2>1, FS_Subset, BuildsAssumption
  <2> HIDE DEF R, n
  <2>4. Limit(OldestFirst(R(S), LastScaled(db)), n) \subseteq Seq(R(S))
    BY <1>1, <2>3, OldestFirstType, LimitType
  <2> QED
    BY <2>2, <2>4, SeqMono
<1>3. Selections("undeployer") =
        UNION {Limit(OldestFirst(R(S), LastScaled(db)), n) : S \in RowNumberOnes(db)}
  BY DEF Selections, OldestStopped
<1> HIDE DEF R, n
<1> QED
  BY <1>2, <1>3

LEMMA HarmlessMethods ==
  ASSUME NEW b \in Builds, NEW row \in Rows
  PROVE  /\ Start(b, row) \in Seq(Harmless)
         /\ Stop(b, row) \in Seq(Harmless)
         /\ DeployBuild(b) \in Seq(Harmless)
         /\ Initialize(b) \in Seq(Harmless)
         /\ Cleanup(b, row) \in Seq(Harmless)
<1>1. /\ \A mode \in Modes : Apply(b, mode) \in Harmless
      /\ Purge(b) \in Harmless /\ Unfinalize(b) \in Harmless
      /\ Kill(b, "initialize") \in Harmless /\ Notify(b, "pending") \in Harmless
  BY HarmlessCalls DEF JobKinds, GitHubStates
<1>2. /\ Patch(b, row, "keep", 0, FALSE) \in Seq(Harmless)
      /\ Patch(b, row, "keep", 1, FALSE) \in Seq(Harmless)
      /\ Patch(b, row, "keep", 0, TRUE) \in Seq(Harmless)
  <2>1. Scales(b, 0) \subseteq Harmless /\ Scales(b, 1) \subseteq Harmless
    BY HarmlessCalls
  <2>2. /\ Patch(b, row, "keep", 0, FALSE) \in Seq(Scales(b, 0))
        /\ Patch(b, row, "keep", 1, FALSE) \in Seq(Scales(b, 1))
        /\ Patch(b, row, "keep", 0, TRUE) \in Seq(Scales(b, 0))
    BY ScalePatch
  <2> QED
    BY <2>1, <2>2, SeqMono
<1>3. /\ << >> \in Seq(Harmless)
      /\ \A mode \in Modes : << Apply(b, mode) >> \in Seq(Harmless)
      /\ << Kill(b, "initialize") >> \in Seq(Harmless)
  BY <1>1
<1>4. /\ << Apply(b, "deployment"), Notify(b, "pending") >> \in Seq(Harmless)
      /\ << Purge(b), Unfinalize(b) >> \in Seq(Harmless)
  <2>1. \A c, d \in Harmless : << c, d >> \in Seq(Harmless)
    OBVIOUS
  <2> QED
    BY <1>1, <2>1 DEF Modes
<1>5. << Apply(b, "start") >> \o Patch(b, row, "keep", 1, FALSE) \in Seq(Harmless)
  BY <1>2, <1>3, ConcatProperties DEF Modes
<1>6. Patch(b, row, "keep", 0, FALSE) \o << Apply(b, "stop") >> \in Seq(Harmless)
  BY <1>2, <1>3, ConcatProperties DEF Modes
<1>7. (<< Kill(b, "initialize") >> \o Patch(b, row, "keep", 0, TRUE)) \o << Apply(b, "cleanup") >>
        \in Seq(Harmless)
  <2>1. << Kill(b, "initialize") >> \o Patch(b, row, "keep", 0, TRUE) \in Seq(Harmless)
    BY <1>2, <1>3, ConcatProperties
  <2> QED
    BY <1>3, <2>1, ConcatProperties DEF Modes
<1> QED
  BY <1>3, <1>4, <1>5, <1>6, <1>7
     DEF Start, Stop, DeployBuild, Initialize, Cleanup, DeleteDeploymentResources, Modes

(***************************************************************************)
(* The tasks and the requests.                                             *)
(***************************************************************************)
LEMMA TaskBranch ==
  ASSUME BranchInv, NEW t \in Tasks, Pass(t) \/ NextBuild(t)
  PROVE  BranchInv'
<1>1. [Next]_vars
  BY DEF Next, Background
<1>2. /\ UNCHANGED << deployments, now, deplEvents, jobEvents, db, lookup >>
      /\ \A b \in Builds : [build |-> b, row |-> db[b]] \in DatedSnapshots
      /\ deplEvents \in Seq(DatedSnapshots)
      /\ lookup.busy => [build |-> Head(jobEvents).build, row |-> lookup.row] \in DatedSnapshots
      /\ \A k \in Tasks : k = "undeployer" => todo[k] \in Seq(Evictions)
      /\ calls \in [Actors -> Seq(OutdoneCalls)]
      /\ todo \in [Tasks -> Seq(Snapshots)] /\ t \in Actors
      /\ db \in [Builds -> Rows]
  BY BranchParts, ActorSets DEF PlacesDated, Pass, NextBuild, clusterVars
<1>3. CASE Pass(t)
  <2> DEFINE list(q) == [i \in 1 .. Len(q) |-> [build |-> q[i], row |-> db[q[i]]]]
  <2>1. PICK q \in Selections(t) : todo' = [todo EXCEPT ![t] = list(q)]
    BY <1>3 DEF Pass
  <2>2. ASSUME t = "undeployer"
        PROVE  list(q) \in Seq(Evictions)
    <3>1. q \in Seq(Outdone)
      BY <2>1, <2>2, SelectionsOutdone
    <3>2. Len(q) \in Nat /\ \A i \in 1 .. Len(q) : q[i] \in Outdone
      BY <3>1
    <3>3. \A b \in Outdone : [build |-> b, row |-> db[b]] \in Evictions
      BY <1>2 DEF Evictions, Snapshots, Outdone
    <3> QED
      BY <3>2, <3>3
  <2> HIDE DEF list
  <2>3. \A k \in Tasks : k = "undeployer" => todo'[k] \in Seq(Evictions)
    BY <1>2, <2>1, <2>2
  <2>4. calls' = calls
    BY <1>3 DEF Pass
  <2> QED
    BY <1>1, <1>2, <2>3, <2>4, BranchFrame
<1>4. CASE NextBuild(t)
  <2> DEFINE s == Head(todo[t])
  <2>1. /\ todo[t] # << >> /\ todo' = [todo EXCEPT ![t] = Tail(todo[t])]
        /\ calls' = [calls EXCEPT ![t] = MethodOf(t, s.build, s.row)]
    BY <1>2, <1>4 DEF NextBuild
  <2>2. s \in Snapshots /\ (t = "undeployer" => s \in Evictions /\ Tail(todo[t]) \in Seq(Evictions))
    BY <1>2, <2>1
  <2> HIDE DEF s
  <2>3. s.build \in Builds /\ s.row \in Rows /\ (t = "undeployer" => s.build \in Outdone)
    BY <2>2 DEF Snapshots, Evictions
  <2>4. MethodOf(t, s.build, s.row) \in Seq(OutdoneCalls)
    <3>1. CASE t = "undeployer"
      <4>1. Delete(s.build) \in OutdoneCalls
        BY <2>3, <3>1, CallTypes DEF OutdoneCalls, Delete, Benign
      <4>2. << Delete(s.build) >> \in Seq(OutdoneCalls)
        BY <4>1
      <4> QED
        BY <3>1, <4>2 DEF MethodOf, Undeploy
    <3>2. CASE t \in {"cleaner", "initializer", "stopper"}
      <4>1. MethodOf(t, s.build, s.row) \in Seq(Harmless)
        BY <2>3, <3>2, HarmlessMethods DEF MethodOf
      <4> QED
        BY <4>1, HarmlessOutdone
    <3> QED
      BY <3>1, <3>2, TasksAssumption
  <2>5. calls' \in [Actors -> Seq(OutdoneCalls)]
    BY <1>2, <2>1, <2>4
  <2>6. \A k \in Tasks : k = "undeployer" => todo'[k] \in Seq(Evictions)
    BY <1>2, <2>1, <2>2
  <2> QED
    BY <1>1, <1>2, <2>5, <2>6, BranchFrame
<1> QED
  BY <1>3, <1>4

LEMMA RequestBranch ==
  ASSUME BranchInv, NEW c \in Clients, ClientRequest(c)
  PROVE  BranchInv'
<1>1. [Next]_vars
  BY DEF Next
<1>2. /\ \A b \in Builds : [build |-> b, row |-> db[b]] \in DatedSnapshots
      /\ deplEvents \in Seq(DatedSnapshots)
      /\ lookup.busy => [build |-> Head(jobEvents).build, row |-> lookup.row] \in DatedSnapshots
      /\ \A k \in Tasks : k = "undeployer" => todo[k] \in Seq(Evictions)
      /\ calls \in [Actors -> Seq(OutdoneCalls)]
      /\ c \in Actors /\ db \in [Builds -> Rows]
      /\ "reset" \notin ClientOps /\ "undeploy" \notin ClientOps
  BY BranchParts, ActorSets DEF PlacesDated, BranchInv, LifeInv, CleanupInv
<1>3. ASSUME NEW op, NEW list \in Seq(OutdoneCalls), Request(c, op, list)
      PROVE  BranchInv'
  <2>1. /\ UNCHANGED << deployments, now, deplEvents, jobEvents, db, lookup, todo >>
        /\ calls' = [calls EXCEPT ![c] = list]
    BY <1>3 DEF Request, clusterVars
  <2>2. calls' \in [Actors -> Seq(OutdoneCalls)]
    BY <1>2, <1>3, <2>1
  <2> QED
    BY <1>1, <1>2, <2>1, <2>2, BranchFrame
<1>4. ASSUME NEW b \in Builds, DeployCommit(c, b) \/ StartBuild(c, b) \/ StopBuild(c, b)
      PROVE  BranchInv'
  <2>1. /\ DeployBuild(b) \in Seq(OutdoneCalls) /\ Start(b, db[b]) \in Seq(OutdoneCalls)
        /\ Stop(b, db[b]) \in Seq(OutdoneCalls)
    BY <1>2, HarmlessMethods, HarmlessOutdone
  <2> QED
    BY <1>3, <1>4, <2>1 DEF DeployCommit, StartBuild, StopBuild
<1>5. ASSUME NEW b \in Builds, ResetBuild(c, b) \/ UndeployBuild(c, b)
      PROVE  BranchInv'
  BY <1>2, <1>5 DEF ResetBuild, UndeployBuild, Request
<1>6. ASSUME NEW pr, UndeployBuilds(c, pr)
      PROVE  BranchInv'
  <2> DEFINE S == {b \in Names(db) : Info[b].pr = pr}
             list(q) == [i \in 1 .. Len(q) |-> Delete(q[i])]
  <2>1. PICK q \in SearchPr(db, pr) : Request(c, "close", list(q))
    BY <1>6 DEF UndeployBuilds
  <2>2. IsFiniteSet(S) /\ S \subseteq Builds
    BY FS_Subset, BuildsAssumption DEF Names
  <2>3. q \in SetToSeqs(S)
    BY <2>1 DEF SearchPr
  <2>4. Len(q) \in Nat /\ \A i \in 1 .. Len(q) : q[i] \in S
    <3> HIDE DEF S
    <3> QED
      BY <2>2, <2>3, SetToSeqsType
  <2>5. ASSUME NEW b \in S
        PROVE  Delete(b) \in OutdoneCalls
    <3>1. b \in Builds /\ b \notin Unborn /\ Info[b].pr # NoPr
      BY <1>2, <1>6 DEF Names, DatedSnapshots, SoundSnapshots, UndeployBuilds
    <3> QED
      BY <3>1, CallTypes DEF OutdoneCalls, Outdone, Delete, Benign
  <2>6. \A i \in 1 .. Len(q) : Delete(q[i]) \in OutdoneCalls
    BY <2>4, <2>5
  <2>7. list(q) \in Seq(OutdoneCalls)
    BY <2>4, <2>6
  <2> HIDE DEF list
  <2> QED
    BY <1>3, <2>1, <2>7
<1> QED
  BY <1>4, <1>5, <1>6 DEF ClientRequest

(***************************************************************************)
(* Calls, the environment and faults.                                      *)
(***************************************************************************)
LEMMA AbortBranch ==
  ASSUME BranchInv, [Next]_vars, NEW a \in Actors, calls[a] # << >>, Abort(a),
         UNCHANGED << deployments, now, deplEvents, db, lookup >>
  PROVE  BranchInv'
<1>1. /\ \A b \in Builds : [build |-> b, row |-> db[b]] \in DatedSnapshots
      /\ deplEvents \in Seq(DatedSnapshots)
      /\ lookup.busy => [build |-> Head(jobEvents).build, row |-> lookup.row] \in DatedSnapshots
      /\ \A k \in Tasks : k = "undeployer" => todo[k] \in Seq(Evictions)
      /\ calls \in [Actors -> Seq(OutdoneCalls)]
      /\ todo \in [Tasks -> Seq(Snapshots)]
  BY BranchParts DEF PlacesDated
<1>2. calls' \in [Actors -> Seq(OutdoneCalls)]
  <2>1. << >> \in Seq(OutdoneCalls)
    OBVIOUS
  <2> QED
    BY <1>1, <2>1 DEF Abort
<1>3. \A k \in Tasks : k = "undeployer" => todo'[k] \in Seq(Evictions)
  <2>1. << >> \in Seq(Evictions)
    OBVIOUS
  <2> QED
    BY <1>1, <2>1 DEF Abort
<1>4. lookup.busy => jobEvents' = jobEvents
  BY BranchParts DEF Abort, LookupOfEvent
<1> QED
  BY <1>1, <1>2, <1>3, <1>4, BranchFrame

LEMMA CallBranch ==
  ASSUME BranchInv, NEW a \in Actors, Call(a)
  PROVE  BranchInv'
<1> DEFINE c == Head(calls[a])
<1>1. [Next]_vars /\ LifeInv
  BY BranchParts DEF Next, Background
<1>2. /\ calls[a] # << >> /\ UNCHANGED << db, lookup >>
      /\ calls \in [Actors -> Seq(OutdoneCalls)]
  BY BranchParts DEF Call, PlacesDated
<1>3. CASE ~Raises(c) /\ Perform(c)
           /\ calls' = [calls EXCEPT ![a] = Tail(calls[a])] /\ UNCHANGED todo
  <2>1. Moves /\ Told /\ Dated
    BY <1>1, <1>2, <1>3, PerformMoves, PerformTold
  <2>2. OneDeployment /\ Spares /\ Clocked
    BY <1>1, <1>2, <1>3, <2>1, StepAdvances, PerformSpares, PerformClocked DEF BranchInv
  <2>3. JobEventsGrow
    BY <1>3, BranchParts, PerformGrows
  <2>4. Tail(calls[a]) \in Seq(OutdoneCalls)
    BY <1>2
  <2>5. calls' \in [Actors -> Seq(OutdoneCalls)]
    BY <1>2, <1>3, <2>4
  <2> QED
    BY <1>1, <1>2, <1>3, <2>1, <2>2, <2>3, <2>5, BranchCluster
<1>4. CASE Abort(a) /\ UNCHANGED << cluster, deplWatch, deplEvents, now >>
  BY <1>1, <1>2, <1>4, AbortBranch DEF cluster
<1> QED
  BY <1>3, <1>4 DEF Call

LEMMA EnvironmentBranch ==
  ASSUME BranchInv, Environment, UNCHANGED << controller, requests, faults >>
  PROVE  BranchInv'
<1>1. [Next]_vars /\ LifeInv
  BY BranchParts DEF Next, Background
<1>2. Moves /\ Told /\ Dated /\ OneDeployment
  BY <1>1, EnvironmentMoves, EnvironmentTold, StepAdvances
<1>3. Spares /\ Clocked /\ JobEventsGrow
  BY <1>2, BranchParts, EnvironmentSpares, EnvironmentGrows
<1>4. UNCHANGED << db, lookup, todo, calls >> /\ calls' \in [Actors -> Seq(OutdoneCalls)]
  BY BranchParts DEF controller, PlacesDated
<1> QED
  BY <1>1, <1>2, <1>3, <1>4, BranchCluster

LEMMA FaultBranch ==
  ASSUME BranchInv, Faults
  PROVE  BranchInv'
<1>1. [Next]_vars
  BY DEF Next, Background
<1>2. /\ \A b \in Builds : [build |-> b, row |-> db[b]] \in DatedSnapshots
      /\ deplEvents \in Seq(DatedSnapshots)
      /\ lookup.busy => [build |-> Head(jobEvents).build, row |-> lookup.row] \in DatedSnapshots
      /\ \A k \in Tasks : k = "undeployer" => todo[k] \in Seq(Evictions)
      /\ calls \in [Actors -> Seq(OutdoneCalls)]
  BY BranchParts DEF PlacesDated
<1>3. /\ << >> \in Seq(DatedSnapshots) /\ << >> \in Seq(Evictions)
      /\ << >> \in Seq(OutdoneCalls)
  OBVIOUS
<1>4. ASSUME NEW a \in Actors, CallFails(a)
      PROVE  BranchInv'
  BY <1>1, <1>4, AbortBranch DEF CallFails, cluster
<1>5. CASE DeploymentWatchBreaks
  <2>1. /\ UNCHANGED << deployments, now, jobEvents, db, todo, calls, lookup >>
        /\ deplEvents' = << >>
    BY <1>5 DEF DeploymentWatchBreaks, cluster, controller
  <2> QED
    BY <1>1, <1>2, <1>3, <2>1, BranchFrame
<1>6. CASE JobWatchBreaks
  <2>1. UNCHANGED << deployments, now, deplEvents, db, todo, calls, lookup >> /\ ~lookup.busy
    BY <1>6 DEF JobWatchBreaks, JobWatcherIdle, cluster, controller
  <2> QED
    BY <1>1, <1>2, <2>1, BranchFrame
<1>7. CASE ControllerRestarts
  <2>1. /\ UNCHANGED << deployments, now >>
        /\ deplEvents' = << >> /\ db' = EmptyTable /\ lookup' = NoLookup
        /\ todo' = [t \in Tasks |-> << >>] /\ calls' = [a \in Actors |-> << >>]
    BY <1>7 DEF ControllerRestarts, cluster
  <2>2. \A b \in Builds : [build |-> b, row |-> db'[b]] \in DatedSnapshots
    BY <2>1, AbsentDated DEF EmptyTable
  <2>3. ~lookup'.busy
    BY <2>1 DEF NoLookup
  <2>4. /\ \A k \in Tasks : todo'[k] \in Seq(Evictions)
        /\ calls' \in [Actors -> Seq(OutdoneCalls)]
    BY <1>3, <2>1
  <2> QED
    BY <1>1, <1>3, <2>1, <2>2, <2>3, <2>4, BranchFrame
<1> QED
  BY <1>4, <1>5, <1>6, <1>7 DEF Faults

(***************************************************************************)
(* The theorem.                                                            *)
(***************************************************************************)
LEMMA BranchInit ==
  ASSUME Init, "reset" \notin ClientOps, "undeploy" \notin ClientOps, ~SameSecond
  PROVE  BranchInv
<1>1. LifeInv
  BY LifeInit
<1>2. /\ deployments = [b \in Builds |-> NoDeployment("unborn")]
      /\ deplEvents = << >> /\ db = EmptyTable /\ lookup = NoLookup
      /\ todo = [t \in Tasks |-> << >>] /\ calls = [a \in Actors |-> << >>]
  BY DEF Init, ClusterInit, ClusterBlank, ControllerBlank
<1>3. \A b \in Builds : deployments[b].phase = "unborn"
  BY <1>2 DEF NoDeployment
<1>4. Doomed = {} /\ CreatedApart
  BY <1>3 DEF Doomed, CreatedApart
<1>5. ASSUME NEW b \in Builds
      PROVE  [build |-> b, row |-> db[b]] \in DatedSnapshots
  <2>1. db[b] = AbsentRow /\ AbsentRow \in Rows
    BY <1>2 DEF EmptyTable, AbsentRow, Rows, BuildInitStatus
  <2> QED
    BY <2>1 DEF DatedSnapshots, SoundSnapshots, Snapshots, AbsentRow
<1>6. /\ << >> \in Seq(DatedSnapshots) /\ << >> \in Seq(Evictions)
      /\ << >> \in Seq(OutdoneCalls)
  OBVIOUS
<1>7. PlacesDated
  BY <1>2, <1>4, <1>5, <1>6 DEF PlacesDated, NoLookup
<1> QED
  BY <1>1, <1>4, <1>7 DEF BranchInv

LEMMA BranchStep ==
  ASSUME BranchInv, [Next]_vars
  PROVE  BranchInv'
<1>1. CASE DeploymentWatcher
  BY <1>1, WatcherBranch
<1>2. CASE JobWatch
  BY <1>2, JobWatchBranch
<1>3. ASSUME NEW t \in Tasks, Pass(t) \/ NextBuild(t)
      PROVE  BranchInv'
  BY <1>3, TaskBranch
<1>4. ASSUME NEW a \in Actors, Call(a)
      PROVE  BranchInv'
  BY <1>4, CallBranch
<1>5. CASE Environment /\ UNCHANGED << controller, requests, faults >>
  BY <1>5, EnvironmentBranch
<1>6. CASE Faults
  BY <1>6, FaultBranch
<1>7. ASSUME NEW c \in Clients, ClientRequest(c)
      PROVE  BranchInv'
  BY <1>7, RequestBranch
<1>8. CASE UNCHANGED vars
  <2>1. UNCHANGED << deployments, now, deplEvents, db, todo, jobEvents, calls, lookup >>
    BY <1>8 DEF vars, clusterVars
  <2> QED
    BY <2>1, BranchParts, BranchFrame DEF PlacesDated
<1> QED
  BY <1>1, <1>2, <1>3, <1>4, <1>5, <1>6, <1>7, <1>8 DEF Next, Background, Wait

\* No step takes down a build that is not outdone.
LEMMA StepSpares ==
  ASSUME BranchInv, [Next]_vars
  PROVE  Spares
<1>1. LifeInv
  BY BranchParts
<1>2. CASE deployments' = deployments
  BY <1>2 DEF Spares
<1>3. ASSUME NEW a \in Actors, Call(a)
      PROVE  Spares
  <2>1. CASE calls[a] # << >> /\ Perform(Head(calls[a]))
    BY <2>1, PerformSpares
  <2> QED
    BY <1>2, <1>3, <2>1 DEF Call, cluster
<1>4. CASE Environment
  BY <1>4, BranchParts, EnvironmentSpares
<1>5. CASE DeploymentWatcher \/ JobWatch \/ Faults \/ Wait \/ UNCHANGED vars
  BY <1>2, <1>5
     DEF DeploymentWatcher, StartDeploymentWatch, ListDeployments, HandleDeployment, JobWatch,
         StartJobWatch, HandleJob, HandleJobLookup, Faults, CallFails, DeploymentWatchBreaks,
         JobWatchBreaks, ControllerRestarts, Wait, cluster, vars, clusterVars
<1>6. ASSUME NEW t \in Tasks, Pass(t) \/ NextBuild(t)
      PROVE  deployments' = deployments
  BY <1>6 DEF Pass, NextBuild, clusterVars
<1>7. ASSUME NEW c \in Clients, ClientRequest(c)
      PROVE  deployments' = deployments
  BY <1>1, <1>7, RequestCalls DEF clusterVars
<1> QED
  BY <1>2, <1>3, <1>4, <1>5, <1>6, <1>7 DEF Next, Background

LEMMA NewestSpared ==
  ASSUME BranchInv, [Next]_vars, NEW b \in Builds, Live(b), ~Live(b)', Info[b].pr = NoPr
  PROVE  \E c \in Builds \ {b} :
           /\ Live(c)
           /\ Info[c].branch = Info[b].branch /\ Info[c].pr = NoPr
           /\ deployments[c].created > deployments[b].created
<1>1. b \in Outdone /\ deployments[b].phase = "live"
  BY StepSpares DEF Spares, Live
<1>2. OutdoneSince(b, deployments[b].created)
  BY <1>1 DEF Outdone
<1>3. PICK c \in Builds : /\ deployments[c].phase = "live"
                          /\ Info[c].branch = Info[b].branch /\ Info[c].pr = NoPr
                          /\ deployments[c].created > deployments[b].created
  BY <1>2 DEF OutdoneSince
<1>4. deployments[b].created \in Nat
  BY BranchParts
<1>5. c # b
  BY <1>3, <1>4
<1> QED
  BY <1>3, <1>5 DEF Live

\* The eviction never takes the most recent build of a branch: the undeployer
\* deletes builds one at a time from a list that it made from rows, while
\* builds are deployed, evicted and removed, calls fail, watches break and the
\* controller restarts, yet each time a more recent build of the branch is
\* live (oldest_stopped and undeployer).  Nobody undeploys or resets a build
\* of a branch by hand, and creation times are distinct: sqlite orders the
\* rows of one second as it likes.
THEOREM EvictionsKeepNewest ==
  ASSUME "reset" \notin ClientOps, "undeploy" \notin ClientOps, ~SameSecond
  PROVE  Spec => NewestOfBranchKept
<1>1. Init => BranchInv
  BY BranchInit
<1>2. BranchInv /\ [Next]_vars => BranchInv'
  BY BranchStep
<1>3. BranchInv /\ [Next]_vars =>
        [\A b \in Builds :
           Live(b) /\ ~Live(b)' /\ Info[b].pr = NoPr =>
             \E c \in Builds \ {b} :
               /\ Live(c)
               /\ Info[c].branch = Info[b].branch /\ Info[c].pr = NoPr
               /\ deployments[c].created > deployments[b].created]_vars
  BY NewestSpared
<1> QED
  BY <1>1, <1>2, <1>3, PTL DEF Spec, NewestOfBranchKept
=============================================================================
