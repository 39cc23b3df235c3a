--------------------------- MODULE EvidenceProofs ---------------------------
(***************************************************************************)
(* What the controller has on its way, and what it writes on deployments,  *)
(* agrees with what the jobs did, as long as nobody asks for a reset.      *)
(*                                                                         *)
(* Nothing is decided from the deployment itself: an outcome travels from  *)
(* the job as an event, from there as a patch of job_watcher into the      *)
(* annotation, as an event into the db, and from a row of the db into a    *)
(* start.  The inductive invariant says of each of these places that what  *)
(* it holds is still true of the build, or the build is doomed; the rest   *)
(* is about the order of what job_watcher has before it.                   *)
(***************************************************************************)
EXTENDS ControllerProofs

Outcomes == {"succeeded", "failed"}

\* The outcome that a commit status reports.
Reports == [success |-> "succeeded", failure |-> "failed"]

(***************************************************************************)
(* The snapshots, events and calls that are true of the state as it is.    *)
(***************************************************************************)
SoundSnapshots ==
  {s \in Snapshots :
     /\ s.row.status # "absent" => s.build \notin Unborn
     /\ s.row.status \in {"stopped", "stopping"} =>
          s.build \in Doomed \/ deployments[s.build].init = "succeeded"}

\* What a task has selected was in the db.
Selected == {s \in SoundSnapshots : s.build \notin Unborn}

SoundJobEvents ==
  {e \in JobEvents :
     /\ e.build \notin Unborn
     /\ e.kind = "cleanup" => e.build \in Doomed
     /\ e.kind = "initialize" /\ e.state \in Outcomes =>
          e.build \in Doomed \/ jobs[e.build]["initialize"] = e.state}

SoundPatch(c) ==
  /\ c.init # "todo"
  /\ c.init \in Outcomes => c.build \in Doomed \/ jobs[c.build]["initialize"] = c.init
  /\ c.replicas = 1 => c.build \in Doomed \/ deployments[c.build].init = "succeeded"

SoundCalls ==
  {c \in Calls :
     /\ c.op = "apply" /\ c.mode \in JobKinds => c.build \notin Unborn
     /\ c.op \in {"kill", "purge", "unfinalize"} => c.build \in Doomed
     /\ c.op = "kill" => c.kind = "initialize"
     /\ c.op = "patch" => SoundPatch(c)}

PlacesSound ==
  /\ \A b \in Builds : [build |-> b, row |-> db[b]] \in SoundSnapshots
  /\ deplEvents \in Seq(SoundSnapshots)
  /\ todo \in [Tasks -> Seq(Selected)]
  /\ jobEvents \in Seq(SoundJobEvents)
  /\ calls \in [Actors -> Seq(SoundCalls)]

LookupSound ==
  lookup.busy =>
    /\ [build |-> Head(jobEvents).build, row |-> lookup.row] \in SoundSnapshots
    /\ lookup.row.status = "absent" => deployments[Head(jobEvents).build].phase = "gone"

\* What GitHub shows of a build: the status of its commit, if the build posted it.
Shown(statuses, b) ==
  LET status == statuses[Info[b].commit] IN
  IF status.build = b THEN status.state ELSE "none"

\* A name that was not used yet is blank; what is deployed has its finalizer,
\* the marks of the job's outcome, and runs only if it is initialized.
BuildSound(b) ==
  LET d == deployments[b]
      job == jobs[b]["initialize"]
  IN
  /\ Present(d) => d.finalizer
  /\ b \in Unborn => d.init = "todo" /\ d.replicas = 0 /\ \A k \in JobKinds : jobs[b][k] = "none"
  /\ b \notin Doomed =>
       /\ d.init \in Outcomes => job = d.init
       /\ d.replicas = 1 => d.init = "succeeded"
       /\ job = "succeeded" => b \in databases
       /\ Shown(github, b) \in DOMAIN Reports => d.init = Reports[Shown(github, b)]

SoundInv == PlacesSound /\ LookupSound /\ \A b \in Builds : BuildSound(b)

(***************************************************************************)
(* The order of what job_watcher has before it.  Only job_watcher writes   *)
(* outcomes: the mark comes before the report, and once an outcome is      *)
(* marked or on its way, no event of the job's start is left.              *)
(***************************************************************************)
Marks(c, b, state) == c.op = "patch" /\ c.build = b /\ c.init = state
Concludes(c, b) == \E state \in Outcomes : Marks(c, b, state)

PlainCalls ==
  {c \in Calls :
     /\ c.op = "patch" => c.init = "keep"
     /\ c.op = "notify" => c.state = "pending"
     /\ c.op = "purge" => NoCleanupJob}

OthersPlain == \A a \in Actors \ {JobWatcher} : calls[a] \in Seq(PlainCalls)

\* Nothing of the outcome of b's job has been marked, or is about to be.
Unconcluded(b) ==
  /\ deployments[b].init \notin Outcomes
  /\ \A i \in 1 .. Len(calls[JobWatcher]) : ~Concludes(calls[JobWatcher][i], b)

IsInit(e, b, states) == e.kind = "initialize" /\ e.build = b /\ e.state \in states

StartsInOrder ==
  \A b \in Builds \ Doomed : \A j \in 1 .. Len(jobEvents) :
    IsInit(jobEvents[j], b, {"active"}) =>
      /\ Unconcluded(b)
      /\ \A i \in 1 .. Len(jobEvents) : i < j => ~IsInit(jobEvents[i], b, Outcomes)

MarksInOrder ==
  \A b \in Builds \ Doomed : \A i \in 1 .. Len(calls[JobWatcher]) :
    Marks(calls[JobWatcher][i], b, "started") => Unconcluded(b)

ReportsInOrder ==
  \A b \in Builds \ Doomed : \A i \in 1 .. Len(calls[JobWatcher]) :
    LET c == calls[JobWatcher][i] IN
    c.op = "notify" /\ c.build = b /\ c.state \in DOMAIN Reports =>
      \/ deployments[b].init = Reports[c.state]
      \/ \E j \in 1 .. Len(calls[JobWatcher]) :
           j < i /\ Marks(calls[JobWatcher][j], b, Reports[c.state])

OrderInv == OthersPlain /\ StartsInOrder /\ MarksInOrder /\ ReportsInOrder

LifeInv == CleanupInv /\ SoundInv /\ OrderInv


(***************************************************************************)
(* How a step moves a build: its deployment goes through its life in one   *)
(* direction, its outcome is that of its job and stays, and its job goes   *)
(* from none to its outcome as long as the build is not doomed.            *)
(***************************************************************************)
Advances(b) ==
  LET d == deployments[b]
      e == deployments'[b]
  IN
  /\ Present(e) => e.finalizer
  /\ << d.phase, e.phase >> \in
       { << "unborn", "unborn" >>, << "unborn", "live" >>, << "live", "live" >>,
         << "live", "deleting" >>, << "deleting", "deleting" >>, << "deleting", "gone" >>,
         << "gone", "gone" >> }
  /\ d.phase = "unborn" => e.init = "todo" /\ e.replicas = 0
  /\ d.phase = "live" /\ e.phase = "live" =>
       /\ d.init \in Outcomes => e.init = d.init
       /\ e.init \in Outcomes => jobs[b]["initialize"] = e.init
       /\ e.init = "todo" => d.init = "todo"
       /\ e.replicas = 1 => d.init = "succeeded"

JobAdvances(b) ==
  LET before == jobs[b]["initialize"]
      after == jobs'[b]["initialize"]
  IN
  /\ b \in Unborn' => \A k \in JobKinds : jobs'[b][k] = "none"
  /\ b \notin Doomed' =>
       /\ \/ after = before
          \/ before = "none" /\ after = "active"
          \/ before = "active" /\ after \in Outcomes
       /\ after = "succeeded" => b \in databases'
       /\ Shown(github', b) \in DOMAIN Reports => deployments'[b].init = Reports[Shown(github', b)]

Moves == \A b \in Builds : Advances(b) /\ JobAdvances(b)

LEMMA InvParts ==
  ASSUME LifeInv
  PROVE  /\ CleanupInv /\ TypeOK /\ ClusterTypeOK /\ LookupOfEvent /\ FateInv
         /\ PlacesSound /\ LookupSound /\ OrderInv
         /\ \A b \in Builds : BuildSound(b)
         /\ deployments \in [Builds -> Deployments]
         /\ jobs \in [Builds -> [JobKinds -> JobStates]]
         /\ JobWatcher \in Actors
BY ActorSets DEF LifeInv, SoundInv, CleanupInv, TypeInv, TypeOK, ClusterTypeOK

\* The phases in which a build is unborn or doomed.
LEMMA Phase ==
  ASSUME ClusterTypeOK, NEW b \in Builds
  PROVE  /\ deployments[b] \in Deployments
         /\ deployments[b].phase \in Phases
         /\ deployments[b].init \in BuildInitStatus
         /\ deployments[b].replicas \in {0, 1}
         /\ b \in Unborn <=> deployments[b].phase = "unborn"
         /\ b \in Doomed <=> deployments[b].phase \in {"deleting", "gone"}
         /\ b \notin Doomed /\ b \notin Unborn <=> deployments[b].phase = "live"
BY DEF ClusterTypeOK, Deployments, Doomed, Unborn, Phases

LEMMA PhaseNext ==
  ASSUME NEW b \in Builds
  PROVE  /\ b \in Unborn' <=> deployments'[b].phase = "unborn"
         /\ b \in Doomed' <=> deployments'[b].phase \in {"deleting", "gone"}
BY DEF Doomed, Unborn

\* A deployment that does not change.
LEMMA AdvancesSame ==
  ASSUME LifeInv, NEW b \in Builds, deployments'[b] = deployments[b]
  PROVE  Advances(b)
<1>1. BuildSound(b) /\ ClusterTypeOK
  BY InvParts
<1> QED
  BY <1>1, Phase DEF BuildSound, Advances, Phases, BuildInitStatus, Outcomes

\* A step that leaves the cluster alone moves nothing.
LEMMA Stays ==
  ASSUME LifeInv, UNCHANGED << deployments, jobs, databases, github >>
  PROVE  Moves
<1>1. ASSUME NEW b \in Builds
      PROVE  Advances(b) /\ JobAdvances(b)
  <2>1. BuildSound(b) /\ ClusterTypeOK
    BY InvParts
  <2>2. Unborn' = Unborn /\ Doomed' = Doomed /\ Shown(github', b) = Shown(github, b)
    BY DEF Unborn, Doomed, Shown
  <2>3. Advances(b)
    BY AdvancesSame
  <2>4. JobAdvances(b)
    BY <2>1, <2>2 DEF BuildSound, JobAdvances
  <2> QED
    BY <2>3, <2>4
<1> QED
  BY <1>1 DEF Moves

(***************************************************************************)
(* What is true stays true when builds move.                               *)
(***************************************************************************)
LEMMA AdvancesPhase ==
  ASSUME ClusterTypeOK, NEW b \in Builds, Advances(b)
  PROVE  /\ b \in Doomed => b \in Doomed'
         /\ b \in Unborn' => b \in Unborn
         /\ deployments[b].phase = "gone" => deployments'[b].phase = "gone"
         /\ b \notin Doomed' /\ b \notin Unborn =>
              deployments[b].phase = "live" /\ deployments'[b].phase = "live"
<1>1. << deployments[b].phase, deployments'[b].phase >> \in
       { << "unborn", "unborn" >>, << "unborn", "live" >>, << "live", "live" >>,
         << "live", "deleting" >>, << "deleting", "deleting" >>, << "deleting", "gone" >>,
         << "gone", "gone" >> }
  BY DEF Advances
<1> QED
  BY <1>1, Phase, PhaseNext

LEMMA MovesEvidence ==
  ASSUME LifeInv, Moves, NEW b \in Builds
  PROVE  /\ b \in Doomed => b \in Doomed'
         /\ b \in Unborn' => b \in Unborn
         /\ deployments[b].phase = "gone" => deployments'[b].phase = "gone"
         /\ b \notin Doomed' =>
              /\ deployments[b].init \in Outcomes => deployments'[b].init = deployments[b].init
              /\ jobs[b]["initialize"] \in Outcomes =>
                   jobs'[b]["initialize"] = jobs[b]["initialize"]
<1>1. Advances(b) /\ JobAdvances(b) /\ BuildSound(b) /\ ClusterTypeOK
  BY InvParts DEF Moves
<1>2. /\ b \in Doomed => b \in Doomed'
      /\ b \in Unborn' => b \in Unborn
      /\ deployments[b].phase = "gone" => deployments'[b].phase = "gone"
      /\ b \notin Doomed' /\ b \notin Unborn =>
           deployments[b].phase = "live" /\ deployments'[b].phase = "live"
  BY <1>1, AdvancesPhase
<1>3. ASSUME b \notin Doomed', deployments[b].init \in Outcomes
      PROVE  deployments'[b].init = deployments[b].init
  <2>1. b \notin Unborn
    BY <1>1, <1>3 DEF BuildSound, Outcomes
  <2> QED
    BY <1>1, <1>2, <1>3, <2>1 DEF Advances
<1>4. ASSUME b \notin Doomed', jobs[b]["initialize"] \in Outcomes
      PROVE  jobs'[b]["initialize"] = jobs[b]["initialize"]
  BY <1>1, <1>4 DEF JobAdvances, Outcomes
<1> QED
  BY <1>2, <1>3, <1>4

LEMMA SoundGrows ==
  ASSUME LifeInv, Moves
  PROVE  /\ SoundSnapshots \subseteq SoundSnapshots'
         /\ Selected \subseteq Selected'
         /\ SoundJobEvents \subseteq SoundJobEvents'
         /\ SoundCalls \subseteq SoundCalls'
<1>1. ASSUME NEW s \in SoundSnapshots
      PROVE  s \in SoundSnapshots'
  <2>1. s \in Snapshots /\ s.build \in Builds
    BY DEF SoundSnapshots, Snapshots
  <2>2. s.row.status # "absent" => s.build \notin Unborn'
    BY <2>1, MovesEvidence DEF SoundSnapshots
  <2>3. s.row.status \in {"stopped", "stopping"} =>
          s.build \in Doomed' \/ deployments'[s.build].init = "succeeded"
    BY <2>1, MovesEvidence DEF SoundSnapshots, Outcomes
  <2> QED
    BY <2>1, <2>2, <2>3 DEF SoundSnapshots
<1>2. ASSUME NEW s \in Selected
      PROVE  s \in Selected'
  <2>1. s \in SoundSnapshots' /\ s.build \in Builds
    BY <1>1 DEF Selected, SoundSnapshots, Snapshots
  <2> QED
    BY <2>1, MovesEvidence DEF Selected
<1>3. ASSUME NEW e \in SoundJobEvents
      PROVE  e \in SoundJobEvents'
  <2>1. e \in JobEvents /\ e.build \in Builds
    BY DEF SoundJobEvents, JobEvents
  <2>2. e.build \notin Unborn' /\ (e.kind = "cleanup" => e.build \in Doomed')
    BY <2>1, MovesEvidence DEF SoundJobEvents
  <2>3. e.kind = "initialize" /\ e.state \in Outcomes =>
          e.build \in Doomed' \/ jobs'[e.build]["initialize"] = e.state
    BY <2>1, MovesEvidence DEF SoundJobEvents
  <2> QED
    BY <2>1, <2>2, <2>3 DEF SoundJobEvents
<1>4. ASSUME NEW c \in SoundCalls
      PROVE  c \in SoundCalls'
  <2>1. c \in Calls /\ c.build \in Builds
    BY CallFields DEF SoundCalls
  <2>2. /\ c.op = "apply" /\ c.mode \in JobKinds => c.build \notin Unborn'
        /\ c.op \in {"kill", "purge", "unfinalize"} => c.build \in Doomed'
        /\ c.op = "kill" => c.kind = "initialize"
    BY <2>1, MovesEvidence DEF SoundCalls
  <2>3. c.op = "patch" => SoundPatch(c)'
    <3>1. ASSUME c.op = "patch"
          PROVE  SoundPatch(c)'
      <4>1. SoundPatch(c)
        BY <3>1 DEF SoundCalls
      <4> QED
        BY <2>1, <4>1, MovesEvidence DEF SoundPatch, Outcomes
    <3> QED
      BY <3>1
  <2> QED
    BY <2>1, <2>2, <2>3 DEF SoundCalls
<1> QED
  BY <1>1, <1>2, <1>3, <1>4

LEMMA BuildStep ==
  ASSUME LifeInv, Moves, NEW b \in Builds
  PROVE  BuildSound(b)'
<1>1. /\ Advances(b) /\ JobAdvances(b) /\ BuildSound(b)
      /\ deployments[b].phase \in Phases
  BY InvParts, Phase DEF Moves
<1>2. << deployments[b].phase, deployments'[b].phase >> \in
       { << "unborn", "unborn" >>, << "unborn", "live" >>, << "live", "live" >>,
         << "live", "deleting" >>, << "deleting", "deleting" >>, << "deleting", "gone" >>,
         << "gone", "gone" >> }
  BY <1>1 DEF Advances
<1>3. Present(deployments'[b]) => deployments'[b].finalizer
  BY <1>1 DEF Advances
<1>4. b \in Unborn' => /\ deployments'[b].init = "todo" /\ deployments'[b].replicas = 0
                       /\ \A k \in JobKinds : jobs'[b][k] = "none"
  BY <1>1, <1>2, PhaseNext DEF Advances, JobAdvances
<1>5. ASSUME b \notin Doomed'
      PROVE  /\ deployments'[b].init \in Outcomes => jobs'[b]["initialize"] = deployments'[b].init
             /\ deployments'[b].replicas = 1 => deployments'[b].init = "succeeded"
             /\ jobs'[b]["initialize"] = "succeeded" => b \in databases'
             /\ Shown(github', b) \in DOMAIN Reports => deployments'[b].init = Reports[Shown(github', b)]
  <2>1. CASE deployments[b].phase = "unborn"
    BY <1>1, <1>5, <2>1 DEF Advances, JobAdvances, Outcomes
  <2>2. CASE deployments[b].phase = "live" /\ deployments'[b].phase = "live"
    <3>1. deployments'[b].init \in Outcomes => jobs[b]["initialize"] = deployments'[b].init
      BY <1>1, <2>2 DEF Advances
    <3>2. deployments'[b].init \in Outcomes => jobs'[b]["initialize"] = deployments'[b].init
      BY <1>5, <3>1, MovesEvidence
    <3>3. deployments'[b].replicas = 1 => deployments'[b].init = "succeeded"
      BY <1>1, <2>2 DEF Advances, Outcomes
    <3> QED
      BY <1>1, <1>5, <3>2, <3>3 DEF JobAdvances
  <2> QED
    BY <1>2, <1>5, <2>1, <2>2, PhaseNext
<1> QED
  BY <1>3, <1>4, <1>5 DEF BuildSound

\* The places that a step does not write to.
LEMMA SoundFrame ==
  ASSUME LifeInv, Moves
  PROVE  /\ \A b \in Builds : BuildSound(b)'
         /\ db' = db => \A b \in Builds : [build |-> b, row |-> db'[b]] \in SoundSnapshots'
         /\ deplEvents' = deplEvents => deplEvents' \in Seq(SoundSnapshots')
         /\ todo' = todo => todo' \in [Tasks -> Seq(Selected')]
         /\ jobEvents' = jobEvents => jobEvents' \in Seq(SoundJobEvents')
         /\ calls' = calls => calls' \in [Actors -> Seq(SoundCalls')]
         /\ lookup' = lookup /\ JobEventsGrow => LookupSound'
<1>1. /\ SoundSnapshots \subseteq SoundSnapshots'
      /\ Selected \subseteq Selected'
      /\ SoundJobEvents \subseteq SoundJobEvents'
      /\ SoundCalls \subseteq SoundCalls'
  BY SoundGrows
<1>2. PlacesSound /\ LookupSound /\ LookupOfEvent /\ ClusterTypeOK
  BY InvParts
<1>3. db' = db => \A b \in Builds : [build |-> b, row |-> db'[b]] \in SoundSnapshots'
  BY <1>1, <1>2 DEF PlacesSound
<1>4. deplEvents' = deplEvents => deplEvents' \in Seq(SoundSnapshots')
  <2>1. deplEvents \in Seq(SoundSnapshots)
    BY <1>2 DEF PlacesSound
  <2>2. deplEvents \in Seq(SoundSnapshots')
    BY <1>1, <2>1, SeqMono
  <2> QED
    BY <2>2
<1>5. jobEvents' = jobEvents => jobEvents' \in Seq(SoundJobEvents')
  <2>1. jobEvents \in Seq(SoundJobEvents)
    BY <1>2 DEF PlacesSound
  <2>2. jobEvents \in Seq(SoundJobEvents')
    BY <1>1, <2>1, SeqMono
  <2> QED
    BY <2>2
<1>6. todo' = todo => todo' \in [Tasks -> Seq(Selected')]
  <2>1. Seq(Selected) \subseteq Seq(Selected')
    BY <1>1, SeqMono
  <2> QED
    BY <1>2, <2>1 DEF PlacesSound
<1>7. calls' = calls => calls' \in [Actors -> Seq(SoundCalls')]
  <2>1. Seq(SoundCalls) \subseteq Seq(SoundCalls')
    BY <1>1, SeqMono
  <2> QED
    BY <1>2, <2>1 DEF PlacesSound
<1>8. lookup' = lookup /\ JobEventsGrow => LookupSound'
  <2>1. ASSUME lookup' = lookup, JobEventsGrow, lookup.busy
        PROVE  /\ [build |-> Head(jobEvents').build, row |-> lookup.row] \in SoundSnapshots'
               /\ lookup.row.status = "absent" =>
                    deployments'[Head(jobEvents').build].phase = "gone"
    <3>1. jobEvents # << >> /\ Head(jobEvents') = Head(jobEvents)
      BY <1>2, <2>1 DEF LookupOfEvent, JobEventsGrow
    <3>2. Head(jobEvents) \in JobEvents
      BY <1>2, <3>1 DEF ClusterTypeOK
    <3>3. Head(jobEvents).build \in Builds
      BY <3>2 DEF JobEvents
    <3> QED
      BY <1>1, <1>2, <2>1, <3>1, <3>3, MovesEvidence DEF LookupSound
  <2> QED
    BY <2>1 DEF LookupSound
<1>9. \A b \in Builds : BuildSound(b)'
  BY BuildStep
<1> QED
  BY <1>3, <1>4, <1>5, <1>6, <1>7, <1>8, <1>9

(***************************************************************************)
(* The calls of the methods.                                               *)
(***************************************************************************)
LEMMA SelectionsNames ==
  ASSUME db \in Tables, NEW t \in Tasks
  PROVE  Selections(t) \subseteq Seq(Names(db))
<1>1. \A n \in Int : Max0(n) \in Int
  BY DEF Max0
<1>2. \A S \in SUBSET Builds : Cardinality(S) \in Nat /\ IsFiniteSet(S)
  BY FS_Subset, FS_CardinalityType, BuildsAssumption
<1>3. \A statuses : "absent" \notin statuses => WithStatus(db, statuses) \subseteq Names(db)
  BY DEF WithStatus, Names
<1>4. Names(db) \subseteq Builds /\ \A init : WithInitStatus(db, init) \subseteq Names(db)
  BY DEF WithInitStatus, Names
<1>5. ASSUME NEW R, R \subseteq Names(db), NEW time, NEW n \in Int
      PROVE  Limit(OldestFirst(R, time), n) \subseteq Seq(Names(db))
  <2>1. IsFiniteSet(R)
    BY <1>2, <1>4, <1>5
  <2>2. Limit(OldestFirst(R, time), n) \subseteq Seq(R)
    BY <2>1, OldestFirstType, LimitType
  <2> QED
    BY <1>5, <2>2, SeqMono
<1>6. CASE t = "cleaner"
  <2>1. WithStatus(db, {"undeploying"}) \subseteq Names(db)
    BY <1>3
  <2>2. Selections(t) \subseteq Seq(WithStatus(db, {"undeploying"}))
    BY <1>6, SelectionsType
  <2> QED
    BY <2>1, <2>2, SeqMono
<1>7. CASE t = "initializer"
  <2> DEFINE n == Max0(MaxInitializing - CountByInitStatus(db, "started"))
  <2>1. CountByInitStatus(db, "started") \in Nat
    BY <1>2, <1>4 DEF CountByInitStatus
  <2>2. n \in Int
    BY <1>1, <2>1, LimitsAssumption
  <2>3. Selections(t) = Limit(OldestFirst(WithInitStatus(db, "todo"), Created(db)), n)
    BY <1>7 DEF Selections, ToInitialize
  <2> QED
    BY <1>4, <1>5, <2>2, <2>3
<1>8. CASE t = "stopper"
  <2> DEFINE n == Max0(CountByStatus(db, "started") - MaxStarted)
  <2>1. WithStatus(db, {"started"}) \subseteq Names(db)
    BY <1>3
  <2>2. CountByStatus(db, "started") \in Nat
    BY <1>2, <1>4, <2>1 DEF CountByStatus
  <2>3. n \in Int
    BY <1>1, <2>2, LimitsAssumption
  <2>4. Selections(t) = Limit(OldestFirst(WithStatus(db, {"started"}), LastScaled(db)), n)
    BY <1>8 DEF Selections, OldestStarted
  <2> QED
    BY <1>5, <2>1, <2>3, <2>4
<1>9. CASE t = "undeployer"
  <2> DEFINE n == Max0(CountDeployed(db) - MaxDeployed)
             R(S) == {b \in WithStatus(db, {"stopping", "stopped", "failed"}) :
                        b \notin S \/ Info[b].pr # NoPr}
  <2>1. CountDeployed(db) \in Nat
    BY <1>2, <1>4 DEF CountDeployed
  <2>2. n \in Int
    BY <1>1, <2>1, LimitsAssumption
  <2>3. \A S : R(S) \subseteq Names(db)
    BY <1>3
  <2>4. \A S : Limit(OldestFirst(R(S), LastScaled(db)), n) \subseteq Seq(Names(db))
    BY <1>5, <2>2, <2>3
  <2>5. Selections(t) = UNION {Limit(OldestFirst(R(S), LastScaled(db)), n) :
                                 S \in RowNumberOnes(db)}
    BY <1>9 DEF Selections, OldestStopped
  <2> QED
    BY <2>4, <2>5
<1> QED
  BY <1>6, <1>7, <1>8, <1>9, TasksAssumption

\* What a patch that leaves the outcome alone says, and one that marks it.
Scales(b, replicas) ==
  {c \in Calls : c.op = "patch" /\ c.build = b /\ c.init = "keep" /\ c.replicas \in {Keep, replicas}}

LEMMA ScalePatch ==
  ASSUME NEW b \in Builds, NEW row, NEW replicas \in {0, 1}, NEW notFoundOk \in BOOLEAN
  PROVE  Patch(b, row, "keep", replicas, notFoundOk) \in Seq(Scales(b, replicas))
<1> DEFINE newReplicas == IF replicas = row.replicas THEN Keep ELSE replicas
           c == [op |-> "patch", build |-> b, init |-> "keep", replicas |-> newReplicas,
                 notFoundOk |-> notFoundOk]
<1>1. c \in Scales(b, replicas)
  BY DEF Calls, Scales
<1>2. Patch(b, row, "keep", replicas, notFoundOk) \in {<< >>, << c >>}
  BY DEF Patch
<1> HIDE DEF c
<1>3. << >> \in Seq(Scales(b, replicas)) /\ << c >> \in Seq(Scales(b, replicas))
  BY <1>1
<1> QED
  BY <1>2, <1>3

LEMMA MarkPatch ==
  ASSUME NEW b \in Builds, NEW row \in Rows, NEW init \in Outcomes \union {"started"},
         NEW replicas \in {Keep, 0}, row.init # init
  PROVE  \E c \in Calls : /\ Marks(c, b, init) /\ c.replicas \in {Keep, 0}
                          /\ Patch(b, row, init, replicas, FALSE) = << c >>
<1> DEFINE newReplicas == IF replicas = row.replicas THEN Keep ELSE replicas
           c == [op |-> "patch", build |-> b, init |-> init, replicas |-> newReplicas,
                 notFoundOk |-> FALSE]
<1>1. c \in Calls /\ Marks(c, b, init) /\ c.replicas \in {Keep, 0}
  BY DEF Calls, Marks, BuildInitStatus, Outcomes
<1>2. init # "keep"
  BY DEF Outcomes
<1>3. Patch(b, row, init, replicas, FALSE) = << c >>
  BY <1>2 DEF Patch
<1> QED
  BY <1>1, <1>3

LEMMA ConcatItems ==
  ASSUME NEW S, NEW c \in S, NEW d \in S, NEW e \in S
  PROVE  << c >> \o << d >> = << c, d >> /\ (<< c >> \o << d >>) \o << e >> = << c, d, e >>
<1>1. /\ << c >> \in Seq(S) /\ << d >> \in Seq(S) /\ << e >> \in Seq(S)
      /\ << c, d >> \in Seq(S) /\ << c, d, e >> \in Seq(S)
      /\ Len(<< c, d >>) = 2 /\ Len(<< c, d, e >>) = 3
  OBVIOUS
<1>2. << c >> \o << d >> = << c, d >>
  <2>1. << c >> \o << d >> \in Seq(S) /\ Len(<< c >> \o << d >>) = 2
    BY <1>1, ConcatProperties
  <2>2. (<< c >> \o << d >>)[1] = c /\ (<< c >> \o << d >>)[2] = d
    BY <1>1, ConcatProperties
  <2>3. \A i \in 1 .. 2 : (<< c >> \o << d >>)[i] = << c, d >>[i]
    BY <2>2
  <2> QED
    BY <1>1, <2>1, <2>3, SeqEqual
<1>3. << c, d >> \o << e >> = << c, d, e >>
  <2>1. << c, d >> \o << e >> \in Seq(S) /\ Len(<< c, d >> \o << e >>) = 3
    BY <1>1, ConcatProperties
  <2>2. /\ (<< c, d >> \o << e >>)[1] = c /\ (<< c, d >> \o << e >>)[2] = d
        /\ (<< c, d >> \o << e >>)[3] = e
    BY <1>1, ConcatProperties
  <2>3. \A i \in 1 .. 3 : (<< c, d >> \o << e >>)[i] = << c, d, e >>[i]
    BY <2>2
  <2> QED
    BY <1>1, <2>1, <2>3, SeqEqual
<1> QED
  BY <1>2, <1>3

\* The lists of calls that job_watcher makes of an event.
LEMMA OnJobEventShape ==
  ASSUME NEW b \in Builds, NEW row \in Rows, NEW kind \in JobKinds,
         NEW state \in JobStates \ {"none"}
  PROVE  LET list == OnJobEvent(b, row, kind, state) IN
         \/ list = << >>
         \/ /\ kind = "initialize" /\ state = "active"
            /\ \E c \in Calls : /\ Marks(c, b, "started") /\ c.replicas \in {Keep, 0}
                                /\ list = << c, Notify(b, "pending") >>
         \/ /\ kind = "initialize" /\ state \in Outcomes
            /\ \E c \in Calls, report \in DOMAIN Reports :
                 /\ Marks(c, b, state) /\ c.replicas \in {Keep, 0} /\ Reports[report] = state
                 /\ list = << Apply(b, "stop"), c, Notify(b, report) >>
         \/ /\ kind = "cleanup" /\ state = "succeeded"
            /\ list = << Purge(b), Unfinalize(b) >>
<1> DEFINE list == OnJobEvent(b, row, kind, state)
<1>1. \A c, d, e \in Calls :
        << c >> \o << d >> = << c, d >> /\ (<< c >> \o << d >>) \o << e >> = << c, d, e >>
  BY ConcatItems
<1>2. Apply(b, "stop") \in Calls /\ \A report \in GitHubStates : Notify(b, report) \in Calls
  BY CallTypes DEF Modes, Benign
<1>3. CASE kind = "initialize" /\ state = "active"
  <2>1. list = OnInitializeStarted(b, row)
    BY <1>3 DEF OnJobEvent
  <2>2. CASE row.init = "started"
    BY <2>1, <2>2 DEF OnInitializeStarted
  <2>3. CASE row.init # "started"
    <3>1. PICK c \in Calls : /\ Marks(c, b, "started") /\ c.replicas \in {Keep, 0}
                             /\ Patch(b, row, "started", 0, FALSE) = << c >>
      BY <2>3, MarkPatch
    <3>2. list = << c, Notify(b, "pending") >>
      BY <1>1, <1>2, <2>1, <2>3, <3>1 DEF OnInitializeStarted, GitHubStates
    <3> QED
      BY <1>3, <3>1, <3>2
  <2> QED
    BY <2>2, <2>3
<1>4. CASE kind = "initialize" /\ state = "succeeded"
  <2>1. list = OnInitializeSucceeded(b, row)
    BY <1>4 DEF OnJobEvent
  <2>2. CASE row.init = "succeeded"
    BY <2>1, <2>2 DEF OnInitializeSucceeded
  <2>3. CASE row.init # "succeeded"
    <3>1. PICK c \in Calls : /\ Marks(c, b, "succeeded") /\ c.replicas \in {Keep, 0}
                             /\ Patch(b, row, "succeeded", Keep, FALSE) = << c >>
      BY <2>3, MarkPatch DEF Outcomes
    <3>2. list = << Apply(b, "stop"), c, Notify(b, "success") >>
      <4>1. list = (<< Apply(b, "stop") >> \o << c >>) \o << Notify(b, "success") >>
        BY <2>1, <2>3, <3>1 DEF OnInitializeSucceeded
      <4>2. Notify(b, "success") \in Calls
        BY <1>2 DEF GitHubStates
      <4> QED
        BY <1>1, <1>2, <3>1, <4>1, <4>2
    <3>3. "success" \in DOMAIN Reports /\ Reports["success"] = "succeeded" /\ state \in Outcomes
      BY <1>4 DEF Reports, Outcomes
    <3> QED
      BY <1>4, <3>1, <3>2, <3>3
  <2> QED
    BY <2>2, <2>3
<1>5. CASE kind = "initialize" /\ state = "failed"
  <2>1. list = OnInitializeFailed(b, row)
    BY <1>5 DEF OnJobEvent
  <2>2. CASE row.init = "failed"
    BY <2>1, <2>2 DEF OnInitializeFailed
  <2>3. CASE row.init # "failed"
    <3>1. PICK c \in Calls : /\ Marks(c, b, "failed") /\ c.replicas \in {Keep, 0}
                             /\ Patch(b, row, "failed", 0, FALSE) = << c >>
      BY <2>3, MarkPatch DEF Outcomes
    <3>2. list = << Apply(b, "stop"), c, Notify(b, "failure") >>
      <4>1. list = (<< Apply(b, "stop") >> \o << c >>) \o << Notify(b, "failure") >>
        BY <2>1, <2>3, <3>1 DEF OnInitializeFailed
      <4>2. Notify(b, "failure") \in Calls
        BY <1>2 DEF GitHubStates
      <4> QED
        BY <1>1, <1>2, <3>1, <4>1, <4>2
    <3>3. "failure" \in DOMAIN Reports /\ Reports["failure"] = "failed" /\ state \in Outcomes
      BY <1>5 DEF Reports, Outcomes
    <3> QED
      BY <1>5, <3>1, <3>2, <3>3
  <2> QED
    BY <2>2, <2>3
<1>6. CASE kind = "cleanup" /\ state = "succeeded"
  BY <1>6 DEF OnJobEvent, OnCleanupSucceeded, DeleteDeploymentResources
<1>7. CASE kind = "cleanup" /\ state # "succeeded"
  BY <1>7 DEF OnJobEvent
<1> QED
  BY <1>3, <1>4, <1>5, <1>6, <1>7 DEF JobKinds, JobStates

\* A job of a build that exists, and what is told of it, make sound calls.
LEMMA JobCallsSound ==
  ASSUME LifeInv, NEW e \in SoundJobEvents, NEW row \in Rows
  PROVE  OnJobEvent(e.build, row, e.kind, e.state) \in Seq(SoundCalls)
<1> DEFINE list == OnJobEvent(e.build, row, e.kind, e.state)
<1>1. e.build \in Builds /\ e.kind \in JobKinds /\ e.state \in JobStates \ {"none"}
  BY DEF SoundJobEvents, JobEvents
<1>2. << >> \in Seq(SoundCalls) /\ \A c, d, f \in SoundCalls :
        << c, d >> \in Seq(SoundCalls) /\ << c, d, f >> \in Seq(SoundCalls)
  OBVIOUS
<1>3. /\ Apply(e.build, "stop") \in SoundCalls
      /\ \A state \in GitHubStates : Notify(e.build, state) \in SoundCalls
      /\ e.build \in Doomed => Purge(e.build) \in SoundCalls /\ Unfinalize(e.build) \in SoundCalls
  BY <1>1 DEF SoundCalls, Calls, Apply, Notify, Purge, Unfinalize, Modes, JobKinds
<1>4. \A report \in DOMAIN Reports : report \in GitHubStates
  BY DEF Reports, GitHubStates
<1>5. ASSUME e.kind = "initialize", e.state = "active" \/ e.state \in Outcomes, NEW c \in Calls,
             Marks(c, e.build, IF e.state = "active" THEN "started" ELSE e.state),
             c.replicas \in {Keep, 0}
      PROVE  c \in SoundCalls
  <2>1. c.op = "patch" /\ c.build = e.build /\ c.replicas # 1
    BY <1>5 DEF Marks, Keep
  <2>2. c.init # "todo" /\ (c.init \in Outcomes => c.init = e.state)
    BY <1>5 DEF Marks, Outcomes
  <2>3. e.state \in Outcomes => e.build \in Doomed \/ jobs[e.build]["initialize"] = e.state
    BY <1>5 DEF SoundJobEvents
  <2>4. SoundPatch(c)
    BY <2>1, <2>2, <2>3 DEF SoundPatch
  <2> QED
    BY <2>1, <2>4 DEF SoundCalls
<1>6. CASE list = << >>
  BY <1>2, <1>6
<1>7. CASE e.kind = "initialize" /\ e.state = "active"
           /\ \E c \in Calls : /\ Marks(c, e.build, "started") /\ c.replicas \in {Keep, 0}
                               /\ list = << c, Notify(e.build, "pending") >>
  <2>1. PICK c \in Calls : /\ Marks(c, e.build, "started") /\ c.replicas \in {Keep, 0}
                           /\ list = << c, Notify(e.build, "pending") >>
    BY <1>7
  <2>2. c \in SoundCalls
    BY <1>5, <1>7, <2>1
  <2>3. Notify(e.build, "pending") \in SoundCalls
    BY <1>3 DEF GitHubStates
  <2> QED
    BY <1>2, <2>1, <2>2, <2>3
<1>8. CASE e.kind = "initialize" /\ e.state \in Outcomes
           /\ \E c \in Calls, report \in DOMAIN Reports :
                /\ Marks(c, e.build, e.state) /\ c.replicas \in {Keep, 0}
                /\ Reports[report] = e.state
                /\ list = << Apply(e.build, "stop"), c, Notify(e.build, report) >>
  <2>1. PICK c \in Calls, report \in DOMAIN Reports :
               /\ Marks(c, e.build, e.state) /\ c.replicas \in {Keep, 0}
               /\ list = << Apply(e.build, "stop"), c, Notify(e.build, report) >>
    BY <1>8
  <2>2. c \in SoundCalls
    BY <1>5, <1>8, <2>1 DEF Outcomes
  <2>3. Notify(e.build, report) \in SoundCalls
    BY <1>3, <1>4
  <2> QED
    BY <1>2, <1>3, <2>1, <2>2, <2>3
<1>9. CASE e.kind = "cleanup" /\ list = << Purge(e.build), Unfinalize(e.build) >>
  <2>1. e.build \in Doomed
    BY <1>9 DEF SoundJobEvents
  <2> QED
    BY <1>2, <1>3, <1>9, <2>1
<1> QED
  BY <1>1, <1>6, <1>7, <1>8, <1>9, OnJobEventShape

\* The methods that others than job_watcher call mark no outcome and report
\* none, and remove resources only when there are no cleanup jobs.
OthersCalls == SoundCalls \intersect PlainCalls

LEMMA OthersCallTypes ==
  ASSUME LifeInv, NEW b \in Builds
  PROVE  /\ \A mode \in Modes \ JobKinds : Apply(b, mode) \in OthersCalls
         /\ b \notin Unborn => \A mode \in JobKinds : Apply(b, mode) \in OthersCalls
         /\ Delete(b) \in OthersCalls
         /\ Notify(b, "pending") \in OthersCalls
         /\ b \in Doomed => /\ Kill(b, "initialize") \in OthersCalls
                            /\ Unfinalize(b) \in OthersCalls
                            /\ NoCleanupJob => Purge(b) \in OthersCalls
         /\ Scales(b, 0) \subseteq OthersCalls
         /\ b \in Doomed \/ deployments[b].init = "succeeded" => Scales(b, 1) \subseteq OthersCalls
<1>1. /\ \A mode \in Modes : Apply(b, mode) \in Calls
      /\ Delete(b) \in Calls /\ Notify(b, "pending") \in Calls /\ Kill(b, "initialize") \in Calls
      /\ Purge(b) \in Calls /\ Unfinalize(b) \in Calls
  BY CallTypes DEF Benign, GitHubStates, JobKinds
<1>2. \A mode \in Modes \ JobKinds : Apply(b, mode) \in OthersCalls
  BY <1>1 DEF OthersCalls, SoundCalls, PlainCalls, Apply
<1>3. b \notin Unborn => \A mode \in JobKinds : Apply(b, mode) \in OthersCalls
  BY <1>1 DEF OthersCalls, SoundCalls, PlainCalls, Apply, JobKinds, Modes
<1>4. Delete(b) \in OthersCalls /\ Notify(b, "pending") \in OthersCalls
  BY <1>1 DEF OthersCalls, SoundCalls, PlainCalls, Delete, Notify
<1>5. b \in Doomed => /\ Kill(b, "initialize") \in OthersCalls
                      /\ Unfinalize(b) \in OthersCalls
                      /\ NoCleanupJob => Purge(b) \in OthersCalls
  BY <1>1 DEF OthersCalls, SoundCalls, PlainCalls, Kill, Purge, Unfinalize
<1>6. ASSUME NEW replicas \in {0, 1}, NEW c \in Scales(b, replicas),
             replicas = 1 => b \in Doomed \/ deployments[b].init = "succeeded"
      PROVE  c \in OthersCalls
  <2>1. /\ c \in Calls /\ c.op = "patch" /\ c.build = b /\ c.init = "keep"
        /\ c.replicas \in {Keep, replicas}
    BY DEF Scales
  <2>2. SoundPatch(c)
    BY <1>6, <2>1 DEF SoundPatch, Outcomes, Keep
  <2> QED
    BY <2>1, <2>2 DEF OthersCalls, SoundCalls, PlainCalls
<1> QED
  BY <1>2, <1>3, <1>4, <1>5, <1>6

LEMMA OthersMethods ==
  ASSUME LifeInv, NEW s \in Selected
  PROVE  /\ Start(s.build, s.row) \in Seq(OthersCalls)
         /\ Stop(s.build, s.row) \in Seq(OthersCalls)
         /\ Undeploy(s.build) \in Seq(OthersCalls)
         /\ Initialize(s.build) \in Seq(OthersCalls)
         /\ s.build \in Doomed => Cleanup(s.build, s.row) \in Seq(OthersCalls)
<1> DEFINE b == s.build
           row == s.row
<1>1. b \in Builds /\ row \in Rows /\ b \notin Unborn
  BY DEF Selected, SoundSnapshots, Snapshots
<1>2. \A c, d \in OthersCalls : << c >> \in Seq(OthersCalls) /\ << c, d >> \in Seq(OthersCalls)
  OBVIOUS
<1>3. << >> \in Seq(OthersCalls)
  OBVIOUS
<1>4. /\ Apply(b, "start") \in OthersCalls /\ Apply(b, "stop") \in OthersCalls
      /\ Apply(b, "initialize") \in OthersCalls /\ Apply(b, "cleanup") \in OthersCalls
      /\ Delete(b) \in OthersCalls
  BY <1>1, OthersCallTypes DEF Modes, JobKinds
<1>5. /\ Patch(b, row, "keep", 0, FALSE) \in Seq(OthersCalls)
      /\ Patch(b, row, "keep", 0, TRUE) \in Seq(OthersCalls)
  <2>1. Scales(b, 0) \subseteq OthersCalls
    BY <1>1, OthersCallTypes
  <2>2. /\ Patch(b, row, "keep", 0, FALSE) \in Seq(Scales(b, 0))
        /\ Patch(b, row, "keep", 0, TRUE) \in Seq(Scales(b, 0))
    BY <1>1, ScalePatch
  <2> QED
    BY <2>1, <2>2, SeqMono
<1>6. Start(b, row) \in Seq(OthersCalls)
  <2>1. CASE row.status \in {"stopped", "stopping"}
    <3>1. b \in Doomed \/ deployments[b].init = "succeeded"
      BY <2>1 DEF Selected, SoundSnapshots
    <3>2. Patch(b, row, "keep", 1, FALSE) \in Seq(OthersCalls)
      <4>1. Scales(b, 1) \subseteq OthersCalls
        BY <1>1, <3>1, OthersCallTypes
      <4>2. Patch(b, row, "keep", 1, FALSE) \in Seq(Scales(b, 1))
        BY <1>1, ScalePatch
      <4> QED
        BY <4>1, <4>2, SeqMono
    <3>3. << Apply(b, "start") >> \o Patch(b, row, "keep", 1, FALSE) \in Seq(OthersCalls)
      BY <1>2, <1>4, <3>2, ConcatProperties
    <3> QED
      BY <2>1, <3>3 DEF Start
  <2>2. CASE row.status \notin {"stopped", "stopping"}
    BY <1>3, <2>2 DEF Start
  <2> QED
    BY <2>1, <2>2
<1>7. Stop(b, row) \in Seq(OthersCalls)
  <2>1. Patch(b, row, "keep", 0, FALSE) \o << Apply(b, "stop") >> \in Seq(OthersCalls)
    BY <1>2, <1>4, <1>5, ConcatProperties
  <2> QED
    BY <1>3, <2>1 DEF Stop
<1>8. Undeploy(b) \in Seq(OthersCalls) /\ Initialize(b) \in Seq(OthersCalls)
  BY <1>2, <1>4 DEF Undeploy, Initialize
<1>9. ASSUME b \in Doomed
      PROVE  Cleanup(b, row) \in Seq(OthersCalls)
  <2>1. /\ Kill(b, "initialize") \in OthersCalls /\ Unfinalize(b) \in OthersCalls
        /\ NoCleanupJob => Purge(b) \in OthersCalls
    BY <1>1, <1>9, OthersCallTypes
  <2>2. NoCleanupJob => DeleteDeploymentResources(b) \in Seq(OthersCalls)
    BY <1>2, <2>1 DEF DeleteDeploymentResources
  <2>3. << Kill(b, "initialize") >> \o Patch(b, row, "keep", 0, TRUE) \in Seq(OthersCalls)
    BY <1>2, <1>5, <2>1, ConcatProperties
  <2>4. (<< Kill(b, "initialize") >> \o Patch(b, row, "keep", 0, TRUE)) \o << Apply(b, "cleanup") >>
          \in Seq(OthersCalls)
    BY <1>2, <1>4, <2>3, ConcatProperties
  <2> QED
    BY <2>2, <2>4 DEF Cleanup
<1> QED
  BY <1>6, <1>7, <1>8, <1>9

LEMMA TaskCalls ==
  ASSUME LifeInv, NEW t \in Tasks, NEW s \in Selected, t = "cleaner" => s.build \in Doomed
  PROVE  MethodOf(t, s.build, s.row) \in Seq(OthersCalls)
<1>1. CASE t = "cleaner"
  BY <1>1, OthersMethods DEF MethodOf
<1>2. CASE t = "initializer"
  BY <1>2, OthersMethods DEF MethodOf
<1>3. CASE t = "stopper"
  BY <1>3, OthersMethods DEF MethodOf
<1>4. CASE t = "undeployer"
  BY <1>4, OthersMethods DEF MethodOf
<1> QED
  BY <1>1, <1>2, <1>3, <1>4, TasksAssumption

\* A request takes its build from the db, or makes a new one.
LEMMA RequestCalls ==
  ASSUME LifeInv, NEW c \in Clients, ClientRequest(c)
  PROVE  /\ \E list \in Seq(OthersCalls) : calls' = [calls EXCEPT ![c] = list]
         /\ UNCHANGED << clusterVars, db, todo, lookup >>
<1>1. ASSUME NEW op, NEW list \in Seq(OthersCalls), Request(c, op, list)
      PROVE  /\ \E q \in Seq(OthersCalls) : calls' = [calls EXCEPT ![c] = q]
             /\ UNCHANGED << clusterVars, db, todo, lookup >>
  BY <1>1 DEF Request
<1>2. ASSUME NEW b \in Builds, db[b].status # "absent"
      PROVE  [build |-> b, row |-> db[b]] \in Selected
  <2>1. [build |-> b, row |-> db[b]] \in SoundSnapshots
    BY InvParts DEF PlacesSound
  <2>2. b \notin Unborn
    BY <1>2, <2>1 DEF SoundSnapshots
  <2> QED
    BY <2>1, <2>2 DEF Selected
<1>3. CASE \E b \in Builds : StartBuild(c, b) \/ StopBuild(c, b) \/ UndeployBuild(c, b)
  <2>1. PICK b \in Builds : StartBuild(c, b) \/ StopBuild(c, b) \/ UndeployBuild(c, b)
    BY <1>3
  <2> DEFINE s == [build |-> b, row |-> db[b]]
  <2>2. s \in Selected /\ s.build = b /\ s.row = db[b]
    BY <1>2, <2>1 DEF StartBuild, StopBuild, UndeployBuild
  <2>3. /\ Start(b, db[b]) \in Seq(OthersCalls)
        /\ Stop(b, db[b]) \in Seq(OthersCalls)
        /\ Undeploy(b) \in Seq(OthersCalls)
    <3> HIDE DEF s
    <3> QED
      BY <2>2, OthersMethods
  <2> QED
    BY <1>1, <2>1, <2>3 DEF StartBuild, StopBuild, UndeployBuild
<1>4. CASE \E b \in Builds : DeployCommit(c, b)
  <2>1. PICK b \in Builds : DeployCommit(c, b)
    BY <1>4
  <2>2. Apply(b, "deployment") \in OthersCalls /\ Notify(b, "pending") \in OthersCalls
    BY OthersCallTypes DEF Modes, JobKinds
  <2>3. DeployBuild(b) \in Seq(OthersCalls)
    BY <2>2 DEF DeployBuild
  <2> QED
    BY <1>1, <2>1, <2>3 DEF DeployCommit
<1>5. CASE \E b \in Builds : ResetBuild(c, b)
  BY <1>5, InvParts DEF ResetBuild, Request, CleanupInv
<1>6. CASE \E pr : UndeployBuilds(c, pr)
  <2>1. PICK pr : UndeployBuilds(c, pr)
    BY <1>6
  <2>2. PICK q \in SearchPr(db, pr) : Request(c, "close", [i \in 1 .. Len(q) |-> Delete(q[i])])
    BY <2>1 DEF UndeployBuilds
  <2> DEFINE list == [i \in 1 .. Len(q) |-> Delete(q[i])]
  <2>3. IsFiniteSet({b \in Names(db) : Info[b].pr = pr}) /\ Names(db) \subseteq Builds
    BY FS_Subset, BuildsAssumption DEF Names
  <2>4. q \in SetToSeqs({b \in Names(db) : Info[b].pr = pr})
    BY <2>2 DEF SearchPr
  <2>5. Len(q) \in Nat /\ \A i \in 1 .. Len(q) : q[i] \in Builds
    BY <2>3, <2>4, SetToSeqsType
  <2>6. \A i \in 1 .. Len(q) : Delete(q[i]) \in OthersCalls
    BY <2>5, OthersCallTypes
  <2>7. list \in Seq(OthersCalls)
    BY <2>5, <2>6
  <2> QED
    BY <1>1, <2>2, <2>7
<1> QED
  BY <1>3, <1>4, <1>5, <1>6 DEF ClientRequest

(***************************************************************************)
(* A call moves the builds, and only job_watcher writes an outcome.        *)
(***************************************************************************)
Writes(a, c, b) ==
  \/ deployments'[b].init = deployments[b].init
  \/ b \in Doomed'
  \/ a = JobWatcher /\ Marks(c, b, deployments'[b].init)

LEMMA HeadCall ==
  ASSUME LifeInv, NEW a \in Actors, calls[a] # << >>
  PROVE  LET c == Head(calls[a]) IN
         /\ c = calls[a][1] /\ 1 \in 1 .. Len(calls[a])
         /\ calls[a] \in Seq(SoundCalls)
         /\ c \in SoundCalls /\ c \in Calls /\ c.build \in Builds
         /\ a # JobWatcher => c \in PlainCalls /\ calls[a] \in Seq(PlainCalls)
         /\ IsDeploy(c) => c.build \in Unborn
         /\ calls \in [Actors -> Seq(SoundCalls)]
<1> DEFINE c == Head(calls[a])
<1>1. /\ calls \in [Actors -> Seq(SoundCalls)] /\ DeploysUnborn
      /\ a # JobWatcher => calls[a] \in Seq(PlainCalls)
  BY InvParts DEF PlacesSound, FateInv, OrderInv, OthersPlain
<1>2. c = calls[a][1] /\ 1 \in 1 .. Len(calls[a]) /\ c \in SoundCalls
  BY <1>1
<1>3. c \in Calls /\ c.build \in Builds
  BY <1>2, CallFields DEF SoundCalls
<1>4. IsDeploy(c) => c.build \in Unborn
  BY <1>1, <1>2 DEF DeploysUnborn
<1>5. a # JobWatcher => c \in PlainCalls
  BY <1>1
<1> QED
  BY <1>1, <1>2, <1>3, <1>4, <1>5

LEMMA PatchTruth ==
  ASSUME LifeInv, NEW a \in Actors, calls[a] # << >>,
         Head(calls[a]).op = "patch", deployments[Head(calls[a]).build].phase = "live"
  PROVE  LET c == Head(calls[a])
             d == deployments[c.build]
             init == IF c.init = "keep" THEN d.init ELSE c.init
             replicas == IF c.replicas = Keep THEN d.replicas ELSE c.replicas
         IN
         /\ d.init \in Outcomes => init = d.init
         /\ init \in Outcomes => jobs[c.build]["initialize"] = init
         /\ init = "todo" => d.init = "todo"
         /\ replicas = 1 => d.init = "succeeded"
         /\ init # d.init => a = JobWatcher /\ Marks(c, c.build, init)
<1> DEFINE c == Head(calls[a])
           b == c.build
           d == deployments[b]
<1>1. /\ c = calls[a][1] /\ 1 \in 1 .. Len(calls[a]) /\ b \in Builds
      /\ c \in SoundCalls /\ c \in Calls /\ (a # JobWatcher => c \in PlainCalls)
  BY HeadCall
<1>2. /\ BuildSound(b) /\ MarksInOrder /\ ClusterTypeOK
      /\ b \notin Doomed
  BY <1>1, InvParts, Phase DEF OrderInv
<1>3. /\ d.init \in Outcomes => jobs[b]["initialize"] = d.init
      /\ d.replicas = 1 => d.init = "succeeded"
  BY <1>2 DEF BuildSound
<1>4. /\ c.init # "todo"
      /\ c.init \in Outcomes => jobs[b]["initialize"] = c.init
      /\ c.replicas = 1 => d.init = "succeeded"
      /\ a # JobWatcher => c.init = "keep"
  BY <1>1, <1>2 DEF SoundCalls, SoundPatch, PlainCalls
<1>5. c.init \in BuildInitStatus \union {"keep"} /\ c.replicas \in {Keep, 0, 1}
  BY <1>1, CallFields
<1>6. c.init = "started" => d.init \notin Outcomes
  BY <1>1, <1>2, <1>4 DEF MarksInOrder, Marks, Unconcluded
<1>7. CASE c.init = "keep"
  BY <1>3, <1>4, <1>5, <1>7
<1>8. CASE c.init = "started"
  BY <1>3, <1>4, <1>5, <1>6, <1>8 DEF Outcomes, Marks
<1>9. CASE c.init \in Outcomes
  BY SMTT(30), <1>3, <1>4, <1>5, <1>9 DEF Outcomes, Marks
<1> QED
  BY <1>4, <1>5, <1>7, <1>8, <1>9 DEF BuildInitStatus, Outcomes

LEMMA PerformAdvances ==
  ASSUME LifeInv, NEW a \in Actors, calls[a] # << >>,
         ~Raises(Head(calls[a])), Perform(Head(calls[a])), NEW b \in Builds
  PROVE  Advances(b) /\ Writes(a, Head(calls[a]), b)
<1> DEFINE c == Head(calls[a])
           d == deployments[c.build]
<1>1. /\ c \in SoundCalls /\ c \in Calls /\ c.build \in Builds
      /\ IsDeploy(c) => c.build \in Unborn
  BY HeadCall
<1>2. /\ ClusterTypeOK /\ deployments \in [Builds -> Deployments] /\ d \in Deployments
      /\ BuildSound(c.build) /\ now \in Nat
  BY <1>1, InvParts DEF ClusterTypeOK
<1>3. ASSUME deployments'[b] = deployments[b]
      PROVE  Advances(b) /\ Writes(a, c, b)
  BY <1>3, AdvancesSame DEF Writes
<1>4. ASSUME NEW e \in Deployments, SetDeployment(c.build, e), b # c.build
      PROVE  Advances(b) /\ Writes(a, c, b)
  <2>1. deployments'[b] = deployments[b]
    BY <1>1, <1>2, <1>4, SetDeploymentFresh
  <2> QED
    BY <1>3, <2>1
<1>5. ASSUME NEW e \in Deployments, SetDeployment(c.build, e)
      PROVE  deployments'[c.build] = e
  BY <1>1, <1>2, <1>5, SetDeploymentFresh
<1>6. CASE ApplyDeployment(c)
  <2> DEFINE e == [phase |-> "live", init |-> "todo", replicas |-> 0, running |-> FALSE,
                   finalizer |-> TRUE, created |-> now, scaled |-> now]
  <2>1. d.phase = "unborn" /\ d.init = "todo" /\ ~Present(d)
    BY <1>1, <1>2, <1>6, Phase DEF ApplyDeployment, IsDeploy, BuildSound, Present
  <2>2. e \in Deployments /\ SetDeployment(c.build, e)
    BY <1>2, <1>6, <2>1 DEF ApplyDeployment, Deployments, Phases, BuildInitStatus
  <2>3. deployments'[c.build] = e
    BY <1>5, <2>2
  <2>4. Advances(c.build) /\ Writes(a, c, c.build)
    BY <2>1, <2>3 DEF Advances, Writes, Present
  <2> QED
    BY SMTT(30), <1>4, <2>2, <2>4
<1>7. CASE PatchDeployment(c) /\ Present(d)
  <2> DEFINE init == IF c.init = "keep" THEN d.init ELSE c.init
             replicas == IF c.replicas = Keep THEN d.replicas ELSE c.replicas
             e == [d EXCEPT !.init = IF c.init = "keep" THEN @ ELSE c.init,
                            !.replicas = IF c.replicas = Keep THEN @ ELSE c.replicas,
                            !.scaled = IF c.replicas = Keep THEN @ ELSE now]
  <2>1. c.op = "patch" /\ c.init \in BuildInitStatus \union {"keep"} /\ c.replicas \in {Keep, 0, 1}
    BY SMTT(30), <1>1, <1>7, CallFields DEF PatchDeployment
  <2>2. /\ e \in Deployments /\ e.phase = d.phase /\ e.finalizer = d.finalizer
        /\ e.init = init /\ e.replicas = replicas
    BY <1>2, <2>1 DEF Deployments, Keep
  <2>3. SetDeployment(c.build, e)
    BY <1>7 DEF PatchDeployment
  <2>4. deployments'[c.build] = e
    BY <1>5, <2>2, <2>3
  <2>5. d.finalizer /\ d.phase \in {"live", "deleting"}
    BY <1>2, <1>7 DEF BuildSound, Present
  <2>6. CASE d.phase = "live"
    <3> HIDE DEF e
    <3>1. /\ d.init \in Outcomes => init = d.init
          /\ init \in Outcomes => jobs[c.build]["initialize"] = init
          /\ init = "todo" => d.init = "todo"
          /\ replicas = 1 => d.init = "succeeded"
          /\ init # d.init => a = JobWatcher /\ Marks(c, c.build, init)
      BY <2>1, <2>6, PatchTruth
    <3>2. Advances(c.build)
      BY <2>2, <2>4, <2>5, <2>6, <3>1 DEF Advances
    <3>3. Writes(a, c, c.build)
      BY <2>2, <2>4, <3>1 DEF Writes
    <3> QED
      BY <1>4, <2>2, <2>3, <3>2, <3>3
  <2>7. CASE d.phase = "deleting"
    <3> HIDE DEF e
    <3>1. Advances(c.build)
      BY <2>2, <2>4, <2>5, <2>7 DEF Advances
    <3>2. Writes(a, c, c.build)
      BY <1>1, <2>2, <2>4, <2>7 DEF Writes, Doomed
    <3> QED
      BY <1>4, <2>2, <2>3, <3>1, <3>2
  <2> QED
    BY <2>5, <2>6, <2>7
<1>8. CASE RemoveFinalizers(c) /\ Present(d)
  <2> DEFINE f == [d EXCEPT !.finalizer = FALSE]
             e == NoDeployment("gone")
  <2>1. f.phase = d.phase /\ f.finalizer = FALSE
    BY <1>2 DEF Deployments
  <2>2. Deleted(f) = e
    BY <1>8, <2>1 DEF Deleted, Present
  <2>3. e \in Deployments /\ e.phase = "gone"
    BY DEF NoDeployment, Deployments, Phases, BuildInitStatus
  <2>4. SetDeployment(c.build, e)
    BY <1>8, <2>2 DEF RemoveFinalizers
  <2>5. deployments'[c.build] = e
    BY <1>5, <2>3, <2>4
  <2>6. d.phase = "deleting"
    <3>1. c.build \in Doomed
      BY <1>1, <1>8 DEF RemoveFinalizers, SoundCalls
    <3> QED
      BY <1>8, <3>1 DEF Doomed, Present
  <2> HIDE DEF e
  <2>7. Advances(c.build) /\ Writes(a, c, c.build)
    BY <1>1, <2>3, <2>5, <2>6 DEF Advances, Writes, Present, Doomed
  <2> QED
    BY <1>4, <2>3, <2>4, <2>7
<1>9. CASE DeleteDeployment(c) \/ DeleteResources(c)
  <2>1. SetDeployment(c.build, Deleted(d)) /\ Deleted(d) \in Deployments
    BY <1>2, <1>9, DeploymentType DEF DeleteDeployment, DeleteResources
  <2>2. deployments'[c.build] = Deleted(d)
    BY <1>5, <2>1
  <2>3. CASE ~Present(d)
    <3>1. deployments'[c.build] = d
      BY <2>2, <2>3 DEF Deleted
    <3> QED
      BY <1>3, <1>4, <2>1, <3>1
  <2>4. CASE Present(d)
    <3>1. Deleted(d) = [d EXCEPT !.phase = "deleting"] /\ d.finalizer
      BY <1>2, <2>4 DEF Deleted, BuildSound
    <3>2. /\ deployments'[c.build].phase = "deleting" /\ deployments'[c.build].finalizer
          /\ d.phase \in {"live", "deleting"}
      BY <1>2, <2>2, <2>4, <3>1 DEF Deployments, Present
    <3>3. Advances(c.build) /\ Writes(a, c, c.build)
      BY <1>1, <3>2 DEF Advances, Writes, Doomed
    <3> QED
      BY <1>4, <2>1, <3>3
  <2> QED
    BY <2>3, <2>4
<1>10. CASE deployments' = deployments
  BY <1>3, <1>10
<1> QED
  BY <1>6, <1>7, <1>8, <1>9, <1>10
     DEF Perform, ApplyJob, ApplyOthers, KillJob, NotifyStatus, PatchDeployment, RemoveFinalizers

\* The job, the database and the commit status of a build whose deployment
\* advances: what is left to show of a step that changes none of them, or one.
LEMMA JobFrame ==
  ASSUME LifeInv, NEW b \in Builds, Advances(b)
  PROVE  /\ jobs'[b] = jobs[b] => (b \in Unborn' => \A k \in JobKinds : jobs'[b][k] = "none")
         /\ jobs[b]["initialize"] = "succeeded" /\ b \notin Doomed' => b \in databases
         /\ b \notin Doomed' /\ Shown(github, b) \in DOMAIN Reports =>
              deployments'[b].init = Reports[Shown(github, b)]
         /\ github' = github => Shown(github', b) = Shown(github, b)
<1>1. BuildSound(b) /\ ClusterTypeOK
  BY InvParts
<1>2. /\ b \in Doomed => b \in Doomed'
      /\ b \in Unborn' => b \in Unborn
      /\ b \notin Doomed' /\ b \notin Unborn =>
           deployments[b].phase = "live" /\ deployments'[b].phase = "live"
  BY <1>1, AdvancesPhase
<1>3. ASSUME b \notin Doomed', Shown(github, b) \in DOMAIN Reports
      PROVE  deployments'[b].init = Reports[Shown(github, b)]
  <2>1. deployments[b].init = Reports[Shown(github, b)] /\ Reports[Shown(github, b)] \in Outcomes
    BY <1>1, <1>2, <1>3 DEF BuildSound, Reports, Outcomes
  <2>2. b \notin Unborn
    BY <1>1, <2>1 DEF BuildSound, Outcomes
  <2> QED
    BY <1>2, <1>3, <2>1, <2>2 DEF Advances
<1>4. github' = github => Shown(github', b) = Shown(github, b)
  BY DEF Shown
<1> QED
  BY <1>1, <1>2, <1>3, <1>4 DEF BuildSound

LEMMA PerformMoves ==
  ASSUME LifeInv, NEW a \in Actors, calls[a] # << >>,
         ~Raises(Head(calls[a])), Perform(Head(calls[a]))
  PROVE  Moves
<1> DEFINE c == Head(calls[a])
<1>1. /\ c = calls[a][1] /\ 1 \in 1 .. Len(calls[a])
      /\ c \in SoundCalls /\ c \in Calls /\ c.build \in Builds
      /\ a # JobWatcher => c \in PlainCalls
  BY HeadCall
<1>2. /\ ClusterTypeOK /\ jobs \in [Builds -> [JobKinds -> JobStates]]
      /\ databases \subseteq Builds
      /\ github \in [Shas -> Statuses]
  BY InvParts DEF ClusterTypeOK
<1>3. \A b \in Builds : Advances(b)
  BY PerformAdvances
<1>4. \A b \in Builds : b \in Doomed => b \in Doomed'
  BY <1>2, <1>3, AdvancesPhase
<1>5. ASSUME NEW b \in Builds, UNCHANGED << jobs, databases, github >>
      PROVE  JobAdvances(b)
  BY <1>3, <1>5, JobFrame DEF JobAdvances
<1>6. CASE ApplyJob(c)
  <2>1. c.build \notin Unborn /\ c.mode \in JobKinds /\ github' = github
    BY <1>1, <1>6 DEF ApplyJob, SoundCalls
  <2>2. CASE jobs[c.build][c.mode] # "none"
    <3>1. UNCHANGED << jobs, databases, github >>
      BY <1>6, <2>2 DEF ApplyJob
    <3> QED
      BY <1>3, <1>5, <3>1 DEF Moves
  <2>3. CASE jobs[c.build][c.mode] = "none"
    <3>1. /\ jobs' = [jobs EXCEPT ![c.build][c.mode] = "active"]
          /\ databases' = IF c.mode = "initialize" THEN databases \ {c.build} ELSE databases
      BY <1>6, <2>3 DEF ApplyJob, SetJob
    <3>2. ASSUME NEW b \in Builds, b # c.build
          PROVE  jobs'[b] = jobs[b] /\ (b \in databases' <=> b \in databases)
      BY <1>2, <3>1, <3>2
    <3>3. ASSUME NEW b \in Builds, b # c.build
          PROVE  JobAdvances(b)
      BY <1>3, <2>1, <3>2, <3>3, JobFrame DEF JobAdvances
    <3>4. /\ c.mode = "initialize" => /\ jobs[c.build]["initialize"] = "none"
                                      /\ jobs'[c.build]["initialize"] = "active"
          /\ c.mode = "cleanup" => /\ jobs'[c.build]["initialize"] = jobs[c.build]["initialize"]
                                   /\ databases' = databases
      BY <1>1, <1>2, <2>3, <3>1 DEF JobKinds
    <3>5. c.build \notin Unborn'
      BY <1>1, <1>2, <1>3, <2>1, AdvancesPhase
    <3>6. JobAdvances(c.build)
      BY <1>1, <1>3, <2>1, <3>4, <3>5, JobFrame DEF JobAdvances, JobKinds
    <3> QED
      BY <1>3, <3>3, <3>6 DEF Moves
  <2> QED
    BY <2>2, <2>3
<1>7. CASE DeleteResources(c) \/ KillJob(c)
  <2>1. c.build \in Doomed /\ databases' = databases /\ github' = github
    BY <1>1, <1>7 DEF DeleteResources, KillJob, SoundCalls
  <2>2. /\ c.op = "kill" => c.kind \in JobKinds
        /\ c.op \in {"kill", "purge"}
    BY <1>1, <1>7, CallFields DEF DeleteResources, KillJob
  <2>3. ASSUME NEW b \in Builds, b # c.build
        PROVE  jobs'[b] = jobs[b]
    BY <1>1, <1>2, <1>7, <2>3 DEF DeleteResources, KillJob, SetJob
  <2>4. ASSUME NEW b \in Builds, b # c.build
        PROVE  JobAdvances(b)
    BY <1>3, <2>1, <2>3, <2>4, JobFrame DEF JobAdvances
  <2>5. c.build \in Doomed' /\ c.build \notin Unborn'
    BY <1>1, <1>4, <2>1, PhaseNext
  <2>6. JobAdvances(c.build)
    BY <2>5 DEF JobAdvances
  <2> QED
    BY <1>3, <2>4, <2>6 DEF Moves
<1>8. CASE NotifyStatus(c)
  <2> DEFINE sha == Info[c.build].commit
             posted == [state |-> c.state, build |-> c.build]
  <2>1. UNCHANGED << deployments, jobs, databases >>
    BY <1>8 DEF NotifyStatus
  <2>2. CASE UNCHANGED github
    BY <1>3, <1>5, <2>1, <2>2 DEF Moves
  <2>3. CASE github' = [github EXCEPT ![sha] = posted]
    <3>1. sha \in Shas
      BY <1>1 DEF Shas
    <3>2. github' = [s \in Shas |-> IF s = sha THEN posted ELSE github[s]]
      BY <1>2, <2>3
    <3>3. ASSUME NEW b \in Builds, b # c.build
          PROVE  JobAdvances(b)
      <4>1. Info[b].commit \in Shas
        BY DEF Shas
      <4>2. Shown(github', b) = Shown(github, b) \/ Shown(github', b) = "none"
        BY <3>2, <3>3, <4>1 DEF Shown
      <4>3. "none" \notin DOMAIN Reports
        BY DEF Reports
      <4> QED
        BY <1>3, <2>1, <4>2, <4>3, JobFrame DEF JobAdvances
    <3>4. ASSUME c.build \notin Doomed', c.state \in DOMAIN Reports
          PROVE  deployments'[c.build].init = Reports[c.state]
      <4>1. c.build \notin Doomed /\ c.op = "notify"
        BY <1>1, <1>4, <1>8, <3>4 DEF NotifyStatus
      <4>2. a = JobWatcher
        BY <1>1, <3>4, <4>1 DEF PlainCalls, Reports
      <4>3. ReportsInOrder
        BY InvParts DEF OrderInv
      <4>4. ~\E j \in 1 .. Len(calls[JobWatcher]) : j < 1
        BY <4>2, <1>1
      <4>5. deployments[c.build].init = Reports[c.state]
        BY <1>1, <3>4, <4>1, <4>2, <4>3, <4>4 DEF ReportsInOrder
      <4> QED
        BY <2>1, <4>5
    <3>5. Shown(github', c.build) = c.state
      BY <3>1, <3>2 DEF Shown
    <3>6. JobAdvances(c.build)
      BY <1>1, <1>3, <2>1, <3>4, <3>5, JobFrame DEF JobAdvances
    <3> QED
      BY <1>3, <3>3, <3>6 DEF Moves
  <2> QED
    BY <1>8, <2>2, <2>3 DEF NotifyStatus
<1>9. CASE UNCHANGED << jobs, databases, github >>
  BY <1>3, <1>5, <1>9 DEF Moves
<1> QED
  BY <1>6, <1>7, <1>8, <1>9
     DEF Perform, ApplyDeployment, ApplyOthers, PatchDeployment, RemoveFinalizers, DeleteDeployment

LEMMA EnvironmentMoves ==
  ASSUME LifeInv, Environment
  PROVE  /\ Moves
         /\ \A b \in Builds : deployments'[b].init = deployments[b].init
<1>1. /\ ClusterTypeOK /\ jobs \in [Builds -> [JobKinds -> JobStates]]
      /\ deployments \in [Builds -> Deployments]
      /\ JobsDoomed
  BY InvParts DEF FateInv
<1>2. ASSUME NEW b \in Builds, Scale(b)
      PROVE  Moves /\ \A o \in Builds : deployments'[o].init = deployments[o].init
  <2> DEFINE e == [deployments[b] EXCEPT !.running = ~@]
  <2>1. /\ e \in Deployments /\ e.phase = deployments[b].phase /\ e.init = deployments[b].init
        /\ e.replicas = deployments[b].replicas /\ e.finalizer = deployments[b].finalizer
    BY <1>1 DEF Deployments
  <2>2. UNCHANGED << jobs, databases, github >> /\ SetDeployment(b, e)
    BY <1>2 DEF Scale
  <2>3. deployments' = [deployments EXCEPT ![b] = e]
    BY <1>1, <2>1, <2>2, SetDeploymentFresh
  <2> HIDE DEF e
  <2>4. ASSUME NEW o \in Builds
        PROVE  /\ deployments'[o].phase = deployments[o].phase
               /\ deployments'[o].init = deployments[o].init
               /\ deployments'[o].replicas = deployments[o].replicas
               /\ deployments'[o].finalizer = deployments[o].finalizer
    BY <1>1, <2>1, <2>3
  <2>5. ASSUME NEW o \in Builds
        PROVE  Advances(o) /\ JobAdvances(o)
    <3>1. BuildSound(o) /\ (o \in Doomed <=> o \in Doomed') /\ (o \in Unborn <=> o \in Unborn')
      BY <2>4, InvParts DEF Doomed, Unborn
    <3>2. deployments[o].phase \in Phases
      BY <1>1, Phase
    <3>3. Advances(o)
      BY <1>1, <2>4, <3>1, <3>2, Phase
         DEF BuildSound, Advances, Phases, BuildInitStatus, Outcomes, Present
    <3> QED
      BY <2>2, <3>3, JobFrame DEF JobAdvances
  <2> QED
    BY <2>4, <2>5 DEF Moves
<1>3. CASE deployments' = deployments
  <2>1. \A b \in Builds : Advances(b)
    BY <1>3, AdvancesSame
  <2>2. ASSUME NEW b \in Builds, NEW kind \in JobKinds, NEW state \in Outcomes,
               jobs[b][kind] = "active", SetJob(b, kind, state), github' = github,
               kind = "initialize" => databases' = databases,
               kind = "cleanup" => databases' \in {databases, databases \ {b}},
               kind = "initialize" /\ state = "succeeded" => b \in databases
        PROVE  Moves
    <3>1. jobs' = [jobs EXCEPT ![b][kind] = state]
      BY <2>2 DEF SetJob
    <3>2. ASSUME NEW o \in Builds, o # b
          PROVE  JobAdvances(o)
      <4>1. jobs'[o] = jobs[o] /\ (o \in databases => o \in databases')
        BY <1>1, <2>2, <3>1, <3>2 DEF JobKinds
      <4> QED
        BY <2>1, <2>2, <4>1, JobFrame DEF JobAdvances
    <3>3. b \notin Unborn /\ Unborn' = Unborn /\ Doomed' = Doomed
      BY <1>3, <2>2, InvParts DEF BuildSound, Unborn, Doomed
    <3>4. JobAdvances(b)
      <4>1. CASE kind = "initialize"
        <5>1. jobs[b]["initialize"] = "active" /\ jobs'[b]["initialize"] = state
          BY <1>1, <2>2, <3>1, <4>1 DEF JobKinds
        <5> QED
          BY <2>1, <2>2, <3>3, <4>1, <5>1, JobFrame DEF JobAdvances
      <4>2. CASE kind = "cleanup"
        <5>1. b \in Doomed
          BY <1>1, <2>2, <4>2 DEF JobsDoomed
        <5> QED
          BY <3>3, <5>1 DEF JobAdvances
      <4> QED
        BY <4>1, <4>2 DEF JobKinds
    <3> QED
      BY <2>1, <3>2, <3>4 DEF Moves
  <2>3. ASSUME NEW b \in Builds, InitializeSucceeds(b)
        PROVE  Moves
    BY <2>2, <2>3 DEF InitializeSucceeds, JobKinds, Outcomes
  <2>4. ASSUME NEW b \in Builds, CleanupSucceeds(b)
        PROVE  Moves
    BY <2>2, <2>4 DEF CleanupSucceeds, JobKinds, Outcomes
  <2>5. ASSUME NEW b \in Builds, NEW kind \in JobKinds, JobFails(b, kind)
        PROVE  Moves
    BY <2>2, <2>5 DEF JobFails, JobKinds, Outcomes
  <2>6. ASSUME jobs' = jobs, github' = github, databases \subseteq databases'
        PROVE  Moves
    <3>1. ASSUME NEW b \in Builds
          PROVE  JobAdvances(b)
      BY <2>1, <2>6, JobFrame DEF JobAdvances
    <3> QED
      BY <2>1, <3>1 DEF Moves
  <2>7. ASSUME NEW b \in Builds, InitializeCreatesDatabase(b)
        PROVE  Moves
    BY <2>6, <2>7 DEF InitializeCreatesDatabase
  <2>8. CASE Tick
    BY <2>6, <2>8 DEF Tick, cluster
  <2>9. CASE \E b \in Builds : Scale(b)
    BY <1>2, <2>9
  <2>10. Moves
    BY <2>3, <2>4, <2>5, <2>7, <2>8, <2>9 DEF Environment
  <2> QED
    BY <1>3, <2>10
<1> QED
  BY <1>2, <1>3
     DEF Environment, InitializeCreatesDatabase, InitializeSucceeds, CleanupSucceeds, JobFails,
         Tick, cluster

(***************************************************************************)
(* The events a step queues are true of the state after it.                *)
(***************************************************************************)
JobEventAdded ==
  \E b \in Builds, kind \in JobKinds, state \in JobStates \ {"none"} :
    LET e == [build |-> b, kind |-> kind, state |-> state] IN
    /\ jobEvents' = Append(jobEvents, e)
    /\ e \in SoundJobEvents'
    /\ jobs'[b][kind] = state
    /\ kind = "initialize" /\ state = "active" => jobs[b]["initialize"] = "none"

LEMMA JobSet ==
  ASSUME LifeInv, NEW b \in Builds, NEW kind \in JobKinds, NEW state \in JobStates \ {"none"},
         SetJob(b, kind, state),
         b \notin Unborn', kind = "cleanup" => b \in Doomed',
         kind = "initialize" /\ state = "active" => jobs[b]["initialize"] = "none"
  PROVE  jobEvents' = jobEvents \/ JobEventAdded
<1> DEFINE e == [build |-> b, kind |-> kind, state |-> state]
<1>1. jobs'[b][kind] = state
  <2>1. jobs \in [Builds -> [JobKinds -> JobStates]] /\ jobs' = [jobs EXCEPT ![b][kind] = state]
    BY InvParts DEF SetJob
  <2> QED
    BY <2>1
<1>2. e \in JobEvents
  BY DEF JobEvents
<1>3. e \in SoundJobEvents'
  BY <1>1, <1>2 DEF SoundJobEvents
<1>4. jobEvents' = jobEvents \/ jobEvents' = Append(jobEvents, e)
  BY SMTT(30) DEF SetJob
<1> QED
  BY <1>1, <1>3, <1>4 DEF JobEventAdded

LEMMA PerformJobEvents ==
  ASSUME LifeInv, NEW a \in Actors, calls[a] # << >>,
         ~Raises(Head(calls[a])), Perform(Head(calls[a]))
  PROVE  jobEvents' = jobEvents \/ JobEventAdded
<1> DEFINE c == Head(calls[a])
<1>1. c \in SoundCalls /\ c.build \in Builds /\ calls[a] \in Seq(SoundCalls) /\ c = calls[a][1]
  BY HeadCall
<1>2. CASE ApplyJob(c)
  <2>1. CASE jobs[c.build][c.mode] = "none"
    <3>1. c.mode \in JobKinds /\ SetJob(c.build, c.mode, "active") /\ c.build \notin Unborn
      BY <1>1, <1>2, <2>1 DEF ApplyJob, SoundCalls
    <3>2. c.build \notin Unborn' /\ (c.build \in Doomed => c.build \in Doomed')
      BY <1>1, <3>1, PerformMoves, MovesEvidence
    <3>3. c.mode = "cleanup" => c.build \in Doomed
      <4>1. CallsDoomed /\ 1 \in 1 .. Len(calls[a])
        BY InvParts, HeadCall DEF FateInv
      <4> QED
        BY <1>1, <1>2, <4>1 DEF CallsDoomed, IsCleanup, ApplyJob
    <3> QED
      BY <1>1, <2>1, <3>1, <3>2, <3>3, JobSet DEF JobStates
  <2>2. CASE jobs[c.build][c.mode] # "none"
    BY <1>2, <2>2 DEF ApplyJob
  <2> QED
    BY <2>1, <2>2
<1>3. CASE KillJob(c)
  BY <1>3 DEF KillJob, SetJob
<1> QED
  BY <1>2, <1>3
     DEF Perform, ApplyDeployment, ApplyOthers, PatchDeployment, RemoveFinalizers,
         DeleteDeployment, DeleteResources, NotifyStatus

LEMMA EnvironmentJobEvents ==
  ASSUME LifeInv, Environment
  PROVE  jobEvents' = jobEvents \/ JobEventAdded
<1>1. ASSUME NEW b \in Builds, NEW kind \in JobKinds, NEW state \in Outcomes,
             SetJob(b, kind, state), jobs[b][kind] = "active"
      PROVE  jobEvents' = jobEvents \/ JobEventAdded
  <2>1. b \notin Unborn /\ (kind = "cleanup" => b \in Doomed)
    BY <1>1, InvParts DEF BuildSound, FateInv, JobsDoomed
  <2>2. b \notin Unborn' /\ (kind = "cleanup" => b \in Doomed')
    BY <2>1, EnvironmentMoves, MovesEvidence
  <2> QED
    BY <1>1, <2>2, JobSet DEF Outcomes, JobStates
<1>2. ASSUME NEW b \in Builds, InitializeSucceeds(b)
      PROVE  jobEvents' = jobEvents \/ JobEventAdded
  BY <1>1, <1>2 DEF InitializeSucceeds, JobKinds, Outcomes
<1>3. ASSUME NEW b \in Builds, CleanupSucceeds(b)
      PROVE  jobEvents' = jobEvents \/ JobEventAdded
  BY <1>1, <1>3 DEF CleanupSucceeds, JobKinds, Outcomes
<1>4. ASSUME NEW b \in Builds, NEW kind \in JobKinds, JobFails(b, kind)
      PROVE  jobEvents' = jobEvents \/ JobEventAdded
  BY <1>1, <1>4 DEF JobFails, JobKinds, Outcomes
<1>5. ASSUME NEW b \in Builds, InitializeCreatesDatabase(b) \/ Scale(b)
      PROVE  jobEvents' = jobEvents
  BY <1>5 DEF InitializeCreatesDatabase, Scale, watches
<1>6. CASE Tick
  BY <1>6 DEF Tick, watches
<1> QED
  BY <1>2, <1>3, <1>4, <1>5, <1>6 DEF Environment

LEMMA RowSound ==
  ASSUME NEW b \in Builds, deployments'[b] \in Deployments
  PROVE  [build |-> b, row |-> RowOf(deployments'[b])] \in SoundSnapshots'
<1> DEFINE d == deployments'[b]
<1>1. RowOf(d) \in Rows
  BY RowOfType
<1>2. RowOf(d).status # "absent" => b \notin Unborn'
  BY DEF RowOf, AbsentRow, Present, Unborn
<1>3. RowOf(d).status \in {"stopped", "stopping"} => d.init = "succeeded"
  BY DEF RowOf, AbsentRow, Present, StatusFromDeployment, Deployments, BuildInitStatus
<1> QED
  BY <1>1, <1>2, <1>3 DEF SoundSnapshots, Snapshots

LEMMA AbsentSound ==
  ASSUME NEW b \in Builds
  PROVE  [build |-> b, row |-> AbsentRow] \in SoundSnapshots'
BY DEF SoundSnapshots, Snapshots, AbsentRow, Rows, BuildInitStatus

LEMMA FreshSound ==
  ASSUME LifeInv, Moves, Fresh, ClusterTypeOK'
  PROVE  deplEvents' \in Seq(SoundSnapshots')
<1>1. CASE deplEvents' = deplEvents
  BY <1>1, SoundFrame
<1>2. ASSUME NEW b \in Builds,
             deplEvents' = Append(deplEvents, [build |-> b, row |-> RowOf(deployments'[b])])
      PROVE  deplEvents' \in Seq(SoundSnapshots')
  <2> DEFINE e == [build |-> b, row |-> RowOf(deployments'[b])]
  <2>1. deployments'[b] \in Deployments
    BY DEF ClusterTypeOK
  <2>2. e \in SoundSnapshots'
    BY <2>1, RowSound
  <2>3. deplEvents \in Seq(SoundSnapshots')
    BY InvParts, SoundGrows, SeqMono DEF PlacesSound
  <2> HIDE DEF e
  <2>4. Append(deplEvents, e) \in Seq(SoundSnapshots')
    BY <2>2, <2>3
  <2> QED
    BY <1>2, <2>4 DEF e
<1> QED
  BY <1>1, <1>2 DEF Fresh

LEMMA AddedSound ==
  ASSUME LifeInv, Moves, jobEvents' = jobEvents \/ JobEventAdded
  PROVE  jobEvents' \in Seq(SoundJobEvents')
<1>1. CASE jobEvents' = jobEvents
  BY <1>1, SoundFrame
<1>2. ASSUME NEW e \in SoundJobEvents', jobEvents' = Append(jobEvents, e)
      PROVE  jobEvents' \in Seq(SoundJobEvents')
  <2>1. jobEvents \in Seq(SoundJobEvents')
    BY InvParts, SoundGrows, SeqMono DEF PlacesSound
  <2> QED
    BY <1>2, <2>1
<1> QED
  BY <1>1, <1>2 DEF JobEventAdded

LEMMA CallsSound ==
  ASSUME LifeInv, Moves, NEW a \in Actors, NEW list \in Seq(SoundCalls'),
         calls' = [calls EXCEPT ![a] = list]
  PROVE  calls' \in [Actors -> Seq(SoundCalls')]
<1>1. Seq(SoundCalls) \subseteq Seq(SoundCalls')
  BY SoundGrows, SeqMono
<1>2. calls \in [Actors -> Seq(SoundCalls)]
  BY InvParts DEF PlacesSound
<1> QED
  BY <1>1, <1>2
=============================================================================
