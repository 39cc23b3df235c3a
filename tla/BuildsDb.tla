------------------------------ MODULE BuildsDb ------------------------------
(***************************************************************************)
(* The queries of the in-memory database of builds, src/runboat/db.py.     *)
(*                                                                         *)
(* The table is a function from build names to rows; AbsentRow is a name   *)
(* that is not in the table.  The columns that never change come from the  *)
(* constant Info; one repository is modelled, so repo is not among them.     *)
(* Rows that compare equal in an ORDER BY come in any order, so a query    *)
(* with an order is the set of the lists sqlite may return.                *)
(***************************************************************************)
EXTENDS BuildModel, FiniteSets, SequencesExt, FiniteSetsExt

CONSTANTS Builds,   \* build names, the uuids that may be drawn
          Info      \* commit_info of each build: target branch, pr, commit

NoPr == 0  \* pr is NULL: the build of a branch

ASSUME BuildsAssumption == IsFiniteSet(Builds)
ASSUME InfoAssumption ==
  \A b \in Builds : Info[b].pr \in Nat /\ {"branch", "commit"} \subseteq DOMAIN Info[b]

Tables == [Builds -> Rows]
EmptyTable == [b \in Builds |-> AbsentRow]

Names(table) == {b \in Builds : table[b].status # "absent"}
WithStatus(table, statuses) == {b \in Builds : table[b].status \in statuses}
WithInitStatus(table, init) == {b \in Names(table) : table[b].init = init}

CountByStatus(table, status) == Cardinality(WithStatus(table, {status}))
CountByInitStatus(table, init) == Cardinality(WithInitStatus(table, init))
CountDeployed(table) == Cardinality(Names(table) \ WithStatus(table, {"undeploying"}))

\* Mutant: the pull request is not part of the query.
ForCommitOfAnyPr(table, info) ==
  {b \in Names(table) : Info[b].branch = info.branch /\ Info[b].commit = info.commit}

\* get_for_commit: the builds it may return the first of.
ForCommit(table, info) == {b \in Names(table) : Info[b] = info}

\* ORDER BY time: the members of S, oldest first.
OldestFirst(S, time) ==
  {q \in SetToSeqs(S) : \A i, j \in 1 .. Len(q) : i < j => time[q[i]] <= time[q[j]]}

\* LIMIT n
Limit(queries, n) == {SubSeq(q, 1, IF n < Len(q) THEN n ELSE Len(q)) : q \in queries}

Created(table) == [b \in Builds |-> table[b].created]
LastScaled(table) == [b \in Builds |-> table[b].scaled]

\* Mutant: failed builds are cleaned up too.
ToCleanupFailed(table) ==
  OldestFirst(WithStatus(table, {"undeploying", "failed"}), Created(table))

ToCleanup(table) ==
  OldestFirst(WithStatus(table, {"undeploying"}), Created(table))

\* Mutant: no ORDER BY.
ToInitializeUnordered(table, n) == Limit(SetToSeqs(WithInitStatus(table, "todo")), n)

ToInitialize(table, n) ==
  Limit(OldestFirst(WithInitStatus(table, "todo"), Created(table)), n)

\* Mutant: one build too few.
OldestStartedButOne(table, n) ==
  Limit(OldestFirst(WithStatus(table, {"started"}), LastScaled(table)), n - 1)

OldestStarted(table, n) ==
  Limit(OldestFirst(WithStatus(table, {"started"}), LastScaled(table)), n)

\* The partition of a build in oldest_stopped, and the builds that may have
\* rownum 1 in it.
Partition(table, b) ==
  {c \in Names(table) : Info[c].branch = Info[b].branch /\ Info[c].pr = Info[b].pr}

Newest(table, b) ==
  {c \in Partition(table, b) : \A d \in Partition(table, b) : table[d].created <= table[c].created}

\* The sets of builds that are row number 1 of their partition: one newest
\* build per partition, any of them when several were created together.
RowNumberOnes(table) ==
  {S \in SUBSET Names(table) :
     \A b \in Names(table) :
       /\ Cardinality(S \intersect Partition(table, b)) = 1
       /\ S \intersect Partition(table, b) \subseteq Newest(table, b)}

\* Mutant: the most recent builds of branches are evicted too.
OldestStoppedAny(table, n) ==
  Limit(OldestFirst(WithStatus(table, {"stopping", "stopped", "failed"}), LastScaled(table)), n)

\* Mutant: the most recent builds of pull requests are preserved too.
OldestStoppedButPulls(table, n) ==
  UNION { Limit(OldestFirst(WithStatus(table, {"stopping", "stopped", "failed"}) \ S,
                            LastScaled(table)), n) : S \in RowNumberOnes(table) }

OldestStopped(table, n) ==
  UNION { Limit(OldestFirst({b \in WithStatus(table, {"stopping", "stopped", "failed"}) :
                               b \notin S \/ Info[b].pr # NoPr},
                            LastScaled(table)), n) : S \in RowNumberOnes(table) }

\* Mutant: the oldest first, as the event stream sorts them.
SearchPrOldestFirst(table, pr) ==
  OldestFirst({b \in Names(table) : Info[b].pr = pr}, Created(table))

\* Mutant: the pull request is not part of the query.
SearchAll(table, pr) == SetToSeqs(Names(table))

\* search(repo, pr=...): within a branch, the newest first.
SearchPr(table, pr) ==
  {q \in SetToSeqs({b \in Names(table) : Info[b].pr = pr}) :
     \A i, j \in 1 .. Len(q) :
       i < j /\ Info[q[i]].branch = Info[q[j]].branch
         => table[q[i]].created >= table[q[j]].created}

(***************************************************************************)
(* add and remove: the new table; the listeners are told only of a change. *)
(* An update replaces the whole row.                                       *)
(***************************************************************************)
Put(table, b, row) == IF SameBuild(table[b], row) THEN table ELSE [table EXCEPT ![b] = row]

\* Mutant: a removal is ignored.
DropNothing(table, b) == table

Drop(table, b) == [table EXCEPT ![b] = AbsentRow]
=============================================================================
