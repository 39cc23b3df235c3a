---------------------------- MODULE EventStream -----------------------------
(***************************************************************************)
(* The event stream of src/runboat/api.py (BuildEventSource), the table    *)
(* whose changes it reports (src/runboat/db.py) and the two web pages that *)
(* follow it (src/runboat/webui-templates).                                *)
(*                                                                         *)
(* A page opens an event source: it is registered as a listener, then      *)
(* reads a snapshot of the table and sends its rows, then sends what was   *)
(* queued for it.  The table is changed by the controller alone, one add,  *)
(* removal or reset at a time (Controller!DbAdd, DbRemove,                 *)
(* StartDeploymentWatch); here it changes in every such way.               *)
(***************************************************************************)
EXTENDS BuildsDb

CONSTANTS
  Observed,    \* the rows the controller may add
  Lower,       \* [repository names -> the same in lower case]
  Pages,       \* the pages that are opened
  ListPages,   \* those that show a list: builds.html; the others are build.html
  Filters,     \* [Pages -> the query parameters of the page]
  MaxChanges,  \* bound: changes of the table
  MaxConnects  \* bound: connections of a page

NoFilter == ""     \* a string parameter that is not given, or is empty
NoPrFilter == -1   \* no pr parameter; pr=0 is another filter

ASSUME ObservedAssumption == Observed \subseteq {row \in Rows : row.status # "absent"}
ASSUME PagesAssumption == ListPages \subseteq Pages
ASSUME ReposAssumption ==
  /\ \A b \in Builds : Lower[Info[b].repo] = Info[b].repo
  /\ \A p \in Pages : Filters[p].pr \in Nat \union {NoPrFilter}
ASSUME StreamBoundsAssumption == MaxChanges \in Nat /\ MaxConnects \in Nat

VARIABLES
  table,    \* the table of BuildsDb
  online,   \* whether the page has its connection
  stage,    \* the event source of the page: off, registered or streaming
  rest,     \* the rows of its snapshot that are not yet sent
  queue,    \* its queue
  image,    \* what the page shows of each build
  missed,   \* history: builds the page may show although they were removed,
            \* because no event of this connection was about them
  changes, connects

pageVars == << online, stage, rest, queue, image, missed, connects >>
vars == << table, online, stage, rest, queue, image, missed, changes, connects >>

Events == [build : Builds, row : Rows]  \* AbsentRow: the event "del"

\* Every variable has the type the code gives it.
StreamTypeOK ==
  /\ table \in Tables
  /\ online \in [Pages -> BOOLEAN]
  /\ stage \in [Pages -> {"off", "registered", "streaming"}]
  /\ rest \in [Pages -> Tables]
  /\ queue \in [Pages -> Seq(Events)]
  /\ image \in [Pages -> Tables]
  /\ missed \in [Pages -> SUBSET Builds]
  /\ changes \in 0 .. MaxChanges
  /\ connects \in [Pages -> 0 .. MaxConnects]

Init ==
  /\ table = EmptyTable
  /\ online = [p \in Pages |-> FALSE]
  /\ stage = [p \in Pages |-> "off"]
  /\ rest = [p \in Pages |-> EmptyTable]
  /\ queue = [p \in Pages |-> << >>]
  /\ image = [p \in Pages |-> EmptyTable]
  /\ missed = [p \in Pages |-> {}]
  /\ changes = 0
  /\ connects = [p \in Pages |-> 0]

(***************************************************************************)
(* The filter, once as the WHERE clause of search and once as the early    *)
(* returns of on_build_event.                                              *)
(***************************************************************************)
Selected(f, b) ==
  /\ f.repo # NoFilter => Info[b].repo = Lower[f.repo]
  /\ f.target_branch # NoFilter => Info[b].branch = f.target_branch
  /\ f.branch # NoFilter => Info[b].branch = f.branch /\ Info[b].pr = NoPr
  /\ f.pr # NoPrFilter => Info[b].pr = f.pr /\ Info[b].pr # NoPr
  /\ f.build_name # NoFilter => b = f.build_name

Passes(f, b) ==
  /\ f.repo # NoFilter => Info[b].repo = f.repo
  /\ f.target_branch # NoFilter => Info[b].branch = f.target_branch
  /\ f.branch # NoFilter => Info[b].branch = f.branch /\ Info[b].pr = NoPr
  /\ f.pr \notin {NoPrFilter, 0} => Info[b].pr = f.pr
  /\ f.build_name # NoFilter => b = f.build_name

(***************************************************************************)
(* The table tells its listeners.                                          *)
(***************************************************************************)
\* Mutant: the listener is registered when the snapshot has been sent.
HearsLate(p, b) ==
  stage[p] = "streaming" /\ rest[p] = EmptyTable /\ Passes(Filters[p], b)

Hears(p, b) == stage[p] # "off" /\ Passes(Filters[p], b)

OnBuildEvent(b, row) ==
  /\ queue' = [p \in Pages |->
       IF Hears(p, b) THEN Append(queue[p], [build |-> b, row |-> row]) ELSE queue[p]]
  /\ missed' = [p \in Pages |-> IF Hears(p, b) THEN missed[p] \ {b} ELSE missed[p]]

Change ==
  /\ changes < MaxChanges
  /\ changes' = changes + 1
  /\ UNCHANGED << online, stage, rest, image, connects >>

DbAdd(b, row) ==
  /\ Change
  /\ ~SameBuild(table[b], row)
  /\ table' = Put(table, b, row)
  /\ OnBuildEvent(b, row)

\* Mutant: the event of a removal carries a status of its own.
DbRemoveStatus(b) ==
  /\ Change
  /\ table[b] # AbsentRow
  /\ table' = Drop(table, b)
  /\ OnBuildEvent(b, [table[b] EXCEPT !.status = "removed"])

DbRemove(b) ==
  /\ Change
  /\ table[b] # AbsentRow
  /\ table' = Drop(table, b)
  /\ OnBuildEvent(b, AbsentRow)

\* No listener is told.
DbReset ==
  /\ Change
  /\ table' = EmptyTable
  /\ missed' = [p \in Pages |-> IF stage[p] = "off" THEN missed[p]
                                ELSE missed[p] \union Names(table)]
  /\ UNCHANGED queue

TableChanges == DbReset \/ \E b \in Builds : DbRemove(b) \/ \E row \in Observed : DbAdd(b, row)

(***************************************************************************)
(* An event source.  A page connects anew some time after it lost its      *)
(* connection; the event source it had only fills a queue that nobody      *)
(* reads until it is closed, so the model closes it first.                 *)
(***************************************************************************)
Connect(p) ==
  /\ ~online[p] /\ stage[p] = "off"
  /\ connects[p] < MaxConnects
  /\ connects' = [connects EXCEPT ![p] = @ + 1]
  /\ online' = [online EXCEPT ![p] = TRUE]
  /\ stage' = [stage EXCEPT ![p] = "registered"]
  /\ missed' = [missed EXCEPT ![p] = IF p \in ListPages THEN {} ELSE Names(image[p])]
  /\ UNCHANGED << table, rest, queue, image, changes >>

Disconnect(p) ==
  /\ online[p]
  /\ online' = [online EXCEPT ![p] = FALSE]
  /\ UNCHANGED << table, stage, rest, queue, image, missed, changes, connects >>

Selection(f) == [b \in Builds |-> IF Selected(f, b) THEN table[b] ELSE AbsentRow]

\* The response begins, at which builds.html clears its list, and events()
\* reads its snapshot.
Stream(p) ==
  /\ stage[p] = "registered"
  /\ stage' = [stage EXCEPT ![p] = "streaming"]
  /\ rest' = [rest EXCEPT ![p] = Selection(Filters[p])]
  /\ image' = IF p \in ListPages /\ online[p] THEN [image EXCEPT ![p] = EmptyTable] ELSE image
  /\ UNCHANGED << table, online, queue, missed, changes, connects >>

\* onmessage, if there is a page to get the message.
Show(p, b, row) == image' = IF online[p] THEN [image EXCEPT ![p][b] = row] ELSE image

\* The rows of the snapshot: the page sorts them itself, so their order is
\* left open.
SendRow(p) ==
  /\ stage[p] = "streaming"
  /\ \E b \in Names(rest[p]) :
       /\ Show(p, b, rest[p][b])
       /\ rest' = [rest EXCEPT ![p][b] = AbsentRow]
  /\ UNCHANGED << table, online, stage, queue, missed, changes, connects >>

\* The check for the client that follows an event and a timeout alike.
CloseIfGone(p) == stage' = IF online[p] THEN stage ELSE [stage EXCEPT ![p] = "off"]

SendEvent(p) ==
  /\ stage[p] = "streaming" /\ rest[p] = EmptyTable
  /\ queue[p] # << >>
  /\ LET e == Head(queue[p]) IN Show(p, e.build, e.row)
  /\ queue' = [queue EXCEPT ![p] = IF online[p] THEN Tail(@) ELSE << >>]
  /\ CloseIfGone(p)
  /\ UNCHANGED << table, online, rest, missed, changes, connects >>

\* Mutant: no event for a while ends the stream.
TimeoutEnds(p) ==
  /\ stage[p] = "streaming" /\ rest[p] = EmptyTable
  /\ queue[p] = << >>
  /\ stage' = [stage EXCEPT ![p] = "off"]
  /\ UNCHANGED << table, online, rest, queue, image, missed, changes, connects >>

\* Mutant: the client is only checked after an event.
TimeoutContinues(p) ==
  stage[p] = "streaming" /\ rest[p] = EmptyTable /\ queue[p] = << >> /\ UNCHANGED vars

Timeout(p) ==
  /\ stage[p] = "streaming" /\ rest[p] = EmptyTable
  /\ queue[p] = << >>
  /\ CloseIfGone(p)
  /\ UNCHANGED << table, online, rest, queue, image, missed, changes, connects >>

Serve(p) == Stream(p) \/ SendRow(p) \/ SendEvent(p) \/ Timeout(p)

Next ==
  \/ TableChanges
  \/ \E p \in Pages : Connect(p) \/ Disconnect(p) \/ Serve(p)

Spec == Init /\ [][Next]_vars

\* Fairness: asyncio runs every event source, and a wait has a timeout.  A
\* page, its connection and the cluster do as they like.
FairSpec == Spec /\ \A p \in Pages : WF_vars(Serve(p))

(***************************************************************************)
(* What the stream promises.                                               *)
(***************************************************************************)
CaughtUp(p) ==
  online[p] /\ stage[p] = "streaming" /\ rest[p] = EmptyTable /\ queue[p] = << >>

\* The filters that search and on_build_event understand alike: search
\* lowers the case of the repository, and takes pr=0 for a number.
Canonical(f) == (f.repo # NoFilter => Lower[f.repo] = f.repo) /\ f.pr # 0

\* A page that has caught up shows the builds of the table that it asked for
\* and no others, each with its row, although it was registered before it
\* read its snapshot.  It may still show one that was removed if no event
\* told it: by a reset of the table, or before build.html connected again.
CaughtUpShowsTable ==
  \A p \in Pages : CaughtUp(p) /\ Canonical(Filters[p]) =>
    \A b \in Builds :
      \/ image[p][b] = IF Selected(Filters[p], b) THEN table[b] ELSE AbsentRow
      \/ table[b] = AbsentRow /\ b \in missed[p]

\* A page that keeps its connection eventually has everything that happened.
CatchesUp == \A p \in Pages : online[p] ~> (CaughtUp(p) \/ ~online[p])

\* The event source of a page that left is eventually closed, whether or not
\* another event comes.
SourceClosed == \A p \in Pages : ~online[p] ~> (stage[p] = "off" \/ online[p])
=============================================================================
