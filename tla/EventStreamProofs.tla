------------------------- MODULE EventStreamProofs --------------------------
(***************************************************************************)
(* A page that has caught up shows the table: a proof of                   *)
(* CaughtUpShowsTable, for all pages and builds, any number of changes and *)
(* of connections.                                                         *)
(*                                                                         *)
(* What a page will show of a build is, in this order, what the last event *)
(* in its queue says, the row of its snapshot, and what it shows already.  *)
(* The invariant says that this fits the table at any moment while the     *)
(* page is connected, long before it has caught up.                        *)
(***************************************************************************)
EXTENDS EventStream, TLAPS

(***************************************************************************)
(* Types.                                                                  *)
(***************************************************************************)
LEMMA AbsentIsRow == AbsentRow \in Rows
  BY DEF AbsentRow, Rows, BuildInitStatus

LEMMA PutType ==
  ASSUME table \in Tables, NEW b \in Builds, NEW row \in Rows
  PROVE  Put(table, b, row) \in Tables /\ Drop(table, b) \in Tables
  BY AbsentIsRow DEF Put, Drop, Tables

LEMMA EventType ==
  ASSUME StreamTypeOK, NEW b \in Builds, NEW row \in Rows, OnBuildEvent(b, row)
  PROVE  queue' \in [Pages -> Seq(Events)] /\ missed' \in [Pages -> SUBSET Builds]
<1> DEFINE event == [build |-> b, row |-> row]
<1>1. event \in Events
  BY DEF Events
<1>2. ASSUME NEW p \in Pages
      PROVE  /\ queue[p] \in Seq(Events) /\ Append(queue[p], event) \in Seq(Events)
             /\ missed[p] \in SUBSET Builds /\ missed[p] \ {b} \in SUBSET Builds
  <2> HIDE DEF event
  <2> QED
    BY <1>1 DEF StreamTypeOK
<1> QED
  BY <1>2 DEF OnBuildEvent

LEMMA ChangesType ==
  ASSUME StreamTypeOK, TableChanges
  PROVE  StreamTypeOK'
<1>1. changes' \in 0 .. MaxChanges
  BY StreamBoundsAssumption DEF StreamTypeOK, TableChanges, DbReset, DbAdd, DbRemove, Change
<1>2. UNCHANGED << online, stage, rest, image, connects >>
  BY DEF TableChanges, DbReset, DbAdd, DbRemove, Change
<1>3. /\ table' \in Tables
      /\ queue' \in [Pages -> Seq(Events)]
      /\ missed' \in [Pages -> SUBSET Builds]
  <2>1. CASE DbReset
    BY <2>1, AbsentIsRow DEF DbReset, StreamTypeOK, EmptyTable, Tables, Names
  <2>2. ASSUME NEW b \in Builds, DbRemove(b)
        PROVE  <1>3!1 /\ <1>3!2 /\ <1>3!3
    BY <2>2, AbsentIsRow, PutType, EventType DEF DbRemove, StreamTypeOK
  <2>3. ASSUME NEW b \in Builds, NEW row \in Observed, DbAdd(b, row)
        PROVE  <1>3!1 /\ <1>3!2 /\ <1>3!3
    BY <2>3, ObservedAssumption, PutType, EventType DEF DbAdd, StreamTypeOK
  <2> QED
    BY <2>1, <2>2, <2>3 DEF TableChanges
<1> QED
  BY <1>1, <1>2, <1>3 DEF StreamTypeOK

LEMMA ShowType ==
  ASSUME StreamTypeOK, NEW p \in Pages, NEW b \in Builds, NEW row \in Rows, Show(p, b, row)
  PROVE  image' \in [Pages -> Tables]
<1>1. [image[p] EXCEPT ![b] = row] \in Tables
  BY DEF StreamTypeOK, Tables
<1> QED
  BY <1>1 DEF Show, StreamTypeOK

LEMMA CloseType ==
  ASSUME StreamTypeOK, NEW p \in Pages, CloseIfGone(p)
  PROVE  stage' \in [Pages -> {"off", "registered", "streaming"}]
  BY DEF CloseIfGone, StreamTypeOK

LEMMA PageType ==
  ASSUME StreamTypeOK, NEW p \in Pages, Connect(p) \/ Disconnect(p) \/ Serve(p)
  PROVE  StreamTypeOK'
<1>1. CASE Connect(p)
  <2>1. Names(image[p]) \subseteq Builds
    BY DEF Names
  <2>2. connects' \in [Pages -> 0 .. MaxConnects]
    BY <1>1, StreamBoundsAssumption DEF Connect, StreamTypeOK
  <2>3. missed' \in [Pages -> SUBSET Builds]
    BY <1>1, <2>1 DEF Connect, StreamTypeOK
  <2> QED
    BY <1>1, <2>2, <2>3 DEF Connect, StreamTypeOK
<1>2. CASE Disconnect(p)
  BY <1>2 DEF Disconnect, StreamTypeOK
<1>3. CASE Stream(p)
  <2>1. Selection(Filters[p]) \in Tables /\ EmptyTable \in Tables
    BY AbsentIsRow DEF Selection, EmptyTable, StreamTypeOK, Tables
  <2> QED
    BY <1>3, <2>1 DEF Stream, StreamTypeOK
<1>4. CASE SendRow(p)
  <2>1. PICK b \in Builds : Show(p, b, rest[p][b]) /\ rest' = [rest EXCEPT ![p][b] = AbsentRow]
    BY <1>4 DEF SendRow, Names
  <2>2. rest[p][b] \in Rows /\ [rest[p] EXCEPT ![b] = AbsentRow] \in Tables
    BY AbsentIsRow DEF StreamTypeOK, Tables
  <2>3. image' \in [Pages -> Tables] /\ rest' \in [Pages -> Tables]
    BY <2>1, <2>2, ShowType DEF StreamTypeOK
  <2> QED
    BY <1>4, <2>3 DEF SendRow, StreamTypeOK
<1>5. CASE SendEvent(p)
  <2>1. Head(queue[p]) \in Events /\ Tail(queue[p]) \in Seq(Events)
    BY <1>5 DEF SendEvent, StreamTypeOK
  <2>2. image' \in [Pages -> Tables]
    BY <1>5, <2>1, ShowType DEF SendEvent, Events
  <2>3. queue' \in [Pages -> Seq(Events)]
    BY <1>5, <2>1 DEF SendEvent, StreamTypeOK
  <2> QED
    BY <1>5, <2>2, <2>3, CloseType DEF SendEvent, StreamTypeOK
<1>6. CASE Timeout(p)
  BY <1>6, CloseType DEF Timeout, StreamTypeOK
<1> QED
  BY <1>1, <1>2, <1>3, <1>4, <1>5, <1>6 DEF Serve

LEMMA StreamTypeStep ==
  ASSUME StreamTypeOK, [Next]_vars
  PROVE  StreamTypeOK'
<1>1. CASE UNCHANGED vars
  BY <1>1 DEF vars, StreamTypeOK
<1> QED
  BY <1>1, ChangesType, PageType DEF Next

LEMMA StreamTypeInit == Init => StreamTypeOK
<1> SUFFICES ASSUME Init
             PROVE  StreamTypeOK
  OBVIOUS
<1>1. EmptyTable \in Tables
  BY AbsentIsRow DEF EmptyTable, Tables
<1> QED
  BY <1>1, StreamBoundsAssumption DEF Init, StreamTypeOK

\* Every variable of the event stream keeps its type.
THEOREM StreamTypeCorrect == Spec => []StreamTypeOK
  BY StreamTypeInit, StreamTypeStep, PTL DEF Spec

(***************************************************************************)
(* The invariant, page by page.                                            *)
(***************************************************************************)
\* Only AbsentRow says that a build is absent.
Proper(row) == row.status = "absent" => row = AbsentRow

RowsProper ==
  \A b \in Builds :
    /\ Proper(table[b])
    /\ \A p \in Pages : Proper(rest[p][b]) /\ Proper(image[p][b])

QueueProper(p) == \A i \in 1 .. Len(queue[p]) : Proper(queue[p][i].row)

\* The event source has read its snapshot before it has rows of it, and a
\* page that is connected has an event source.
SourceShape(p) ==
  /\ stage[p] # "streaming" => rest[p] = EmptyTable
  /\ stage[p] = "off" => queue[p] = << >> /\ ~online[p]

Silent(p, b) == \A i \in 1 .. Len(queue[p]) : queue[p][i].build # b
LastOf(p, b, i) ==
  queue[p][i].build = b /\ \A j \in 1 .. Len(queue[p]) : j > i => queue[p][j].build # b

\* A page never hears of the builds it did not ask for.
OnlySelected(p) ==
  \A b \in Builds : ~Selected(Filters[p], b) =>
    image[p][b] = AbsentRow /\ rest[p][b] = AbsentRow /\ Silent(p, b)

Truth(p, b) == IF Selected(Filters[p], b) THEN table[b] ELSE AbsentRow

Fits(p, b, row) == row = Truth(p, b) \/ (table[b] = AbsentRow /\ b \in missed[p])

BuildFits(p, b) ==
  /\ \A i \in 1 .. Len(queue[p]) : LastOf(p, b, i) => Fits(p, b, queue[p][i].row)
  /\ Silent(p, b) /\ stage[p] = "streaming" =>
       /\ rest[p][b] # AbsentRow => Fits(p, b, rest[p][b])
       /\ rest[p][b] = AbsentRow => Fits(p, b, image[p][b])
  /\ Silent(p, b) /\ stage[p] = "registered" /\ p \notin ListPages =>
       image[p][b] = AbsentRow \/ b \in missed[p]

PageFits(p) ==
  Canonical(Filters[p]) =>
    OnlySelected(p) /\ (online[p] => \A b \in Builds : BuildFits(p, b))

PageInv(p) == QueueProper(p) /\ SourceShape(p) /\ PageFits(p)

StreamInv == StreamTypeOK /\ RowsProper /\ \A p \in Pages : PageInv(p)

(***************************************************************************)
(* Lemmas.                                                                 *)
(***************************************************************************)
\* search and on_build_event select the same builds.
LEMMA SameSelection ==
  ASSUME NEW p \in Pages, NEW b \in Builds, Canonical(Filters[p])
  PROVE  Selected(Filters[p], b) <=> Passes(Filters[p], b)
<1>1. Info[b].pr \in Nat /\ (Filters[p].pr \in Nat \/ Filters[p].pr = NoPrFilter)
  BY InfoAssumption, ReposAssumption
<1> QED
  BY <1>1 DEF Canonical, Selected, Passes, NoPr, NoPrFilter

\* A page is not touched by what happens to another one.
LEMMA Untouched ==
  ASSUME NEW p \in Pages, PageInv(p), table' = table,
         online'[p] = online[p], stage'[p] = stage[p], rest'[p] = rest[p],
         queue'[p] = queue[p], image'[p] = image[p], missed'[p] = missed[p]
  PROVE  PageInv(p)'
<1>1. QueueProper(p)' /\ SourceShape(p)'
  BY DEF PageInv, QueueProper, SourceShape
<1>2. ASSUME NEW b \in Builds
      PROVE  /\ Silent(p, b)' = Silent(p, b)
             /\ BuildFits(p, b) => BuildFits(p, b)'
  BY DEF Silent, BuildFits, LastOf, Fits, Truth
<1>3. PageFits(p)'
  BY <1>2 DEF PageInv, PageFits, OnlySelected
<1> QED
  BY <1>1, <1>3 DEF PageInv

LEMMA EmptyShape == \A b \in Builds : EmptyTable[b] = AbsentRow
  BY DEF EmptyTable

\* Reading builds and rows off a table, an event and a queue.
LEMMA RowsProperOf ==
  ASSUME StreamInv, NEW p \in Pages, NEW b \in Builds
  PROVE  /\ Names(table) = {c \in Builds : table[c] # AbsentRow}
         /\ Names(rest[p]) = {c \in Builds : rest[p][c] # AbsentRow}
         /\ Names(image[p]) = {c \in Builds : image[p][c] # AbsentRow}
  BY DEF StreamInv, RowsProper, Proper, Names, AbsentRow

(***************************************************************************)
(* The changes of the table.                                               *)
(***************************************************************************)
LEMMA ChangeStep ==
  ASSUME StreamInv, NEW c \in Builds, NEW row \in Rows, Proper(row), Change,
         table' = [table EXCEPT ![c] = row], OnBuildEvent(c, row)
  PROVE  RowsProper' /\ \A p \in Pages : PageInv(p)'
<1>1. UNCHANGED << online, stage, rest, image >>
  BY DEF Change
<1>2. /\ table'[c] = row
      /\ \A b \in Builds \ {c} : table'[b] = table[b]
  BY DEF StreamInv, StreamTypeOK, Tables
<1>3. RowsProper'
  BY <1>1, <1>2 DEF StreamInv, RowsProper
<1>4. ASSUME NEW p \in Pages
      PROVE  PageInv(p)'
  <2> DEFINE event == [build |-> c, row |-> row]
  <2>0. queue[p] \in Seq(Events) /\ event \in Events /\ missed[p] \subseteq Builds
    BY DEF StreamInv, StreamTypeOK, Events
  <2>1. QueueProper(p) /\ SourceShape(p) /\ PageFits(p)
    BY DEF StreamInv, PageInv
  <2>2. CASE ~Hears(p, c)
    <3>1. queue'[p] = queue[p] /\ missed'[p] = missed[p]
      BY <2>2 DEF OnBuildEvent
    <3>2. QueueProper(p)' /\ SourceShape(p)'
      BY <1>1, <2>1, <3>1 DEF QueueProper, SourceShape
    <3>3. ASSUME Canonical(Filters[p]), online[p]
          PROVE  ~Selected(Filters[p], c)
      BY <2>1, <2>2, <3>3, SameSelection DEF Hears, SourceShape
    <3>4. ASSUME NEW b \in Builds, Canonical(Filters[p]), OnlySelected(p), online[p], BuildFits(p, b)
          PROVE  BuildFits(p, b)'
      <4>1. Silent(p, b)' = Silent(p, b) /\ \A i \in 1 .. Len(queue[p]) : LastOf(p, b, i)' = LastOf(p, b, i)
        BY <3>1 DEF Silent, LastOf
      <4>2. CASE b # c
        BY <1>1, <1>2, <3>1, <3>4, <4>1, <4>2 DEF BuildFits, Fits, Truth
      <4>3. CASE b = c
        <5>1. ~Selected(Filters[p], b) /\ Silent(p, b) /\ image[p][b] = AbsentRow /\ rest[p][b] = AbsentRow
          BY <3>3, <3>4, <4>3 DEF OnlySelected
        <5>2. \A i \in 1 .. Len(queue[p]) : ~LastOf(p, b, i)
          BY <5>1 DEF Silent, LastOf
        <5> QED
          BY <1>1, <3>1, <4>1, <5>1, <5>2 DEF BuildFits, Fits, Truth
      <4> QED
        BY <4>2, <4>3
    <3>5. OnlySelected(p) => OnlySelected(p)'
      BY <1>1, <3>1 DEF OnlySelected, Silent
    <3>6. PageFits(p)'
      BY <1>1, <2>1, <3>4, <3>5 DEF PageFits
    <3> QED
      BY <3>2, <3>6 DEF PageInv
  <2>3. CASE Hears(p, c)
    <3>1. queue'[p] = Append(queue[p], event) /\ missed'[p] = missed[p] \ {c}
      BY <2>3 DEF OnBuildEvent
    <3>2. /\ Len(queue'[p]) = Len(queue[p]) + 1
          /\ queue'[p][Len(queue[p]) + 1] = event
          /\ \A i \in 1 .. Len(queue[p]) : queue'[p][i] = queue[p][i]
          /\ Len(queue[p]) \in Nat
      <4> HIDE DEF event
      <4> QED
        BY <2>0, <3>1
    <3> DEFINE end == Len(queue[p]) + 1
    <3>10. /\ 1 .. Len(queue'[p]) = 1 .. Len(queue[p]) \union {end}
           /\ end \notin 1 .. Len(queue[p])
      BY <3>2
    <3>11. queue'[p][end].build = c /\ queue'[p][end].row = row
      BY <3>2
    <3> HIDE DEF end
    <3>12. QueueProper(p)'
      <4> SUFFICES ASSUME NEW i \in 1 .. Len(queue'[p])
                   PROVE  Proper(queue'[p][i].row)
        BY DEF QueueProper, Proper
      <4>1. CASE i = end
        BY <3>11, <4>1
      <4>2. CASE i \in 1 .. Len(queue[p])
        BY <2>1, <3>2, <4>2 DEF QueueProper
      <4> QED
        BY <3>10, <4>1, <4>2
    <3>13. SourceShape(p)'
      BY <1>1, <2>1, <2>3 DEF SourceShape, Hears
    <3>3. QueueProper(p)' /\ SourceShape(p)'
      BY <3>12, <3>13
    <3>4. ASSUME NEW b \in Builds
          PROVE  Silent(p, b)' <=> Silent(p, b) /\ b # c
      <4>1. Silent(p, b)' <=> \A i \in 1 .. Len(queue'[p]) : queue'[p][i].build # b
        BY DEF Silent
      <4>2. (\A i \in 1 .. Len(queue'[p]) : queue'[p][i].build # b)
              <=> (\A i \in 1 .. Len(queue[p]) : queue'[p][i].build # b) /\ b # c
        BY <3>10, <3>11
      <4>3. (\A i \in 1 .. Len(queue[p]) : queue'[p][i].build # b) <=> Silent(p, b)
        BY <3>2 DEF Silent
      <4> QED
        BY <4>1, <4>2, <4>3
    <3>5. ASSUME NEW b \in Builds, Canonical(Filters[p]), BuildFits(p, b)
          PROVE  BuildFits(p, b)'
      <4>1. CASE b # c
        <5>1. \A i \in 1 .. Len(queue'[p]) : LastOf(p, b, i)' => i \in 1 .. Len(queue[p]) /\ LastOf(p, b, i)
          BY SMTT(30), <3>2, <4>1 DEF LastOf
        <5>2. \A r : Fits(p, b, r)' <=> Fits(p, b, r)
          BY <1>2, <3>1, <4>1 DEF Fits, Truth
        <5>3. \A i \in 1 .. Len(queue'[p]) : LastOf(p, b, i)' => Fits(p, b, queue[p][i].row)
          BY <3>5, <5>1 DEF BuildFits
        <5>4. \A i \in 1 .. Len(queue'[p]) : LastOf(p, b, i)' => Fits(p, b, queue[p][i].row)'
          BY <3>2, <5>1, <5>2, <5>3
        <5> QED
          BY <1>1, <3>1, <3>4, <3>5, <4>1, <5>2, <5>4 DEF BuildFits, Fits, Truth
      <4>2. CASE b = c
        <5>1. Truth(p, b)' = row
          BY <1>2, <2>3, <3>5, <4>2, SameSelection DEF Truth, Hears
        <5>2. \A i \in 1 .. Len(queue'[p]) : LastOf(p, b, i)' => i = Len(queue[p]) + 1
          BY <3>2, <4>2 DEF LastOf
        <5>3. ~Silent(p, b)'
          BY <3>4, <4>2
        <5> QED
          BY <3>2, <5>1, <5>2, <5>3 DEF BuildFits, Fits
      <4> QED
        BY <4>1, <4>2
    <3>6. Canonical(Filters[p]) /\ OnlySelected(p) => OnlySelected(p)'
      BY <1>1, <2>3, <3>4, SameSelection DEF OnlySelected, Hears
    <3>7. PageFits(p)'
      BY <1>1, <2>1, <3>5, <3>6 DEF PageFits
    <3> QED
      BY <3>3, <3>7 DEF PageInv
  <2> QED
    BY <2>2, <2>3
<1> QED
  BY <1>3, <1>4

LEMMA ResetStep ==
  ASSUME StreamInv, DbReset
  PROVE  RowsProper' /\ \A p \in Pages : PageInv(p)'
<1>1. UNCHANGED << online, stage, rest, image, queue >> /\ \A b \in Builds : table'[b] = AbsentRow
  BY EmptyShape DEF DbReset, Change
<1>2. RowsProper'
  BY <1>1 DEF StreamInv, RowsProper, Proper
<1>3. ASSUME NEW p \in Pages
      PROVE  PageInv(p)'
  <2>1. QueueProper(p) /\ SourceShape(p) /\ PageFits(p)
    BY DEF StreamInv, PageInv
  <2>2. QueueProper(p)' /\ SourceShape(p)' /\ (OnlySelected(p) => OnlySelected(p)')
    BY <1>1, <2>1 DEF QueueProper, SourceShape, OnlySelected, Silent
  <2>3. ASSUME NEW b \in Builds, online[p], BuildFits(p, b)
        PROVE  BuildFits(p, b)'
    <3>1. missed'[p] = missed[p] \union Names(table)
      BY <2>1, <2>3 DEF DbReset, SourceShape
    <3>2. \A r : Fits(p, b, r) => Fits(p, b, r)'
      BY <1>1, <3>1, RowsProperOf DEF Fits, Truth
    <3>3. Silent(p, b)' = Silent(p, b) /\ \A i \in 1 .. Len(queue[p]) : LastOf(p, b, i)' = LastOf(p, b, i)
      BY <1>1 DEF Silent, LastOf
    <3>4. \A i \in 1 .. Len(queue'[p]) : LastOf(p, b, i)' => Fits(p, b, queue[p][i].row)'
      BY <1>1, <2>3, <3>2, <3>3 DEF BuildFits
    <3> QED
      BY <1>1, <2>3, <3>1, <3>2, <3>3, <3>4 DEF BuildFits, Fits, Truth
  <2>4. PageFits(p)'
    BY <1>1, <2>1, <2>2, <2>3 DEF PageFits
  <2> QED
    BY <2>2, <2>4 DEF PageInv
<1> QED
  BY <1>2, <1>3

LEMMA TableStep ==
  ASSUME StreamInv, TableChanges
  PROVE  RowsProper' /\ \A p \in Pages : PageInv(p)'
<1>1. ASSUME NEW b \in Builds, DbRemove(b)
      PROVE  RowsProper' /\ \A p \in Pages : PageInv(p)'
  BY <1>1, AbsentIsRow, ChangeStep DEF DbRemove, Drop, Proper
<1>2. ASSUME NEW b \in Builds, NEW row \in Observed, DbAdd(b, row)
      PROVE  RowsProper' /\ \A p \in Pages : PageInv(p)'
  <2>1. row \in Rows /\ Proper(row)
    BY ObservedAssumption DEF Proper
  <2> QED
    BY <1>2, <2>1, ChangeStep DEF DbAdd, Put
<1> QED
  BY <1>1, <1>2, ResetStep DEF TableChanges

(***************************************************************************)
(* The steps of a page.                                                    *)
(***************************************************************************)
LEMMA ConnectStep ==
  ASSUME StreamInv, NEW p \in Pages, Connect(p)
  PROVE  RowsProper' /\ PageInv(p)'
<1>1. /\ table' = table /\ rest' = rest /\ queue' = queue /\ image' = image
      /\ online'[p] /\ stage'[p] = "registered"
      /\ missed'[p] = IF p \in ListPages THEN {} ELSE Names(image[p])
      /\ stage[p] = "off"
  BY DEF Connect, StreamInv, StreamTypeOK
<1>2. QueueProper(p) /\ SourceShape(p) /\ PageFits(p)
  BY DEF StreamInv, PageInv
<1>3. queue[p] = << >> /\ rest[p] = EmptyTable
  BY <1>1, <1>2 DEF SourceShape
<1>4. RowsProper' /\ QueueProper(p)' /\ SourceShape(p)' /\ (OnlySelected(p) => OnlySelected(p)')
  BY <1>1, <1>2, <1>3 DEF StreamInv, RowsProper, QueueProper, SourceShape, OnlySelected, Silent
<1>5. ASSUME NEW b \in Builds
      PROVE  BuildFits(p, b)'
  <2>1. image[p][b] # AbsentRow => b \in Names(image[p])
    BY RowsProperOf
  <2> QED
    BY <1>1, <1>3, <2>1 DEF BuildFits
<1>6. PageFits(p)'
  BY <1>2, <1>4, <1>5 DEF PageFits
<1> QED
  BY <1>4, <1>6 DEF PageInv

LEMMA DisconnectStep ==
  ASSUME StreamInv, NEW p \in Pages, Disconnect(p)
  PROVE  RowsProper' /\ PageInv(p)'
<1>1. UNCHANGED << table, stage, rest, queue, image, missed >> /\ ~online'[p]
  BY DEF Disconnect, StreamInv, StreamTypeOK
<1>2. PageInv(p) /\ RowsProper
  BY DEF StreamInv
<1> QED
  BY <1>1, <1>2 DEF PageInv, QueueProper, SourceShape, PageFits, OnlySelected, Silent, RowsProper

LEMMA StreamStep ==
  ASSUME StreamInv, NEW p \in Pages, Stream(p)
  PROVE  RowsProper' /\ PageInv(p)'
<1>1. /\ table' = table /\ online' = online /\ queue' = queue /\ missed' = missed
      /\ stage[p] = "registered" /\ stage'[p] = "streaming"
      /\ rest'[p] = Selection(Filters[p])
      /\ image'[p] = IF p \in ListPages /\ online[p] THEN EmptyTable ELSE image[p]
      /\ \A q \in Pages \ {p} : rest'[q] = rest[q] /\ image'[q] = image[q]
  BY DEF Stream, StreamInv, StreamTypeOK
<1>2. QueueProper(p) /\ SourceShape(p) /\ PageFits(p) /\ RowsProper
  BY DEF StreamInv, PageInv
<1>3. \A b \in Builds : rest'[p][b] = Truth(p, b)
  BY <1>1 DEF Selection, Truth
<1>4. RowsProper'
  BY <1>1, <1>2, <1>3, EmptyShape DEF RowsProper, Truth, Proper
<1>5. QueueProper(p)' /\ SourceShape(p)' /\ (OnlySelected(p) => OnlySelected(p)')
  BY <1>1, <1>2, <1>3, EmptyShape DEF QueueProper, SourceShape, OnlySelected, Silent, Truth
<1>6. ASSUME NEW b \in Builds, online[p], OnlySelected(p), BuildFits(p, b)
      PROVE  BuildFits(p, b)'
  <2>1. /\ Silent(p, b)' = Silent(p, b)
        /\ \A i \in 1 .. Len(queue[p]) : LastOf(p, b, i)' = LastOf(p, b, i)
        /\ Truth(p, b)' = Truth(p, b)
    BY <1>1 DEF Silent, LastOf, Truth
  <2>2. \A i \in 1 .. Len(queue[p]) : LastOf(p, b, i)' => Fits(p, b, queue[p][i].row)'
    BY <1>1, <1>6, <2>1 DEF BuildFits, Fits
  <2>3. ASSUME Silent(p, b), Truth(p, b) = AbsentRow
        PROVE  Fits(p, b, image[p][b])'
    <3>1. CASE p \in ListPages
      BY <1>1, <1>6, <2>1, <2>3, <3>1, EmptyShape DEF Fits
    <3>2. CASE p \notin ListPages
      BY <1>1, <1>6, <2>1, <2>3, <3>2 DEF BuildFits, Fits, Truth, OnlySelected
    <3> QED
      BY <3>1, <3>2
  <2> QED
    BY <1>1, <1>3, <2>1, <2>2, <2>3 DEF BuildFits, Fits
<1>7. PageFits(p)'
  BY <1>1, <1>2, <1>5, <1>6 DEF PageFits
<1> QED
  BY <1>4, <1>5, <1>7 DEF PageInv

LEMMA SendRowStep ==
  ASSUME StreamInv, NEW p \in Pages, SendRow(p)
  PROVE  RowsProper' /\ PageInv(p)'
<1> PICK c \in Names(rest[p]) :
      Show(p, c, rest[p][c]) /\ rest' = [rest EXCEPT ![p][c] = AbsentRow]
  BY DEF SendRow
<1>0. c \in Builds /\ rest[p][c] # AbsentRow
  BY RowsProperOf DEF Names
<1>1. /\ table' = table /\ online' = online /\ queue' = queue /\ missed' = missed
      /\ stage' = stage /\ stage[p] = "streaming"
      /\ rest'[p][c] = AbsentRow
      /\ \A b \in Builds \ {c} : rest'[p][b] = rest[p][b] /\ image'[p][b] = image[p][b]
      /\ image'[p][c] = IF online[p] THEN rest[p][c] ELSE image[p][c]
      /\ \A q \in Pages \ {p} : rest'[q] = rest[q] /\ image'[q] = image[q]
  BY <1>0 DEF SendRow, Show, StreamInv, StreamTypeOK, Tables
<1>2. QueueProper(p) /\ SourceShape(p) /\ PageFits(p) /\ RowsProper
  BY DEF StreamInv, PageInv
<1>3. RowsProper'
  <2>1. Proper(AbsentRow) /\ Proper(rest[p][c])
    BY <1>0, <1>2 DEF Proper, RowsProper
  <2> QED
    BY <1>1, <1>2, <2>1 DEF RowsProper
<1>4. QueueProper(p)' /\ SourceShape(p)' /\ (OnlySelected(p) => OnlySelected(p)')
  BY <1>0, <1>1, <1>2 DEF QueueProper, SourceShape, OnlySelected, Silent
<1>5. ASSUME NEW b \in Builds, online[p], BuildFits(p, b)
      PROVE  BuildFits(p, b)'
  <2>1. /\ Silent(p, b)' = Silent(p, b)
        /\ \A i \in 1 .. Len(queue[p]) : LastOf(p, b, i)' = LastOf(p, b, i)
        /\ Truth(p, b)' = Truth(p, b)
    BY <1>1 DEF Silent, LastOf, Truth
  <2>2. \A i \in 1 .. Len(queue[p]) : LastOf(p, b, i)' => Fits(p, b, queue[p][i].row)'
    BY <1>1, <1>5, <2>1 DEF BuildFits, Fits
  <2> QED
    BY <1>0, <1>1, <1>5, <2>1, <2>2 DEF BuildFits, Fits
<1>6. PageFits(p)'
  BY <1>1, <1>2, <1>4, <1>5 DEF PageFits
<1> QED
  BY <1>3, <1>4, <1>6 DEF PageInv

LEMMA SendEventStep ==
  ASSUME StreamInv, NEW p \in Pages, SendEvent(p)
  PROVE  RowsProper' /\ PageInv(p)'
<1> DEFINE e == Head(queue[p])
           n == Len(queue[p])
<1>1. /\ n \in Nat \ {0} /\ e = queue[p][1] /\ e \in Events
      /\ Len(Tail(queue[p])) = n - 1
      /\ \A i \in 1 .. n - 1 : Tail(queue[p])[i] = queue[p][i + 1]
  BY DEF SendEvent, StreamInv, StreamTypeOK
<1>2. /\ table' = table /\ online' = online /\ rest' = rest /\ missed' = missed
      /\ stage[p] = "streaming" /\ rest[p] = EmptyTable
      /\ stage'[p] = IF online[p] THEN stage[p] ELSE "off"
      /\ queue'[p] = IF online[p] THEN Tail(queue[p]) ELSE << >>
      /\ \A b \in Builds : image'[p][b] = IF online[p] /\ b = e.build THEN e.row ELSE image[p][b]
      /\ \A q \in Pages \ {p} : image'[q] = image[q]
  <2>1. e.build \in Builds /\ Show(p, e.build, e.row)
    BY <1>1 DEF SendEvent, Events
  <2>2. /\ \A b \in Builds : image'[p][b] = IF online[p] /\ b = e.build THEN e.row ELSE image[p][b]
        /\ \A q \in Pages \ {p} : image'[q] = image[q]
    BY <2>1 DEF Show, StreamInv, StreamTypeOK, Tables
  <2> QED
    BY <2>2 DEF SendEvent, CloseIfGone, StreamInv, StreamTypeOK
<1> HIDE DEF e, n
<1>3. QueueProper(p) /\ SourceShape(p) /\ PageFits(p) /\ RowsProper
  BY DEF StreamInv, PageInv
<1>4. CASE ~online[p]
  BY <1>2, <1>3, <1>4
     DEF PageInv, RowsProper, QueueProper, SourceShape, PageFits, OnlySelected, Silent
<1>5. CASE online[p]
  <2>1. /\ Len(queue'[p]) = n - 1
        /\ \A i \in 1 .. n - 1 : queue'[p][i] = queue[p][i + 1]
    BY <1>1, <1>2, <1>5
  <2>2. Proper(e.row) /\ RowsProper'
    <3>1. Proper(e.row)
      BY <1>1, <1>3 DEF QueueProper, n
    <3> QED
      BY <1>2, <1>3, <3>1 DEF RowsProper
  <2>3. QueueProper(p)' /\ SourceShape(p)'
    BY <1>1, <1>2, <1>3, <1>5, <2>1 DEF QueueProper, SourceShape, n
  <2>4. ASSUME NEW b \in Builds
        PROVE  /\ Silent(p, b) <=> Silent(p, b)' /\ e.build # b
               /\ \A i \in 1 .. n - 1 : LastOf(p, b, i)' => LastOf(p, b, i + 1)
               /\ Silent(p, b)' /\ e.build = b => LastOf(p, b, 1)
    <3>1. /\ 1 .. Len(queue[p]) = 1 .. n /\ 1 .. Len(queue'[p]) = 1 .. n - 1
          /\ \A j \in 1 .. n - 1 : j + 1 \in 1 .. n /\ queue[p][j + 1] = queue'[p][j]
          /\ \A j \in 1 .. n : j # 1 => j - 1 \in 1 .. n - 1 /\ queue[p][j] = queue'[p][j - 1]
          /\ 1 \in 1 .. n /\ queue[p][1] = e
      <4>1. 1 .. Len(queue[p]) = 1 .. n /\ 1 .. Len(queue'[p]) = 1 .. n - 1
        BY <2>1 DEF n
      <4>2. ASSUME NEW j \in 1 .. n, j # 1
            PROVE  j - 1 \in 1 .. n - 1 /\ queue[p][j] = queue'[p][j - 1]
        <5>1. j - 1 \in 1 .. n - 1 /\ (j - 1) + 1 = j
          BY <1>1, <4>2
        <5> QED
          BY <2>1, <5>1
      <4> QED
        BY <1>1, <2>1, <4>1, <4>2
    <3>2. Silent(p, b) <=> \A j \in 1 .. n : queue[p][j].build # b
      BY <3>1 DEF Silent
    <3>3. Silent(p, b)' <=> \A j \in 1 .. n - 1 : queue'[p][j].build # b
      BY <3>1 DEF Silent
    <3>4. ASSUME NEW i \in 1 .. n - 1, LastOf(p, b, i)'
          PROVE  LastOf(p, b, i + 1)
      <4>1. \A j \in 1 .. n - 1 : j > i => queue'[p][j].build # b
        BY <3>1, <3>4 DEF LastOf
      <4>2. ASSUME NEW j \in 1 .. n, j > i + 1
            PROVE  queue[p][j].build # b
        <5>1. j # 1 /\ j - 1 > i
          BY <1>1, <4>2
        <5> QED
          BY SMTT(30), <3>1, <4>1, <5>1
      <4>3. queue[p][i + 1].build = b
        BY <3>1, <3>4 DEF LastOf
      <4> QED
        BY <3>1, <4>2, <4>3 DEF LastOf
    <3>5. Silent(p, b)' /\ e.build = b => LastOf(p, b, 1)
      <4>1. ASSUME Silent(p, b)', NEW j \in 1 .. n, j > 1
            PROVE  queue[p][j].build # b
        <5>1. j # 1
          BY <1>1, <4>1
        <5> QED
          BY <3>1, <3>3, <4>1, <5>1
      <4> QED
        BY <3>1, <4>1 DEF LastOf
    <3>6. Silent(p, b) <=> Silent(p, b)' /\ e.build # b
      BY SMTT(30), <3>1, <3>2, <3>3
    <3> QED
      BY <3>4, <3>5, <3>6
  <2>5. OnlySelected(p) => OnlySelected(p)'
    BY <1>2, <2>4 DEF OnlySelected
  <2>6. ASSUME NEW b \in Builds, BuildFits(p, b)
        PROVE  BuildFits(p, b)'
    <3>1. \A r : Fits(p, b, r) <=> (r = Truth(p, b)' \/ (table'[b] = AbsentRow /\ b \in missed'[p]))
      BY <1>2 DEF Fits, Truth
    <3>2. \A i \in 1 .. n : LastOf(p, b, i) => Fits(p, b, queue[p][i].row)
      BY <2>6 DEF BuildFits, n
    <3>3. ASSUME NEW i \in 1 .. n - 1, LastOf(p, b, i)'
          PROVE  Fits(p, b, queue[p][i].row)'
      <4>1. i + 1 \in 1 .. n /\ LastOf(p, b, i + 1) /\ queue'[p][i] = queue[p][i + 1]
        BY <1>1, <2>1, <2>4, <3>3
      <4> QED
        BY <3>1, <3>2, <4>1 DEF Fits
    <3>4. ASSUME Silent(p, b)'
          PROVE  Fits(p, b, image[p][b])'
      <4>1. CASE b = e.build
        <5>1. 1 \in 1 .. n /\ LastOf(p, b, 1) /\ image'[p][b] = queue[p][1].row
          BY <1>1, <1>2, <1>5, <2>4, <3>4, <4>1
        <5> QED
          BY <3>1, <3>2, <5>1 DEF Fits
      <4>2. CASE b # e.build
        <5>1. Silent(p, b) /\ rest[p][b] = AbsentRow /\ image'[p][b] = image[p][b]
          BY <1>2, <2>4, <3>4, <4>2, EmptyShape
        <5> QED
          BY <1>2, <2>6, <3>1, <5>1 DEF BuildFits, Fits
      <4> QED
        BY <4>1, <4>2
    <3> QED
      BY <1>2, <1>5, <2>1, <3>3, <3>4, EmptyShape DEF BuildFits
  <2>7. PageFits(p)'
    BY <1>2, <1>3, <1>5, <2>5, <2>6 DEF PageFits
  <2> QED
    BY <2>2, <2>3, <2>7 DEF PageInv
<1> QED
  BY <1>4, <1>5

LEMMA TimeoutStep ==
  ASSUME StreamInv, NEW p \in Pages, Timeout(p)
  PROVE  RowsProper' /\ PageInv(p)'
<1>1. /\ UNCHANGED << table, online, rest, queue, image, missed >>
      /\ stage[p] = "streaming" /\ rest[p] = EmptyTable /\ queue[p] = << >>
      /\ stage'[p] = IF online[p] THEN stage[p] ELSE "off"
  BY DEF Timeout, CloseIfGone, StreamInv, StreamTypeOK
<1>2. PageInv(p) /\ RowsProper
  BY DEF StreamInv
<1>3. CASE online[p]
  BY <1>1, <1>2, <1>3, Untouched DEF RowsProper
<1>4. CASE ~online[p]
  BY <1>1, <1>2, <1>4
     DEF PageInv, QueueProper, SourceShape, PageFits, OnlySelected, Silent, RowsProper
<1> QED
  BY <1>3, <1>4

(***************************************************************************)
(* The theorem.                                                            *)
(***************************************************************************)
LEMMA PageStep ==
  ASSUME StreamInv, NEW p \in Pages, Connect(p) \/ Disconnect(p) \/ Serve(p)
  PROVE  RowsProper' /\ \A q \in Pages : PageInv(q)'
<1>1. RowsProper' /\ PageInv(p)'
  BY ConnectStep, DisconnectStep, StreamStep, SendRowStep, SendEventStep, TimeoutStep DEF Serve
<1>2. ASSUME NEW q \in Pages \ {p}
      PROVE  PageInv(q)'
  <2>1. /\ table' = table /\ online'[q] = online[q] /\ stage'[q] = stage[q]
        /\ rest'[q] = rest[q] /\ queue'[q] = queue[q] /\ image'[q] = image[q]
        /\ missed'[q] = missed[q]
    BY DEF StreamInv, StreamTypeOK, Connect, Disconnect, Serve, Stream, SendRow, SendEvent,
           Timeout, CloseIfGone, Show
  <2> QED
    BY <2>1, Untouched DEF StreamInv
<1> QED
  BY <1>1, <1>2

LEMMA StreamInvStep ==
  ASSUME StreamInv, [Next]_vars
  PROVE  StreamInv'
<1>1. StreamTypeOK'
  BY StreamTypeStep DEF StreamInv
<1>2. RowsProper' /\ \A p \in Pages : PageInv(p)'
  <2>1. CASE UNCHANGED vars
    BY <2>1, Untouched DEF vars, StreamInv, RowsProper
  <2> QED
    BY <2>1, TableStep, PageStep DEF Next
<1> QED
  BY <1>1, <1>2 DEF StreamInv

LEMMA StreamInvInit == Init => StreamInv
<1> SUFFICES ASSUME Init
             PROVE  StreamInv
  OBVIOUS
<1>1. StreamTypeOK
  BY StreamTypeInit
<1>2. RowsProper
  BY EmptyShape DEF Init, RowsProper, Proper
<1>3. ASSUME NEW p \in Pages
      PROVE  PageInv(p)
  BY EmptyShape DEF Init, PageInv, QueueProper, SourceShape, PageFits, OnlySelected, Silent
<1> QED
  BY <1>1, <1>2, <1>3 DEF StreamInv

\* A page that has caught up shows the builds of the table that it asked for
\* and no others, but for those of whose removal it was never told: the
\* listener that is registered before the snapshot is read loses nothing,
\* and what it hears twice does no harm.
THEOREM CaughtUpPagesShowTheTable == Spec => []CaughtUpShowsTable
<1>1. Init => StreamInv
  BY StreamInvInit
<1>2. StreamInv /\ [Next]_vars => StreamInv'
  BY StreamInvStep
<1>3. StreamInv => CaughtUpShowsTable
  <2> SUFFICES ASSUME StreamInv, NEW p \in Pages, CaughtUp(p), Canonical(Filters[p]), NEW b \in Builds
               PROVE  image[p][b] = Truth(p, b) \/ (table[b] = AbsentRow /\ b \in missed[p])
    BY DEF CaughtUpShowsTable, Truth
  <2>1. BuildFits(p, b) /\ Silent(p, b) /\ rest[p][b] = AbsentRow /\ stage[p] = "streaming"
    BY EmptyShape DEF StreamInv, PageInv, PageFits, CaughtUp, Silent
  <2> QED
    BY <2>1 DEF BuildFits, Fits
<1> QED
  BY <1>1, <1>2, <1>3, PTL DEF Spec
=============================================================================
