------------------------------ MODULE Webhooks ------------------------------
(***************************************************************************)
(* The webhook of src/runboat/webhooks.py and the two trigger operations   *)
(* of src/runboat/api.py, composed with the controller they start          *)
(* background tasks in, and with the branches and pull requests of one     *)
(* GitHub repository.                                                      *)
(*                                                                         *)
(* GitHub sends a payload for every change; payloads arrive in any order,  *)
(* and may be sent again.  receive_payload reads nothing but the payload   *)
(* and the settings, so receiving one is one step with the start of the    *)
(* background task it adds: the task runs as an actor of Clients, and      *)
(* every step here is a step of Controller.tla or leaves it alone.         *)
(***************************************************************************)
EXTENDS Controller

CONSTANTS
  Refs,        \* the refs that are pushed to, each the sequence of its components
  Pulls,       \* the numbers of the pull requests
  Commits,     \* the commits
  BaseBranch,  \* the branch the pull requests are for
  MaxEvents,   \* bound: what happens on GitHub
  MaxRepeats   \* bound: payloads sent again, and triggers

ASSUME RefsAssumption == \A ref \in Refs : Len(ref) > 2
ASSUME PullsAssumption == Pulls \subseteq Nat \ {NoPr}
ASSUME EventsAssumption == MaxEvents \in Nat /\ MaxRepeats \in Nat

VARIABLES
  heads,       \* the commit of each ref
  pulls,       \* the state and the commit of each pull request
  deliveries,  \* the payloads under way, and the commits that were triggered
  events,      \* events on GitHub
  repeats,     \* repeats met
  condemned,   \* history: builds that the closing of their pull request found
  anyReset     \* history: whether a reset was asked for

hookVars == << heads, pulls, deliveries, events, repeats, condemned, anyReset >>
allVars == << vars, heads, pulls, deliveries, events, repeats, condemned, anyReset >>

NoCommit == "none"
BranchCommit(branch, commit) == [branch |-> branch, pr |-> NoPr, commit |-> commit]
PullCommit(n, commit) == [branch |-> BaseBranch, pr |-> n, commit |-> commit]

WebhookInit ==
  /\ StartedInit
  /\ heads = [ref \in Refs |-> NoCommit]
  /\ pulls = [n \in Pulls |-> [state |-> "none", head |-> NoCommit, wasClosed |-> FALSE]]
  /\ deliveries = {}
  /\ events = 0 /\ repeats = 0
  /\ condemned = {} /\ anyReset = FALSE

(***************************************************************************)
(* GitHub.  Payloads that are equal and under way together are one: they   *)
(* start equal tasks, and sending one again is a repeat.                   *)
(***************************************************************************)
Sends(payload) ==
  /\ events < MaxEvents
  /\ events' = events + 1
  /\ deliveries' = deliveries \union {payload}
  /\ UNCHANGED << vars, repeats, condemned, anyReset >>

Push(ref, commit) ==
  /\ commit # heads[ref]
  /\ heads' = [heads EXCEPT ![ref] = commit]
  /\ Sends([event |-> "push", ref |-> ref, after |-> commit])
  /\ UNCHANGED pulls

PullRequest(n, action, commit) ==
  LET p == pulls[n] IN
  /\ CASE action = "opened" -> p.state = "none"
       [] action = "synchronize" -> p.state = "open" /\ commit # p.head
       [] action = "closed" -> p.state = "open" /\ commit = p.head
       [] action = "reopened" -> p.state = "closed" /\ commit = p.head
  /\ pulls' = [pulls EXCEPT ![n] =
       [state |-> IF action = "closed" THEN "closed" ELSE "open", head |-> commit,
        wasClosed |-> p.wasClosed \/ action = "closed"]]
  /\ Sends([event |-> "pull_request", action |-> action, number |-> n, sha |-> commit])
  /\ UNCHANGED heads

GitHubEvent ==
  \E commit \in Commits :
    \/ \E ref \in Refs : Push(ref, commit)
    \/ \E n \in Pulls, action \in {"opened", "synchronize", "closed", "reopened"} :
         PullRequest(n, action, commit)

(***************************************************************************)
(* trigger_branch and trigger_pull: GitHub is asked for the commit, and    *)
(* deploy_commit runs when it has answered, maybe after other events.  The *)
(* state of the pull request and the settings are not looked at.           *)
(***************************************************************************)
Trigger(info) ==
  /\ info.commit # NoCommit
  /\ repeats < MaxRepeats
  /\ repeats' = repeats + 1
  /\ deliveries' = deliveries \union {[event |-> "trigger", info |-> info]}
  /\ UNCHANGED << vars, heads, pulls, events, condemned, anyReset >>

TriggerBranch(ref) == Len(ref) = 3 /\ Trigger(BranchCommit(ref[3], heads[ref]))
TriggerPull(n) == Trigger(PullCommit(n, pulls[n].head))

(***************************************************************************)
(* The background tasks.  DeployCommit and UndeployBuilds are those of the *)
(* controller; a task that finds nothing to do ends at once.               *)
(***************************************************************************)
DeployCommitOf(c, info) ==
  IF ForCommit(db, info) # {}
  THEN UNCHANGED vars
  ELSE \E b \in Builds : Info[b] = info /\ DeployCommit(c, b)

BuildsOfPull(pr) == {b \in Names(db) : Info[b].pr = pr}

UndeployBuildsOf(c, pr) ==
  IF BuildsOfPull(pr) = {} THEN UNCHANGED vars ELSE UndeployBuilds(c, pr)

(***************************************************************************)
(* receive_payload.  A pull request that is reopened or edited is ignored. *)
(***************************************************************************)
IsSupported(branch) == branch \in SupportedBranches

ReceivePullRequest(c, d) ==
  IF ~IsSupported(BaseBranch)
  THEN UNCHANGED << vars, condemned >>
  ELSE CASE d.action \in {"opened", "synchronize"} ->
              DeployCommitOf(c, PullCommit(d.number, d.sha)) /\ UNCHANGED condemned
         [] d.action = "closed" ->
              /\ UndeployBuildsOf(c, d.number)
              /\ condemned' = condemned \union BuildsOfPull(d.number)
         [] OTHER -> UNCHANGED << vars, condemned >>

ReceivePush(c, d) ==
  /\ IF IsSupported(Last(d.ref))
     THEN DeployCommitOf(c, BranchCommit(Last(d.ref), d.after))
     ELSE UNCHANGED vars
  /\ UNCHANGED condemned

ReceivePayload(c, d) ==
  \/ d.event = "pull_request" /\ ReceivePullRequest(c, d)
  \/ d.event = "push" /\ ReceivePush(c, d)
  \/ d.event = "trigger" /\ DeployCommitOf(c, d.info) /\ UNCHANGED condemned

Deliver(c) ==
  /\ calls[c] = << >>
  /\ \E d \in deliveries :
       /\ ReceivePayload(c, d)
       /\ \/ deliveries' = deliveries \ {d} /\ UNCHANGED repeats
          \/ /\ repeats < MaxRepeats
             /\ repeats' = repeats + 1
             /\ UNCHANGED deliveries
  /\ UNCHANGED << heads, pulls, events, anyReset >>

(***************************************************************************)
(* The composition.  Of the operations of the REST API only the reset is   *)
(* here: it is the one that can undo what a payload did.                   *)
(***************************************************************************)
Reset(c, b) ==
  /\ ResetBuild(c, b)
  /\ anyReset' = TRUE
  /\ UNCHANGED << heads, pulls, deliveries, events, repeats, condemned >>

WebhookNext ==
  \/ Background /\ UNCHANGED hookVars
  \/ \E c \in Clients : Deliver(c) \/ \E b \in Builds : Reset(c, b)
  \/ GitHubEvent
  \/ \E ref \in Refs : TriggerBranch(ref)
  \/ \E n \in Pulls : TriggerPull(n)

WebhookSpec == WebhookInit /\ [][WebhookNext]_allVars
=============================================================================
