------------------------- MODULE WebhookProperties --------------------------
(***************************************************************************)
(* What the webhook and the controller promise together to a repository.   *)
(***************************************************************************)
EXTENDS Webhooks, ControllerProperties

\* Nothing is left to do, and no payload is under way.
AllHandled == Settled /\ deliveries = {}

IsBuilt(info) == \E b \in Builds : Live(b) /\ Info[b] = info

\* The webhook triggers "new builds on pushes to branches and pull requests":
\* whatever the order and the number of the payloads, the commit each
\* supported branch and each open pull request points to has a build, as
\* long as no call fails and the pull request was never closed (the payload
\* of its being reopened is ignored, and a build that is undeploying makes
\* deploy_commit return early).
SettledHeadsBuilt ==
  AllHandled /\ faults = 0 =>
    /\ \A ref \in Refs :
         Len(ref) = 3 /\ IsSupported(ref[3]) /\ heads[ref] # NoCommit
           => IsBuilt(BranchCommit(ref[3], heads[ref]))
    /\ \A n \in Pulls :
         pulls[n].state = "open" /\ ~pulls[n].wasClosed /\ IsSupported(BaseBranch)
           => IsBuilt(PullCommit(n, pulls[n].head))

\* What undeploy_builds found when a pull request was closed ends undeployed,
\* although it stops at the first build that is already gone, as happens when
\* the payload was sent twice: it goes from the newest to the oldest, and the
\* newest are the last to be found.  A reset may bring a build back.
SettledClosedUndeployed ==
  AllHandled /\ faults = 0 /\ ~anyReset => \A b \in condemned : ~Live(b)

\* A payload never undeploys anything but the builds of a pull request that
\* was closed, however late it comes.
OnlyClosedPullsUndeployed ==
  [][\A b \in Builds :
       Live(b) /\ ~Live(b)' => Info[b].pr # NoPr /\ pulls[Info[b].pr].wasClosed]_allVars
=============================================================================
