----------------------------- MODULE MCWebhooks -----------------------------
(***************************************************************************)
(* Small instances of Webhooks.tla for TLC.                                *)
(***************************************************************************)
EXTENDS WebhookProperties

Main == << "refs", "heads", "main" >>

MainOnly == {Main}

\* A name for each commit that may have to be built: of the branch, and of
\* the pull request.
BranchAndPull ==
  ("b1" :> BranchCommit("main", "c1")) @@ ("b2" :> PullCommit(1, "c1"))
    @@ ("b3" :> PullCommit(1, "c2"))

ClientSymmetry == Permutations(Clients)
=============================================================================
