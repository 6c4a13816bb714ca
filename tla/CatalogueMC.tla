---------------------------- MODULE CatalogueMC ----------------------------
(* Values for TLC's runs of Catalogue. *)
EXTENDS Catalogue, TLC

CONSTANTS h1, h2, own

Set(repo, key, retention) == [repo |-> repo, key |-> key, retention |-> retention]

\* The server's repository or one of the site's own, with and without retention.
AllChoices ==
  {Set(repo, key, retention) : repo \in {NoRepo, own}, key \in BOOLEAN, retention \in BOOLEAN}

FewChoices ==
  {Set(NoRepo, FALSE, TRUE), Set(own, TRUE, FALSE), Set(own, FALSE, TRUE)}

NoRetention == {set \in AllChoices : ~set.retention}

Symmetry == Permutations(Snapshots) \cup Permutations(Sites) \cup Permutations(Handlers)
=============================================================================
