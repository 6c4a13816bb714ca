---------------------------- MODULE RehearsalMC ----------------------------
(* Values for TLC's runs of Rehearsal. *)
EXTENDS Rehearsal, TLC

CONSTANTS a, b, s1

\* Rehearsals of one snapshot, and so in one docker project, that are asked
\* for by one site or by two.
SharedRequests == {[site |-> a, snap |-> s1], [site |-> b, snap |-> s1]}

Symmetry == Permutations(Jobs) \cup Permutations(Sites)
=============================================================================
