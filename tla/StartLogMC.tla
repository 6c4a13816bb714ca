----------------------------- MODULE StartLogMC -----------------------------
(* Values for TLC's runs of StartLog. *)
EXTENDS StartLog, TLC

Symmetry == Permutations(Starts) \cup Permutations(Readers)
=============================================================================
