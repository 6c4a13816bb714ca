----------------------------- MODULE SandboxMC -----------------------------
(* A small instance of Sandbox. *)
EXTENDS Sandbox, TLC
Symmetry == Permutations(Slots) \cup Permutations(Sites) \cup Permutations(Keys)
=============================================================================
