----------------------------- MODULE AccountsMC -----------------------------
(* A small instance of Accounts. *)
EXTENDS Accounts, TLC
Symmetry == Permutations(Slots) \cup Permutations(Passwords) \cup Permutations(Names)
              \cup Permutations(Tokens)
=============================================================================
