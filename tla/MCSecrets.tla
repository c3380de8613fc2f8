------------------------------ MODULE MCSecrets ---------------------------
(* Instance of Secrets for TLC. *)
EXTENDS Secrets, TLC

Symmetry ==
  Permutations(Users) \cup Permutations(Tokens) \cup Permutations(Commands \ Alone)
===========================================================================
