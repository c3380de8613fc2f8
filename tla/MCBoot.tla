------------------------------- MODULE MCBoot -----------------------------
(* Instance of Boot for TLC. *)
EXTENDS Boot, TLC

Symmetry == Permutations(Users)
===========================================================================
