---------------------------- MODULE MCAppsPanel ---------------------------
(* Instances of AppsPanel for TLC. *)
EXTENDS AppsPanel, TLC

Symmetry == Permutations(Handlers) \cup Permutations(Names) \cup Permutations(Pids)
===========================================================================
