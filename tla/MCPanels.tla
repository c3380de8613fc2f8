----------------------------- MODULE MCPanels -----------------------------
(* Instances of Panels for TLC. *)
EXTENDS Panels

Matches == [f |-> {2, 3}]
===========================================================================
