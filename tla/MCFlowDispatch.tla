-------------------------- MODULE MCFlowDispatch --------------------------
(* Instances of FlowDispatch for TLC. *)
EXTENDS FlowDispatch
===========================================================================
