----------------------------- MODULE MCMarkup -----------------------------
(* Instance of Markup for TLC. *)
EXTENDS Markup
===========================================================================
