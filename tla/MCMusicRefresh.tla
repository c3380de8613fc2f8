-------------------------- MODULE MCMusicRefresh --------------------------
(* Instances of MusicRefresh for TLC. *)
EXTENDS MusicRefresh
===========================================================================
