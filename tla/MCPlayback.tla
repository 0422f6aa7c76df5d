----------------------------- MODULE MCPlayback ------------------------------
(* Playback with blocks that fit the scratch buffer and blocks that do not. *)
EXTENDS Playback
=============================================================================
