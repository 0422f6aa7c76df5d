------------------------------ MODULE MCBridge ------------------------------
(* Bridge on a small ring.                                                 *)
EXTENDS Bridge
=============================================================================
