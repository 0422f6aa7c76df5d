-------------------------- MODULE MCControlServer ---------------------------
(* ControlServer with two clients.                                         *)
EXTENDS ControlServer
CONSTANTS c1, c2
ClientsDef == {c1, c2}
=============================================================================
