------------------------------ MODULE MCServer ------------------------------
(* The two servers: the engine's control server with two clients, and the   *)
(* presets with two threads, two names, both of bundled presets, and two    *)
(* contents a user may save.  They share no state: in each behaviour one of *)
(* them moves, so their state spaces add up.                                *)
EXTENDS ControlServer, Presets
CONSTANTS c1, c2, t1, t2
ClientsDef == {c1, c2}
ThreadsDef == {t1, t2}
BundledDef == <<"army", "clean">>

VARIABLE focus   \* the one that moves

ServersInit == focus \in {"control", "presets"} /\ ServerInit /\ Init
ServersNext ==
  \/ focus = "control" /\ ServerNext /\ UNCHANGED <<focus, vars>>
  \/ focus = "presets" /\ Next /\ UNCHANGED <<focus, serverVars>>
ServersSpec ==
  ServersInit /\ [][ServersNext]_<<focus, serverVars, vars>> /\ Fairness
=============================================================================
