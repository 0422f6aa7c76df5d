------------------------------ MODULE MCStream ------------------------------
(* The engine as MCEngine sets it up, and the bridge it owns: mono and      *)
(* stereo streams through a small ring, with blocks larger than what is     *)
(* free or available, so that both counters move.  The samples of the       *)
(* bridge and the calls of the engine do not meet: in each behaviour one of *)
(* the two moves, so their state spaces add up.                             *)
EXTENDS MCEngine, Bridge

VARIABLE focus   \* the one that moves

StreamInit ==
  /\ focus \in {"engine", "bridge"} /\ Init /\ BridgeInit
  /\ focus = "engine" => channels = 1
StreamNext ==
  \/ focus = "engine" /\ Next /\ UNCHANGED <<focus, bridgeVars>>
  \/ focus = "bridge" /\ BridgeNext /\ UNCHANGED <<focus, vars>>
  \/ focus = "bridge" /\ UNCHANGED <<focus, vars, bridgeVars>>
StreamSpec == StreamInit /\ [][StreamNext]_<<focus, vars, bridgeVars>>
=============================================================================
