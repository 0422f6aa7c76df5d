------------------------------ MODULE MCEngine ------------------------------
(* Engine with main() and the server thread, two values of a setting, one     *)
(* file and two configurations.                                            *)
EXTENDS Engine
CONSTANT amp
Plain(n, v) == [channels |-> n, set |-> [k \in Kinds |-> v],
                load |-> [s \in Stages |-> None]]
DefaultDef == Plain(2, 1)
ConfigsDef == {Plain(1, 2), [Plain(2, 1) EXCEPT !.load = [s \in Stages |-> amp]]}
PathsDef == {amp}
=============================================================================
