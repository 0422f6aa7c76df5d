------------------------- MODULE MCEngineController -------------------------
(* EngineController with two worker threads and three calls: two that race *)
(* and one that finds what they left behind.  The workers are alike.       *)
EXTENDS EngineController, TLC
CONSTANTS w1, w2
WorkersDef == {w1, w2}
WorkersSymmetry == Permutations(WorkersDef)
=============================================================================
