----------------------------- MODULE MCPipeWire -----------------------------
(* PipeWire with one guitar, a stereo and a mono output, two threads, and   *)
(* a user who may also have configured nothing.                             *)
EXTENDS PipeWire, TLC
CONSTANTS guitar, stereo, mono, left, right, single, t1, t2
ThreadsDef == {t1, t2}
ThreadsSymmetry == Permutations(ThreadsDef)
PortsDef == [d \in {stereo, mono} |-> IF d = stereo THEN <<left, right>> ELSE <<single>>]
ConfigsDef == {[source |-> guitar, output |-> stereo], [source |-> guitar, output |-> mono],
               [source |-> Unset, output |-> Unset]}
SourcesDef == {guitar}
OutputsDef == {stereo, mono}
=============================================================================
