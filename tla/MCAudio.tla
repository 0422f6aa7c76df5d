------------------------------ MODULE MCAudio -------------------------------
(* What the audio callbacks run on: the SPSC ring, on two slots whose       *)
(* counters wrap after three laps; the seqlock, with three cells and up to  *)
(* three updates during a read; and the playback callback, with blocks that *)
(* fit the scratch buffer and blocks that do not.  They share no state: in  *)
(* each behaviour one of them moves, so their state spaces add up.          *)
EXTENDS SpscRing, Seqlock, Playback
CONSTANTS b0, b1, a1
CellsDef == {b0, b1, a1}

VARIABLE focus   \* the one that moves

AudioInit == focus \in {"ring", "lock", "playback"} /\ Init /\ LockInit /\ PlaybackInit
AudioNext ==
  \/ focus = "ring" /\ Next /\ UNCHANGED <<focus, lockVars, playbackVars>>
  \/ focus = "lock" /\ LockNext /\ UNCHANGED <<focus, vars, playbackVars>>
  \/ focus = "playback" /\ PlaybackNext /\ UNCHANGED <<focus, vars, lockVars>>
AudioSpec == AudioInit /\ [][AudioNext]_<<focus, vars, lockVars, playbackVars>> /\ Fairness
=============================================================================
