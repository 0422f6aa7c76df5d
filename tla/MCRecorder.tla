----------------------------- MODULE MCRecorder -----------------------------
(* Recorder with a ring of two stereo frames.                              *)
EXTENDS Recorder
=============================================================================
