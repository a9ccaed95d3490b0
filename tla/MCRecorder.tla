----------------------------- MODULE MCRecorder -----------------------------
(* Recorder for TLC. *)
EXTENDS Recorder
CONSTANTS f1
OneFile == {f1}
=============================================================================
