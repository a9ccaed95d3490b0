-------------------------- MODULE MCDesktopRecorder --------------------------
(* DesktopRecorder for TLC. *)
EXTENDS DesktopRecorder
CONSTANTS f1
OneFile == {f1}
=============================================================================
