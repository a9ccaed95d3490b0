------------------------------- MODULE MCLock -------------------------------
(* Lock for TLC: three processes. *)
EXTENDS Lock, TLC
CONSTANTS p1, p2, p3

ThreeProcs == {p1, p2, p3}
=============================================================================
