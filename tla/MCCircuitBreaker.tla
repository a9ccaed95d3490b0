-------------------------- MODULE MCCircuitBreaker --------------------------
(* CircuitBreaker for TLC: two callers of one skill. *)
EXTENDS CircuitBreaker
CONSTANTS c1, c2

TwoCallers == {c1, c2}
=============================================================================
