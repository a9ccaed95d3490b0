---------------------------- MODULE MCReasoning ----------------------------
(* Reasoning for TLC: plans of two steps. *)
EXTENDS Reasoning

Two == {2}
=============================================================================
