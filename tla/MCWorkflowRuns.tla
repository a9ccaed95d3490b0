--------------------------- MODULE MCWorkflowRuns ---------------------------
(* WorkflowRuns for TLC: two runs, of which the Registry may crash under one. *)
EXTENDS WorkflowRuns
CONSTANTS r1, r2

TwoRuns == {r1, r2}
OneRun == {r1}
OneOutcome == {"completed"}
=============================================================================
