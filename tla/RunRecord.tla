----------------------------- MODULE RunRecord -----------------------------
(***************************************************************************)
(* What a workflow_runs row promises, whoever writes it: the contract that *)
(* WorkflowRuns (the executor, the run Registry and their races) is shown  *)
(* to implement.                                                           *)
(*                                                                         *)
(* A row is created running, is settled once, and a settled row changes    *)
(* only when a cancellation and the run's own ending cross.  Nothing ever  *)
(* puts a row back to running, and a crash verdict neither replaces an     *)
(* outcome nor is replaced by one.                                         *)
(***************************************************************************)
CONSTANTS Runs,      \* the runs a node executes
          Outcomes   \* the statuses an executor may end a run with

VARIABLE row         \* the status column of each run's row

\* "cancelled" is Registry.cancel/1's status; "crashed" stands for the "failed"
\* that the Registry records for a dead executor ("Process crashed: ...").
Settled == Outcomes \cup {"cancelled", "crashed"}

Statuses == {"none", "running"} \cup Settled

Init == row = [r \in Runs |-> "none"]

\* Workflows.create_run/2: every row starts running.
Create(r) ==
    /\ row[r] = "none"
    /\ row' = [row EXCEPT ![r] = "running"]

\* The first verdict on a running row.
Settle(r, s) ==
    /\ row[r] = "running"
    /\ row' = [row EXCEPT ![r] = s]

\* An outcome and a cancellation that cross: the later write stands.
Cross(r, s) ==
    /\ \/ row[r] \in Outcomes /\ s = "cancelled"
       \/ row[r] = "cancelled" /\ s \in Outcomes
    /\ row' = [row EXCEPT ![r] = s]

Next == \E r \in Runs:
            \/ Create(r)
            \/ \E s \in Settled: Settle(r, s) \/ Cross(r, s)

Spec == Init /\ [][Next]_row
=============================================================================
