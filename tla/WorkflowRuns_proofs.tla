------------------------ MODULE WorkflowRuns_proofs ------------------------
(***************************************************************************)
(* What holds of WorkflowRuns for every set of runs and every number of    *)
(* Registry crashes: its types, RunningIsListed, DeadIsAttended, and that  *)
(* its rows keep RunRecord's contract.                                     *)
(*                                                                         *)
(* None of the three is inductive.  What carries them is that a run's      *)
(* place, its mail and its monitor fix how far its row can be: the run is  *)
(* out of every set of the Registry before its row can be "crashed", and   *)
(* its row is settled before the Registry forgets it or signals it.        *)
(***************************************************************************)
EXTENDS WorkflowRuns, TLAPS

\* The executor's places before it writes its outcome.
Working == {"created", "registering", "walking", "noting", "stepping"}

\* The row follows the executor: none before it, and an outcome after finish/3 only.
RowFollows(r) ==
    /\ exec[r] = "idle" <=> row[r] = "none"
    /\ exec[r] \in Working => row[r] \in {"running", "cancelled"}
    /\ exec[r] \in {"finished", "leaving"} => row[r] \in RR!Settled

\* A register call not yet served is the first the Registry hears of the run.
RegisterIsFirst(r) ==
    r \in registers =>
        exec[r] \in {"registering", "dead"} /\ r \notin watched
            /\ row[r] \in RR!Statuses \ {"none", "crashed"}

\* The Registry drops a run, or signals it, only with the row settled.
SettledBeforeForgotten(r) == r \in leaves \/ r \in signal => row[r] \in RR!Settled

\* What the Registry that is alive now knows of a run, it learnt from a register
\* call.
KnownIsWatched(r) ==
    /\ r \in watched => exec[r] \notin {"idle", "created", "registering"}
    /\ r \in monitors => r \in watched
    /\ downs[r] # "none" => r \in watched /\ exec[r] = "dead"

\* A listed run has a row, and no crash verdict.
ListedRow(r) == r \in table => row[r] \in RR!Statuses \ {"none", "crashed"}

\* RunningIsListed, with the monitor.
RunningIsKnown(r) ==
    r \in watched /\ row[r] = "running" /\ exec[r] \in Live => r \in table \cap monitors

Attended(r) ==
    r \in watched /\ row[r] = "running" /\ exec[r] = "dead"
        => downs[r] = "crash" \/ Marking(r)

\* The cancel in progress: the row is free to mark, then settled.
CancelInProgress(r) ==
    /\ Marking(r) => row[r] \in RR!Statuses \ {"none", "crashed"}
    /\ server.job \in {"unlist", "kill"} /\ server.run = r => row[r] \in RR!Settled

RunInv(r) ==
    /\ RowFollows(r)
    /\ RegisterIsFirst(r)
    /\ SettledBeforeForgotten(r)
    /\ KnownIsWatched(r)
    /\ ListedRow(r)
    /\ RunningIsKnown(r)
    /\ Attended(r)
    /\ CancelInProgress(r)

IInv == TypeOK /\ \A r \in Runs: RunInv(r)
-----------------------------------------------------------------------------
(* Types *)

\* The initial state is well typed.
LEMMA TypeInit == Init => TypeOK
  BY RunsAssumption DEF RunsAssumption, Init, TypeOK, Idle, Places, Live, RR!Statuses,
     RR!Settled

\* Every step keeps the types.
LEMMA TypeStep == TypeOK /\ [Next]_vars => TypeOK'
<1> SUFFICES ASSUME TypeOK, [Next]_vars PROVE TypeOK'
  OBVIOUS
<1> USE DEF TypeOK, Idle, Places, Live, RR!Statuses, RR!Settled, mailbox, registry
<1>1. ASSUME NEW r \in Runs, CreateRun(r) PROVE TypeOK'
  BY <1>1 DEF CreateRun
<1>2. ASSUME NEW r \in Runs, CallRegister(r) PROVE TypeOK'
  BY <1>2 DEF CallRegister, Dies
<1>3. ASSUME NEW r \in Runs, AnnounceStep(r) PROVE TypeOK'
  BY <1>3 DEF AnnounceStep, Dies
<1>4. ASSUME NEW r \in Runs, NoteStep(r) PROVE TypeOK'
  BY <1>4 DEF NoteStep, Dies
<1>5. ASSUME NEW r \in Runs, EndStep(r) PROVE TypeOK'
  BY <1>5 DEF EndStep
<1>6. ASSUME NEW r \in Runs, Finish(r) PROVE TypeOK'
  BY <1>6 DEF Finish
<1>7. ASSUME NEW r \in Runs, CallDeregister(r) PROVE TypeOK'
  BY <1>7 DEF CallDeregister, Dies
<1>8. ASSUME NEW r \in Runs, Crash(r) PROVE TypeOK'
  BY <1>8 DEF Crash, Dies
<1>9. ASSUME NEW r \in Runs, ReceiveKill(r) PROVE TypeOK'
  BY <1>9 DEF ReceiveKill, Dies
<1>10. ASSUME NEW r \in Runs, HandleRegister(r) PROVE TypeOK'
  BY <1>10 DEF HandleRegister, Ready
<1>11. ASSUME NEW r \in Runs, HandleDeregister(r) PROVE TypeOK'
  BY <1>11 DEF HandleDeregister, Ready, DropMonitor
<1>12. ASSUME NEW r \in Runs, HandleCancel(r) PROVE TypeOK'
  BY <1>12 DEF HandleCancel, Ready
<1>13. ASSUME NEW r \in Runs, HandleDown(r) PROVE TypeOK'
  BY <1>13 DEF HandleDown, Ready, CrashVerdict
<1>14. ASSUME NEW r \in Runs, AskCancel(r) PROVE TypeOK'
  BY <1>14 DEF AskCancel
<1>15. CASE MarkCancelled
  BY <1>15 DEF MarkCancelled
<1>16. CASE Unlist
  BY <1>16 DEF Unlist, DropMonitor
<1>17. CASE Kill
  BY <1>17 DEF Kill
<1>18. CASE RegistryCrash
  <2>1. exec' \in [Runs -> Places]
    BY <1>18 DEF RegistryCrash
  <2>2. restarts' \in 0..MaxRestarts
    BY <1>18, RunsAssumption DEF RegistryCrash, RunsAssumption
  <2> QED
    BY <1>18, <2>1, <2>2 DEF RegistryCrash
<1>19. CASE RegistryRestart
  BY <1>19 DEF RegistryRestart
<1>20. CASE UNCHANGED vars
  BY <1>20 DEF vars
<1> QED
  BY <1>1, <1>2, <1>3, <1>4, <1>5, <1>6, <1>7, <1>8, <1>9, <1>10, <1>11, <1>12,
     <1>13, <1>14, <1>15, <1>16, <1>17, <1>18, <1>19, <1>20
     DEF Next, Executor, Handle, Cancelling

-----------------------------------------------------------------------------
(* The invariant *)

\* The initial state satisfies every part for every run.
LEMMA RunInit == Init => \A q \in Runs: RunInv(q)
  BY DEF Init, RunInv, RowFollows, RegisterIsFirst, SettledBeforeForgotten, KnownIsWatched,
     ListedRow, RunningIsKnown, Attended, CancelInProgress, Marking, Working, Live, Idle,
     RR!Settled, RR!Statuses

\* Every step keeps every part for every run, whichever run it is a step of.
LEMMA RunStep ==
  ASSUME IInv, TypeOK', [Next]_vars, NEW q \in Runs
  PROVE  RunInv(q)'
<1> USE DEF IInv, TypeOK, RunInv, RowFollows, RegisterIsFirst, SettledBeforeForgotten,
        KnownIsWatched, ListedRow, RunningIsKnown, Attended, CancelInProgress, Marking,
        Working, Idle, Live, Places, RR!Statuses, RR!Settled, mailbox, registry
<1>1. ASSUME NEW r \in Runs, CreateRun(r) PROVE RunInv(q)'
  BY <1>1, RunsAssumption DEF RunsAssumption, CreateRun
<1>2. ASSUME NEW r \in Runs, CallRegister(r) PROVE RunInv(q)'
  BY <1>2 DEF CallRegister, Dies
<1>3. ASSUME NEW r \in Runs, AnnounceStep(r) PROVE RunInv(q)'
  BY <1>3 DEF AnnounceStep, Dies
<1>4. ASSUME NEW r \in Runs, NoteStep(r) PROVE RunInv(q)'
  BY <1>4 DEF NoteStep, Dies
<1>5. ASSUME NEW r \in Runs, EndStep(r) PROVE RunInv(q)'
  BY <1>5 DEF EndStep
<1>6. ASSUME NEW r \in Runs, Finish(r) PROVE RunInv(q)'
  BY <1>6, RunsAssumption DEF RunsAssumption, Finish
<1>7. ASSUME NEW r \in Runs, CallDeregister(r) PROVE RunInv(q)'
  BY <1>7 DEF CallDeregister, Dies
<1>8. ASSUME NEW r \in Runs, Crash(r) PROVE RunInv(q)'
  BY <1>8 DEF Crash, Dies
<1>9. ASSUME NEW r \in Runs, ReceiveKill(r) PROVE RunInv(q)'
  BY <1>9, RunsAssumption DEF RunsAssumption, ReceiveKill, Dies
<1>10. ASSUME NEW r \in Runs, HandleRegister(r) PROVE RunInv(q)'
  BY <1>10 DEF HandleRegister, Ready
<1>11. ASSUME NEW r \in Runs, HandleDeregister(r) PROVE RunInv(q)'
  BY <1>11, RunsAssumption DEF RunsAssumption, HandleDeregister, Ready, DropMonitor
<1>12. ASSUME NEW r \in Runs, HandleCancel(r) PROVE RunInv(q)'
  BY <1>12 DEF HandleCancel, Ready
<1>13. ASSUME NEW r \in Runs, HandleDown(r) PROVE RunInv(q)'
  BY <1>13 DEF HandleDown, Ready, CrashVerdict
<1>14. ASSUME NEW r \in Runs, AskCancel(r) PROVE RunInv(q)'
  BY <1>14 DEF AskCancel
<1>15. CASE MarkCancelled
  BY <1>15 DEF MarkCancelled
<1>16. CASE Unlist
  BY <1>16, RunsAssumption DEF RunsAssumption, Unlist, DropMonitor
<1>17. CASE Kill
  BY <1>17 DEF Kill
<1>18. CASE RegistryCrash
  BY <1>18 DEF RegistryCrash
<1>19. CASE RegistryRestart
  BY <1>19 DEF RegistryRestart
<1>20. CASE UNCHANGED vars
  BY <1>20 DEF vars
<1> QED
  BY <1>1, <1>2, <1>3, <1>4, <1>5, <1>6, <1>7, <1>8, <1>9, <1>10, <1>11, <1>12,
     <1>13, <1>14, <1>15, <1>16, <1>17, <1>18, <1>19, <1>20
     DEF Next, Executor, Handle, Cancelling

-----------------------------------------------------------------------------
(* Theorems *)

\* IInv is an invariant: the executors and the Registry, whatever the interleaving.
LEMMA Inductive == Spec => []IInv
<1>1. Init => IInv
  BY TypeInit, RunInit DEF IInv
<1>2. IInv /\ [Next]_vars => IInv'
  BY TypeStep, RunStep DEF IInv
<1> QED
  BY <1>1, <1>2, PTL DEF Spec

\* The node's state is well typed in every behaviour.
THEOREM TypeCorrect == Spec => []TypeOK
<1>1. IInv => TypeOK
  BY DEF IInv
<1> QED
  BY <1>1, Inductive, PTL

\* What list_active/0 shows is complete: a live run the Registry knows, whose row
\* says running, is on it, however many runs, cancels and Registry crashes.
THEOREM ListIsComplete == Spec => []RunningIsListed
<1>1. IInv => RunningIsListed
  BY DEF IInv, TypeOK, RunInv, RunningIsKnown, RunningIsListed
<1> QED
  BY <1>1, Inductive, PTL

\* A run the Registry knows never dies unnoticed: a DOWN or a cancel will settle
\* its row.
THEOREM NoDeadRunForgotten == Spec => []DeadIsAttended
<1>1. IInv => DeadIsAttended
  BY DEF IInv, TypeOK, RunInv, Attended, DeadIsAttended
<1> QED
  BY <1>1, Inductive, PTL

\* One step of the node is one step of RunRecord, or leaves the rows alone.
LEMMA StepKeepsContract == IInv /\ [Next]_vars => [RR!Next]_row
<1> SUFFICES ASSUME IInv, [Next]_vars PROVE [RR!Next]_row
  OBVIOUS
<1> USE DEF IInv, TypeOK
<1>1. ASSUME NEW r \in Runs, CreateRun(r) PROVE RR!Next
  <2>1. RR!Create(r)
    BY <1>1 DEF CreateRun, RunInv, RowFollows, RR!Create
  <2> QED
    BY <2>1 DEF RR!Next
<1>2. ASSUME NEW r \in Runs, Finish(r) PROVE RR!Next
  <2>1. row[r] \in {"running", "cancelled"}
    BY <1>2 DEF Finish, RunInv, RowFollows, Working
  <2>2. PICK outcome \in Outcomes: row' = [row EXCEPT ![r] = outcome]
    BY <1>2 DEF Finish
  <2>3. RR!Settle(r, outcome) \/ RR!Cross(r, outcome)
    BY <2>1, <2>2 DEF RR!Settle, RR!Cross
  <2> QED
    BY <2>3 DEF RR!Next, RR!Settled
<1>3. ASSUME NEW r \in Runs, HandleDown(r) PROVE RR!Next \/ UNCHANGED row
  <2>1. CASE CrashVerdict(r)
    <3>1. RR!Settle(r, "crashed")
      BY <1>3, <2>1 DEF HandleDown, CrashVerdict, RR!Settle
    <3> QED
      BY <3>1 DEF RR!Next, RR!Settled
  <2>2. CASE ~CrashVerdict(r)
    BY <1>3, <2>2 DEF HandleDown
  <2> QED
    BY <2>1, <2>2
<1>4. CASE MarkCancelled
  <2> DEFINE r == server.run
  <2>1. r \in Runs /\ Marking(r)
    BY <1>4 DEF MarkCancelled, Marking, Idle
  <2>2. row[r] \in {"running", "cancelled"} \cup Outcomes
    BY <2>1 DEF RunInv, CancelInProgress, RR!Statuses, RR!Settled
  <2>3. row' = [row EXCEPT ![r] = "cancelled"]
    BY <1>4 DEF MarkCancelled
  <2>4. CASE row[r] = "cancelled"
    BY <2>1, <2>3, <2>4
  <2>5. CASE row[r] # "cancelled"
    <3>1. RR!Settle(r, "cancelled") \/ RR!Cross(r, "cancelled")
      BY <2>2, <2>3, <2>5 DEF RR!Settle, RR!Cross
    <3> QED
      BY <2>1, <3>1 DEF RR!Next, RR!Settled
  <2> QED
    BY <2>4, <2>5
<1>5. ASSUME NEW r \in Runs,
             \/ CallRegister(r) \/ AnnounceStep(r) \/ NoteStep(r) \/ EndStep(r)
             \/ CallDeregister(r) \/ Crash(r) \/ ReceiveKill(r)
             \/ HandleRegister(r) \/ HandleDeregister(r) \/ HandleCancel(r)
             \/ AskCancel(r)
      PROVE  UNCHANGED row
  BY <1>5 DEF CallRegister, AnnounceStep, NoteStep, EndStep, CallDeregister, Crash,
     ReceiveKill, HandleRegister, HandleDeregister, HandleCancel, AskCancel
<1>6. CASE Unlist \/ Kill \/ RegistryCrash \/ RegistryRestart \/ UNCHANGED vars
  BY <1>6 DEF Unlist, Kill, RegistryCrash, RegistryRestart, vars
<1> QED
  BY <1>1, <1>2, <1>3, <1>4, <1>5, <1>6 DEF Next, Executor, Handle, Cancelling

\* The node implements RunRecord: a crash verdict only ever settles a running row,
\* an outcome is crossed by nothing but a cancellation, no row runs again.
THEOREM RowsKeepContract == Spec => RecordContract
<1>1. Init => RR!Init
  BY DEF Init, RR!Init
<1>2. IInv /\ [Next]_vars => [RR!Next]_row
  BY StepKeepsContract
<1> QED
  BY <1>1, <1>2, Inductive, PTL DEF Spec, RecordContract, RR!Spec
=============================================================================
