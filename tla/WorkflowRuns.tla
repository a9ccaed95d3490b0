---------------------------- MODULE WorkflowRuns ----------------------------
(***************************************************************************)
(* The life of workflow runs on one node: the executor process of each run *)
(* (AlexClaw.Workflows.Executor), the run Registry (a GenServer that owns  *)
(* an ETS table and monitors the executors) and the workflow_runs rows.    *)
(*                                                                         *)
(* Executors, the Registry and whoever cancels are separate processes.     *)
(* What one process does between two effects another can observe (a row,   *)
(* the ETS table, an exit signal, a reply) is one action, so a cancel is   *)
(* four actions and the executor runs on between them.                     *)
(***************************************************************************)
EXTENDS Naturals

CONSTANTS Runs,        \* the runs launched on the node
          Outcomes,    \* statuses finish/3 may write
          Cancellable, \* the runs somebody may ask to cancel
          NoRun,       \* the Registry is between two messages
          MaxRestarts  \* bound: how often the Registry may crash

ASSUME RunsAssumption ==
    /\ NoRun \notin Runs
    /\ Cancellable \subseteq Runs
    /\ Outcomes \cap {"none", "running", "cancelled", "crashed"} = {}
    /\ MaxRestarts \in Nat

VARIABLES
    row,       \* status of each run's workflow_runs row
    exec,      \* where each run's executor process is
    table,     \* runs with an entry in the :workflow_registry ETS table
    monitors,  \* runs whose executor the Registry monitors
    registers, \* {:register, run} calls in the Registry's mailbox
    leaves,    \* {:deregister, run} calls in its mailbox
    asked,     \* {:cancel, run} calls in its mailbox
    downs,     \* runs whose DOWN message waits in its mailbox, by reason
    signal,    \* runs whose executor has an exit signal on the way
    server,    \* the cancel the Registry is in the middle of
    up,        \* whether the Registry is alive
    restarts,  \* how often it crashed
    watched    \* history: runs registered with the Registry that is alive now

vars == <<row, exec, table, monitors, registers, leaves, asked, downs, signal,
          server, up, restarts, watched>>
mailbox == <<registers, leaves, asked, downs>>
registry == <<table, monitors, server, up, restarts, watched>>

\* An executor between create_run and its last reply.
Live == {"created", "registering", "walking", "noting", "stepping", "finished",
         "leaving"}
Places == {"idle", "exited", "dead"} \cup Live

Idle == [job |-> "idle", run |-> NoRun]

RR == INSTANCE RunRecord WITH Runs <- Runs, Outcomes <- Outcomes, row <- row
-----------------------------------------------------------------------------
Init ==
    /\ row = [r \in Runs |-> "none"]
    /\ exec = [r \in Runs |-> "idle"]
    /\ table = {}
    /\ monitors = {}
    /\ registers = {}
    /\ leaves = {}
    /\ asked = {}
    /\ downs = [r \in Runs |-> "none"]
    /\ signal = {}
    /\ server = Idle
    /\ up = TRUE
    /\ restarts = 0
    /\ watched = {}

\* The executor of r dies: a Registry that monitors it is told, with the reason.
Dies(r, reason) ==
    /\ exec' = [exec EXCEPT ![r] = "dead"]
    /\ downs' = IF r \in monitors THEN [downs EXCEPT ![r] = reason] ELSE downs
-----------------------------------------------------------------------------
(* The executor *)

\* execute/2: the row is created running before anybody knows of the run.
CreateRun(r) ==
    /\ exec[r] = "idle"
    /\ exec' = [exec EXCEPT ![r] = "created"]
    /\ row' = [row EXCEPT ![r] = "running"]
    /\ UNCHANGED <<mailbox, registry, signal>>

\* Registry.register/4: a call, so the executor waits; with no Registry process
\* the call exits and takes the executor with it.
CallRegister(r) ==
    /\ exec[r] = "created"
    /\ \/ /\ up
          /\ exec' = [exec EXCEPT ![r] = "registering"]
          /\ registers' = registers \cup {r}
          /\ UNCHANGED downs
       \/ /\ ~up
          /\ Dies(r, "crash")
          /\ UNCHANGED registers
    /\ UNCHANGED <<row, leaves, asked, signal, registry>>

\* announce_step/2 reads the run's ETS entry (update_step/2): with no entry there
\* is nothing to write, with no table the lookup raises outside contained_step.
AnnounceStep(r) ==
    /\ exec[r] = "walking"
    /\ \/ /\ up
          /\ exec' = [exec EXCEPT ![r] = IF r \in table THEN "noting" ELSE "stepping"]
          /\ UNCHANGED downs
       \/ /\ ~up
          /\ Dies(r, "crash")
    /\ UNCHANGED <<row, registers, leaves, asked, signal, registry>>

\* ... and writes the entry it read back, with the step's name.
NoteStep(r) ==
    /\ exec[r] = "noting"
    /\ \/ /\ up
          /\ exec' = [exec EXCEPT ![r] = "stepping"]
          /\ table' = table \cup {r}
          /\ UNCHANGED downs
       \/ /\ ~up
          /\ Dies(r, "crash")
          /\ UNCHANGED table
    /\ UNCHANGED <<row, registers, leaves, asked, signal, monitors, server, up,
                   restarts, watched>>

\* The step's skill returned and the walk goes on (advance/4).
EndStep(r) ==
    /\ exec[r] = "stepping"
    /\ exec' = [exec EXCEPT ![r] = "walking"]
    /\ UNCHANGED <<row, mailbox, signal, registry>>

\* finish/3 writes the outcome over whatever status the row has: the struct it
\* updates is the one create_run returned.
Finish(r) ==
    /\ exec[r] = "walking"
    /\ exec' = [exec EXCEPT ![r] = "finished"]
    /\ \E outcome \in Outcomes: row' = [row EXCEPT ![r] = outcome]
    /\ UNCHANGED <<mailbox, signal, registry>>

\* Registry.deregister/1, the call that follows.
CallDeregister(r) ==
    /\ exec[r] = "finished"
    /\ \/ /\ up
          /\ exec' = [exec EXCEPT ![r] = "leaving"]
          /\ leaves' = leaves \cup {r}
          /\ UNCHANGED downs
       \/ /\ ~up
          /\ Dies(r, "crash")
          /\ UNCHANGED leaves
    /\ UNCHANGED <<row, registers, asked, signal, registry>>

\* Anything that ends the process: a linked skill task that crashes, a database
\* error outside contained_step, its supervisor or its request being stopped.
Crash(r) ==
    /\ exec[r] \in Live
    /\ Dies(r, "crash")
    /\ UNCHANGED <<row, registers, leaves, asked, signal, registry>>

\* The exit signal of a cancel arrives.
ReceiveKill(r) ==
    /\ r \in signal
    /\ signal' = signal \ {r}
    /\ IF exec[r] \in Live THEN Dies(r, "cancelled") ELSE UNCHANGED <<exec, downs>>
    /\ UNCHANGED <<row, registers, leaves, asked, registry>>
-----------------------------------------------------------------------------
(* The Registry *)

Ready == up /\ server = Idle

\* handle_call({:register, ...}).  Monitoring a process that died meanwhile
\* delivers its DOWN at once.
HandleRegister(r) ==
    /\ Ready
    /\ r \in registers
    /\ registers' = registers \ {r}
    /\ table' = table \cup {r}
    /\ monitors' = monitors \cup {r}
    /\ watched' = watched \cup {r}
    /\ IF exec[r] = "registering"
       THEN exec' = [exec EXCEPT ![r] = "walking"] /\ UNCHANGED downs
       ELSE downs' = [downs EXCEPT ![r] = "crash"] /\ UNCHANGED exec
    /\ UNCHANGED <<row, leaves, asked, signal, server, up, restarts>>

\* drop_monitor/2: demonitor with :flush, so a DOWN already queued is gone too.
DropMonitor(r) ==
    /\ monitors' = monitors \ {r}
    /\ downs' = [downs EXCEPT ![r] = "none"]

\* handle_call({:deregister, ...}).
HandleDeregister(r) ==
    /\ Ready
    /\ r \in leaves
    /\ leaves' = leaves \ {r}
    /\ table' = table \ {r}
    /\ DropMonitor(r)
    /\ exec' = IF exec[r] = "leaving" THEN [exec EXCEPT ![r] = "exited"] ELSE exec
    /\ UNCHANGED <<row, registers, asked, signal, server, up, restarts, watched>>

\* Somebody calls Registry.cancel/1 for a run that has a row.
AskCancel(r) ==
    /\ up
    /\ r \in Cancellable
    /\ row[r] # "none"
    /\ r \notin asked
    /\ asked' = asked \cup {r}
    /\ UNCHANGED <<row, exec, registers, leaves, downs, signal, registry>>

\* Variant: the run is looked up among the monitors.
HandleCancelMonitored(r) ==
    /\ Ready
    /\ r \in asked
    /\ asked' = asked \ {r}
    /\ server' = IF r \in monitors THEN [job |-> "mark", run |-> r] ELSE Idle
    /\ UNCHANGED <<row, exec, table, monitors, registers, leaves, downs, signal, up,
                   restarts, watched>>

\* handle_call({:cancel, ...}) looks the run up: an unlisted one is :not_found.
HandleCancel(r) ==
    /\ Ready
    /\ r \in asked
    /\ asked' = asked \ {r}
    /\ server' = IF r \in table THEN [job |-> "mark", run |-> r] ELSE Idle
    /\ UNCHANGED <<row, exec, table, monitors, registers, leaves, downs, signal, up,
                   restarts, watched>>

\* Variant: a cancel that leaves the row alone.
MarkCancelledNot ==
    /\ server.job = "mark"
    /\ server' = [server EXCEPT !.job = "unlist"]
    /\ UNCHANGED <<row, exec, table, monitors, mailbox, signal, up, restarts, watched>>

\* mark_cancelled/1, whatever the row's status is by now.
MarkCancelled ==
    /\ server.job = "mark"
    /\ row' = [row EXCEPT ![server.run] = "cancelled"]
    /\ server' = [server EXCEPT !.job = "unlist"]
    /\ UNCHANGED <<exec, table, monitors, mailbox, signal, up, restarts, watched>>

\* The ETS entry and the monitor go ...
Unlist ==
    /\ server.job = "unlist"
    /\ table' = table \ {server.run}
    /\ DropMonitor(server.run)
    /\ server' = [server EXCEPT !.job = "kill"]
    /\ UNCHANGED <<row, exec, registers, leaves, asked, signal, up, restarts, watched>>

\* ... then Process.exit(pid, :cancelled), a signal, and the reply.
Kill ==
    /\ server.job = "kill"
    /\ signal' = signal \cup {server.run}
    /\ server' = Idle
    /\ UNCHANGED <<row, exec, table, monitors, mailbox, up, restarts, watched>>

\* Variant: without the test of the row's status.
CrashVerdictBlind(r) == downs[r] = "crash"

\* Variant: taking every reason for a normal end.
CrashVerdictNever(r) == r \notin Runs

\* mark_crashed/2: only a row still running is marked, and only for a reason that
\* is neither :normal nor :cancelled.
CrashVerdict(r) == downs[r] = "crash" /\ row[r] = "running"

\* handle_info({:DOWN, ...}).  An executor's DOWN comes after its own deregister
\* call.
HandleDown(r) ==
    /\ Ready
    /\ downs[r] # "none"
    /\ r \notin leaves
    /\ table' = table \ {r}
    /\ monitors' = monitors \ {r}
    /\ downs' = [downs EXCEPT ![r] = "none"]
    /\ row' = IF CrashVerdict(r) THEN [row EXCEPT ![r] = "crashed"] ELSE row
    /\ UNCHANGED <<exec, registers, leaves, asked, signal, server, up, restarts, watched>>

\* The Registry dies: table, monitors and mailbox go with it, and so does every
\* executor waiting for its answer.
RegistryCrash ==
    /\ up
    /\ restarts < MaxRestarts
    /\ up' = FALSE
    /\ restarts' = restarts + 1
    /\ exec' = [r \in Runs |-> IF \/ r \in registers /\ exec[r] = "registering"
                                  \/ r \in leaves /\ exec[r] = "leaving"
                               THEN "dead" ELSE exec[r]]
    /\ table' = {}
    /\ monitors' = {}
    /\ registers' = {}
    /\ leaves' = {}
    /\ asked' = {}
    /\ downs' = [r \in Runs |-> "none"]
    /\ server' = Idle
    /\ watched' = {}
    /\ UNCHANGED <<row, signal>>

\* Its supervisor starts it again: init/1 makes an empty table and monitors nothing.
RegistryRestart ==
    /\ ~up
    /\ up' = TRUE
    /\ UNCHANGED <<row, exec, table, monitors, mailbox, signal, server, restarts, watched>>
-----------------------------------------------------------------------------
Executor(r) ==
    \/ CreateRun(r)
    \/ CallRegister(r)
    \/ AnnounceStep(r)
    \/ NoteStep(r)
    \/ EndStep(r)
    \/ Finish(r)
    \/ CallDeregister(r)

Handle(r) ==
    \/ HandleRegister(r)
    \/ HandleDeregister(r)
    \/ HandleCancel(r)
    \/ HandleDown(r)

Cancelling == MarkCancelled \/ Unlist \/ Kill

Next ==
    \/ \E r \in Runs:
        \/ Executor(r)
        \/ Crash(r)
        \/ ReceiveKill(r)
        \/ Handle(r)
        \/ AskCancel(r)
    \/ Cancelling
    \/ RegistryCrash
    \/ RegistryRestart

Spec == Init /\ [][Next]_vars

\* The Registry serves its mailbox in order and each of its callbacks returns, so
\* every message in it is handled; its supervisor restarts it; the runtime
\* delivers exit signals.  Nothing is assumed of the executors: a skill may hang.
Fairness ==
    /\ WF_vars(Cancelling)
    /\ WF_vars(RegistryRestart)
    /\ \A r \in Runs:
        /\ WF_vars(ReceiveKill(r))
        /\ SF_vars(HandleRegister(r))
        /\ SF_vars(HandleDeregister(r))
        /\ SF_vars(HandleCancel(r))
        /\ SF_vars(HandleDown(r))

FairSpec == Spec /\ Fairness
-----------------------------------------------------------------------------
(* Properties *)

\* Types of the node's state.
TypeOK ==
    /\ row \in [Runs -> RR!Statuses]
    /\ exec \in [Runs -> Places]
    /\ table \subseteq Runs
    /\ monitors \subseteq Runs
    /\ registers \subseteq Runs
    /\ leaves \subseteq Runs
    /\ asked \subseteq Runs
    /\ downs \in [Runs -> {"none", "crash", "cancelled"}]
    /\ signal \subseteq Runs
    /\ server \in {Idle} \cup [job: {"mark", "unlist", "kill"}, run: Runs]
    /\ up \in BOOLEAN
    /\ restarts \in 0..MaxRestarts
    /\ watched \subseteq Runs

\* The Registry is about to write "cancelled" on r's row.
Marking(r) == server = [job |-> "mark", run |-> r]

\* Every run whose row says running, with a live executor the Registry knows, is
\* on the active list: what list_active/0 shows can always be cancelled, through
\* every crossing of cancel/1, update_step/2 and deregister/1.
RunningIsListed ==
    \A r \in watched: row[r] = "running" /\ exec[r] \in Live => r \in table

\* A run the Registry knows that died with its row still running has somebody who
\* will settle the row: its DOWN is queued or a cancel is about to mark it.  No
\* demonitor or flush ever drops the last notice of a dead run.
DeadIsAttended ==
    \A r \in watched:
        row[r] = "running" /\ exec[r] = "dead" => downs[r] = "crash" \/ Marking(r)

\* The rows keep RunRecord's contract: a crash verdict lands only on a running
\* row, an outcome is only ever crossed by a cancellation, nothing runs again.
RecordContract == RR!Spec

\* A cancel of a listed run comes to its end, whatever crosses it (the run's own end, its
\* crash, a DOWN already queued, an entry update_step/2 wrote back after a restart): in
\* the end its executor is gone and its row no longer says running, unless the Registry
\* crashes on the way.
CancelSettlesTheRun ==
    \A r \in Cancellable, n \in 0..MaxRestarts:
        (r \in asked /\ r \in table /\ restarts = n)
            ~> (exec[r] \notin Live /\ row[r] # "running") \/ restarts # n

\* Crash cleanup: a run the Registry knows that dies is not left running, unless
\* the Registry itself crashes meanwhile.
CrashIsRecorded ==
    \A r \in Runs: (exec[r] = "dead" /\ row[r] = "running" /\ r \in watched)
                       ~> (row[r] # "running" \/ r \notin watched)

\* docs/architecture/workflow-engine.md, Live Run Tracking: the Registry "monitors
\* PIDs, marks orphaned runs as failed".  Taken of every registered run it would
\* mean that no dead run stays running.
OrphansAreFailed ==
    \A r \in Runs: (exec[r] = "dead" /\ row[r] = "running") ~> (row[r] # "running")
=============================================================================
