----------------------------- MODULE Reasoning -----------------------------
(***************************************************************************)
(* One session of the reasoning loop (AlexClaw.Reasoning.Loop): the        *)
(* GenServer with its phases, the tasks that ask the model and run skills, *)
(* the user who pauses, resumes, aborts, answers and overrides, the time   *)
(* budget's timer and the session's row.                                   *)
(*                                                                         *)
(* A callback and each handle_continue it leads to is one action; `next`   *)
(* is the continuation due, and no message is handled while one is.  What  *)
(* the model answers is chosen by the environment.  Casts are chosen when  *)
(* they are handled: one may have been sent at any time before, so every   *)
(* order with the timer's and the tasks' messages is one of the mailbox.   *)
(***************************************************************************)
EXTENDS Integers, Sequences

CONSTANTS
    MaxIterations,  \* reasoning.max_iterations
    MaxLlmCalls,    \* reasoning.max_llm_calls
    StuckThreshold, \* reasoning.stuck_threshold
    CompressEvery,  \* memory is compressed in every such iteration: 3
    AdjustWindow,   \* how many of the last decisions count_recent_adjusts looks at: 5
    PlanSizes,      \* bound: the lengths a valid plan may have
    MaxCasts        \* bound: the user's interventions

ASSUME ReasoningAssumption ==
    /\ {MaxIterations, MaxLlmCalls, StuckThreshold, CompressEvery, AdjustWindow}
          \subseteq Nat \ {0}
    /\ PlanSizes \subseteq Nat \ {0}
    /\ MaxCasts \in Nat

VARIABLES
    stage,      \* the process: "up", "stopped" or "killed"
    row,        \* status of the reasoning_sessions row
    status,     \* state.status
    next,       \* the continuation due, or "none"
    task,       \* state.task: kind, state, and whether it was told the user's context
    strays,     \* skills still run by tasks whose reference was overwritten
    pending,    \* state.pending_result: its kind, and what its task was told
    clock,      \* time_budget_ref: "nil", an "armed" timer or a "fired" one
    expired,    \* :time_budget_exceeded waits in the mailbox
    remaining,  \* time_budget_remaining_ms: "nil", "zero" or "some"
    plan,       \* length of state.plan
    index,      \* current_step_index
    iteration,
    calls,      \* total_llm_calls, up to MaxLlmCalls
    failures,   \* consecutive_failures
    good,       \* the last recorded evaluation was good
    repeats,    \* how often the last action was done in a row, up to 3
    decisions,  \* the last decisions recorded: whether each is "adjust"
    context,    \* working_memory: the user's context is not "given", "kept" or "lost"
    delivered,  \* deliver_result was called
    casts

vars == <<stage, row, status, next, task, strays, pending, clock, expired, remaining,
          plan, index, iteration, calls, failures, good, repeats, decisions, context,
          delivered, casts>>

budget == <<clock, expired, remaining>>
progress == <<plan, index, iteration>>
counters == <<calls, failures, repeats>>
history == <<good, decisions>>

SkillKinds == {"executing", "user_override"}
Kinds == SkillKinds \cup {"planning", "evaluating", "deciding", "compression",
                          "forced_summary"}
Terminal == {"completed", "failed", "aborted", "stuck"}
Suspended == {"paused", "waiting_user"}
Statuses == {"planning", "executing", "evaluating", "deciding"} \cup Suspended

NoTask == [kind |-> "none", state |-> "none", told |-> FALSE]
NoResult == [kind |-> "none", told |-> FALSE]

\* init/1.
Init ==
    /\ stage = "up"
    /\ row = "planning"
    /\ status = "planning"
    /\ next = "start_planning"
    /\ task = NoTask
    /\ strays = 0
    /\ pending = NoResult
    /\ clock = "armed"
    /\ expired = FALSE
    /\ remaining = "nil"
    /\ plan = 0
    /\ index = 0
    /\ iteration = 1
    /\ calls = 0
    /\ failures = 0
    /\ good = FALSE
    /\ repeats = 0
    /\ decisions = <<>>
    /\ context = "none"
    /\ delivered = FALSE
    /\ casts = 0
-----------------------------------------------------------------------------
(* What callbacks have in common *)

\* The state the handler of a task's message goes on with: its task is done with,
\* where a continuation keeps the one in flight.
Left == IF next = "none" THEN NoTask ELSE task

Keep == task' = Left /\ UNCHANGED strays

\* spawn_llm_task and the overwriting of task_ref.
Spawn(kind) ==
    /\ task' = [kind |-> kind, state |-> "running", told |-> context = "kept"]
    /\ strays' = IF Left.kind \in SkillKinds /\ Left.state = "running"
                 THEN strays + 1 ELSE strays

Continue(to) == next' = to /\ UNCHANGED <<stage, row>>

\* finish_session and {:stop, :normal, state}: terminate/2 comes next.
End(outcome) ==
    /\ row' = outcome
    /\ next' = "terminate"
    /\ UNCHANGED stage

\* finish_session(:completed): the changeset refuses an answer that is no text, and a
\* confidence above 1; nobody looks at its error.
Complete(confidence) ==
    IF confidence = "beyond" THEN End(row) ELSE End("completed") \/ End(row)

\* increment_llm_calls; a reply that never came is not counted.
Count == calls' = IF calls < MaxLlmCalls THEN calls + 1 ELSE calls
CountIfAnswered == Count \/ UNCHANGED calls

\* A failure more: stuck at the threshold, or on to the next continuation.
FailOr(to) ==
    /\ failures' = failures + 1
    /\ IF failures + 1 >= StuckThreshold THEN End("stuck") ELSE Continue(to)

\* working_memory as a reply returns it, at best all its task was told; a reply
\* without one keeps the memory there is.
Remember(told) ==
    \/ context' = IF context = "none" \/ told THEN context ELSE "lost"
    \/ UNCHANGED context

\* reset_time_budget: an old timer's message may already be in the mailbox.
ResetBudget == clock' = "armed" /\ UNCHANGED <<expired, remaining>>

\* Variant: what was left is forgotten when the message is already sent, as if
\* cancel_timer had succeeded, and so is the message.
SuspendFlushing ==
    /\ clock' = "nil"
    /\ expired' = FALSE
    /\ remaining' = IF clock = "armed" THEN "some" ELSE "nil"

\* suspend_time_budget: nothing remains of a timer that has fired.
Suspend ==
    /\ clock' = "nil"
    /\ remaining' = CASE clock = "armed" -> "some"
                      [] clock = "fired" -> "zero"
                      [] OTHER -> remaining
    /\ UNCHANGED expired

\* resume_time_budget.
ResumeBudget ==
    /\ clock' = IF remaining = "some" THEN "armed" ELSE clock
    /\ remaining' = "nil"
    /\ UNCHANGED expired

\* record_step in phase "decide", of a decision or an error, as count_recent_adjusts reads it;
\* its changeset refuses a memory or a reason that is no text, and nobody looks at its error.
RecordDecision(action) ==
    \/ LET recorded == Append(decisions, action = "adjust")
       IN  decisions' = IF Len(recorded) > AdjustWindow THEN Tail(recorded) ELSE recorded
    \/ UNCHANGED decisions

Adjusts(recorded) == Len(SelectSeq(recorded, LAMBDA adjust: adjust))
-----------------------------------------------------------------------------
(* Results of tasks: handle_phase_result/3 *)

\* The result is handled when its message comes, or on resume when it was stored.
Result(kind) ==
    /\ stage = "up"
    /\ IF next = "none"
       THEN /\ task.kind = kind /\ task.state = "answered"
            /\ status # "paused"
            /\ UNCHANGED pending
       ELSE /\ next = "resume" /\ pending.kind = kind
            /\ pending' = NoResult

\* What the task of the result being handled was told when it was spawned.
Told == IF next = "none" THEN task.told ELSE pending.told

\* A valid plan.
Planned ==
    /\ Result("planning")
    /\ Count
    /\ Remember(Told)
    /\ plan' \in PlanSizes
    /\ index' = 0
    /\ ResetBudget
    /\ Keep
    /\ Continue("execute_step")
    /\ UNCHANGED <<status, iteration, failures, repeats, history, delivered, casts>>

\* "error" in the reply, or no steps.
PlanImpossible ==
    /\ Result("planning")
    /\ Count
    /\ Keep
    /\ End("stuck")
    /\ UNCHANGED <<status, budget, progress, failures, repeats, history, context,
                   delivered, casts>>

\* A plan that does not validate, a reply that does not parse, no reply.
PlanFailed ==
    /\ Result("planning")
    /\ CountIfAnswered
    /\ Remember(Told)
    /\ FailOr("start_planning")
    /\ Keep
    /\ UNCHANGED <<status, budget, progress, repeats, history, delivered, casts>>

\* The skill ran: track_action, then on to the evaluation or the decision.
Executed(ok, same) ==
    /\ Result("executing")
    /\ Count
    /\ repeats' = IF same /\ repeats > 0 THEN (IF repeats < 3 THEN repeats + 1 ELSE 3) ELSE 1
    /\ context' = IF context = "none" \/ Told THEN context ELSE "lost"
    /\ IF ok THEN failures' = 0 /\ Continue("evaluate") ELSE FailOr("decide")
    /\ Keep
    /\ UNCHANGED <<status, budget, progress, history, delivered, casts>>

\* The skill's input could not be prepared.
NotPrepared ==
    /\ Result("executing")
    /\ CountIfAnswered
    /\ FailOr("decide")
    /\ Keep
    /\ UNCHANGED <<status, budget, progress, repeats, history, context, delivered, casts>>

Evaluated(quality) ==
    /\ Result("evaluating")
    /\ Count
    /\ Remember(Told)
    /\ good' = (quality = "good")
    /\ failures' = IF quality = "failed" THEN failures + 1 ELSE 0
    /\ Continue("maybe_compress")
    /\ Keep
    /\ UNCHANGED <<status, budget, progress, repeats, decisions, delivered, casts>>

\* "Evaluation failure is not fatal".
NotEvaluated ==
    /\ Result("evaluating")
    /\ CountIfAnswered
    /\ Continue("decide")
    /\ Keep
    /\ UNCHANGED <<status, budget, progress, failures, repeats, history, context,
                   delivered, casts>>

\* Memory compressed or not: on to the decision.
Compressed ==
    /\ Result("compression")
    /\ CountIfAnswered
    /\ Remember(Told)
    /\ Continue("decide")
    /\ Keep
    /\ UNCHANGED <<status, budget, progress, failures, repeats, history, delivered, casts>>

\* The summary, or working memory as a last resort.
Summarized ==
    /\ Result("forced_summary")
    /\ CountIfAnswered
    /\ delivered' = TRUE
    /\ Complete("high")
    /\ Keep
    /\ UNCHANGED <<status, budget, progress, failures, repeats, history, context, casts>>

\* A skill the user chose; its failures count, and the decision looks at them.
Overridden(ok) ==
    /\ Result("user_override")
    /\ failures' = IF ok THEN 0 ELSE failures + 1
    /\ Continue(IF ok THEN "evaluate" ELSE "decide")
    /\ Keep
    /\ UNCHANGED <<status, budget, progress, calls, repeats, history, context, delivered,
                   casts>>

\* The model decided: handle_decision/4; a confidence out of range is not recorded.
Decided(action, confidence) ==
    /\ Result("deciding")
    /\ Count
    /\ Remember(Told)
    /\ IF confidence = "beyond" THEN UNCHANGED decisions ELSE RecordDecision(action)
    /\ UNCHANGED <<failures, repeats, good, casts>>

\* "done", sure enough.
Done(confidence) ==
    /\ Decided("done", confidence)
    /\ confidence # "low"
    /\ delivered' = TRUE
    /\ Complete(confidence)
    /\ Keep
    /\ UNCHANGED <<status, budget, progress>>

\* "done" below the threshold: "Confidence too low - keep going".
DoneDoubted ==
    /\ Decided("done", "low")
    /\ iteration' = iteration + 1
    /\ Continue("execute_step")
    /\ Keep
    /\ UNCHANGED <<status, budget, plan, index, delivered>>

\* "continue", and whatever is not known.
GoOn(confidence) ==
    /\ Decided("continue", confidence)
    /\ index' = index + 1
    /\ iteration' = iteration + 1
    /\ Continue("execute_step")
    /\ Keep
    /\ UNCHANGED <<status, budget, plan, delivered>>

\* "adjust" again and sure of it: adjust_or_summarize counts this one too.
Polishing(confidence) ==
    /\ Decided("adjust", confidence)
    /\ confidence # "low" /\ Adjusts(decisions') >= 2
    /\ Spawn("forced_summary")
    /\ next' = "none"
    /\ UNCHANGED <<stage, row, status, budget, progress, delivered>>

\* "adjust" with a plan that validates: install_plan.
Adjusted(confidence) ==
    /\ Decided("adjust", confidence)
    /\ confidence = "low" \/ Adjusts(decisions') < 2
    /\ plan' \in PlanSizes
    /\ index' = 0
    /\ iteration' = iteration + 1
    /\ ResetBudget
    /\ Continue("execute_step")
    /\ Keep
    /\ UNCHANGED <<status, delivered>>

\* Variant: a plan that does not validate is dropped and nothing goes on.
NotAdjustedIdle(confidence) ==
    /\ Decided("adjust", confidence)
    /\ confidence = "low" \/ Adjusts(decisions') < 2
    /\ Continue("none")
    /\ Keep
    /\ UNCHANGED <<status, budget, progress, delivered>>

\* ... with none, or one that does not: "retry the decision".
NotAdjusted(confidence) ==
    /\ Decided("adjust", confidence)
    /\ confidence = "low" \/ Adjusts(decisions') < 2
    /\ Continue("decide")
    /\ Keep
    /\ UNCHANGED <<status, budget, progress, delivered>>

\* "ask_user": the clock stops.
AskUser(confidence) ==
    /\ Decided("ask_user", confidence)
    /\ Suspend
    /\ status' = "waiting_user"
    /\ row' = "waiting_user"
    /\ next' = "none"
    /\ Keep
    /\ UNCHANGED <<stage, progress, delivered>>

DeclaredStuck(confidence) ==
    /\ Decided("stuck", confidence)
    /\ End("stuck")
    /\ Keep
    /\ UNCHANGED <<status, budget, progress, delivered>>

\* No decision: the error is a step of the window too.
NotDecided ==
    /\ Result("deciding")
    /\ CountIfAnswered
    /\ RecordDecision("none")
    /\ FailOr("decide")
    /\ Keep
    /\ UNCHANGED <<status, budget, progress, repeats, good, context, delivered, casts>>

HandleResult ==
    \/ Planned \/ PlanImpossible \/ PlanFailed
    \/ \E ok, same \in BOOLEAN: Executed(ok, same)
    \/ NotPrepared
    \/ \E quality \in {"good", "partial", "failed"}: Evaluated(quality)
    \/ NotEvaluated
    \/ Compressed
    \/ Summarized
    \/ \E ok \in BOOLEAN: Overridden(ok)
    \/ DoneDoubted
    \/ \E confidence \in {"low", "high", "beyond"}:
        \/ Done(confidence)
        \/ GoOn(confidence)
        \/ Polishing(confidence)
        \/ Adjusted(confidence)
        \/ NotAdjusted(confidence)
        \/ AskUser(confidence)
        \/ DeclaredStuck(confidence)
    \/ NotDecided
-----------------------------------------------------------------------------
(* Continuations: handle_continue/2 *)

Due(continuation) == stage = "up" /\ next = continuation

\* The row's update is none: the struct it starts from still says "planning".
StartPlanning ==
    /\ Due("start_planning")
    /\ status' = "planning"
    /\ Spawn("planning")
    /\ next' = "none"
    /\ UNCHANGED <<stage, row, pending, budget, progress, counters, history, context,
                   delivered, casts>>

\* Variant: an iteration more than allowed.
LimitExceededLate ==
    \/ iteration > MaxIterations + 1
    \/ calls >= MaxLlmCalls
    \/ repeats >= 3

\* check_limits.
LimitExceeded ==
    \/ iteration > MaxIterations
    \/ calls >= MaxLlmCalls
    \/ repeats >= 3

ExecuteStep ==
    /\ Due("execute_step")
    /\ IF LimitExceeded THEN End("failed") /\ Keep /\ UNCHANGED status
       ELSE /\ status' = "executing"
            /\ row' = "executing"
            /\ UNCHANGED stage
            /\ IF index < plan THEN Spawn("executing") /\ next' = "none"
               ELSE Keep /\ next' = "decide"
    /\ UNCHANGED <<pending, budget, progress, counters, history, context, delivered, casts>>

Evaluate ==
    /\ Due("evaluate")
    /\ status' = "evaluating"
    /\ row' = "evaluating"
    /\ Spawn("evaluating")
    /\ next' = "none"
    /\ UNCHANGED <<stage, pending, budget, progress, counters, history, context, delivered,
                   casts>>

\* Every CompressEvery iterations, when the memory has grown.
MaybeCompress ==
    /\ Due("maybe_compress")
    /\ \/ iteration % CompressEvery = 0 /\ Spawn("compression") /\ next' = "none"
       \/ Keep /\ next' = "decide"
    /\ UNCHANGED <<stage, row, status, pending, budget, progress, counters, history,
                   context, delivered, casts>>

LastStep == index >= plan - 1

\* The deterministic decisions: stuck, the summary, continue.
DecideStuck ==
    /\ failures >= StuckThreshold
    /\ RecordDecision("stuck")
    /\ End("stuck")
    /\ Keep
    /\ UNCHANGED <<status, index, iteration>>

DecideSummary ==
    /\ failures = 0 /\ LastStep /\ good
    /\ Spawn("forced_summary")
    /\ next' = "none"
    /\ UNCHANGED <<stage, row, status, index, iteration, decisions>>

DecideContinue ==
    /\ failures = 0 /\ ~LastStep
    /\ RecordDecision("continue")
    /\ index' = index + 1
    /\ iteration' = iteration + 1
    /\ Continue("execute_step")
    /\ Keep
    /\ UNCHANGED status

\* ... and the model's: everything else.
DecideByModel ==
    /\ failures < StuckThreshold
    /\ IF LastStep THEN failures > 0 \/ ~good ELSE failures > 0
    /\ status' = "deciding"
    /\ row' = "deciding"
    /\ Spawn("deciding")
    /\ next' = "none"
    /\ UNCHANGED <<stage, index, iteration, decisions>>

Decide ==
    /\ Due("decide")
    /\ DecideStuck \/ DecideSummary \/ DecideContinue \/ DecideByModel
    /\ UNCHANGED <<pending, budget, plan, counters, good, context, delivered, casts>>

\* :resume with nothing stored; with a result stored it is that result's handler.
Resumed ==
    /\ Due("resume")
    /\ pending = NoResult
    /\ next' = "execute_step"
    /\ UNCHANGED <<stage, row, status, task, strays, pending, budget, progress, counters,
                   history, context, delivered, casts>>
-----------------------------------------------------------------------------
(* The user: handle_cast/2 *)

Cast ==
    /\ stage = "up" /\ next = "none"
    /\ casts < MaxCasts
    /\ casts' = casts + 1
    /\ UNCHANGED <<progress, counters, history, delivered>>

Pause ==
    /\ Cast
    /\ status # "paused"
    /\ Suspend
    /\ status' = "paused"
    /\ row' = "paused"
    /\ UNCHANGED <<stage, next, task, strays, pending, context>>

\* resume; from waiting_user steer does the same, with guidance.
Resume ==
    /\ Cast
    /\ status \in Suspended
    /\ ResumeBudget
    /\ next' = IF status = "paused" THEN "resume" ELSE "start_planning"
    /\ UNCHANGED <<stage, row, status, task, strays, pending, context>>

\* shutdown_task kills the task in flight, and its message with it.
Abort ==
    /\ Cast
    /\ task' = NoTask
    /\ End("aborted")
    /\ UNCHANGED <<status, strays, pending, budget, context>>

AddContext ==
    /\ Cast
    /\ context' = "kept"
    /\ UNCHANGED <<stage, row, status, next, task, strays, pending, budget>>

\* "Ignoring override while a task is in flight".
Override ==
    /\ Cast
    /\ task = NoTask
    /\ status' = "executing"
    /\ Spawn("user_override")
    /\ UNCHANGED <<stage, row, next, pending, budget, context>>
-----------------------------------------------------------------------------
(* Tasks, timer, the end of the process *)

rest == <<stage, row, status, next, pending, budget, progress, counters, history,
          context, delivered, casts>>

\* The task answers or dies: its message, or its DOWN, is on the way.
TaskEnds ==
    /\ task.state = "running"
    /\ \E end \in {"answered", "crashed"}: task' = [task EXCEPT !.state = end]
    /\ UNCHANGED <<strays, rest>>

\* Neither message of a task the loop has forgotten is one it knows.
StrayEnds ==
    /\ strays > 0
    /\ strays' = strays - 1
    /\ UNCHANGED <<task, rest>>

\* A result that comes during a pause is stored for the resume.
Store ==
    /\ stage = "up" /\ next = "none"
    /\ task.state = "answered" /\ status = "paused"
    /\ pending' = [kind |-> task.kind, told |-> task.told]
    /\ task' = NoTask
    /\ UNCHANGED <<stage, row, status, next, strays, budget, progress, counters, history,
                   context, delivered, casts>>

\* The DOWN of the task in flight, paused or not.
TaskDown ==
    /\ stage = "up" /\ next = "none"
    /\ task.state = "crashed"
    /\ FailOr("decide")
    /\ Keep
    /\ UNCHANGED <<status, pending, budget, progress, calls, repeats, history, context,
                   delivered, casts>>

Fire ==
    /\ stage = "up"
    /\ clock = "armed"
    /\ clock' = "fired"
    /\ expired' = TRUE
    /\ UNCHANGED <<stage, row, status, next, task, strays, pending, remaining, progress,
                   counters, history, context, delivered, casts>>

\* Variant: an expiry during a pause is put off.
BudgetExceededUnlessPaused ==
    /\ stage = "up" /\ next = "none"
    /\ expired /\ status # "paused"
    /\ task' = NoTask
    /\ End("failed")
    /\ UNCHANGED <<status, strays, pending, budget, progress, counters, history, context,
                   delivered, casts>>

BudgetExceeded ==
    /\ stage = "up" /\ next = "none"
    /\ expired
    /\ task' = NoTask
    /\ End("failed")
    /\ UNCHANGED <<status, strays, pending, budget, progress, counters, history, context,
                   delivered, casts>>

\* The process is gone with its state and its timer; a skill its task runs goes on.
Lost ==
    /\ status' = "planning"
    /\ next' = "none"
    /\ task' = NoTask
    /\ strays' = IF task.kind \in SkillKinds /\ task.state = "running"
                 THEN strays + 1 ELSE strays
    /\ pending' = NoResult
    /\ clock' = "nil" /\ expired' = FALSE /\ remaining' = "nil"
    /\ plan' = 0 /\ index' = 0 /\ iteration' = 1
    /\ calls' = 0 /\ failures' = 0 /\ repeats' = 0
    /\ good' = FALSE /\ decisions' = <<>>
    /\ context' = "none"
    /\ UNCHANGED <<delivered, casts>>

\* Variant: the struct of init/1, which never says how the session ended, is trusted.
TerminateStale ==
    /\ Due("terminate")
    /\ stage' = "stopped"
    /\ row' = "failed"
    /\ Lost

\* Variant: only the timer is cancelled.
TerminateQuietly ==
    /\ Due("terminate")
    /\ stage' = "stopped"
    /\ UNCHANGED row
    /\ Lost

\* terminate/2 reads the row again.
Terminate ==
    /\ Due("terminate")
    /\ stage' = "stopped"
    /\ row' = IF row \in Terminal THEN row ELSE "failed"
    /\ Lost

\* A callback raises.  The supervisor's restart is another session.
Raise ==
    /\ stage = "up" /\ next # "terminate"
    /\ next' = "terminate"
    /\ UNCHANGED <<stage, row, status, task, strays, pending, budget, progress, counters,
                   history, context, delivered, casts>>

\* An exit signal, which a process that traps none dies of without terminate/2.
Kill ==
    /\ stage = "up"
    /\ stage' = "killed"
    /\ UNCHANGED row
    /\ Lost

Loop ==
    \/ HandleResult
    \/ StartPlanning \/ ExecuteStep \/ Evaluate \/ MaybeCompress \/ Decide \/ Resumed
    \/ Store \/ TaskDown \/ BudgetExceeded \/ Terminate

User == Pause \/ Resume \/ Abort \/ AddContext \/ Override

Next == Loop \/ User \/ TaskEnds \/ StrayEnds \/ Fire \/ Raise \/ Kill

Spec == Init /\ [][Next]_vars

\* The process handles its mail in order, so the timer's message gets its turn among
\* the others, and the timer rings.  Tasks need not end.
FairSpec == Spec /\ WF_vars(Loop) /\ SF_vars(BudgetExceeded) /\ WF_vars(Fire)
-----------------------------------------------------------------------------
(* Properties *)

\* Types of the session's state.
TypeOK ==
    /\ stage \in {"up", "stopped", "killed"}
    /\ row \in Statuses \cup Terminal
    /\ status \in Statuses
    /\ next \in {"none", "start_planning", "execute_step", "evaluate", "maybe_compress",
                 "decide", "resume", "terminate"}
    /\ task \in {NoTask} \cup [kind: Kinds, state: {"running", "answered", "crashed"},
                               told: BOOLEAN]
    /\ strays \in Nat
    /\ pending \in {NoResult} \cup [kind: Kinds, told: BOOLEAN]
    /\ clock \in {"nil", "armed", "fired"}
    /\ expired \in BOOLEAN
    /\ remaining \in {"nil", "zero", "some"}
    /\ plan \in Nat /\ index \in Nat
    /\ iteration \in 1..(MaxIterations + 1)
    /\ calls \in 0..MaxLlmCalls
    /\ failures \in Nat
    /\ good \in BOOLEAN
    /\ repeats \in 0..3
    /\ decisions \in Seq(BOOLEAN) /\ Len(decisions) <= AdjustWindow
    /\ context \in {"none", "kept", "lost"}
    /\ delivered \in BOOLEAN
    /\ casts \in 0..MaxCasts

\* A session that is neither paused nor waiting for the user always has a task in
\* flight or a continuation due: no chain of handlers ends with nothing under way, where
\* only the time budget would end it.
NeverIdle ==
    stage = "up" /\ status \notin Suspended => next # "none" \/ task # NoTask

\* The time budget is never lost: a timer is armed, its message waits, or what is left of
\* it is kept for the resume, through pauses, questions, resets and overrides.
BudgetIsKept ==
    stage = "up" => clock = "armed" \/ expired \/ remaining = "some"

\* Whenever the loop has come to rest, a skill of the plan in flight is within the
\* iteration limit, no third equal action and inside the plan, whichever of the four
\* places raised the iteration or moved the index, and whatever the user resumed.  Between
\* two continuations it need not be: a stored result may be handled over a later step.
ExecutesWithinLimits ==
    stage = "up" /\ next = "none" /\ task.kind = "executing" =>
        iteration <= MaxIterations /\ repeats < 3 /\ index < plan

\* A session that stopped otherwise than by an exit signal left a terminal row, and its
\* outcome is the one its row keeps: a result that was not delivered is not "completed".
StoppedIsRecorded ==
    /\ stage = "stopped" => row \in Terminal
    /\ row = "completed" => delivered
    /\ stage = "up" /\ next # "terminate" => row \notin Terminal

\* A row that says how the session ended never changes again.
TerminalIsFinal == [][(row \in Terminal) => row' = row]_vars

\* A clock that runs ends the session or is suspended, whatever the tasks do.
ClockEnds == clock = "armed" ~> (clock = "nil" \/ stage # "up")

\* loop.ex, terminate: trusting the struct "would let terminate overwrite a
\* cleanly-completed session with failed on a normal stop".  A result delivered to the
\* user belongs to a completed session.
DeliveredIsCompleted == stage = "stopped" /\ delivered => row = "completed"

\* docs/architecture/reasoning-loop.md, Limitations: "No parallel skill execution. Steps
\* run sequentially."
OneSkillAtATime ==
    ~(task.kind \in SkillKinds /\ task.state = "running" /\ strays > 0)

\* docs/architecture/reasoning-loop.md, User Intervention: context is "Appended to working
\* memory ..., persists across iterations".  Here the model never drops what it was told.
ContextPersists == context # "lost"
=============================================================================
