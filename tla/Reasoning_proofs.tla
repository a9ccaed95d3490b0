-------------------------- MODULE Reasoning_proofs --------------------------
(***************************************************************************)
(* What holds of a session of the reasoning loop for every limit, every    *)
(* length of plan and any number of interventions: its types, a clock that *)
(* is never lost, something always under way, steps within the limits and  *)
(* an outcome that is recorded once.                                       *)
(***************************************************************************)
EXTENDS Reasoning, TLAPS
-----------------------------------------------------------------------------
(* Types *)

TaskTypes == {NoTask} \cup [kind: Kinds, state: {"running", "answered", "crashed"},
                            told: BOOLEAN]

\* Past the limit the loop only executes a step, which ends it, or has ended: the bound
\* on iteration in TypeOK is not inductive without it.
IterationInv == iteration > MaxIterations => next \in {"execute_step", "terminate"}

TypeInv == TypeOK /\ IterationInv

\* A spawned task has its type,
LEMMA SpawnTypes ==
  ASSUME TypeOK, NEW kind \in Kinds, Spawn(kind)
  PROVE  task' \in TaskTypes /\ strays' \in Nat
<1>1. task' \in [kind: Kinds, state: {"running", "answered", "crashed"}, told: BOOLEAN]
  BY DEF Spawn
<1>2. strays' \in Nat
  BY DEF Spawn, TypeOK
<1> QED
  BY <1>1, <1>2 DEF TaskTypes

\* ... and the task a handler leaves.
LEMMA KeepTypes ==
  ASSUME TypeOK, Keep
  PROVE  task' \in TaskTypes /\ strays' \in Nat
BY DEF Keep, Left, TypeOK, TaskTypes

\* The window of decisions never outgrows its bound.
LEMMA RecordDecisionTypes ==
  ASSUME TypeOK, NEW action, RecordDecision(action)
  PROVE  decisions' \in Seq(BOOLEAN) /\ Len(decisions') <= AdjustWindow
<1> DEFINE recorded == Append(decisions, action = "adjust")
<1>1. AdjustWindow \in Nat \ {0}
  BY ReasoningAssumption DEF ReasoningAssumption
<1>2. recorded \in Seq(BOOLEAN) /\ Len(recorded) = Len(decisions) + 1
  BY DEF TypeOK
<1>3. Tail(recorded) \in Seq(BOOLEAN) /\ Len(Tail(recorded)) = Len(decisions)
  BY <1>2 DEF TypeOK
<1>4. \/ decisions' = IF Len(recorded) > AdjustWindow THEN Tail(recorded) ELSE recorded
      \/ UNCHANGED decisions
  BY DEF RecordDecision
<1>5. decisions \in Seq(BOOLEAN) /\ Len(decisions) \in Nat /\ Len(decisions) <= AdjustWindow
  BY DEF TypeOK
<1> HIDE DEF recorded
<1>8. CASE UNCHANGED decisions
  BY <1>5, <1>8
<1> SUFFICES ASSUME ~UNCHANGED decisions
             PROVE  decisions' \in Seq(BOOLEAN) /\ Len(decisions') <= AdjustWindow
  BY <1>8
<1>6. CASE Len(recorded) > AdjustWindow
  <2>1. decisions' = Tail(recorded)
    BY <1>4, <1>6
  <2> QED
    BY <1>3, <1>5, <2>1
<1>7. CASE ~(Len(recorded) > AdjustWindow)
  <2>1. decisions' = recorded
    BY <1>4, <1>7
  <2>2. Len(recorded) <= AdjustWindow
    BY <1>1, <1>2, <1>5, <1>7
  <2> QED
    BY <1>2, <2>1, <2>2
<1> QED
  BY <1>6, <1>7

\* What is known of the next state once the model has decided.
DecidedTyped ==
    /\ decisions' \in Seq(BOOLEAN) /\ Len(decisions') <= AdjustWindow
    /\ calls' \in 0..MaxLlmCalls
    /\ pending' \in {NoResult} \cup [kind: Kinds, told: BOOLEAN]
    /\ context' \in {"none", "kept", "lost"}
    /\ UNCHANGED <<failures, repeats, good, casts>>
    /\ iteration \in Nat /\ iteration + 1 \in 1..(MaxIterations + 1)
    /\ ~(iteration > MaxIterations)

\* A decision of the model leaves the state so, whatever it is.
LEMMA DecidedTypes ==
  ASSUME TypeInv, NEW action, NEW confidence, Decided(action, confidence)
  PROVE  DecidedTyped
<1>1. decisions' \in Seq(BOOLEAN) /\ Len(decisions') <= AdjustWindow
  BY RecordDecisionTypes DEF Decided, TypeInv, TypeOK
<1>2. calls' \in 0..MaxLlmCalls
  BY ReasoningAssumption DEF Decided, Count, TypeInv, TypeOK, ReasoningAssumption
<1>3. pending' \in {NoResult} \cup [kind: Kinds, told: BOOLEAN] /\ next \in {"none", "resume"}
  BY DEF Decided, Result, TypeInv, TypeOK
<1>4. context' \in {"none", "kept", "lost"}
  BY DEF Decided, Remember, TypeInv, TypeOK
<1>5. /\ iteration \in Nat /\ iteration + 1 \in 1..(MaxIterations + 1)
      /\ ~(iteration > MaxIterations)
  BY <1>3, ReasoningAssumption DEF TypeInv, TypeOK, IterationInv, ReasoningAssumption
<1> QED
  BY <1>1, <1>2, <1>3, <1>4, <1>5 DEF Decided, DecidedTyped

\* Every decision of the model keeps the types.
LEMMA DecisionTypes ==
  ASSUME TypeInv,
         NEW confidence \in {"low", "high", "beyond"},
         \/ DoneDoubted \/ Done(confidence) \/ GoOn(confidence) \/ Polishing(confidence)
         \/ Adjusted(confidence) \/ NotAdjusted(confidence) \/ AskUser(confidence)
         \/ DeclaredStuck(confidence)
  PROVE  TypeInv'
<1>keep. Keep => task' \in TaskTypes /\ strays' \in Nat
  BY KeepTypes DEF TypeInv
<1>decided. \A action, doubt: Decided(action, doubt) => DecidedTyped
  BY DecidedTypes
<1> USE DEF TypeInv, TypeOK, IterationInv, DecidedTyped, TaskTypes
<1>1. CASE DoneDoubted
  <2>1. DecidedTyped
    BY <1>1, <1>decided DEF DoneDoubted
  <2>2. task' \in TaskTypes /\ strays' \in Nat
    BY <1>1, <1>keep DEF DoneDoubted
  <2> QED
    BY <1>1, <2>1, <2>2 DEF DoneDoubted, Continue, budget
<1>2. CASE Done(confidence)
  <2>1. DecidedTyped
    BY <1>2, <1>decided DEF Done
  <2>2. task' \in TaskTypes /\ strays' \in Nat
    BY <1>2, <1>keep DEF Done
  <2> QED
    BY <1>2, <2>1, <2>2 DEF Done, Complete, End, Terminal, budget, progress
<1>3. CASE GoOn(confidence)
  <2>1. DecidedTyped
    BY <1>3, <1>decided DEF GoOn
  <2>2. task' \in TaskTypes /\ strays' \in Nat
    BY <1>3, <1>keep DEF GoOn
  <2> QED
    BY <1>3, <2>1, <2>2 DEF GoOn, Continue, budget
<1>4. CASE Polishing(confidence)
  <2>1. DecidedTyped
    BY <1>4, <1>decided DEF Polishing
  <2>2. task' \in TaskTypes /\ strays' \in Nat
    BY <1>4, SpawnTypes DEF Polishing, Kinds
  <2> QED
    BY <1>4, <2>1, <2>2 DEF Polishing, budget, progress
<1>5. CASE Adjusted(confidence)
  <2>1. DecidedTyped
    BY <1>5, <1>decided DEF Adjusted
  <2>2. task' \in TaskTypes /\ strays' \in Nat
    BY <1>5, <1>keep DEF Adjusted
  <2>3. plan' \in Nat
    BY <1>5, ReasoningAssumption DEF Adjusted, ReasoningAssumption
  <2> QED
    BY <1>5, <2>1, <2>2, <2>3 DEF Adjusted, Continue, ResetBudget
<1>6. CASE NotAdjusted(confidence)
  <2>1. DecidedTyped
    BY <1>6, <1>decided DEF NotAdjusted
  <2>2. task' \in TaskTypes /\ strays' \in Nat
    BY <1>6, <1>keep DEF NotAdjusted
  <2> QED
    BY <1>6, <2>1, <2>2 DEF NotAdjusted, Continue, budget, progress
<1>7. CASE AskUser(confidence)
  <2>1. DecidedTyped
    BY <1>7, <1>decided DEF AskUser
  <2>2. task' \in TaskTypes /\ strays' \in Nat
    BY <1>7, <1>keep DEF AskUser
  <2> QED
    BY <1>7, <2>1, <2>2 DEF AskUser, Suspend, Statuses, Suspended, progress
<1>8. CASE DeclaredStuck(confidence)
  <2>1. DecidedTyped
    BY <1>8, <1>decided DEF DeclaredStuck
  <2>2. task' \in TaskTypes /\ strays' \in Nat
    BY <1>8, <1>keep DEF DeclaredStuck
  <2> QED
    BY <1>8, <2>1, <2>2 DEF DeclaredStuck, End, Terminal, budget, progress
<1> QED
  BY <1>1, <1>2, <1>3, <1>4, <1>5, <1>6, <1>7, <1>8

\* Handling a result keeps the types.
LEMMA ResultTypes ==
  ASSUME TypeInv, HandleResult
  PROVE  TypeInv'
<1>keep. Keep => task' \in TaskTypes /\ strays' \in Nat
  BY KeepTypes DEF TypeInv
<1>spawn. \A kind \in Kinds: Spawn(kind) => task' \in TaskTypes /\ strays' \in Nat
  BY SpawnTypes DEF TypeInv
<1>1. CASE Planned
  BY <1>1, ReasoningAssumption, <1>keep
  DEF Planned, Count, Remember, ResetBudget, Continue, Result, TypeInv, TypeOK,
      IterationInv, history, TaskTypes, ReasoningAssumption
<1>2. CASE PlanImpossible
  BY <1>2, ReasoningAssumption, <1>keep
  DEF PlanImpossible, Count, End, Result, TypeInv, TypeOK, IterationInv, Statuses,
      Suspended, Terminal, budget, progress, history, TaskTypes, ReasoningAssumption
<1>3. CASE PlanFailed
  BY <1>3, ReasoningAssumption, <1>keep
  DEF PlanFailed, Count, CountIfAnswered, Remember, FailOr, End, Continue, Result, TypeInv,
      TypeOK, IterationInv, Statuses, Suspended, Terminal, budget, progress, history,
      TaskTypes, ReasoningAssumption
<1>4. CASE \E ok, same \in BOOLEAN: Executed(ok, same)
  BY <1>4, ReasoningAssumption, <1>keep
  DEF Executed, Count, FailOr, End, Continue, Result, TypeInv, TypeOK, IterationInv,
      Statuses, Suspended, Terminal, budget, progress, history, TaskTypes,
      ReasoningAssumption
<1>5. CASE NotPrepared
  BY <1>5, ReasoningAssumption, <1>keep
  DEF NotPrepared, Count, CountIfAnswered, FailOr, End, Continue, Result, TypeInv, TypeOK,
      IterationInv, Statuses, Suspended, Terminal, budget, progress, history, TaskTypes,
      ReasoningAssumption
<1>6. CASE \E quality \in {"good", "partial", "failed"}: Evaluated(quality)
  BY <1>6, ReasoningAssumption, <1>keep
  DEF Evaluated, Count, Remember, Continue, Result, TypeInv, TypeOK, IterationInv, budget,
      progress, TaskTypes, ReasoningAssumption
<1>7. CASE NotEvaluated
  BY <1>7, ReasoningAssumption, <1>keep
  DEF NotEvaluated, Count, CountIfAnswered, Continue, Result, TypeInv, TypeOK, IterationInv,
      budget, progress, history, TaskTypes, ReasoningAssumption
<1>8. CASE Compressed
  BY <1>8, ReasoningAssumption, <1>keep
  DEF Compressed, Count, CountIfAnswered, Remember, Continue, Result, TypeInv, TypeOK,
      IterationInv, budget, progress, history, TaskTypes, ReasoningAssumption
<1>9. CASE Summarized
  BY <1>9, ReasoningAssumption, <1>keep
  DEF Summarized, Complete, Count, CountIfAnswered, End, Result, TypeInv, TypeOK, IterationInv,
      Statuses, Suspended, Terminal, budget, progress, history, TaskTypes,
      ReasoningAssumption
<1>10. CASE \E ok \in BOOLEAN: Overridden(ok)
  BY <1>10, ReasoningAssumption, <1>keep
  DEF Overridden, Continue, Result, TypeInv, TypeOK, IterationInv, budget, progress,
      history, TaskTypes, ReasoningAssumption
<1>11. CASE NotDecided
  <2>1. decisions' \in Seq(BOOLEAN) /\ Len(decisions') <= AdjustWindow
    BY <1>11, RecordDecisionTypes DEF NotDecided, TypeInv
  <2> QED
    BY <1>11, <2>1, ReasoningAssumption, <1>keep
    DEF NotDecided, Count, CountIfAnswered, FailOr, End, Continue, Result, TypeInv, TypeOK,
        IterationInv, Statuses, Suspended, Terminal, budget, progress, TaskTypes,
        ReasoningAssumption
<1>12. CASE ~(Planned \/ PlanImpossible \/ PlanFailed \/ NotPrepared \/ NotEvaluated
             \/ Compressed \/ Summarized \/ NotDecided
             \/ (\E ok, same \in BOOLEAN: Executed(ok, same))
             \/ (\E quality \in {"good", "partial", "failed"}: Evaluated(quality))
             \/ (\E ok \in BOOLEAN: Overridden(ok)))
  BY <1>12, DecisionTypes DEF HandleResult
<1> QED
  BY <1>1, <1>2, <1>3, <1>4, <1>5, <1>6, <1>7, <1>8, <1>9, <1>10, <1>11, <1>12

\* So does every other step of the loop.
LEMMA LoopTypes ==
  ASSUME TypeInv,
         \/ StartPlanning \/ ExecuteStep \/ Evaluate \/ MaybeCompress \/ Decide \/ Resumed
         \/ Store \/ TaskDown \/ BudgetExceeded \/ Terminate
  PROVE  TypeInv'
<1>keep. Keep => task' \in TaskTypes /\ strays' \in Nat
  BY KeepTypes DEF TypeInv
<1>spawn. \A kind \in Kinds: Spawn(kind) => task' \in TaskTypes /\ strays' \in Nat
  BY SpawnTypes DEF TypeInv
<1>record. \A action: RecordDecision(action) =>
             decisions' \in Seq(BOOLEAN) /\ Len(decisions') <= AdjustWindow
  BY RecordDecisionTypes DEF TypeInv
<1>1. CASE StartPlanning
  BY <1>1, ReasoningAssumption, <1>keep, <1>spawn
  DEF StartPlanning, Kinds, SkillKinds, Due, TypeInv, TypeOK, IterationInv, Statuses,
      Suspended, Terminal, budget, progress, counters, history, TaskTypes,
      ReasoningAssumption
<1>2. CASE ExecuteStep
  BY <1>2, ReasoningAssumption, <1>keep, <1>spawn
  DEF ExecuteStep, Kinds, SkillKinds, Due, End, LimitExceeded, TypeInv, TypeOK,
      IterationInv, Statuses, Suspended, Terminal, budget, progress, counters, history,
      TaskTypes, ReasoningAssumption
<1>3. CASE Evaluate
  BY <1>3, ReasoningAssumption, <1>keep, <1>spawn
  DEF Evaluate, Kinds, SkillKinds, Due, TypeInv, TypeOK, IterationInv, Statuses, Suspended,
      Terminal, budget, progress, counters, history, TaskTypes, ReasoningAssumption
<1>4. CASE MaybeCompress
  BY <1>4, ReasoningAssumption, <1>keep, <1>spawn
  DEF MaybeCompress, Kinds, SkillKinds, Due, TypeInv, TypeOK, IterationInv, budget,
      progress, counters, history, TaskTypes, ReasoningAssumption
<1>5. CASE Decide /\ DecideStuck
  BY <1>5, ReasoningAssumption, <1>keep, <1>record
  DEF Decide, DecideStuck, Due, End, TypeInv, TypeOK, IterationInv, Statuses, Suspended,
      Terminal, budget, counters, TaskTypes, ReasoningAssumption
<1>6. CASE Decide /\ DecideSummary
  BY <1>6, ReasoningAssumption, <1>keep, <1>spawn
  DEF Decide, DecideSummary, Kinds, SkillKinds, Due, TypeInv, TypeOK, IterationInv, budget,
      counters, TaskTypes, ReasoningAssumption
<1>7. CASE Decide /\ DecideContinue
  BY <1>7, ReasoningAssumption, <1>keep, <1>record
  DEF Decide, DecideContinue, Due, Continue, TypeInv, TypeOK, IterationInv, budget,
      counters, TaskTypes, ReasoningAssumption
<1>8. CASE Decide /\ DecideByModel
  BY <1>8, ReasoningAssumption, <1>keep, <1>spawn
  DEF Decide, DecideByModel, Kinds, SkillKinds, Due, TypeInv, TypeOK, IterationInv,
      Statuses, Suspended, Terminal, budget, counters, TaskTypes, ReasoningAssumption
<1>9. CASE Resumed
  BY <1>9, ReasoningAssumption, <1>keep
  DEF Resumed, Due, TypeInv, TypeOK, IterationInv, budget, progress, counters, history,
      ReasoningAssumption
<1>10. CASE Store
  <2>1. task \in [kind: Kinds, state: {"running", "answered", "crashed"}, told: BOOLEAN]
    BY <1>10 DEF Store, TypeInv, TypeOK, NoTask
  <2>2. pending' \in [kind: Kinds, told: BOOLEAN]
    BY <1>10, <2>1 DEF Store
  <2> QED
    BY <1>10, <2>2
    DEF Store, TypeInv, TypeOK, IterationInv, budget, progress, counters, history
<1>11. CASE TaskDown
  BY <1>11, ReasoningAssumption, <1>keep
  DEF TaskDown, FailOr, End, Continue, TypeInv, TypeOK, IterationInv, Statuses, Suspended,
      Terminal, budget, progress, history, TaskTypes, ReasoningAssumption
<1>12. CASE BudgetExceeded
  BY <1>12, ReasoningAssumption, <1>keep
  DEF BudgetExceeded, End, TypeInv, TypeOK, IterationInv, Statuses, Suspended, Terminal,
      budget, progress, counters, history, ReasoningAssumption
<1>13. CASE Terminate
  <2>1. decisions' \in Seq(BOOLEAN) /\ Len(decisions') <= AdjustWindow
    BY <1>13, ReasoningAssumption DEF Terminate, Lost, ReasoningAssumption
  <2>2. iteration' \in 1..(MaxIterations + 1) /\ ~(iteration' > MaxIterations)
    BY <1>13, ReasoningAssumption DEF Terminate, Lost, ReasoningAssumption
  <2>3. strays' \in Nat /\ calls' \in 0..MaxLlmCalls /\ repeats' \in 0..3
    BY <1>13, ReasoningAssumption DEF Terminate, Lost, TypeInv, TypeOK, ReasoningAssumption
  <2>4. row' \in Statuses \cup Terminal
    BY <1>13 DEF Terminate, TypeInv, TypeOK, Terminal
  <2> QED
    BY <1>13, <2>1, <2>2, <2>3, <2>4
    DEF Terminate, Lost, TypeInv, TypeOK, IterationInv, Statuses
<1> QED
  BY <1>1, <1>2, <1>3, <1>4, <1>5, <1>6, <1>7, <1>8, <1>9, <1>10, <1>11, <1>12, <1>13
  DEF Decide

\* And the user's, the tasks', the timer's and the supervisor's.
LEMMA OtherTypes ==
  ASSUME TypeInv, User \/ TaskEnds \/ StrayEnds \/ Fire \/ Raise \/ Kill
  PROVE  TypeInv'
<1>keep. Keep => task' \in TaskTypes /\ strays' \in Nat
  BY KeepTypes DEF TypeInv
<1>spawn. \A kind \in Kinds: Spawn(kind) => task' \in TaskTypes /\ strays' \in Nat
  BY SpawnTypes DEF TypeInv
<1>1. CASE Pause
  BY <1>1, ReasoningAssumption, <1>keep
  DEF Pause, Cast, Suspend, TypeInv, TypeOK, IterationInv, Statuses, Suspended, Terminal,
      progress, counters, history, ReasoningAssumption
<1>2. CASE Resume
  BY <1>2, ReasoningAssumption, <1>keep
  DEF Resume, Cast, ResumeBudget, TypeInv, TypeOK, IterationInv, progress, counters,
      history, ReasoningAssumption
<1>3. CASE Abort
  BY <1>3, ReasoningAssumption, <1>keep
  DEF Abort, Cast, End, TypeInv, TypeOK, IterationInv, Statuses, Suspended, Terminal,
      budget, progress, counters, history, ReasoningAssumption
<1>4. CASE AddContext
  BY <1>4, ReasoningAssumption, <1>keep
  DEF AddContext, Cast, TypeInv, TypeOK, IterationInv, budget, progress, counters, history,
      ReasoningAssumption
<1>5. CASE Override
  BY <1>5, ReasoningAssumption, <1>keep, <1>spawn
  DEF Override, Kinds, SkillKinds, Cast, TypeInv, TypeOK, IterationInv, Statuses, Suspended,
      Terminal, budget, progress, counters, history, TaskTypes, ReasoningAssumption
<1>6. CASE TaskEnds
  <2>1. task \in [kind: Kinds, state: {"running", "answered", "crashed"}, told: BOOLEAN]
    BY <1>6 DEF TaskEnds, TypeInv, TypeOK, NoTask
  <2>2. task' \in [kind: Kinds, state: {"running", "answered", "crashed"}, told: BOOLEAN]
    BY <1>6, <2>1 DEF TaskEnds
  <2> QED
    BY <1>6, <2>2
    DEF TaskEnds, rest, TypeInv, TypeOK, IterationInv, budget, progress, counters, history
<1>7. CASE StrayEnds
  BY <1>7, ReasoningAssumption, <1>keep
  DEF StrayEnds, rest, TypeInv, TypeOK, IterationInv, budget, progress, counters, history,
      ReasoningAssumption
<1>8. CASE Fire
  BY <1>8, ReasoningAssumption, <1>keep
  DEF Fire, TypeInv, TypeOK, IterationInv, progress, counters, history, ReasoningAssumption
<1>9. CASE Raise
  BY <1>9, ReasoningAssumption, <1>keep
  DEF Raise, TypeInv, TypeOK, IterationInv, budget, progress, counters, history,
      ReasoningAssumption
<1>10. CASE Kill
  <2>1. decisions' \in Seq(BOOLEAN) /\ Len(decisions') <= AdjustWindow
    BY <1>10, ReasoningAssumption DEF Kill, Lost, ReasoningAssumption
  <2>2. iteration' \in 1..(MaxIterations + 1) /\ ~(iteration' > MaxIterations)
    BY <1>10, ReasoningAssumption DEF Kill, Lost, ReasoningAssumption
  <2>3. strays' \in Nat /\ calls' \in 0..MaxLlmCalls /\ repeats' \in 0..3
    BY <1>10, ReasoningAssumption DEF Kill, Lost, TypeInv, TypeOK, ReasoningAssumption
  <2>4. row' \in Statuses \cup Terminal
    BY <1>10 DEF Kill, TypeInv, TypeOK
  <2> QED
    BY <1>10, <2>1, <2>2, <2>3, <2>4 DEF Kill, Lost, TypeInv, TypeOK, IterationInv, Statuses
<1> QED
  BY <1>1, <1>2, <1>3, <1>4, <1>5, <1>6, <1>7, <1>8, <1>9, <1>10 DEF User

\* Types are kept by every step.
LEMMA TypeStep == TypeInv /\ [Next]_vars => TypeInv'
<1> SUFFICES ASSUME TypeInv, [Next]_vars PROVE TypeInv'
  OBVIOUS
<1>1. CASE Next
  BY <1>1, ResultTypes, LoopTypes, OtherTypes DEF Next, Loop
<1>2. CASE UNCHANGED vars
  BY <1>2 DEF vars, TypeInv, TypeOK, IterationInv
<1> QED
  BY <1>1, <1>2

\* ... and by the initial state.
LEMMA TypeInit == Init => TypeInv
<1> SUFFICES ASSUME Init PROVE TypeInv
  OBVIOUS
<1>1. decisions \in Seq(BOOLEAN) /\ Len(decisions) <= AdjustWindow
  BY ReasoningAssumption DEF Init, ReasoningAssumption
<1>2. iteration \in 1..(MaxIterations + 1) /\ ~(iteration > MaxIterations)
  BY ReasoningAssumption DEF Init, ReasoningAssumption
<1>3. calls \in 0..MaxLlmCalls /\ casts \in 0..MaxCasts /\ strays \in Nat /\ plan \in Nat
      /\ index \in Nat /\ failures \in Nat /\ repeats \in 0..3
  BY ReasoningAssumption DEF Init, ReasoningAssumption
<1> QED
  BY <1>1, <1>2, <1>3 DEF Init, TypeInv, TypeOK, IterationInv, Statuses

\* The types of the session's state hold whatever the model answers and the user does.
THEOREM TypeCorrect == Spec => []TypeOK
<1>1. Spec => []TypeInv
  BY TypeInit, TypeStep, PTL DEF Spec
<1>2. TypeInv => TypeOK
  BY DEF TypeInv
<1> QED
  BY <1>1, <1>2, PTL
-----------------------------------------------------------------------------
(* The time budget *)

\* A timer that fired, or of which nothing was left, has its message in the mailbox:
\* with it BudgetIsKept is inductive.
BudgetInv ==
    /\ BudgetIsKept
    /\ stage = "up" /\ (clock = "fired" \/ remaining = "zero") => expired

\* All a step of a living process may do to the budget.
BudgetMove ==
    \/ UNCHANGED budget
    \/ ResetBudget \/ Suspend \/ ResumeBudget
    \/ clock' = "fired" /\ expired' /\ UNCHANGED remaining

\* Handling a result moves the budget in one of these ways,
LEMMA ResultMovesBudget == HandleResult => BudgetMove /\ stage' = stage
BY DEF HandleResult, BudgetMove, Result, Decided, End, Continue, FailOr,
       Planned, PlanImpossible, PlanFailed, Executed, NotPrepared, Evaluated, NotEvaluated,
       Compressed, Summarized, Complete, Overridden, Done, DoneDoubted, GoOn, Polishing, Adjusted,
       NotAdjusted, AskUser, DeclaredStuck, NotDecided

\* ... as every other step does that does not end the process.
LEMMA OtherMovesBudget ==
  ASSUME Next, ~HandleResult
  PROVE  BudgetMove \/ stage' # "up"
<1>1. CASE Loop
  BY <1>1 DEF Loop, BudgetMove, StartPlanning, ExecuteStep, Evaluate, MaybeCompress, Decide,
              Resumed, Store, TaskDown, BudgetExceeded, Terminate
<1>2. CASE User
  BY <1>2 DEF User, BudgetMove, Pause, Resume, Abort, AddContext, Override
<1>3. CASE TaskEnds \/ StrayEnds \/ Fire \/ Raise \/ Kill
  BY <1>3 DEF BudgetMove, TaskEnds, StrayEnds, rest, Fire, Raise, Kill
<1> QED
  BY <1>1, <1>2, <1>3 DEF Next

\* Only a process that is up moves; once it is not, it stays so.
LEMMA StageStep ==
  ASSUME Next
  PROVE  stage' = "up" => stage = "up"
<1>1. CASE Loop
  BY <1>1 DEF Loop, HandleResult, Result, Decided, Due, End, Continue, FailOr,
       Planned, PlanImpossible, PlanFailed, Executed, NotPrepared, Evaluated, NotEvaluated,
       Compressed, Summarized, Complete, Overridden, Done, DoneDoubted, GoOn, Polishing, Adjusted,
       NotAdjusted, AskUser, DeclaredStuck, NotDecided, StartPlanning, ExecuteStep, Evaluate,
       MaybeCompress, Decide, Resumed, Store, TaskDown, BudgetExceeded, Terminate
<1>2. CASE User
  BY <1>2 DEF User, Cast, Pause, Resume, Abort, AddContext, Override
<1>3. CASE TaskEnds \/ StrayEnds \/ Fire \/ Raise \/ Kill
  BY <1>3 DEF TaskEnds, StrayEnds, rest, Fire, Raise, Kill
<1> QED
  BY <1>1, <1>2, <1>3 DEF Next

\* None of these moves loses the budget.
LEMMA BudgetStep == TypeOK /\ BudgetInv /\ [Next]_vars => BudgetInv'
<1> SUFFICES ASSUME TypeOK, BudgetInv, [Next]_vars PROVE BudgetInv'
  OBVIOUS
<1>1. CASE UNCHANGED vars
  BY <1>1 DEF vars, BudgetInv, BudgetIsKept
<1>2. CASE Next
  <2>1. BudgetMove \/ stage' # "up"
    BY <1>2, ResultMovesBudget, OtherMovesBudget
  <2>2. stage' = "up" => stage = "up"
    BY <1>2, StageStep
  <2> QED
    BY <2>1, <2>2 DEF BudgetMove, budget, ResetBudget, Suspend, ResumeBudget, BudgetInv,
                      BudgetIsKept, TypeOK
<1> QED
  BY <1>1, <1>2

\* The time budget is never lost, however often the session is paused, resumed, asked,
\* replanned or overridden and whenever the timer rings.
THEOREM BudgetAlwaysKept == Spec => []BudgetIsKept
<1>1. Init => BudgetInv
  BY DEF Init, BudgetInv, BudgetIsKept
<1>2. BudgetInv => BudgetIsKept
  BY DEF BudgetInv
<1> QED
  BY <1>1, <1>2, BudgetStep, TypeCorrect, PTL DEF Spec

-----------------------------------------------------------------------------
(* Something is always under way *)

\* A result's handler leaves a continuation, a task, or a session that waits.
LEMMA ResultIsBusy ==
  HandleResult => next' # "none" \/ task' # NoTask \/ status' = "waiting_user"
BY DEF HandleResult, End, Continue, FailOr, Spawn, NoTask, Planned, PlanImpossible, PlanFailed,
       Executed, NotPrepared, Evaluated, NotEvaluated, Compressed, Summarized, Complete, Overridden,
       Done, DoneDoubted, GoOn, Polishing, Adjusted, NotAdjusted, AskUser, DeclaredStuck,
       NotDecided, Kinds

\* Every step keeps something under way.
LEMMA BusyStep == TypeOK /\ NeverIdle /\ [Next]_vars => NeverIdle'
<1> SUFFICES ASSUME TypeOK, NeverIdle, [Next]_vars PROVE NeverIdle'
  OBVIOUS
<1>1. CASE HandleResult
  BY <1>1, ResultIsBusy DEF NeverIdle, Suspended
<1>2. CASE StartPlanning \/ ExecuteStep \/ Evaluate \/ MaybeCompress \/ Decide \/ Resumed
  BY <1>2 DEF StartPlanning, ExecuteStep, Evaluate, MaybeCompress, Decide, DecideStuck,
              DecideSummary, DecideContinue, DecideByModel, Resumed, End, Continue, Spawn,
              NoTask, NeverIdle
<1>3. CASE Store \/ TaskDown \/ BudgetExceeded \/ Terminate
  BY <1>3 DEF Store, TaskDown, BudgetExceeded, Terminate, FailOr, End, Continue, NeverIdle,
              Suspended
<1>4. CASE User
  BY <1>4 DEF User, Cast, Pause, Resume, Abort, AddContext, Override, End, Spawn, NoTask,
              NeverIdle, Suspended
<1>5. CASE TaskEnds
  <2>1. task # NoTask /\ task \in [kind: Kinds, state: {"running", "answered", "crashed"},
                                    told: BOOLEAN]
    BY <1>5 DEF TaskEnds, NoTask, TypeOK
  <2>2. task' # NoTask
    BY <1>5, <2>1 DEF TaskEnds, NoTask
  <2> QED
    BY <2>2 DEF NeverIdle
<1>6. CASE StrayEnds \/ Fire \/ Raise \/ Kill
  BY <1>6 DEF StrayEnds, rest, Fire, Raise, Kill, NeverIdle
<1>7. CASE UNCHANGED vars
  BY <1>7 DEF vars, NeverIdle
<1> QED
  BY <1>1, <1>2, <1>3, <1>4, <1>5, <1>6, <1>7 DEF Next, Loop

\* No chain of handlers ends with nothing under way, for any limits and interventions.
THEOREM AlwaysBusy == Spec => []NeverIdle
<1>1. Init => NeverIdle
  BY DEF Init, NeverIdle
<1> QED
  BY <1>1, BusyStep, TypeCorrect, PTL DEF Spec
-----------------------------------------------------------------------------
(* Limits *)

\* A resume goes on from a loop at rest: with it ExecutesWithinLimits is inductive.
LimitsInv ==
    stage = "up" /\ next \in {"none", "resume"} /\ task.kind = "executing" =>
        iteration <= MaxIterations /\ repeats < 3 /\ index < plan

\* A result's handler leaves no skill of the plan at rest but one that was there.
LEMMA ResultWithinLimits ==
  ASSUME HandleResult, next' \in {"none", "resume"}, task'.kind = "executing"
  PROVE  /\ stage = "up" /\ next \in {"none", "resume"}
         /\ UNCHANGED <<task, iteration, repeats, index, plan>>
BY DEF HandleResult, Result, Decided, Keep, Left, NoTask, Spawn, End, Continue, FailOr,
       Planned, PlanImpossible, PlanFailed, Executed, NotPrepared, Evaluated, NotEvaluated, Compressed,
       Summarized, Complete, Overridden, Done, DoneDoubted, GoOn, Polishing, Adjusted, NotAdjusted,
       AskUser, DeclaredStuck, NotDecided, progress

\* ExecuteStep is where the limits are looked at.
LEMMA ExecuteWithinLimits ==
  ASSUME TypeOK, ExecuteStep
  PROVE  LimitsInv'
<1>1. CASE LimitExceeded
  BY <1>1 DEF ExecuteStep, End, LimitsInv
<1>2. CASE ~LimitExceeded
  <2>1. iteration <= MaxIterations /\ repeats < 3
    BY <1>2, ReasoningAssumption DEF LimitExceeded, TypeOK, ReasoningAssumption
  <2>2. UNCHANGED <<iteration, repeats, index, plan>>
    BY DEF ExecuteStep, progress, counters
  <2>3. index < plan \/ next' = "decide"
    BY <1>2 DEF ExecuteStep
  <2> QED
    BY <2>1, <2>2, <2>3 DEF LimitsInv
<1> QED
  BY <1>1, <1>2

\* Every step keeps what rests within the limits.
LEMMA LimitsStep == TypeOK /\ LimitsInv /\ [Next]_vars => LimitsInv'
<1> SUFFICES ASSUME TypeOK, LimitsInv, [Next]_vars PROVE LimitsInv'
  OBVIOUS
<1>1. CASE HandleResult
  BY <1>1, ResultWithinLimits DEF LimitsInv
<1>2. CASE ExecuteStep
  BY <1>2, ExecuteWithinLimits
<1>3. CASE StartPlanning \/ Evaluate \/ MaybeCompress \/ Decide \/ Resumed
  BY <1>3 DEF StartPlanning, Evaluate, MaybeCompress, Decide, DecideStuck, DecideSummary,
              DecideContinue, DecideByModel, Resumed, End, Continue, Spawn, LimitsInv
<1>4. CASE Store \/ TaskDown \/ BudgetExceeded \/ Terminate
  BY <1>4 DEF Store, TaskDown, BudgetExceeded, Terminate, FailOr, End, Continue, NoTask,
              LimitsInv
<1>5. CASE User
  BY <1>5 DEF User, Cast, Pause, Resume, Abort, AddContext, Override, End, Spawn, progress,
              counters, LimitsInv
<1>6. CASE TaskEnds
  <2>1. task \in [kind: Kinds, state: {"running", "answered", "crashed"}, told: BOOLEAN]
    BY <1>6 DEF TaskEnds, NoTask, TypeOK
  <2>2. task'.kind = task.kind
    BY <1>6, <2>1 DEF TaskEnds
  <2> QED
    BY <1>6, <2>2 DEF TaskEnds, rest, progress, counters, LimitsInv
<1>7. CASE StrayEnds \/ Fire \/ Raise \/ Kill
  BY <1>7 DEF StrayEnds, rest, Fire, Raise, Kill, Lost, progress, counters, LimitsInv
<1>8. CASE UNCHANGED vars
  BY <1>8 DEF vars, LimitsInv
<1> QED
  BY <1>1, <1>2, <1>3, <1>4, <1>5, <1>6, <1>7, <1>8 DEF Next, Loop

\* No limit is passed at rest, for every limit and any number of interventions.
THEOREM AlwaysWithinLimits == Spec => []ExecutesWithinLimits
<1>1. Init => LimitsInv
  BY DEF Init, LimitsInv
<1>2. LimitsInv => ExecutesWithinLimits
  BY DEF LimitsInv, ExecutesWithinLimits
<1> QED
  BY <1>1, <1>2, LimitsStep, TypeCorrect, PTL DEF Spec
-----------------------------------------------------------------------------
(* How a session ends *)

\* What the loop does to the row while it runs: it starts from a loop that is not
\* terminating, and writes a terminal status only with "terminate" next.
RowMove ==
    /\ stage = "up" /\ next # "terminate" /\ stage' = "up"
    /\ \/ row' = row
       \/ row' \in Statuses
       \/ row' \in Terminal /\ next' = "terminate"
    /\ row' = "completed" => row = "completed" \/ delivered'

\* A result's handler is such a step,
LEMMA ResultMovesRow ==
  ASSUME HandleResult
  PROVE  RowMove /\ (delivered => delivered')
BY DEF HandleResult, RowMove, Result, Decided, End, Continue, FailOr, Statuses, Suspended,
       Terminal, Planned, PlanImpossible, PlanFailed, Executed, NotPrepared, Evaluated,
       NotEvaluated, Compressed, Summarized, Complete, Overridden, Done, DoneDoubted, GoOn, Polishing,
       Adjusted, NotAdjusted, AskUser, DeclaredStuck, NotDecided

\* ... and so is what else the loop does short of terminate/2,
LEMMA LoopMovesRow ==
  ASSUME StartPlanning \/ ExecuteStep \/ Evaluate \/ MaybeCompress \/ Decide \/ Resumed
         \/ Store \/ TaskDown \/ BudgetExceeded
  PROVE  RowMove /\ delivered' = delivered
BY DEF RowMove, Due, End, Continue, FailOr, Statuses, Suspended, Terminal, StartPlanning,
       ExecuteStep, Evaluate, MaybeCompress, Decide, DecideStuck, DecideSummary,
       DecideContinue, DecideByModel, Resumed, Store, TaskDown, BudgetExceeded

\* ... a cast, and a callback that raises.
LEMMA UserMovesRow ==
  ASSUME User \/ Raise
  PROVE  RowMove /\ delivered' = delivered
BY DEF RowMove, User, Cast, End, Statuses, Suspended, Terminal, Pause, Resume, Abort,
       AddContext, Override, Raise

\* The rest leaves the row alone, but for terminate/2.
LEMMA RestOfRow ==
  ASSUME TaskEnds \/ StrayEnds \/ Fire
  PROVE  UNCHANGED <<row, next, stage, delivered>>
BY DEF TaskEnds, StrayEnds, rest, Fire

\* Every step keeps the record of how the session ended,
LEMMA RecordStep == StoppedIsRecorded /\ [Next]_vars => StoppedIsRecorded'
<1> SUFFICES ASSUME StoppedIsRecorded, [Next]_vars PROVE StoppedIsRecorded'
  OBVIOUS
<1>1. CASE RowMove /\ (delivered => delivered')
  BY <1>1 DEF RowMove, StoppedIsRecorded, Statuses, Suspended, Terminal
<1>2. CASE TaskEnds \/ StrayEnds \/ Fire
  BY <1>2, RestOfRow DEF StoppedIsRecorded
<1>3. CASE Terminate
  BY <1>3 DEF Terminate, Lost, Due, StoppedIsRecorded, Terminal
<1>4. CASE Kill
  BY <1>4 DEF Kill, Lost, StoppedIsRecorded
<1>5. CASE UNCHANGED vars
  BY <1>5 DEF vars, StoppedIsRecorded
<1> QED
  BY <1>1, <1>2, <1>3, <1>4, <1>5, ResultMovesRow, LoopMovesRow, UserMovesRow DEF Next, Loop

\* ... which is right at the start,
LEMMA RecordInit == Init => StoppedIsRecorded
BY DEF Init, StoppedIsRecorded, Terminal

\* A session that stopped left a terminal row, and only a delivered one is completed.
THEOREM EndIsRecorded == Spec => []StoppedIsRecorded
BY RecordInit, RecordStep, PTL DEF Spec

\* ... and with it no step overwrites a terminal status.
LEMMA FinalStep == StoppedIsRecorded /\ [Next]_vars => (row \in Terminal => row' = row)
<1> SUFFICES ASSUME StoppedIsRecorded, [Next]_vars, row \in Terminal PROVE row' = row
  OBVIOUS
<1>1. ~RowMove
  BY DEF RowMove, StoppedIsRecorded
<1>2. CASE TaskEnds \/ StrayEnds \/ Fire
  BY <1>2, RestOfRow
<1>3. CASE Terminate \/ Kill
  BY <1>3 DEF Terminate, Kill
<1>4. CASE UNCHANGED vars
  BY <1>4 DEF vars
<1> QED
  BY <1>1, <1>2, <1>3, <1>4, ResultMovesRow, LoopMovesRow, UserMovesRow DEF Next, Loop

\* The outcome in the row is never overwritten, by terminate/2 least of all.
THEOREM OutcomeIsFinal == Spec => TerminalIsFinal
<1>1. StoppedIsRecorded /\ [Next]_vars => [(row \in Terminal) => row' = row]_vars
  BY FinalStep
<1> QED
  BY <1>1, EndIsRecorded, PTL DEF Spec, TerminalIsFinal

=============================================================================
