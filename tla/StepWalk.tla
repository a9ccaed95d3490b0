------------------------------ MODULE StepWalk ------------------------------
(***************************************************************************)
(* One run's walk of its workflow (AlexClaw.Workflows.Executor, from       *)
(* execute/2 to finish/3): which step runs next, with which input, what    *)
(* the run records and how it ends.                                        *)
(*                                                                         *)
(* A step is one action: nothing outside the run reads the walk's state    *)
(* while it runs.  What the step meets (the skill loaded or not, its       *)
(* config valid or not, its circuit open or not, the branch it returns) is *)
(* chosen by the environment, step by step.                                *)
(***************************************************************************)
EXTENDS Integers, Sequences, FiniteSetsExt

CONSTANTS
    Workflows,  \* the workflows that may be run
    Definition, \* Definition[w], what w is: see WorkflowType
    Branches,   \* the branches a skill may return, OnError among them
    OnError,    \* :on_error, the branch an {:error, reason} is routed by
    Default,    \* "default", the route for a branch with none of its own
    Skills,     \* the skills a step may name
    Privileged, \* Invoke.privileged_skills/0
    Dynamic,    \* the skills SafeExecutor runs in a linked task
    Receiver,   \* the skill receive_from_workflow
    Kind,       \* Kind[s][b]: what s declares branch b to be
    End,        \* the route target "end"
    NoRoute,    \* no route for that branch
    NoStep,     \* no step: an unset input_from, an unset fallback_skill
    PositionLimit \* bound: positions are those of an integer column

Kinds == {"error", "empty", "other"}
Names == Branches \cup {Default}

\* workflow_steps as a workflow holds them.  input_from and a route's goto are any
\* integers: nothing ties them to a step that exists.
WorkflowType(w) ==
    /\ w.steps \subseteq -PositionLimit..PositionLimit
    /\ w.routes \in [w.steps -> [Names -> Int \cup {End, NoRoute}]]
    /\ w.inputFrom \in [w.steps -> Int \cup {NoStep}]
    /\ w.skill \in [w.steps -> Skills]
    /\ w.fallback \in [w.steps -> Skills \cup {NoStep}]
    /\ w.onOpen \in [w.steps -> {"halt", "skip", "fallback"}]
    /\ w.onMissing \in [w.steps -> {"fail", "skip"}]

\* What step_results and the step's own outcome row say of it: the branch it left by,
\* that it was skipped, its error, or nothing.
Entries == Branches \cup {"skipped", "error", "none"}

ASSUME WalkAssumption ==
    /\ PositionLimit \in Nat
    /\ Branches \cap {"skipped", "error", "none"} = {}
    /\ \A w \in Workflows: WorkflowType(Definition[w])
    /\ OnError \in Branches
    /\ Kind \in [Skills -> [Branches -> Kinds]]
    /\ Privileged \subseteq Skills
    /\ Dynamic \subseteq Skills
    /\ End \notin Int /\ NoRoute \notin Int /\ NoStep \notin Int \cup Skills
    /\ End # NoRoute

VARIABLES
    workflow,  \* the workflow being run
    launch,    \* how it was started: "plain", with an "initial" or a "remote" input
    allowed,   \* whether the run was started privileged
    phase,     \* "start", "walking", "done", "failed" or "killed"
    pos,       \* the position to enter next
    visited,   \* the positions entered
    outputs,   \* what each position passed on, Absent where nothing
    results,   \* what the history says of each position: see Entries
    recovered, \* a route handled an error
    result,    \* the run's final result
    trail,     \* history: the positions in the order they were entered
    errors,    \* history: the positions whose step ended in an error
    ran        \* history: the skills that ran, as <<position, skill>>

vars == <<workflow, launch, allowed, phase, pos, visited, outputs, results, recovered,
          result, trail, errors, ran>>
config == <<workflow, launch, allowed>>

\* A value is known by where it came from.
Value(kind, p) == [kind |-> kind, from |-> p]
Absent == Value("absent", 0)
Nil == Value("nil", 0)
Initial == IF launch = "initial" THEN Value("initial", 0) ELSE Nil
Remote == Value("remote", 0)

\* Its rows, as loaded when the run started.
wf == Definition[workflow]

Steps == wf.steps
-----------------------------------------------------------------------------
(* The graph *)

Before(p) == {q \in Steps: q < p}
After(p) == {q \in Steps: q > p}

\* Map.get/2: nil for a position that passed nothing on.
Passed(q) == IF q \in Steps /\ outputs[q] # Absent THEN outputs[q] ELSE Nil

\* resolve_step_input/4: input_from names a position; otherwise the step before it
\* in position order, or the run's own input when there is none.  A run another node
\* started hands that node's input to its receive_from_workflow steps
\* (inject_remote_input/3).
InputOf(p) ==
    IF launch = "remote" /\ wf.skill[p] = Receiver THEN Remote
    ELSE IF wf.inputFrom[p] # NoStep THEN Passed(wf.inputFrom[p])
    ELSE IF Before(p) = {} THEN Initial
    ELSE Passed(Max(Before(p)))

\* resolve_next/2: the branch's own route, else the step's "default" route.
RouteOf(p, b) ==
    IF wf.routes[p][b] # NoRoute THEN wf.routes[p][b] ELSE wf.routes[p][Default]

\* target/2 for an error: without a route the run fails.
Unrouted(p, b, kind) == RouteOf(p, b) = NoRoute /\ kind = "error"

\* Variant: the first output recorded.
FirstOutput(o) ==
    LET passed == {q \in Steps: o[q] # Absent}
    IN  IF passed = {} THEN Nil ELSE o[Min(passed)]

\* last_output/1: the output of the highest position that passed one on.
LastOutput(o) ==
    LET passed == {q \in Steps: o[q] # Absent}
    IN  IF passed = {} THEN Nil ELSE o[Max(passed)]
-----------------------------------------------------------------------------
(* Moving on *)

Finish(o) ==
    /\ phase' = "done"
    /\ result' = LastOutput(o)
    /\ UNCHANGED pos

GiveUp ==
    /\ phase' = "failed"
    /\ UNCHANGED <<pos, result>>

WalkTo(q) ==
    /\ phase' = "walking"
    /\ pos' = q
    /\ UNCHANGED result

\* next_position/2: the next higher position, or the end of the run.
GoNext(p, o) ==
    IF After(p) = {} THEN Finish(o) ELSE WalkTo(Min(After(p)))

\* go/4 and target/2 for branch b of kind `kind` at p, with the outputs o: a route
\* leads to the end or to a position, which must exist; unrouted, an empty branch
\* ends the run and any other goes to the next step.
Go(p, b, kind, o) ==
    LET route == RouteOf(p, b)
    IN  CASE route = End -> Finish(o)
          [] route \in Steps -> WalkTo(route)
          [] route \notin Steps \cup {End, NoRoute} -> GiveUp
          [] route = NoRoute /\ kind = "empty" -> Finish(o)
          [] route = NoRoute /\ kind # "empty" -> GoNext(p, o)
-----------------------------------------------------------------------------
(* What a step may meet *)

\* privileged_allowed?/1.
MayRun(s) == s \in Privileged => allowed

\* The skill a step may run: its own, or the fallback its open circuit calls for.
\* run_permitted/4 and fallback_permitted/4 refuse a privileged one, each its own.
Runs(p, s) ==
    /\ MayRun(wf.skill[p])
    /\ \/ s = wf.skill[p]
       \/ wf.onOpen[p] = "fallback" /\ s = wf.fallback[p] /\ MayRun(s)

\* handle_missing_skill/2, or circuit_open_strategy/3 of a permitted skill.
MaySkip(p) ==
    \/ wf.onMissing[p] = "skip"
    \/ wf.onOpen[p] = "skip" /\ MayRun(wf.skill[p])

\* Variant: without the look at the visited positions.
EnterAgain(p) ==
    /\ phase = "walking"
    /\ pos = p
    /\ visited' = visited \cup {p}
    /\ trail' = Append(trail, p)
    /\ UNCHANGED config

\* enter/5: the step at p runs, and its position counts as visited.
Enter(p) ==
    /\ phase = "walking"
    /\ pos = p
    /\ p \notin visited
    /\ visited' = visited \cup {p}
    /\ trail' = Append(trail, p)
    /\ UNCHANGED config

\* Variant: a branch the skill declares an error route is recorded as an error.
RecordKind(p, entry) ==
    results' = [results EXCEPT ![p] =
        IF entry \in Branches /\ Kind[wf.skill[p]][entry] = "error" THEN "error" ELSE entry]

\* record_outcome/4, and record_step_result/4 or record_step_error/3: the step's row and
\* the run's own map, which is written with the run's end.
Record(p, entry) == results' = [results EXCEPT ![p] = entry]

\* Variant: follow/6 forgets that the error was handled.
HandledIfRaised(kind) == recovered

\* An error that a route takes on marks the run.
Handled(kind) == recovered \/ kind = "error"
-----------------------------------------------------------------------------
Init ==
    /\ workflow \in Workflows
    /\ launch \in {"plain", "initial", "remote"}
    /\ allowed \in BOOLEAN
    /\ phase = "start"
    /\ pos = 0
    /\ visited = {}
    /\ outputs = [p \in Steps |-> Absent]
    /\ results = [p \in Steps |-> "none"]
    /\ recovered = FALSE
    /\ result = Nil
    /\ trail = <<>>
    /\ errors = {}
    /\ ran = {}

\* first_position/1: a workflow with no steps is done.
Start ==
    /\ phase = "start"
    /\ IF Steps = {} THEN Finish(outputs) ELSE WalkTo(Min(Steps))
    /\ UNCHANGED <<config, visited, outputs, results, recovered, trail, errors, ran>>

\* advance/4 for {:ok, result, branch}, and follow/6.  The branch's kind is what the
\* step's own skill declares, whichever skill ran.
Return(p, s, b) ==
    LET kind == Kind[wf.skill[p]][b]
        o == [outputs EXCEPT ![p] = Value("out", p)]
    IN  /\ Enter(p)
        /\ Runs(p, s)
        /\ ran' = ran \cup {<<p, s>>}
        /\ outputs' = o
        /\ Record(p, b)
        /\ errors' = IF kind = "error" THEN errors \cup {p} ELSE errors
        /\ IF Unrouted(p, b, kind)
           THEN GiveUp /\ UNCHANGED recovered
           ELSE Go(p, b, kind, o) /\ recovered' = Handled(kind)

\* advance/4 for {:skipped, input}: the step passes its input on.
Skip(p) ==
    LET o == [outputs EXCEPT ![p] = InputOf(p)]
    IN  /\ Enter(p)
        /\ MaySkip(p)
        /\ outputs' = o
        /\ Record(p, "skipped")
        /\ GoNext(p, o)
        /\ UNCHANGED <<recovered, errors, ran>>

\* advance/4 for {:error, reason}, and route_error/5: a skill that is missing,
\* unavailable, misconfigured, not permitted or cut off by its circuit, or one that
\* ran and failed.  A routed error is passed on as this step's output.
Fail(p, tried) ==
    LET o == [outputs EXCEPT ![p] = Value("error", p)]
    IN  /\ Enter(p)
        /\ \A s \in tried: Runs(p, s)
        /\ ran' = ran \cup {<<p, s>>: s \in tried}
        /\ Record(p, "error")
        /\ errors' = errors \cup {p}
        /\ IF Unrouted(p, OnError, "error")
           THEN GiveUp /\ UNCHANGED <<outputs, recovered>>
           ELSE /\ outputs' = o
                /\ recovered' = Handled("error")
                /\ Go(p, OnError, "error", o)

\* A dynamic skill runs in a task linked to the run's process (SafeExecutor): one
\* that raises takes the process with it, past contained_step's rescue and catch.
Escape(p, s) ==
    /\ Enter(p)
    /\ Runs(p, s)
    /\ s \in Dynamic
    /\ ran' = ran \cup {<<p, s>>}
    /\ phase' = "killed"
    /\ UNCHANGED <<pos, outputs, results, recovered, result, errors>>

\* Variant: a loop is reported only for a step that left no result.
LoopUnseen ==
    /\ phase = "walking"
    /\ pos \in visited
    /\ results[pos] = "none"
    /\ GiveUp
    /\ UNCHANGED <<config, visited, outputs, results, recovered, trail, errors, ran>>

\* enter/5 on a position already visited: :loop_detected.
Loop ==
    /\ phase = "walking"
    /\ pos \in visited
    /\ GiveUp
    /\ UNCHANGED <<config, visited, outputs, results, recovered, trail, errors, ran>>

Step(p) ==
    \/ \E s \in Skills:
        \/ \E b \in Branches: Return(p, s, b)
        \/ Fail(p, {s})
        \/ Escape(p, s)
    \/ Fail(p, {})
    \/ Skip(p)

Next == Start \/ Loop \/ \E p \in Steps: Step(p)

Spec == Init /\ [][Next]_vars

\* The walk is a plain recursion in the run's process; Step's fairness takes each
\* step's own call to end, which the dynamic skills' timeout gives and a core skill
\* owes.
FairSpec == Spec /\ WF_vars(Next)
-----------------------------------------------------------------------------
(* Properties *)

Values == [kind: {"absent", "nil", "initial", "remote"}, from: {0}]
              \cup [kind: {"out", "error"}, from: Steps]

\* Types of the run's state.
TypeOK ==
    /\ workflow \in Workflows
    /\ launch \in {"plain", "initial", "remote"}
    /\ allowed \in BOOLEAN
    /\ phase \in {"start", "walking", "done", "failed", "killed"}
    /\ pos \in Int
    /\ phase = "walking" => pos \in Steps
    /\ visited \subseteq Steps
    /\ outputs \in [Steps -> Values]
    /\ results \in [Steps -> Entries]
    /\ recovered \in BOOLEAN
    /\ result \in Values
    /\ trail \in Seq(Steps)
    /\ errors \subseteq Steps
    /\ ran \subseteq Steps \X Skills

\* No position runs twice in a run, whatever the routes: the trail has no
\* repetition and holds what was visited.
NoStepTwice ==
    /\ visited = {trail[i]: i \in DOMAIN trail}
    /\ \A i, j \in DOMAIN trail: trail[i] = trail[j] => i = j

\* "A run in which an error was handled by a route ends recovered" (moduledoc), and
\* only such a run: completed means no step of it ended in an error.
RecoveredMeansHandled == phase = "done" => (recovered <=> errors # {})

\* Where the definition sends a run after p, by what its history says of p; NoRoute when
\* nothing handles p's error.
Successor(p) ==
    LET entry == results[p]
        branch == IF entry = "error" THEN OnError ELSE entry
        kind == IF entry = "error" THEN "error" ELSE Kind[wf.skill[p]][entry]
        next == IF After(p) = {} THEN End ELSE Min(After(p))
    IN  IF entry = "skipped" THEN next
        ELSE IF RouteOf(p, branch) # NoRoute THEN RouteOf(p, branch)
        ELSE IF kind = "error" THEN NoRoute
        ELSE IF kind = "empty" THEN End
        ELSE next

\* The history tells the whole walk: with the definition kept beside it, what it says of
\* each step is why the next one was entered, and what it says of the last one is why the
\* run is over, done or failed (an error nothing handles, a position that is not there or
\* one entered before).  Of a run that its own step killed it says nothing of that step.
HistoryReplays ==
    trail # <<>> =>
        LET last == trail[Len(trail)] IN
        /\ trail[1] = Min(Steps)
        /\ \A i \in 1..(Len(trail) - 1):
            results[trail[i]] # "none" /\ trail[i + 1] = Successor(trail[i])
        /\ IF phase = "killed" THEN results[last] = "none" ELSE results[last] # "none"
        /\ phase = "walking" => pos = Successor(last)
        /\ phase = "done" => Successor(last) = End
        /\ phase = "failed" => Successor(last) \notin (Steps \ visited) \cup {End}

\* No run that was not started privileged ever runs a privileged skill, as a step or
\* as the fallback of one.
PrivilegedOnlyWhenAllowed ==
    \A x \in ran: x[2] \in Privileged => allowed

\* The routes of w all lead to a higher position.
Forward(w) ==
    \A p \in w.steps, n \in Names:
        w.routes[p][n] \in w.steps => w.routes[p][n] > p

\* In a workflow whose routes only lead forward, the run's result is what the last
\* step it entered passed on: reading the highest position finds the latest output.
ResultIsLatest ==
    phase = "done" /\ Forward(wf) /\ trail # <<>> => result = outputs[trail[Len(trail)]]

\* Every walk ends, loops in the routes included.
WalkEnds == <>(phase \in {"done", "failed", "killed"})

\* docs/architecture/workflow-engine.md, Execution Model: "A step's output feeds into
\* the next step's input, forming a single execution path per run".
InputFollowsPath ==
    phase = "walking" /\ trail # <<>> /\ pos \notin visited /\ wf.inputFrom[pos] = NoStep
        => InputOf(pos) = Passed(trail[Len(trail)])

\* executor.ex, contained_step: "whatever a step raises, throws or exits with fails
\* that step, like any error, instead of escaping the executor".
StepIsContained == phase # "killed"
=============================================================================
