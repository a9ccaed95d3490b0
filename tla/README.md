# AlexClaw in TLA+

A verification project for AlexClaw, an Elixir/OTP personal agent: workflows of
skills, an autonomous reasoning loop, a control plane behind a second factor, the
small concurrent services they rest on, and the web automator, a Python sidecar that
records and plays what a user does in a browser. The modules model the code in
`src/lib/alex_claw` and `src/web-automator`; every definition of them is traced to
its lines in `PROJECT.json` ("map"). TLC checks small instances, TLAPS proves every
safety property the runs check for every value of the constants.

    tlc -config MCLock.cfg MCLock        # a run
    tlapm Lock_proofs.tla                # a proof

Contents: [1 inventory](#1-inventory) · [2 modules](#2-modules) ·
[3 runs](#3-runs) · [4 proofs](#4-proofs) · [5 findings](#5-findings) ·
[6 plan](#6-plan) · [7 not modelled](#7-what-is-not-modelled-and-why)

## 1 Inventory

One BEAM node (or a few, clustered) over one PostgreSQL. `application.ex` starts
about fifty children under one `one_for_one` supervisor; processes talk by
GenServer calls and casts, PubSub broadcasts, public ETS tables and rows.

| Component (source) | State | Operations | What is hard | What makes it correct |
|---|---|---|---|---|
| Run Registry (`workflows/registry.ex`) | ETS table of active runs, monitors, mailbox; `workflow_runs` rows | register, deregister, cancel, update_step, DOWN | executor, Registry and canceller write the same row and the same ETS entry; crashes of either | a live run is listed, a dead one is settled, a row's verdict is written once or crossed by a cancel only |
| Executor (`workflows/executor.ex`) | outputs, visited positions, recovered flag, `step_results` | run, enter, advance, follow, finish | routes in any direction, errors that turn into routes, fallback skills, a linked task inside a step | no step twice, it ends, the record tells what happened, privilege holds |
| Circuit breaker (`skills/circuit_breaker*.ex`) | ETS row per skill, GenServer, timer | allow?, record, reset, half_open, stop | the row is read without the server, results arrive late, timers fire while being cancelled | opens on evidence, closes on a test, never stays open |
| Lock (`lock.ex`; LocalLock, ForgeGuard, PlayLock) | holder and its monitor | acquire, release, run, DOWN | timeouts that leave a request behind, dead owners, a server restart | one inside, always freed |
| Reasoning loop (`reasoning/loop.ex`, `reasoning.ex`) | GenServer per session: phase, task, pending result, budget timer, plan; `reasoning_sessions` rows | start, pause, resume, abort, steer, add_context, override; task results, DOWN, budget | user casts against tasks in flight, timer messages already queued, transient restart | one session, one task, phases in order, every session ends in a final status |
| Config (`config.ex`, `config/loader.ex`) | `settings` rows, ETS cache per node, broadcasts | get, set, delete, publish, reload | read-then-insert by several publishers, other nodes | a cache agrees with the table once writes stop |
| Second factor (`auth/*`) | challenges, approvals, elevations, attempts, sessions (GenServers and ETS) | put, resolve, take, grant, consume, elevate, revoke, count, lock | check and use in separate calls, expiry between them | one use per approval, no effect without a live elevation, lock-out cannot be bypassed |
| Control plane (`control_plane.ex`) | none of its own; audit rows | perform: gate, transaction, effect | the gate is checked before the transaction | nothing gated happens ungated |
| Connections (`connections/pool*.ex`) | GenServer per connection: pool, status | start, connected, EXIT, retry, stop | late messages of an earlier attempt | up means there is a pool |
| LLM routing (`llm/real.ex`, `usage_tracker.ex`) | counters in ETS and rows | first_answer, record, reset | midnight, concurrent counters | no provider over its limit by more than the calls in flight |
| Embedding throttle (`knowledge/embed_throttle.ex`) | slots, queue | acquire, release | a queued caller that has gone | slots are not lost |
| Scheduler sync (`workflows/scheduler_sync.ex`) | quantum jobs | sync | delete-all then re-add | jobs mirror enabled workflows |
| Workflow editing (`workflows.ex`, `step_references.ex`) | step rows | add, remove, reorder | references by position | references follow renumbering |
| Rate limiter, Google tokens, audit retry, log buffer | ETS, timers | small | read-modify-write, timers | limits and single timers |
| Sidecar: sessions (`web-automator/app/main.py`, `browser.py`) | AppState; each play's proxy, driver, browser and context; the shared BrowserManager | play, start and stop of a recording, stop of a play, force stop, deadline, client gone | one asyncio loop: everything may happen at each await; a task is cancelled at any of them, its closing included | the slot is held by whoever works, each play is answered once and leaves nothing open, an idle sidecar runs no browser |
| Sidecar: egress proxy (`egress.py`) | a server, its handlers, their upstreams | CONNECT and plain requests, refusals, relays, stop | names that resolve differently from check to connect, ends at any await | only checked addresses are contacted, what was relayed is closed, stop ends |
| Sidecar: recipes and player (`recipe.py`, `player.py`) | a recipe, the step it is at, downloads, tables | validate, run each kind of step, report | the page acts on its own, downloads arrive when they like, retries and time limits | success means that every step had its effect; a login starts on its origin |
| Sidecar: recorder (`recorder.py`, `models.py`) | actions, downloads; the script's listeners in the page | start, hear, navigate, stop | documents replaced under the listeners, injected twice, calls lost with their document | each act heard is recorded once, in its order |
| Sidecar: desktop recorder (`recorder_desktop.py`) | a Chrome process, its profile, actions, counts | start, probe, connect, record, save | Ctrl-C at any await, Chrome that does not come up | the recording is written, and Chrome ended or killed once it was reached |
| Gateways, skills, vault, database tools, web interface | mostly I/O | - | - | out of scope, see 7 |

Interactions that matter: the Executor registers with the Registry and runs each
skill through `Skills.Invoke`, which asks the circuit breaker and, for a dynamic
skill, `SafeExecutor`; the reasoning loop runs skills the same way; LocalLock,
ForgeGuard and PlayLock serialise local model calls, generations and plays; the
control plane launches workflows with the privilege an approval granted.

The web automation skill takes PlayLock and posts a recipe to the sidecar; the sidecar's
`play` opens an egress proxy and a browser behind it and hands both to the player, in
a task that its deadline, its client and a stop request may cancel; `record` runs one
recorder in the shared browser until a stop takes it all down.

`PROJECT.json` "hazards" lists, line by line, what a test would hardly reach in the
components modelled, and the property that covers it or why none does. Those met in components that are
still to be modelled: `start` of a reasoning session checks and then starts
(`reasoning/loop.ex:61`), a killed loop restarts as a new session (`:101`); config
publishers may leave the older value cached (`config.ex:446`), a reload keeps deleted
keys (`config/loader.ex:156`); challenges and approvals are fetched, verified and
dropped in separate calls (`auth/challenge.ex:62`, `auth/run_approval.ex:46`), attempts
count in a window beside a lock (`auth/code_attempts.ex:136`), an elevation is checked
before the transaction it allows (`control_plane.ex:136`); a queued caller that left is
handed an embedding slot (`knowledge/embed_throttle.ex:41`); usage counters at midnight
(`llm/usage_tracker.ex:53`); timers armed beside timers (`google/token_manager.ex:234`);
the bucket of the rate limiter (`rate_limiter.ex:59`); late connected messages
(`connections/pool.ex:87`); jobs deleted and added again
(`workflows/scheduler_sync.ex:57`); references across renumbered steps
(`workflows.ex:596`).

## 2 Modules

A step of a module is what one process does between two effects another process can
see. A `GenServer.call` is the request (a message) and its handling; a callback that
touches a row, a table and a signal in turn is split where another process can look
in between. Definitions keep the source's names; a definition called "Variant" is a
plausible bug in the definition under it: no specification uses one, and
`PROJECT.json` "mutants" says which property each of them breaks.

**RunRecord / WorkflowRuns.** `RunRecord` is the contract of a `workflow_runs` row:
created running, settled once, changed afterwards only when a cancellation and the
run's own ending cross. `WorkflowRuns` has the executors (`exec`), the Registry with
its mailbox (`registers`, `leaves`, `asked`, `downs`), table and monitors, the cancel
it is in the middle of (`server`: mark, unlist, kill) and exit signals on the way.
`update_step` is two actions, AnnounceStep (lookup) and NoteStep (insert), because
the entry can be deleted between them. Messages of one sender arrive in the order
they were sent; messages of different senders in any order. `RegistryCrash` loses
table, monitors and mailbox and exits the executors that wait for its answer.

**StepWalk.** One run's walk. Nothing else reads the walk's state, so a step is one
action; the environment chooses what the step meets (skill missing, circuit open,
config invalid, any branch, any error). `Definition[w]` is the workflow, with routes
and `input_from` that may point anywhere. What the run keeps is `outputs`, `visited`,
`results`, `recovered`; `trail`, `errors` and `ran` are history. `Escape` is the
linked task of a dynamic skill taking the run's process with it.

**CircuitBreaker.** The row callers read directly (`circuit`), the server with its
mailbox, the timer of its `timer_ref` and the timers it lost the reference of
(`loose`). A call is Ensure, Check and Report, so a result may reach a breaker in
another state, or another breaker. Unloading a skill is Stop (the process) and Delete
(the row). `LoseTable` is the table's owner dying and being restarted; it takes the
row at once with its recreation (a caller that looks in the short time between would
raise; that is left out).

**Lock.** Processes run a function inside `run/2`; the server's mailbox holds
requests whose callers may have timed out. `before` remembers who was inside when the
server crashed: mutual exclusion is promised of everyone else.

**Reasoning.** One session of the loop. A callback with the `handle_continue` it ends
in is two actions: the callback sets `next`, and no message is handled while a
continuation is due, as in a GenServer. `Result(kind)` is what the thirteen result
handlers share: the result comes from the mailbox, or from `pending` when a resume
finds one stored. `task` is the task `task_ref` points to, `strays` the skills run by
tasks whose reference was overwritten, whose results the loop ignores. The budget is
`clock` (the timer), `expired` (its message in the mailbox) and `remaining` (what a
pause kept). A cast is chosen when it is handled: the user may have sent it at any
time before, so all orders with the other messages are there. `next = "terminate"`
is `{:stop, ...}` or a raise on its way to `terminate/2`; `Lost` is the end of the
process and its state. What is abstracted: the model's answers are the environment's
choice (any plan length of PlanSizes, any decision, a confidence that is low, enough
or beyond 1); working memory is reduced to whether the user's context is in it, and
`told` to whether the task was given it; prompts and guidance are left out; `calls`
and `repeats` saturate at the limit that looks at them; the plan step without a skill,
which validation never lets through, has no action.

**PlayContract / WebSessions.** `PlayContract` is what the sidecar promises about each
play: refused at once, or taken and answered once, with everything it opened closed
first. `WebSessions` is the event loop: an action is what one coroutine does between two
awaits. `at[p]` is the await a play's task is at, `held[p]` what it has open, `cancel[p]`
a CancelledError waiting to be raised at the next await, `late[p]` a deadline that has passed; `rec`, `home`, `manager`,
`drivers`, `browsers`, `contexts` are recordings and the one BrowserManager they share,
`cleanup[s]` a stop's `_cleanup` with what it holds a reference to. Browsers are named by
the recording that launched them, so a clean-up that closes another's can be told. A
handler whose task is over runs before anything that waits for a timer or the network
(`AnswerIsDue`). `overlapped` and `spoiled` are history: they say when a start ran beside
a clean-up, and which play was cancelled in its closing.

**EgressProxy.** A handler per connection: head, check of the host's addresses, connect to
them in turn, relay, end. The resolver may answer differently each time; `Answers`, the
blocked networks and the mapped addresses are constants. What is relayed is opaque;
`relayed`, history, says that a handler got as far as to relay: an upstream whose first
write fails or is cancelled is closed by nobody and stays open, and so may the upstream of
a tunnel whose own closing the stop cancels.

**Recipe / Player.** `Recipe` is the validation of a recipe and its dump without nulls, over
the classes of value the types tell apart. `Player` runs an accepted one, an await per
action; `page`, `stuck` and the downloads move on their own, and `acted`, `seen`, `saved`
are history. **Scraping** has the two scripts that read a page, as functions of what
their queries find, and the loop over page and frames that runs them.

**Recorder.** The page's document with its listeners and the mark of the injected script,
the tasks that sleep before they inject, the calls on their way from page to Python, the
actions and downloads, and what the response model leaves of them. A load that fails may
have brought its document or not, an injection may raise in a document (`deaf`, history).
**DesktopRecorder** is the other recorder, a script of its own: Chrome's process (running,
gone, only told to end, killed and not waited for) and profile, the request filter with the
listener that dies of a body that is no text, the thread in `input`, the one Ctrl-C.

**MC modules** give the constants values; MCStepWalk builds its workflows.

Each `*_proofs` module holds the proofs about the module it is named after, and three of
them those about a second one that belongs with it: StepWalk_proofs about CircuitBreaker,
WebSessions_proofs about Recorder, Scraping_proofs about DesktopRecorder. That is why one of
the two modules prefixes the usual names (`BreakerSpec`, `RecSpec`, `ScrSpec`, ...).

## 3 Runs

| Run | Instance | Distinct states | Shows |
|---|---|---|---|
| workflow_runs | 2 runs, one cancellable, 1 Registry crash | 21 227 | RunningIsListed; RecordContract (refinement of RunRecord); CancelSettlesTheRun, CrashIsRecorded (liveness) |
| step_walk | 1639 workflows of up to 3 steps at positions 1, 2, 4 | 316 434 | NoStepTwice, RecoveredMeansHandled, HistoryReplays, ResultIsLatest; WalkEnds (liveness) |
| circuit_breaker | 2 callers, 2 failures open, mailbox 4, 1 crash, 1 unload or reload | 159 159 | OpensOnEvidence, TestIsDue (steps); OpenEnds (liveness) |
| lock | 3 processes, mailbox 3, 1 crash | 37 560 | OneInside; DeadOwnerLosesIt (liveness) |
| reasoning | 2 iterations, 3 calls, stuck at 2, plans of 2 steps, 2 interventions | 317 964 | NeverIdle, BudgetIsKept, ExecutesWithinLimits, StoppedIsRecorded; TerminalIsFinal (step); ClockEnds (liveness) |
| web_sessions | 2 plays, 1 recording, 2 stop requests | 927 741 | SlotIsHeld, IdleIsClean; PlaysKeepContract (refinement of PlayContract); PlayEnds (liveness) |
| play_deadline | 1 play, 1 recording, 2 stop requests | - | counterexample to PlayIsBounded (liveness) |
| egress | 2 connections, 3 hosts, public and inner addresses of both families | 78 651 | OnlyCheckedIsContacted, UpstreamIsClosed; StopEnds (liveness) |
| player | recipes of up to 3 steps, 2 downloads, 2 polls, 2 attempts | 213 592 | SuccessIsEarned, DownloadsAreSaved, AcceptedIsPlayable; LoginStartsOnOrigin (step); PlayerEnds (liveness) |
| recorder | 2 acts, 2 documents, 1 download | 1 073 524 | HeardIsKeptOnce; EveryDocumentIsHeard (liveness) |
| desktop_recorder | 2 requests of any kind, 1 download, 2 probes | 608 556 | CountsAddUp, EndsClean; RecordingIsWritten (liveness) |
| scraping | tables of up to 3 rows, grids of up to 3 columns, containers of up to 3 rows, page and 2 frames | 201 820 | NothingIsLost, RowsAreAligned, GridIsFound |

Each module also has a `TypeOK`, which is proved and which the runs do not list. The same
goes for DeadIsAttended, OpenHasWayOut, DeadOwnerIsReported, OnlyOwnerFrees and
PrivilegedOnlyWhenAllowed, which are theorems too.

**Why the bounds are enough.** Two runs let one be cancelled while another registers
or dies; the Registry treats runs independently except for the one cancel it is in,
so a third adds no new interaction, and one crash gives runs registered before and
after it. Three steps give a route a step to skip and a loop a step to avoid;
position 3 does not exist, so routes dangle. Two callers give a result in flight
while another caller opens, tests and closes the circuit; the threshold is 2 so that
"in a row" differs from "one". Three processes give a holder, a waiter and one whose
late message arrives. Two interventions are a pause and a resume, or an override or
context added around one; plans of two steps have a last step and one that is not;
the limits are small enough that all three are reached. An override over a stored
result takes four interventions: the theorems of section 4 cover any number, and were
what showed that ExecutesWithinLimits must speak of the loop at rest. Two plays, a
recording and two stops give a stop that crosses the end of one play and the start of
another, and a second clean-up beside the first. Two connections share nothing but the
server's stop; a host has an answer that passes, one that is blocked, one that changes.
Two downloads give a handler its own and a foreign one, recipes of three fills, clicks
and downloads an earlier handler still registered; the poll and attempt limits only need
a first and a last. Two acts and two documents give a call that overtakes another and a
task that injects into the document after its own. Two requests give a trigger that is
not the last action; a table of three rows has a header, a body and a row outside both.
What each bound truncates is a counter in a guard (MaxRestarts,
MaxMail, MaxCrashes, MaxEvents, MaxActs, MaxDocs, MaxRequests): nothing else is cut off. `CHECK_DEADLOCK FALSE` is
set where the system may stop: all runs ended, all processes dead, or the bounds
reached.

**Fairness.** A GenServer serves its mailbox in order and its callbacks return, so
each message is handled: weak fairness of the server, strong where a crash and
restart disables a handler in between. Supervisors restart (weak fairness of
Restart). Timers ring. In Reasoning the loop handles what it can (weak fairness of
Loop) and the timer's message gets its turn although other messages arrive (strong
fairness of BudgetExceeded, which continuations disable again and again: the mailbox
is first in, first out); the tasks owe nothing, so a model that never answers is
among the behaviours ClockEnds holds of. The runtime delivers exit signals. In the
sidecar an event loop runs every task that is ready and timers fire: in WebSessions that
is fairness of a play's closing, its cancellation, its deadline and its answer, and
nothing is assumed of openings, pages, upstreams or clients; in EgressProxy handlers go on
and what is cancelled ends, but no upstream owes an answer; in Player every await but the
calls that need the page's own thread has a time limit, so PlayerEnds allows for a page
that is stuck; in Recorder `goto` has a time limit and a sleeping task wakes up; in
DesktopRecorder each await but `input` ends. Scraping has no liveness: its end is
ScrRaise or Report. Nothing is assumed of
callers, users or skills in WorkflowRuns, CircuitBreaker and Lock; in StepWalk the
call of each step is taken to end (SafeExecutor's timeout does that for a dynamic
skill, a core skill owes it).

## 4 Proofs

All for any sets of runs, workflows, callers and processes and any bounds. The
assumptions are the named ASSUMEs of the modules: model values are distinct
(RunsAssumption, LockAssumption, SessionsAssumption, PlayerAssumption, RecorderAssumption,
DesktopAssumption, where NONE is no recording either), thresholds and limits are positive
(BreakerAssumption, ReasoningAssumption), a page is a
sequence of documents that has one at least, its main frame, and a document is what the
scripts' queries return, sequences of rows, cells and labels with their texts
(ScrapingAssumption), a workflow has the shape its schema gives it
(WalkAssumption), the network's constants have their types (EgressAssumption).

- **WorkflowRuns_proofs.** `RunningIsListed` is not inductive: whether a run is listed
  depends on what is queued for the Registry. `RunInv(r)` adds, per run, that the row
  follows the executor (RowFollows), that a waiting register comes before anything
  else of the run (RegisterIsFirst), that a known run is monitored or its end is
  being handled (KnownIsWatched), and what a cancel in progress already did
  (CancelInProgress). With it: `ListIsComplete`, `NoDeadRunForgotten`, and
  `RowsKeepContract`, the refinement of RunRecord: every step is one of the row's
  contract or leaves the rows alone.
- **StepWalk_proofs.** `TypeCorrect` carries that the walk only goes to positions that
  exist, which needs the minimum of the later positions to be one of them
  (`MinIsMember`, by the least natural number). Then `NoStepRunsTwice`,
  `HistoryTellsTheWalk` (each entry of the history and the definition kept beside it say
  why the next step was entered or the run is over: `Leads` says so of the step last
  recorded, `NextLeads` and `GoLeads` of each way on), `RecoveredIsHonest` (with errors tied to recovered through every
  phase) and `PrivilegeHolds`.
- **StepWalk_proofs, the result.** `ResultIsLatest` speaks of a run that is done, and the
  code reads the highest position with an output, not the last. `Climbing` says of every
  state what makes the two the same in a workflow whose routes only lead forward: the walk
  stands past all it visited, and what it entered last is the highest that has an output.
  Then `ResultIsTheLatest`.
- **StepWalk_proofs, the breaker.** `CountIsHonest` ties the row's count to the failures the
  living breaker was told in a row; with it `OpenIsNeverStuck` and
  `OpensOnlyOnEvidence`. `TestsMatchTimer` says that a `:half_open` is queued only while the
  timer of the open row has fired, and only one, unless a reset or a lost row left it
  behind; with it `TestsAreDue`.
- **Lock_proofs.** The mailbox's order carries the argument: whoever waits has one
  unanswered acquire, nothing it sent follows it, no release of a process inside is
  queued. Then `MutualExclusion`, `NoDeadOwnerForgotten`, `OwnerFrees`.
- **Reasoning_proofs.** Each invariant needs one fact more. `TypeCorrect`: past the
  iteration limit only `execute_step` or `terminate` is due (IterationInv).
  `BudgetAlwaysKept`: a timer that fired has its message in the mailbox (BudgetInv),
  over the few moves a step may make on the budget (BudgetMove). `AlwaysWithinLimits`:
  the loop at rest and the loop about to resume are alike (LimitsInv). `AlwaysBusy`
  and `EndIsRecorded` are inductive with the types; the latter, over the moves of the
  row (RowMove), gives `OutcomeIsFinal`.

- **EgressProxy_proofs.** `ContactsOnlyChecked` needs where an address came from: a handler
  connects only to what its one check let through (ConnectsToChecked), what it tried is
  among that (TriedIsChecked), and one that refused contacted nothing. `RelayedIsClosed`:
  UpstreamKnown says of each await what its upstream may be, and that one left open was never
  relayed on, but for the tunnels a stop cancelled.
- **WebSessions_proofs.** `SlotIsKept`: as long as nothing overlapped, a clean-up or a start
  in progress excludes a live play (SlotIsOwned, in Busy), which is what keeps `_cleanup`'s
  unconditional reset from freeing another's slot. `ContractIsKept` is the refinement of
  PlayContract, for any number of plays, recordings and stops: what a task holds by the
  await it is at decides that nothing is open when its answer is due.
- **WebSessions_proofs, what is open.** `IdleIsClean` looks at rest only, at the plays' own
  browsers and proxies as well as at the recordings'. Of the plays: what one holds follows
  from the await it is at (HeldByPlace), and a play without a task holds nothing. Of the
  recordings `OpenIsKnown` says, as long as no requests overlapped, that besides what failed
  starts left (OnlyOpen) exactly the one that starts, works or is cleaned up has anything
  open, that the shared manager knows it, and that no play waits beside it. Then
  `RestIsClean`.
- **WebSessions_proofs, the recorder.** `HeardIsKeptOnce` is inductive with the types and
  with the mark of the script meaning one set of listeners, and with nothing being heard
  before its time: a new time is in none of the three places yet. That the answer is sorted
  is a lemma of its own (`Sorting`): the rank of a stable sort is an injection of the
  places into themselves, so every place has its action. Then `HeardOnce`.

- **Player_proofs.** Over any recipes, whose dumps keep every field that is subscripted
  (AcceptedStep): which actions an await belongs to (Fits), which steps had their effect
  by then (Progress), and that the downloads reported are those of the download steps
  among them (Counted). With it `AcceptedCanBePlayed`, `SuccessIsHonest` and, as an action
  property, `LoginsKeepOrigin`: of all that has an effect only Types does so for a step
  with an origin.
- **Player_proofs, the downloads.** A download that is reported must be traced to its
  handler. `Filing` says that the handlers registered are those of the download steps so
  far (Registered), that a handler knows the last file it was called for, saves only such
  files and sets its event after one was saved (Called), and that the j-th download is what
  the j-th of those steps reported (Reports). Then `SavedIsSaved`.
- **Scraping_proofs, scrape.** What the script computes is a matter of sequences, so the
  argument goes up from the empty one, an element at a time (`UpFromEmpty`): first for
  FlattenSeq, then for the rows cut from a grid's cells (`RowsKeepCells`: no cell is lost or
  moved; `RowsOfOneWidth`: where each row has a cell for each label, the rows come out as
  they are), then for a regular table (`TableKept`), a grid (`GridKept`), a container
  (`ContainersAligned`) and a document (`ScrapedDocument`). `ScrapingInv` says of the frames
  that had their turn what the properties say of all at the end. Then `EveryTextIsReported`
  and `ValuesStayInPlace`, for tables and grids of any size, and `ScrapingTypes`.
- **Scraping_proofs, extract_grid.** `Searching` says why the search is where it is: nothing
  found up to this frame, or the grid of the first frame that has one. Then
  `TheGridIsTheOne`.
- **Scraping_proofs, the desktop recorder.** Where a run stands when Chrome is there
  (ChromeByPhase), and that the file is written after the last thing it tells of (Written).
  Then `CountsAlwaysAddUp` and `EndIsClean`.

Induction over data: the library's induction theorems take an operator as a parameter,
which the provers cannot instantiate. Scraping_proofs does without: the numbers (or
sequences) of which a fact holds are a set, and a set that holds the start and, with each
member, the next one holds all of them (`UpFromZero`, `UpFromEmpty`, from the least
number of what would be left out). Recursion is by recursive functions there and in the
community modules' FlattenSeq; that such a function exists is proved before it is used
(`FillsExists`, `FlattensExists`). The modules proved about declare no RECURSIVE operator.

Every invariant and every action property of a run, and both refinements, are theorems.
Model-checked only: liveness (WalkEnds, OpenEnds, ClockEnds and the other properties marked
so in the table), since fairness and ENABLED are beyond the prover; and the findings, which
are counterexamples.

## 5 Findings

With a run:

- **play_deadline**, PlayIsBounded: "Run one recipe in its own browser, bounded by
  `deadline_ms`" (`main.py:261`; so `test_lifecycle.py:11` and `INSTALLATION.md:581`). The
  deadline cancels the play, whose closing stops the proxy; `stop` waits for the proxy's
  connections before it cancels their handlers (`egress.py:103`), and a handler that relays
  from an upstream that stays silent does not end when the browser's side is closed. The
  play is then not answered and the sidecar stays `playing` until a stop request cancels the
  closing. PlayEnds, which holds, says that this is the only case.

Without a run of their own, each with the property that states the expectation and a `.cfg`
that reproduces the counterexample:

- LoginsAreSlots (`MCRecorderLogins`): the recorder marks a credential's fill as a slot, the
  response model does not know the field, and the mark never leaves the sidecar;
  `recording.ex` then makes an empty fill of it (`models.py:36-45`, `recording.ex:50`).
- OrphansAreFailed (`MCWorkflowRunsOrphans`): after the Registry restarts, a run whose
  executor dies stays `running`, where `docs/architecture/workflow-engine.md:166` says
  crash cleanup "marks orphaned runs as failed".
- InputFollowsPath (`MCStepWalkInput`): a routed-to step reads the previous position's
  output, not that of the step that led to it.
- StepIsContained (`MCStepWalkContained`): a raise in a dynamic skill's linked task ends the
  run's process; the promise at `executor.ex:403` does not hold for it.
- TestFollowsOpen (`MCCircuitBreakerTest`): `reset` does not cancel a `:half_open` message
  already sent.
- DeliveredIsCompleted (`MCReasoningResult`): the model's confidence is not limited; above 1
  the row's update is refused, unnoticed, and a session whose answer was delivered ends
  `failed`.
- OneSkillAtATime (`MCReasoningSkills`): pause and resume while a skill runs executes the
  step again beside it; the first result is ignored.
- ContextPersists (`MCReasoningContext`): context added while a task is in flight is
  overwritten by the memory the task returns.
- OnePlayAtATime (`MCWebSessionsOnePlay`): "The sidecar runs one play at a time and answers
  a second with 409" (`play_lock.ex:5`). A recording sets the state only after its browser
  and page are up (`main.py:229`), and a clean-up resets it whatever it says by then
  (`main.py:182`): with two requests between, two plays run.

Noticed while modelling, without a run: a result stored in a pause survives an override
and is handled on a later resume over another phase (`loop.ex:188`, `loop.ex:387`);
a scrape step's selector narrows no tables, since `selector + ' table, table'` matches
every table (`player.py:317`), where `INSTALLATION.md:597` gives "every table" as the
default only; rows of a grid with an unlabelled column are cut one cell short
(`player.py:355`, `player.py:376`); a cancellation that hits a play's closing leaves what
was not yet closed (`main.py:67-73`), and a failed start of a recording its browser; an upstream whose first write fails, or
whose tunnel is cancelled in its own closing, is left open (`egress.py:164-166`,
`egress.py:191-195`, `egress.py:252-256`); a Chrome that never listens is told to end and not
waited for (`recorder_desktop.py:288-293`); a circuit on test lets every caller through,
where `workflow-engine.md:125` says one test call; an answer or a memory of the model that
is no text is refused by the row's changeset, unnoticed, like a confidence above 1
(`loop.ex:1284`, `session.ex:18`);
guidance is not part of the planning prompt; two adjusts are enough for the summary
where the documentation says three; an override of a suspended session runs with its
clock stopped.

## 6 Plan

Done: WorkflowRuns, StepWalk, CircuitBreaker, Lock, Reasoning, EgressProxy, WebSessions,
Player, Recorder, DesktopRecorder and Scraping, with a theorem for every invariant the runs
check. Next, in this order:

1. **Sessions** of the reasoning loop: `start`'s check-then-act, restarts as a new
   session, the sweep at boot, over the rows of several sessions.
2. **Approval**: challenges, approvals, code attempts, elevation and the control
   plane's gate, composed; single use, lock-out, expiry between check and effect.
3. **ConfigCache**: table, caches of two nodes, publishers, reload, node down.
4. **Pool**, **Throttle**, **Tokens**: timers and late messages.
5. **StepEdit** and pure algorithms (`first_answer`, policy rules, deterministic
   decision) against reference definitions over bounded inputs.
6. Composition: WorkflowRuns with the statuses StepWalk can end in.
7. Proofs of the above, then the refinements.

## 7 What is not modelled and why

Skills, gateways, MCP, vault, database tools, web pages and the scripts are I/O around
one outcome; where the outcome matters it is an input of a model. Of the sidecar: the
token check in front of every route, status and screenshot routes, the browser's
fingerprint and launch options, the virtual display; what a page shows or computes. Left
out because the code does not look at them either: whether a login's page moves between
two keys once typing has started (the origin is compared twice, before the field is
looked up and before typing), tabs and frames other than the recorded one, and which
grid a nested element belongs to. The components in `PROJECT.json` with status not_modelled say which of them
later modules take up. Text, prompts and logging are left out. Ecto and PostgreSQL
are taken as a table with atomic row updates; ETS operations are atomic each;
GenServer calls and monitors are modelled as messages.
