---------------------------- MODULE WebSessions ----------------------------
(***************************************************************************)
(* The web automator's sessions (web-automator/app/main.py, browser.py):   *)
(* one FastAPI process on one asyncio loop serves POST /play, /record,     *)
(* /record/{id}/stop, /play/{id}/stop and /stop over one AppState.  A step *)
(* is what one coroutine does between two awaits; everything else may run  *)
(* while it waits.                                                         *)
(*                                                                         *)
(* A play has its own proxy, driver, browser and context, opened and       *)
(* closed by its own task, which its deadline, its client's departure or a *)
(* stop request may cancel at any await.  Recordings share one             *)
(* BrowserManager; a stop closes it in _cleanup.                           *)
(***************************************************************************)
EXTENDS Naturals, FiniteSets

CONSTANTS Plays,       \* the POST /play requests, each with its play_id
          Recordings,  \* the POST /record requests, each with its session_id
          Stops,       \* the stop requests that end in _cleanup or a cancel
          NONE         \* Python's None

ASSUME SessionsAssumption ==
    /\ NONE \notin Plays \cup Recordings
    /\ Plays \cap Recordings = {}

Resources == {"proxy", "driver", "browser", "context"}

VARIABLES
    app,       \* AppState: state, session_id, play_id, play_task, context
    life,      \* each play's handler: "new", "refused", "waiting" for its task, "answered"
    at,        \* where its task is: the await it is suspended at, or "ended"
    held,      \* what the task has open
    cancel,    \* a CancelledError that waits to be raised in the task
    late,      \* its deadline fired
    watched,   \* its client went away and the watcher cancelled it
    hung,      \* a request of its page hangs in the proxy, its upstream silent
    spoiled,   \* history: a cancellation hit its closing or its driver's start
    rec,       \* each recording's handler
    home,      \* the browser (named by who launched it) its context is made in
    manager,   \* the shared BrowserManager: _browser and _playwright
    drivers,   \* the Playwright drivers alive, named by the recording that started them
    browsers,  \* the browsers alive, each run by the driver of the same name
    contexts,  \* the recordings whose context is open
    cleanup,   \* each stop request's _cleanup: the await it is at and what that closes
    overlapped \* history: a start or a clean-up ran beside another

playVars == <<life, at, held, cancel, late, watched, hung, spoiled>>
shared == <<manager, drivers, browsers, contexts, home>>
vars == <<app, playVars, rec, shared, cleanup, overlapped>>

Opening == {"start", "proxy", "driver", "browser", "page"}
Closing == {"close_context", "close_browser", "close_driver", "close_proxy"}
Starting == {"driver", "browser", "opening", "loading"}

Idle == [state |-> "idle", session |-> NONE, play |-> NONE, task |-> NONE, context |-> NONE]

Init ==
    /\ app = Idle
    /\ life = [p \in Plays |-> "new"]
    /\ at = [p \in Plays |-> "none"]
    /\ held = [p \in Plays |-> {}]
    /\ cancel = [p \in Plays |-> FALSE]
    /\ late = [p \in Plays |-> FALSE]
    /\ watched = [p \in Plays |-> FALSE]
    /\ hung = [p \in Plays |-> FALSE]
    /\ spoiled = [p \in Plays |-> FALSE]
    /\ rec = [r \in Recordings |-> "new"]
    /\ home = [r \in Recordings |-> NONE]
    /\ manager = [browser |-> NONE, driver |-> NONE]
    /\ drivers = {}
    /\ browsers = {}
    /\ contexts = {}
    /\ cleanup = [s \in Stops |-> [at |-> "new", what |-> NONE]]
    /\ overlapped = FALSE

\* A recording is being started or a clean-up is under way.
Busy == \/ \E r \in Recordings: rec[r] \in Starting
        \/ \E s \in Stops: cleanup[s].at \in {"context", "browser", "driver"}

Live(p) == life[p] = "waiting" /\ at[p] # "ended"
-----------------------------------------------------------------------------
(* POST /play *)

RefusePlay(p) ==
    /\ life[p] = "new"
    /\ app.state # "idle"
    /\ life' = [life EXCEPT ![p] = "refused"]
    /\ UNCHANGED <<app, at, held, cancel, late, watched, hung, spoiled, rec, shared, cleanup,
                   overlapped>>

\* From the check to the wait there is no await.
Play(p) ==
    /\ life[p] = "new"
    /\ app.state = "idle"
    /\ app' = [app EXCEPT !.state = "playing", !.session = p, !.play = p, !.task = p]
    /\ life' = [life EXCEPT ![p] = "waiting"]
    /\ at' = [at EXCEPT ![p] = "start"]
    /\ overlapped' = (overlapped \/ Busy)
    /\ UNCHANGED <<held, cancel, late, watched, hung, spoiled, rec, shared, cleanup>>

\* The deadline's timer and the watcher end with the handler, and nothing can hang.
Disarm(p) ==
    /\ cancel' = [cancel EXCEPT ![p] = FALSE]
    /\ late' = [late EXCEPT ![p] = FALSE]
    /\ watched' = [watched EXCEPT ![p] = FALSE]
    /\ hung' = [hung EXCEPT ![p] = FALSE]

\* Variant: the finally does not ask whose play it is.
AnswerAnyway(p) ==
    /\ life[p] = "waiting"
    /\ at[p] = "ended"
    /\ life' = [life EXCEPT ![p] = "answered"]
    /\ app' = [Idle EXCEPT !.context = app.context]
    /\ Disarm(p)
    /\ UNCHANGED <<at, held, spoiled, rec, shared, cleanup, overlapped>>
-----------------------------------------------------------------------------
(* The play's task: _run_play, open_play_session, PlaySession.close *)

\* play, resumed when its task ended: the answer and the finally.
Answer(p) ==
    /\ life[p] = "waiting"
    /\ at[p] = "ended"
    /\ life' = [life EXCEPT ![p] = "answered"]
    /\ app' = IF app.play = p THEN [Idle EXCEPT !.context = app.context] ELSE app
    /\ Disarm(p)
    /\ UNCHANGED <<at, held, spoiled, rec, shared, cleanup, overlapped>>

Later == [start |-> "proxy", proxy |-> "driver", driver |-> "browser", browser |-> "page",
          page |-> "running"]

\* Variant: a play that was opened is not closed when its run is over.
NoFinally == [start |-> "ended", proxy |-> "ended", driver |-> "close_proxy",
              browser |-> "close_driver", page |-> "close_browser", running |-> "ended"]

\* Where the end of the run, or an exception at an await of open_play_session or of the
\* run, leads: to the closing of what is known to be open.
Unwind == [start |-> "ended", proxy |-> "ended", driver |-> "close_proxy",
           browser |-> "close_driver", page |-> "close_browser", running |-> "close_context"]

Gain == [start |-> {}, proxy |-> {"proxy"}, driver |-> {"driver"}, browser |-> {"browser"},
         page |-> {"context"}]

\* One await of open_play_session is over.
Open(p) ==
    /\ Live(p) /\ at[p] \in Opening /\ ~cancel[p]
    /\ at' = [at EXCEPT ![p] = Later[at[p]]]
    /\ held' = [held EXCEPT ![p] = @ \cup Gain[at[p]]]
    /\ UNCHANGED <<app, life, cancel, late, watched, hung, spoiled, rec, shared, cleanup,
                   overlapped>>

\* Its await fails: the except of open_play_session closes what there is.
OpenFails(p) ==
    /\ Live(p) /\ at[p] \in Opening \ {"start"} /\ ~cancel[p]
    /\ at' = [at EXCEPT ![p] = Unwind[at[p]]]
    /\ UNCHANGED <<app, life, held, cancel, late, watched, hung, spoiled, rec, shared, cleanup,
                   overlapped>>

\* Player.run returns, with success or an error: it raises nothing but a cancellation.
RunEnds(p) ==
    /\ Live(p) /\ at[p] = "running" /\ ~cancel[p]
    /\ at' = [at EXCEPT ![p] = Unwind[at[p]]]
    /\ UNCHANGED <<app, life, held, cancel, late, watched, hung, spoiled, rec, shared, cleanup,
                   overlapped>>

\* The page asks for something whose server does not answer.
Hang(p) ==
    /\ Live(p) /\ at[p] = "running" /\ ~hung[p]
    /\ hung' = [hung EXCEPT ![p] = TRUE]
    /\ UNCHANGED <<app, life, at, held, cancel, late, watched, spoiled, rec, shared, cleanup,
                   overlapped>>

\* The next await of the closing, and what is gone when it returns: a driver takes its
\* browser with it, a browser its contexts.
Closes == [close_context |-> <<"close_browser", {"context"}>>,
           close_browser |-> <<"close_driver", {"context", "browser"}>>,
           close_driver |-> <<"close_proxy", {"context", "browser", "driver"}>>,
           close_proxy |-> <<"ended", {"proxy"}>>]

\* One await of the closing is over.  EgressProxy.stop waits for the connections it still
\* serves before it cancels them, so it does not end while one hangs.
Close(p) ==
    /\ Live(p) /\ at[p] \in Closing /\ ~cancel[p]
    /\ at[p] = "close_proxy" => ~hung[p]
    /\ at' = [at EXCEPT ![p] = Closes[at[p]][1]]
    /\ held' = [held EXCEPT ![p] = @ \ Closes[at[p]][2]]
    /\ UNCHANGED <<app, life, cancel, late, watched, hung, spoiled, rec, shared, cleanup,
                   overlapped>>

\* Variant: the run catches the cancellation like any error of a step and goes on.
CancelSwallowed(p) ==
    /\ Live(p) /\ cancel[p]
    /\ cancel' = [cancel EXCEPT ![p] = FALSE]
    /\ at' = [at EXCEPT ![p] = IF @ = "running" THEN @ ELSE "ended"]
    /\ UNCHANGED <<app, life, held, late, watched, hung, spoiled, rec, shared, cleanup,
                   overlapped>>

\* A cancellation is raised at the await the task is at.  In the closing it is not caught
\* and skips what was left to close; while the driver starts, a driver nobody holds a
\* reference to may stay.
Interrupted(p) ==
    /\ Live(p) /\ cancel[p]
    /\ cancel' = [cancel EXCEPT ![p] = FALSE]
    /\ \/ /\ at[p] \in Closing
          /\ at' = [at EXCEPT ![p] = "ended"]
          /\ spoiled' = [spoiled EXCEPT ![p] = TRUE]
          /\ UNCHANGED held
       \/ /\ at[p] \notin Closing
          /\ at' = [at EXCEPT ![p] = Unwind[@]]
          /\ UNCHANGED <<held, spoiled>>
       \/ /\ at[p] = "driver"
          /\ at' = [at EXCEPT ![p] = Unwind[@]]
          /\ held' = [held EXCEPT ![p] = @ \cup {"driver"}]
          /\ spoiled' = [spoiled EXCEPT ![p] = TRUE]
    /\ UNCHANGED <<app, life, late, watched, hung, rec, shared, cleanup, overlapped>>

\* wait_for's timeout.
Deadline(p) ==
    /\ Live(p) /\ ~late[p]
    /\ late' = [late EXCEPT ![p] = TRUE]
    /\ cancel' = [cancel EXCEPT ![p] = TRUE]
    /\ UNCHANGED <<app, life, at, held, watched, hung, spoiled, rec, shared, cleanup, overlapped>>

\* _cancel_on_disconnect: cancels once and returns.
CancelOnDisconnect(p) ==
    /\ Live(p) /\ ~watched[p]
    /\ watched' = [watched EXCEPT ![p] = TRUE]
    /\ cancel' = [cancel EXCEPT ![p] = TRUE]
    /\ UNCHANGED <<app, life, at, held, late, hung, spoiled, rec, shared, cleanup, overlapped>>
-----------------------------------------------------------------------------
(* POST /record *)

Alive(b) == b # NONE /\ b \in browsers

RefuseRecord(r) ==
    /\ rec[r] = "new"
    /\ app.state # "idle"
    /\ rec' = [rec EXCEPT ![r] = "refused"]
    /\ UNCHANGED <<app, playVars, shared, cleanup, overlapped>>

\* The check, and launch up to its first await: a browser that is up is used again.
Record(r) ==
    /\ rec[r] = "new"
    /\ app.state = "idle"
    /\ IF Alive(manager.browser)
       THEN /\ rec' = [rec EXCEPT ![r] = "opening"]
            /\ home' = [home EXCEPT ![r] = manager.browser]
       ELSE /\ rec' = [rec EXCEPT ![r] = "driver"]
            /\ UNCHANGED home
    /\ overlapped' = (overlapped \/ Busy)
    /\ UNCHANGED <<app, playVars, manager, drivers, browsers, contexts, cleanup>>

\* launch: the driver is up.
DriverStarted(r) ==
    /\ rec[r] = "driver"
    /\ rec' = [rec EXCEPT ![r] = "browser"]
    /\ manager' = [manager EXCEPT !.driver = r]
    /\ drivers' = drivers \cup {r}
    /\ UNCHANGED <<app, playVars, browsers, contexts, home, cleanup, overlapped>>

\* launch: the browser is up; new_context is asked for.
BrowserStarted(r) ==
    /\ rec[r] = "browser"
    /\ r \in drivers
    /\ rec' = [rec EXCEPT ![r] = "opening"]
    /\ home' = [home EXCEPT ![r] = r]
    /\ manager' = [manager EXCEPT !.browser = r]
    /\ browsers' = browsers \cup {r}
    /\ UNCHANGED <<app, playVars, drivers, contexts, cleanup, overlapped>>

\* The context and the page are there; Recorder.start loads the site.
ContextOpened(r) ==
    /\ rec[r] = "opening"
    /\ home[r] \in browsers
    /\ rec' = [rec EXCEPT ![r] = "loading"]
    /\ contexts' = contexts \cup {r}
    /\ UNCHANGED <<app, playVars, manager, drivers, browsers, home, cleanup, overlapped>>

\* Recorder.start succeeded: only now does the state say so, whatever it said before.
RecordStarted(r) ==
    /\ rec[r] = "loading"
    /\ r \in contexts
    /\ rec' = [rec EXCEPT ![r] = "started"]
    /\ app' = [app EXCEPT !.state = "recording", !.session = r, !.context = r]
    /\ UNCHANGED <<playVars, shared, cleanup, overlapped>>

\* Any await of the start raises: a 500, and what was opened stays open.
RecordFails(r) ==
    /\ rec[r] \in Starting
    /\ rec' = [rec EXCEPT ![r] = "failed"]
    /\ UNCHANGED <<app, playVars, shared, cleanup, overlapped>>
-----------------------------------------------------------------------------
(* The stop requests and _cleanup *)

Surviving(open, alive) == {r \in open: home[r] \in alive}

\* Variant: the driver is left running once the browser is closed.
CloseBrowserOnly(s, known, state) ==
    \/ /\ known.browser # NONE
       /\ cleanup' = [cleanup EXCEPT ![s] = [at |-> "browser", what |-> known.browser]]
       /\ app' = state
    \/ /\ known.browser = NONE
       /\ cleanup' = [cleanup EXCEPT ![s] = [at |-> "done", what |-> NONE]]
       /\ app' = [state EXCEPT !.state = "idle", !.session = NONE]

\* BrowserManager.close up to its next await, given what it still knows of; the end of
\* _cleanup when there is nothing (more) to close.
CloseManager(s, known, state) ==
    \/ /\ known.browser # NONE
       /\ cleanup' = [cleanup EXCEPT ![s] = [at |-> "browser", what |-> known.browser]]
       /\ app' = state
    \/ /\ known.browser = NONE
       /\ known.driver # NONE
       /\ cleanup' = [cleanup EXCEPT ![s] = [at |-> "driver", what |-> known.driver]]
       /\ app' = state
    \/ /\ known.browser = NONE
       /\ known.driver = NONE
       /\ cleanup' = [cleanup EXCEPT ![s] = [at |-> "done", what |-> NONE]]
       /\ app' = [state EXCEPT !.state = "idle", !.session = NONE]

\* _cleanup up to its first await.
BeginCleanup(s) ==
    /\ cleanup[s].at = "new"
    /\ overlapped' = (overlapped \/ Busy)
    /\ IF app.context # NONE
       THEN /\ cleanup' = [cleanup EXCEPT ![s] = [at |-> "context", what |-> app.context]]
            /\ UNCHANGED app
       ELSE CloseManager(s, manager, app)
    /\ UNCHANGED <<playVars, rec, shared>>

ContextClosed(s) ==
    /\ cleanup[s].at = "context"
    /\ contexts' = contexts \ {cleanup[s].what}
    /\ CloseManager(s, manager, [app EXCEPT !.context = NONE])
    /\ UNCHANGED <<playVars, rec, manager, drivers, browsers, home, overlapped>>

\* The browser asked to close is gone; the manager forgets the one it now has.
BrowserClosed(s) ==
    /\ cleanup[s].at = "browser"
    /\ browsers' = browsers \ {cleanup[s].what}
    /\ contexts' = Surviving(contexts, browsers')
    /\ manager' = [manager EXCEPT !.browser = NONE]
    /\ CloseManager(s, manager', app)
    /\ UNCHANGED <<playVars, rec, drivers, home, overlapped>>

\* The driver is stopped, with its browser: the end of _cleanup.
DriverStopped(s) ==
    /\ cleanup[s].at = "driver"
    /\ drivers' = drivers \ {cleanup[s].what}
    /\ browsers' = browsers \ {cleanup[s].what}
    /\ contexts' = Surviving(contexts, browsers')
    /\ manager' = [manager EXCEPT !.driver = NONE]
    /\ cleanup' = [cleanup EXCEPT ![s] = [at |-> "done", what |-> NONE]]
    /\ app' = [app EXCEPT !.state = "idle", !.session = NONE]
    /\ UNCHANGED <<playVars, rec, home, overlapped>>

\* POST /record/{session_id}/stop; Recorder.async_stop does not wait for anything.
StopRecording(s, r) ==
    /\ app.state = "recording"
    /\ app.session = r
    /\ BeginCleanup(s)

CancelFor(s, p) ==
    /\ cleanup[s].at = "new"
    /\ cleanup' = [cleanup EXCEPT ![s].at = "done"]
    /\ cancel' = [cancel EXCEPT ![p] = TRUE]
    /\ UNCHANGED <<app, life, at, held, late, watched, hung, spoiled, rec, shared, overlapped>>

\* POST /play/{play_id}/stop; for any other play, or one whose task is over, 404.
StopPlay(s, p) ==
    /\ app.play = p
    /\ app.task = p
    /\ at[p] # "ended"
    /\ CancelFor(s, p)

\* POST /stop.
ForceStop(s) ==
    /\ app.state # "idle"
    /\ IF app.task # NONE /\ at[app.task] # "ended"
       THEN CancelFor(s, app.task)
       ELSE BeginCleanup(s)
-----------------------------------------------------------------------------
StopCall(s) ==
    \/ \E r \in Recordings: StopRecording(s, r)
    \/ \E p \in Plays: StopPlay(s, p)
    \/ ForceStop(s)

\* What is in the loop's ready queue: the handlers of new requests, and of plays whose
\* task is over.
Requested ==
    \/ \E p \in Plays: RefusePlay(p) \/ Play(p) \/ Answer(p)
    \/ \E r \in Recordings: RefuseRecord(r) \/ Record(r)
    \/ \E s \in Stops: StopCall(s)

\* Nothing that waits for a timer, the browser or the network overtakes the handler of a
\* task that is over: that is resumed in the loop's next round.
AnswerIsDue == \E p \in Plays: life[p] = "waiting" /\ at[p] = "ended"

PlayMoves(p) ==
    \/ Open(p) \/ OpenFails(p) \/ RunEnds(p) \/ Hang(p) \/ Close(p)
    \/ Interrupted(p) \/ Deadline(p) \/ CancelOnDisconnect(p)

RecordMoves(r) ==
    DriverStarted(r) \/ BrowserStarted(r) \/ ContextOpened(r) \/ RecordStarted(r) \/ RecordFails(r)

CleanupMoves(s) == ContextClosed(s) \/ BrowserClosed(s) \/ DriverStopped(s)

Awaited ==
    /\ ~AnswerIsDue
    /\ \/ \E p \in Plays: PlayMoves(p)
       \/ \E r \in Recordings: RecordMoves(r)
       \/ \E s \in Stops: CleanupMoves(s)

Next == Requested \/ Awaited

Spec == Init /\ [][Next]_vars

\* The loop runs every ready task, timers fire, and what Playwright is asked to close
\* closes.  Nothing is assumed of pages, upstream servers, clients or openings.
Fairness ==
    \A p \in Plays:
        /\ WF_vars(Answer(p))
        /\ WF_vars(~AnswerIsDue /\ (Close(p) \/ Interrupted(p) \/ Deadline(p)))

FairSpec == Spec /\ Fairness
-----------------------------------------------------------------------------
TypeOK ==
    /\ app \in [state: {"idle", "playing", "recording"},
                session: Plays \cup Recordings \cup {NONE},
                play: Plays \cup {NONE}, task: Plays \cup {NONE},
                context: Recordings \cup {NONE}]
    /\ life \in [Plays -> {"new", "refused", "waiting", "answered"}]
    /\ at \in [Plays -> {"none", "running", "ended"} \cup Opening \cup Closing]
    /\ held \in [Plays -> SUBSET Resources]
    /\ {cancel, late, watched, hung, spoiled} \subseteq [Plays -> BOOLEAN]
    /\ rec \in [Recordings -> {"new", "refused", "started", "failed"} \cup Starting]
    /\ home \in [Recordings -> Recordings \cup {NONE}]
    /\ manager \in [browser: Recordings \cup {NONE}, driver: Recordings \cup {NONE}]
    /\ drivers \subseteq Recordings
    /\ browsers \subseteq Recordings
    /\ contexts \subseteq Recordings
    /\ cleanup \in [Stops -> [at: {"new", "context", "browser", "driver", "done"},
                              what: Recordings \cup {NONE}]]
    /\ overlapped \in BOOLEAN

\* At most one play runs, and while it does the state says so and names it: a late answer,
\* a stop that crosses the end of a play or the clean-up /stop then makes never frees the
\* slot under the next play.  It takes that recordings are started and stopped one at a
\* time with no request between (see OnePlayAtATime for what happens otherwise).
SlotIsHeld ==
    ~overlapped => \A p \in Plays: Live(p) => app.state = "playing" /\ app.play = p

\* A sidecar at rest has nothing open: no play holds anything, unless a cancellation hit its
\* closing, and what is left of the recordings is what those opened whose start failed half
\* way (nothing closes that before the next recording's clean-up, and a driver without a
\* browser not even then).  It takes, as SlotIsHeld, that no two requests overlapped.
IdleIsClean ==
    /\ ~overlapped
    /\ app.state = "idle"
    /\ ~\E r \in Recordings: rec[r] \in Starting
    => /\ \A p \in Plays: held[p] = {} \/ spoiled[p]
       /\ \A r \in browsers \cup drivers \cup contexts: rec[r] = "failed"

\* "The sidecar runs one play at a time and answers a second with 409"
\* (web_automation/play_lock.ex:5).
OnePlayAtATime == \A p, q \in Plays: Live(p) /\ Live(q) => p = q

\* Every play keeps the contract, whatever recordings and stop requests do: it is answered
\* once, after everything it opened was closed, and never touched again.
Contract == INSTANCE PlayContract WITH open <- held
PlaysKeepContract == Contract!Spec

\* A play that was taken is answered: its deadline, and nothing else, sees to that, except
\* when the deadline was spent before the closing and a request still hangs in the proxy,
\* which stop waits for.
PlayEnds ==
    \A p \in Plays:
        life[p] = "waiting" ~>
            life[p] = "answered" \/ (hung[p] /\ late[p] /\ at[p] = "close_proxy")

\* "Run one recipe in its own browser, bounded by `deadline_ms`" (main.py:261, play).
PlayIsBounded == \A p \in Plays: life[p] = "waiting" ~> life[p] = "answered"
=============================================================================
