--------------------------- MODULE CircuitBreaker ---------------------------
(***************************************************************************)
(* The circuit breaker of one skill (AlexClaw.Skills.CircuitBreaker): its  *)
(* callers, its GenServer with mailbox and timer, the ETS row the callers  *)
(* read without asking it, and the Lifecycle server that removes or resets *)
(* it when the skill is unloaded or reloaded.                              *)
(*                                                                         *)
(* A call is three actions (is there a breaker, is it open, what came of   *)
(* the skill), so a result may reach a breaker in another state, or        *)
(* another breaker, than the one that let the call through.                *)
(***************************************************************************)
EXTENDS Naturals, Sequences, SequencesExt

CONSTANTS Callers,     \* the processes that call the skill
          MaxFailures, \* @max_failures
          MaxMail,     \* bound: messages in the breaker's mailbox
          MaxCrashes,  \* bound: breaker crashes and losses of the table
          MaxEvents    \* bound: unloads and reloads of the skill

ASSUME BreakerAssumption ==
    /\ MaxFailures \in Nat \ {0}
    /\ {MaxMail, MaxCrashes, MaxEvents} \subseteq Nat

VARIABLES
    circuit,   \* the ETS row: state (absent without one) and count
    breaker,   \* the GenServer: "none", "up", or "crashed" until it is restarted
    mailbox,   \* its messages
    timer,     \* the timer of its timer_ref: "none", "armed" or "fired"
    loose,     \* armed timers it no longer has the reference of
    caller,    \* each caller: "idle", "ensured" or "running" the skill
    lifecycle, \* the Lifecycle server: "idle", "resetting" or "stopping"
    crashes,
    events,
    streak,    \* history: failures in a row told to this breaker, up to MaxFailures
    stray      \* history: a :half_open whose circuit was closed or lost meanwhile may come

breakerVars ==
    <<circuit, breaker, mailbox, timer, loose, caller, lifecycle, crashes, events, streak,
      stray>>
server == <<breaker, timer, loose, stray>>
bounds == <<crashes, events>>

States == {"absent", "closed", "open", "half_open"}
Row(state, count) == [state |-> state, count |-> count]
Closed == Row("closed", 0)
NoCircuit == Row("absent", 0)

\* lookup!/1: no row counts as a closed one.
Known == IF circuit.state = "absent" THEN Closed ELSE circuit

BreakerInit ==
    /\ circuit = NoCircuit
    /\ breaker = "none"
    /\ mailbox = <<>>
    /\ timer = "none"
    /\ loose = 0
    /\ caller = [c \in Callers |-> "idle"]
    /\ lifecycle = "idle"
    /\ crashes = 0
    /\ events = 0
    /\ streak = 0
    /\ stray = FALSE
-----------------------------------------------------------------------------
(* Callers: call/2 *)

\* init/1.
Boot ==
    /\ breaker' = "up"
    /\ circuit' = Closed
    /\ streak' = 0

\* ensure_started/1.
Ensure(c) ==
    /\ caller[c] = "idle"
    /\ caller' = [caller EXCEPT ![c] = "ensured"]
    /\ IF breaker = "up" THEN UNCHANGED <<breaker, circuit, streak>> ELSE Boot
    /\ UNCHANGED <<mailbox, timer, loose, lifecycle, bounds, stray>>

\* allow?/1: only an open row refuses.
Check(c) ==
    /\ caller[c] = "ensured"
    /\ caller' = [caller EXCEPT ![c] = IF circuit.state = "open" THEN "idle" ELSE "running"]
    /\ UNCHANGED <<circuit, server, mailbox, lifecycle, bounds, streak>>

\* record_success/1 and record_failure/2 cast to the breaker registered by then, if
\* any.  A skill that raises in the caller is not recorded.
Report(c, outcome) ==
    /\ caller[c] = "running"
    /\ caller' = [caller EXCEPT ![c] = "idle"]
    /\ IF breaker = "up" /\ outcome # "raise"
       THEN Len(mailbox) < MaxMail /\ mailbox' = Append(mailbox, outcome)
       ELSE UNCHANGED mailbox
    /\ UNCHANGED <<circuit, server, lifecycle, bounds, streak>>
-----------------------------------------------------------------------------
(* The breaker *)

Receive(message) ==
    /\ breaker = "up"
    /\ mailbox # <<>>
    /\ Head(mailbox) = message
    /\ mailbox' = Tail(mailbox)
    /\ UNCHANGED <<breaker, caller, bounds>>

\* Variant: only the first opening arms the timer.
OpenArmedOnce(count) ==
    /\ circuit' = Row("open", count)
    /\ timer' = IF Known.state = "closed" THEN "armed" ELSE "none"

\* transition/4 to :open: cancel the timer the breaker knows of, arm another.
Open(count) ==
    /\ circuit' = Row("open", count)
    /\ timer' = "armed"

\* handle_cast({:record_failure, reason}).
RecordFailure ==
    /\ Receive("error")
    /\ streak' = IF streak < MaxFailures THEN streak + 1 ELSE streak
    /\ CASE Known.state = "closed" /\ Known.count + 1 >= MaxFailures -> Open(Known.count + 1)
         [] Known.state = "half_open" -> Open(MaxFailures)
         [] OTHER -> circuit' = Row(Known.state, Known.count + 1) /\ UNCHANGED timer
    /\ UNCHANGED <<loose, lifecycle, stray>>

\* Variant: a success of a closed circuit is not worth a write.
SucceedQuietly ==
    IF Known.state = "half_open"
    THEN circuit' = Closed /\ timer' = "none"
    ELSE UNCHANGED <<circuit, timer>>

\* Variant: a success closes the circuit, whatever it was.
SucceedAnyway == circuit' = Closed /\ timer' = "none"

\* transition/4 to :closed from half open; otherwise only the count goes.
Succeed ==
    IF Known.state = "half_open"
    THEN circuit' = Closed /\ timer' = "none"
    ELSE circuit' = Row(Known.state, 0) /\ UNCHANGED timer

\* handle_cast(:record_success).
RecordSuccess ==
    /\ Receive("ok")
    /\ streak' = 0
    /\ Succeed
    /\ UNCHANGED <<loose, lifecycle, stray>>

\* handle_info(:half_open), whatever the state is by now.  It drops timer_ref, also
\* one that is not the timer that sent it.
HalfOpen ==
    /\ Receive("half_open")
    /\ circuit' = Row("half_open", 0)
    /\ timer' = "none"
    /\ loose' = IF timer = "armed" THEN loose + 1 ELSE loose
    /\ stray' = (stray /\ (loose' > 0 \/ Contains(mailbox', "half_open")))
    /\ UNCHANGED <<lifecycle, streak>>

\* handle_call(:reset): cancel_timer does not take back a :half_open already sent.
Reset ==
    /\ Receive("reset")
    /\ circuit' = Closed
    /\ timer' = "none"
    /\ streak' = 0
    /\ lifecycle' = "idle"
    /\ stray' = (stray \/ timer = "fired")
    /\ UNCHANGED loose

\* Process.send_after's timer: the one of timer_ref, or one it no longer knows.
Fire ==
    /\ breaker = "up"
    /\ Len(mailbox) < MaxMail
    /\ mailbox' = Append(mailbox, "half_open")
    /\ \/ timer = "armed" /\ timer' = "fired" /\ UNCHANGED loose
       \/ loose > 0 /\ loose' = loose - 1 /\ UNCHANGED timer
    /\ UNCHANGED <<circuit, breaker, caller, lifecycle, bounds, streak, stray>>
-----------------------------------------------------------------------------
(* Crashes, and the Lifecycle server *)

\* The process is gone, with its mail; its timers ring for nobody.
Gone(place) ==
    /\ breaker' = place
    /\ mailbox' = <<>>
    /\ timer' = "none"
    /\ loose' = 0
    /\ stray' = FALSE

\* The breaker dies.  A Lifecycle server waiting for a reset dies with it and takes
\* the table, which it owns.
Crash ==
    /\ breaker = "up"
    /\ crashes < MaxCrashes
    /\ crashes' = crashes + 1
    /\ Gone("crashed")
    /\ circuit' = IF lifecycle = "resetting" THEN NoCircuit ELSE circuit
    /\ lifecycle' = IF lifecycle = "resetting" THEN "idle" ELSE lifecycle
    /\ UNCHANGED <<caller, events, streak>>

\* The DynamicSupervisor restarts it.
Restart ==
    /\ breaker = "crashed"
    /\ Boot
    /\ UNCHANGED <<mailbox, timer, loose, caller, lifecycle, bounds, stray>>

\* The Lifecycle server dies by itself: a new, empty table under running breakers.
LoseTable ==
    /\ crashes < MaxCrashes
    /\ crashes' = crashes + 1
    /\ circuit' = NoCircuit
    /\ lifecycle' = "idle"
    /\ stray' = (stray \/ timer # "none")
    /\ UNCHANGED <<breaker, timer, loose, mailbox, caller, events, streak>>

\* {:skill_unregistered, name}: stop_breaker/1 terminates the process ...
Stop ==
    /\ lifecycle = "idle"
    /\ breaker = "up"
    /\ events < MaxEvents
    /\ events' = events + 1
    /\ lifecycle' = "stopping"
    /\ Gone("none")
    /\ UNCHANGED <<circuit, caller, crashes, streak>>

\* ... and deletes the row, by then perhaps that of the next breaker.
Delete ==
    /\ lifecycle = "stopping"
    /\ circuit' = NoCircuit
    /\ lifecycle' = "idle"
    /\ stray' = (stray \/ timer # "none")
    /\ UNCHANGED <<breaker, timer, loose, mailbox, caller, bounds, streak>>

\* {:skill_registered, name}: reset/1 calls the breaker and waits.
Reload ==
    /\ lifecycle = "idle"
    /\ breaker = "up"
    /\ events < MaxEvents
    /\ Len(mailbox) < MaxMail
    /\ events' = events + 1
    /\ lifecycle' = "resetting"
    /\ mailbox' = Append(mailbox, "reset")
    /\ UNCHANGED <<circuit, server, caller, crashes, streak>>
-----------------------------------------------------------------------------
Serve == RecordFailure \/ RecordSuccess \/ HalfOpen \/ Reset

BreakerNext ==
    \/ \E c \in Callers:
        \/ Ensure(c)
        \/ Check(c)
        \/ \E outcome \in {"ok", "error", "raise"}: Report(c, outcome)
    \/ Serve
    \/ Fire
    \/ Crash
    \/ Restart
    \/ LoseTable
    \/ Stop
    \/ Delete
    \/ Reload

BreakerSpec == BreakerInit /\ [][BreakerNext]_breakerVars

\* The breaker serves its mail, its timers ring, its supervisor restarts it and the
\* Lifecycle server finishes what it began.  Nobody has to call the skill.
BreakerFairSpec ==
    /\ BreakerSpec
    /\ WF_breakerVars(Serve)
    /\ WF_breakerVars(Fire)
    /\ WF_breakerVars(Restart)
    /\ WF_breakerVars(Delete)
-----------------------------------------------------------------------------
(* Properties *)

Messages == {"ok", "error", "half_open", "reset"}

\* Types of the breaker's state.
BreakerTypeOK ==
    /\ circuit \in [state: States, count: Nat]
    /\ breaker \in {"none", "up", "crashed"}
    /\ mailbox \in Seq(Messages)
    /\ timer \in {"none", "armed", "fired"}
    /\ loose \in Nat
    /\ caller \in [Callers -> {"idle", "ensured", "running"}]
    /\ lifecycle \in {"idle", "resetting", "stopping"}
    /\ crashes \in 0..MaxCrashes
    /\ events \in 0..MaxEvents
    /\ streak \in 0..MaxFailures
    /\ stray \in BOOLEAN
    /\ breaker # "up" => mailbox = <<>> /\ timer = "none" /\ loose = 0

\* An open circuit never loses its way out: while its breaker lives, a timer is armed
\* or its message is in the mailbox, through late results, resets and lost tables.
OpenHasWayOut ==
    circuit.state = "open" /\ breaker = "up" =>
        timer = "armed" \/ loose > 0 \/ Contains(mailbox, "half_open")

\* "3 consecutive failures": a closed circuit opens only after MaxFailures failures
\* in a row were reported to it, however many callers report and whoever deleted or
\* lost its row meanwhile.
OpensOnEvidence ==
    [][circuit.state \in {"closed", "absent"} /\ circuit'.state = "open"
           => streak' >= MaxFailures]_breakerVars

\* A circuit is put to the test only when its time has come: it is open, and by the timer
\* of its last opening.  Late results, failures of the test, unloads and crashes leave no
\* other :half_open; one that a reset or the loss of the row did not take back is stray.
TestIsDue ==
    [][HalfOpen => (circuit.state = "open" /\ timer = "fired") \/ stray]_breakerVars

\* An open circuit does not stay open: it is tested, reset or removed, with nobody
\* calling and whatever crashes.
OpenEnds == circuit.state = "open" ~> circuit.state # "open"

\* circuit_breaker.ex, moduledoc: ":closed (normal) -> :open (failing) -> :half_open
\* (testing)".  A circuit is put to the test only after it was open.
TestFollowsOpen ==
    [][circuit.state = "closed" => circuit'.state # "half_open"]_breakerVars
=============================================================================
