---------------------------- MODULE PlayContract ----------------------------
(***************************************************************************)
(* What the web automator promises about each play, whoever else it        *)
(* serves: it is refused at once or taken and answered, once; everything   *)
(* it opened is closed before its answer and nothing is opened or closed   *)
(* for it afterwards.  WebSessions is shown to implement it.               *)
(*                                                                         *)
(* The one way out of the promise is a cancellation that hits the play     *)
(* while it is being closed (or while its driver starts): such a play is   *)
(* spoiled, and is answered with whatever is left open.                    *)
(***************************************************************************)
CONSTANTS Plays,     \* the plays that are asked for
          Resources  \* what a play opens

VARIABLES life,    \* each play: "new", "refused", "waiting" for its end, "answered"
          open,    \* what it has open
          spoiled  \* whether a cancellation hit its closing

Init ==
    /\ life = [p \in Plays |-> "new"]
    /\ open = [p \in Plays |-> {}]
    /\ spoiled = [p \in Plays |-> FALSE]

Become(p, status) == life' = [life EXCEPT ![p] = status]

\* POST /play while the sidecar is busy: 409.
Refuse(p) ==
    /\ life[p] = "new"
    /\ Become(p, "refused")
    /\ UNCHANGED <<open, spoiled>>

\* POST /play while it is idle.
Take(p) ==
    /\ life[p] = "new"
    /\ Become(p, "waiting")
    /\ UNCHANGED <<open, spoiled>>

\* Its task opens or closes something, or is interrupted while doing so.
Work(p) ==
    /\ life[p] = "waiting"
    /\ \E held \in SUBSET Resources: open' = [open EXCEPT ![p] = held]
    /\ \E s \in {spoiled[p], TRUE}: spoiled' = [spoiled EXCEPT ![p] = s]
    /\ UNCHANGED life

\* The answer comes last.
Answer(p) ==
    /\ life[p] = "waiting"
    /\ open[p] = {} \/ spoiled[p]
    /\ Become(p, "answered")
    /\ UNCHANGED <<open, spoiled>>

Next == \E p \in Plays: Refuse(p) \/ Take(p) \/ Work(p) \/ Answer(p)

Spec == Init /\ [][Next]_<<life, open, spoiled>>
=============================================================================
