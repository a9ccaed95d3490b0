-------------------------------- MODULE Lock --------------------------------
(***************************************************************************)
(* AlexClaw.Lock: one holder at a time, refused rather than queued,        *)
(* released when the holder exits.  LocalLock (one local model call),      *)
(* ForgeGuard (one generation) and PlayLock (one play) are instances.      *)
(*                                                                         *)
(* Processes run a function holding the lock (run/2).  The lock is a       *)
(* GenServer with a mailbox; its calls may time out, and it may crash and  *)
(* be restarted with nobody holding it while the function still runs.      *)
(***************************************************************************)
EXTENDS Naturals, Sequences

CONSTANTS Procs,      \* the processes that use the lock
          Nobody,     \* held: nil
          MaxMail,    \* bound: messages in the server's mailbox when another call is made
          MaxCrashes  \* bound: how often the lock's server may crash

ASSUME LockAssumption == Nobody \notin Procs /\ {MaxMail, MaxCrashes} \subseteq Nat

VARIABLES
    pc,      \* where each process is: see Places
    held,    \* the owner the server has monitored, or Nobody
    mailbox, \* the calls waiting for the server
    downs,   \* the processes whose DOWN waits for it
    up,      \* whether the server is alive
    crashes,
    before   \* history: processes inside since before the server's last crash

vars == <<pc, held, mailbox, downs, up, crashes, before>>

\* "waiting" for acquire's answer, "inside" the function, "leaving": for release's.
Places == {"idle", "waiting", "inside", "leaving", "dead"}

\* "unanswered" is an acquire whose caller no longer waits for the answer.
Message(kind, p) == [kind |-> kind, from |-> p]
Post(kind, p) == mailbox' = Append(mailbox, Message(kind, p))

Init ==
    /\ pc = [p \in Procs |-> "idle"]
    /\ held = Nobody
    /\ mailbox = <<>>
    /\ downs = {}
    /\ up = TRUE
    /\ crashes = 0
    /\ before = {}
-----------------------------------------------------------------------------
(* The processes *)

Move(p, place) ==
    /\ pc' = [pc EXCEPT ![p] = place]
    /\ before' = IF place = "inside" THEN before ELSE before \ {p}

\* acquire/2 of run/2.
Acquire(p) ==
    /\ up
    /\ pc[p] = "idle"
    /\ Len(mailbox) < MaxMail
    /\ Move(p, "waiting")
    /\ Post("acquire", p)
    /\ UNCHANGED <<held, downs, up, crashes>>

\* The function returned: release/2.  A call to a server that is not there exits.
Release(p) ==
    /\ pc[p] = "inside"
    /\ IF up THEN Move(p, "leaving") /\ Post("release", p)
       ELSE Move(p, "idle") /\ UNCHANGED mailbox
    /\ UNCHANGED <<held, downs, up, crashes>>

\* The function raised, and a caller further out rescued it: run/2 has no after, so
\* nothing is released.
Raise(p) ==
    /\ pc[p] = "inside"
    /\ Move(p, "idle")
    /\ UNCHANGED <<held, mailbox, downs, up, crashes>>

\* The call's timeout, caught further out.  The request stays in the mailbox; an
\* answer to it is dropped.
TimeOut(p) ==
    /\ pc[p] \in {"waiting", "leaving"}
    /\ Move(p, "idle")
    /\ mailbox' = [i \in DOMAIN mailbox |->
                      IF mailbox[i] = Message("acquire", p)
                      THEN Message("unanswered", p) ELSE mailbox[i]]
    /\ UNCHANGED <<held, downs, up, crashes>>

\* Variant: only a process inside is watched.
ExitUnwatched(p) ==
    /\ pc[p] # "dead"
    /\ Move(p, "dead")
    /\ downs' = IF held = p /\ pc[p] = "inside" THEN downs \cup {p} ELSE downs
    /\ UNCHANGED <<held, mailbox, up, crashes>>

\* The process exits: a server that monitors it gets its DOWN.
Exit(p) ==
    /\ pc[p] # "dead"
    /\ Move(p, "dead")
    /\ downs' = IF held = p THEN downs \cup {p} ELSE downs
    /\ UNCHANGED <<held, mailbox, up, crashes>>
-----------------------------------------------------------------------------
(* The server *)

Receive(kind, p) ==
    /\ up
    /\ mailbox # <<>>
    /\ Head(mailbox) = Message(kind, p)
    /\ mailbox' = Tail(mailbox)
    /\ UNCHANGED <<up, crashes>>

Asked(kind, p) == kind \in {"acquire", "unanswered"} /\ Receive(kind, p)

\* The answer, if the caller waits for it, lets it go on at `place`.
Answer(kind, p, place) ==
    IF kind = "acquire" /\ pc[p] = "waiting" THEN Move(p, place) ELSE UNCHANGED <<pc, before>>

\* Variant: granted to whoever asks.
GrantAlways(kind, p) ==
    /\ Asked(kind, p)
    /\ held' = p
    /\ UNCHANGED downs
    /\ Answer(kind, p, "inside")

\* handle_call({:acquire, owner}) with the lock free.  The owner may be gone or have
\* given up by now; monitoring a dead one delivers its DOWN at once.
Grant(kind, p) ==
    /\ Asked(kind, p)
    /\ held = Nobody
    /\ held' = p
    /\ downs' = IF pc[p] = "dead" THEN downs \cup {p} ELSE downs
    /\ Answer(kind, p, "inside")

\* ... and with it held, by the caller itself too: the busy reason.
Refuse(kind, p) ==
    /\ Asked(kind, p)
    /\ held # Nobody
    /\ Answer(kind, p, "idle")
    /\ UNCHANGED <<held, downs>>

\* The owner's release frees the lock and flushes its DOWN; any other does nothing.
Free(p) ==
    IF held = p THEN held' = Nobody /\ downs' = downs \ {p} ELSE UNCHANGED <<held, downs>>

\* handle_call({:release, owner}).
HandleRelease(p) ==
    /\ Receive("release", p)
    /\ Free(p)
    /\ IF pc[p] = "leaving" THEN Move(p, "idle") ELSE UNCHANGED <<pc, before>>

\* handle_info({:DOWN, ...}): it comes after whatever the process sent.
HandleDown(p) ==
    /\ up
    /\ p \in downs
    /\ \A i \in DOMAIN mailbox: mailbox[i].from # p
    /\ downs' = downs \ {p}
    /\ held' = IF held = p THEN Nobody ELSE held
    /\ UNCHANGED <<pc, mailbox, up, crashes, before>>

\* The server dies.  Whoever waits for it exits, or is rescued further out.
Crash ==
    /\ up
    /\ crashes < MaxCrashes
    /\ up' = FALSE
    /\ crashes' = crashes + 1
    /\ held' = Nobody
    /\ mailbox' = <<>>
    /\ downs' = {}
    /\ \E place \in {"idle", "dead"}:
          pc' = [p \in Procs |-> IF pc[p] \in {"waiting", "leaving"} THEN place ELSE pc[p]]
    /\ before' = {p \in Procs: pc[p] = "inside"}

\* init/1: nobody holds it.
Restart ==
    /\ ~up
    /\ up' = TRUE
    /\ UNCHANGED <<pc, held, mailbox, downs, crashes, before>>

ServeCall(p) ==
    \/ \E kind \in {"acquire", "unanswered"}: Grant(kind, p) \/ Refuse(kind, p)
    \/ HandleRelease(p)

Next ==
    \/ \E p \in Procs:
        \/ Acquire(p)
        \/ Release(p)
        \/ Raise(p)
        \/ TimeOut(p)
        \/ Exit(p)
        \/ ServeCall(p)
        \/ HandleDown(p)
    \/ Crash
    \/ Restart

Spec == Init /\ [][Next]_vars

\* The server serves all its mail, and more than MaxMail calls never wait for it.
\* Nothing is assumed of the functions it guards.
FairSpec ==
    /\ Spec
    /\ WF_vars(\E p \in Procs: ServeCall(p))
    /\ \A p \in Procs: WF_vars(HandleDown(p))
-----------------------------------------------------------------------------
(* Properties *)

\* Types of the lock's state.
TypeOK ==
    /\ pc \in [Procs -> Places]
    /\ held \in Procs \cup {Nobody}
    /\ mailbox \in Seq([kind: {"acquire", "unanswered", "release"}, from: Procs])
    /\ downs \subseteq Procs
    /\ up \in BOOLEAN
    /\ crashes \in 0..MaxCrashes
    /\ before \subseteq Procs
    /\ ~up => held = Nobody /\ mailbox = <<>> /\ downs = {}

\* "One holder at a time": whoever the server that is alive let in is the one it
\* holds the lock for, so two never run the guarded function.  Only a function that
\* was running when the server crashed may still overlap the next.
OneInside ==
    \A p \in Procs: pc[p] = "inside" /\ p \notin before => held = p

\* A dead owner never keeps the lock: its DOWN is on the way, whether it died
\* holding it, after a timeout, or before its own request was granted.
DeadOwnerIsReported ==
    \A p \in Procs: held = p /\ pc[p] = "dead" => p \in downs

\* "Release the lock if owner holds it": nobody else's release or DOWN frees it, late
\* or left over from before a crash.
OnlyOwnerFrees ==
    [][\A p \in Procs: held = p /\ held' # p =>
          \/ ~up'
          \/ HandleRelease(p)
          \/ pc[p] = "dead"]_vars

\* "released when the holder exits".
DeadOwnerLosesIt ==
    \A p \in Procs: held = p /\ pc[p] = "dead" ~> held # p
=============================================================================
