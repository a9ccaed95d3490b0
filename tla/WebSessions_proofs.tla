------------------------- MODULE WebSessions_proofs -------------------------
(***************************************************************************)
(* For any plays, recordings and stop requests: WebSessions implements      *)
(* PlayContract, and no play loses its slot to another unless a start or a  *)
(* clean-up ran beside something else.                                      *)
(*                                                                         *)
(* The contract needs to know what a task can have open at each of its      *)
(* awaits (HeldByPlace); the slot needs that nothing is being started or    *)
(* cleaned up under a live play (SlotIsOwned), which is what a start or a   *)
(* clean-up that ran beside another breaks.  What is open at rest follows   *)
(* from what is open at each await of a start and a clean-up (OpenIsKnown). *)
(*                                                                         *)
(* And of Recorder, which a session runs, for any number of acts and        *)
(* documents: what is heard is kept once, and answered in order.            *)
(***************************************************************************)
EXTENDS WebSessions, Recorder, FiniteSetTheorems, TLAPS

Places == {"none", "running", "ended"} \cup Opening \cup Closing

\* What a task that was never interrupted while closing may have open at each await.
Has == [none |-> {}, start |-> {}, proxy |-> {}, driver |-> {"proxy"},
        browser |-> {"proxy", "driver"}, page |-> {"proxy", "driver", "browser"},
        running |-> Resources, close_context |-> Resources, close_browser |-> Resources,
        close_driver |-> Resources, close_proxy |-> {"proxy"}, ended |-> {}]

HeldByPlace == \A p \in Plays: spoiled[p] \/ held[p] \subseteq Has[at[p]]

SlotIsOwned ==
    ~overlapped =>
        /\ \A p \in Plays: Live(p) => app.state = "playing" /\ app.play = p /\ app.task = p
        /\ Busy => \A p \in Plays: ~Live(p)

\* A play that waits has its task, one that is new has none, and any other's is over.
HasTask ==
    \A p \in Plays: /\ life[p] = "waiting" => at[p] # "none"
                    /\ life[p] = "new" => at[p] = "none"
                    /\ life[p] # "waiting" => at[p] \in {"none", "ended"}

IInv == TypeOK /\ HeldByPlace /\ HasTask /\ SlotIsOwned

ContractVars == <<life, held, spoiled>>

LEMMA Initially == Init => IInv /\ Contract!Init
<1> SUFFICES ASSUME Init PROVE IInv /\ Contract!Init
  OBVIOUS
<1>1. TypeOK
  BY DEF Init, TypeOK, Idle, Resources
<1>2. HeldByPlace /\ HasTask
  BY DEF Init, HeldByPlace, HasTask
<1>3. SlotIsOwned
  BY DEF Init, SlotIsOwned, Live
<1>4. Contract!Init
  BY DEF Init, Contract!Init
<1> QED
  BY <1>1, <1>2, <1>3, <1>4 DEF IInv

\* A task goes on, changing nothing but its own play.
LEMMA TaskStep ==
    ASSUME IInv, NEW p \in Plays, Live(p),
           UNCHANGED <<app, life, rec, shared, cleanup, overlapped>>,
           at' \in [Plays -> Places], held' \in [Plays -> SUBSET Resources],
           {cancel', late', watched', hung', spoiled'} \subseteq [Plays -> BOOLEAN],
           \A q \in Plays \ {p}: at'[q] = at[q] /\ held'[q] = held[q] /\ spoiled'[q] = spoiled[q],
           spoiled[p] => spoiled'[p],
           spoiled'[p] \/ held'[p] \subseteq Has[at'[p]],
           at'[p] # "none"
    PROVE  IInv' /\ Contract!Next
<1>1. TypeOK'
  BY DEF IInv, TypeOK, shared, Places
<1>2. HeldByPlace' /\ HasTask'
  BY DEF IInv, HeldByPlace, HasTask, Live
<1>3. SlotIsOwned'
  BY DEF IInv, SlotIsOwned, Live, Busy
<1>4. Contract!Work(p)
  <2>1. life[p] = "waiting" /\ life' = life
    BY DEF Live
  <2>2. held' = [held EXCEPT ![p] = held'[p]] /\ held'[p] \in SUBSET Resources
    BY DEF IInv, TypeOK
  <2>3. spoiled \in [Plays -> BOOLEAN] /\ spoiled' \in [Plays -> BOOLEAN]
    BY DEF IInv, TypeOK
  <2>4. spoiled' = [spoiled EXCEPT ![p] = spoiled'[p]]
    BY <2>3
  <2>5. spoiled[p] \in BOOLEAN /\ spoiled'[p] \in BOOLEAN
    BY <2>3
  <2>6. spoiled'[p] \in {spoiled[p], TRUE}
    BY <2>5, Zenon
  <2> QED
    BY <2>1, <2>2, <2>4, <2>6 DEF Contract!Work
<1> QED
  BY <1>1, <1>2, <1>3, <1>4 DEF IInv, Contract!Next

\* The steps of a task that move it on, opening or closing something on the way.
LEMMA MoveStep ==
    ASSUME IInv, NEW p \in Plays, Open(p) \/ OpenFails(p) \/ RunEnds(p) \/ Close(p)
    PROVE  IInv' /\ Contract!Next
<1>1. /\ Live(p)
      /\ UNCHANGED <<app, life, rec, shared, cleanup, overlapped, cancel, late, watched, hung, spoiled>>
  BY DEF Open, OpenFails, RunEnds, Close
<1>2. PICK place \in Places, has \in SUBSET Resources:
        /\ at' = [at EXCEPT ![p] = place]
        /\ held' = [held EXCEPT ![p] = has]
        /\ place # "none"
        /\ held[p] \subseteq Has[at[p]] => has \subseteq Has[place]
  <2>1. held[p] \in SUBSET Resources /\ held = [held EXCEPT ![p] = held[p]]
    BY DEF IInv, TypeOK
  <2>2. CASE Open(p)
    <3>1. at[p] \in Opening
      BY <2>2 DEF Open
    <3>2. Later[at[p]] \in Places \ {"none"} /\ held[p] \cup Gain[at[p]] \in SUBSET Resources
      BY <2>1, <3>1 DEF Opening, Places, Later, Gain, Resources
    <3>3. held[p] \subseteq Has[at[p]] => held[p] \cup Gain[at[p]] \subseteq Has[Later[at[p]]]
      BY <3>1 DEF Opening, Later, Gain, Has, Resources
    <3> QED
      BY <2>2, <3>2, <3>3 DEF Open
  <2>3. CASE OpenFails(p) \/ RunEnds(p)
    <3>1. at[p] \in Opening \cup {"running"} /\ held' = held /\ at' = [at EXCEPT ![p] = Unwind[at[p]]]
      BY <2>3 DEF OpenFails, RunEnds
    <3>2. Unwind[at[p]] \in Places \ {"none"} /\ Has[at[p]] \subseteq Has[Unwind[at[p]]]
      BY <3>1 DEF Opening, Closing, Places, Unwind, Has, Resources
    <3>3. held' = [held EXCEPT ![p] = held[p]]
      BY <2>1, <3>1, Zenon
    <3>4. held[p] \subseteq Has[at[p]] => held[p] \subseteq Has[Unwind[at[p]]]
      BY <3>2
    <3> QED
      BY <2>1, <3>1, <3>2, <3>3, <3>4, Zenon
  <2>4. CASE Close(p)
    <3> DEFINE next == Closes[at[p]][1]
               gone == Closes[at[p]][2]
    <3>1. at[p] \in Closing
      BY <2>4 DEF Close
    <3>2. next \in Places \ {"none"} /\ held[p] \ gone \in SUBSET Resources
      BY <2>1, <3>1 DEF Closing, Places, Closes
    <3>3. held[p] \subseteq Has[at[p]] => held[p] \ gone \subseteq Has[next]
      BY <3>1 DEF Closing, Closes, Has, Resources
    <3>4. at' = [at EXCEPT ![p] = next] /\ held' = [held EXCEPT ![p] = held[p] \ gone]
      BY <2>4 DEF Close
    <3> HIDE DEF next, gone
    <3> QED
      BY <3>2, <3>3, <3>4
  <2> QED
    BY <2>2, <2>3, <2>4
<1>3. /\ at' \in [Plays -> Places] /\ held' \in [Plays -> SUBSET Resources]
      /\ {cancel', late', watched', hung', spoiled'} \subseteq [Plays -> BOOLEAN]
  BY <1>1, <1>2 DEF IInv, TypeOK, Places
<1>4. /\ \A q \in Plays \ {p}: at'[q] = at[q] /\ held'[q] = held[q]
      /\ at'[p] = place /\ held'[p] = has
  BY <1>2 DEF IInv, TypeOK
<1>5. spoiled'[p] \/ held'[p] \subseteq Has[at'[p]]
  BY <1>1, <1>2, <1>4 DEF IInv, HeldByPlace
<1> QED
  BY <1>1, <1>2, <1>3, <1>4, <1>5, TaskStep

\* A cancellation that is raised in the task, and what only concerns its future.
LEMMA InterruptStep ==
    ASSUME IInv, NEW p \in Plays, Interrupted(p)
    PROVE  IInv' /\ Contract!Next
<1>1. Live(p) /\ UNCHANGED <<app, life, late, watched, hung, rec, shared, cleanup, overlapped>>
  BY DEF Interrupted
<1>2. cancel' \in [Plays -> BOOLEAN]
  BY DEF Interrupted, IInv, TypeOK
<1>3. held[p] \in SUBSET Resources /\ spoiled \in [Plays -> BOOLEAN]
  BY DEF IInv, TypeOK
<1>4. at[p] \in Opening \cup Closing \cup {"running"}
  BY <1>1 DEF Live, IInv, TypeOK, HasTask
<1>5. CASE /\ at[p] \in Closing
           /\ at' = [at EXCEPT ![p] = "ended"]
           /\ spoiled' = [spoiled EXCEPT ![p] = TRUE]
           /\ UNCHANGED held
  <2>1. /\ at' \in [Plays -> Places] /\ held' \in [Plays -> SUBSET Resources]
        /\ \A q \in Plays \ {p}: at'[q] = at[q] /\ held'[q] = held[q]
        /\ at'[p] = "ended"
    BY <1>5 DEF IInv, TypeOK, Places
  <2>2. spoiled' \in [Plays -> BOOLEAN]
    BY <1>3, <1>5
  <2>3. spoiled'[p] /\ \A q \in Plays \ {p}: spoiled'[q] = spoiled[q]
    BY <1>3, <1>5
  <2> QED
    BY <1>1, <1>2, <2>1, <2>2, <2>3, TaskStep DEF IInv, TypeOK
<1>6. CASE /\ at[p] \notin Closing
           /\ at' = [at EXCEPT ![p] = Unwind[at[p]]]
           /\ UNCHANGED <<held, spoiled>>
  <2>1. Unwind[at[p]] \in Places \ {"none"} /\ Has[at[p]] \subseteq Has[Unwind[at[p]]]
    BY <1>4, <1>6 DEF Opening, Closing, Places, Unwind, Has, Resources
  <2>2. /\ at' \in [Plays -> Places]
        /\ \A q \in Plays \ {p}: at'[q] = at[q]
        /\ at'[p] = Unwind[at[p]]
    BY <1>6, <2>1 DEF IInv, TypeOK, Places
  <2>3. spoiled'[p] \/ held'[p] \subseteq Has[at'[p]]
    BY <1>6, <2>1, <2>2 DEF IInv, HeldByPlace
  <2> QED
    BY <1>1, <1>2, <1>6, <2>1, <2>2, <2>3, TaskStep DEF IInv, TypeOK
<1>7. CASE /\ at[p] = "driver"
           /\ at' = [at EXCEPT ![p] = Unwind[at[p]]]
           /\ held' = [held EXCEPT ![p] = held[p] \cup {"driver"}]
           /\ spoiled' = [spoiled EXCEPT ![p] = TRUE]
  <2>1. Unwind[at[p]] \in Places \ {"none"} /\ held[p] \cup {"driver"} \in SUBSET Resources
    BY <1>3, <1>7 DEF Closing, Places, Unwind, Resources
  <2>2. /\ at' \in [Plays -> Places] /\ held' \in [Plays -> SUBSET Resources]
        /\ \A q \in Plays \ {p}: at'[q] = at[q] /\ held'[q] = held[q]
        /\ at'[p] = Unwind[at[p]]
    BY <1>7, <2>1 DEF IInv, TypeOK, Places
  <2>3. spoiled' \in [Plays -> BOOLEAN]
    BY <1>3, <1>7
  <2>4. spoiled'[p] /\ \A q \in Plays \ {p}: spoiled'[q] = spoiled[q]
    BY <1>3, <1>7
  <2> QED
    BY <1>1, <1>2, <2>1, <2>2, <2>3, <2>4, TaskStep DEF IInv, TypeOK
<1> QED
  BY <1>5, <1>6, <1>7 DEF Interrupted

\* What only concerns the task's future.
LEMMA FlagStep ==
    ASSUME IInv, NEW p \in Plays, Hang(p) \/ Deadline(p) \/ CancelOnDisconnect(p)
    PROVE  IInv' /\ Contract!Next
<1>1. Live(p) /\ UNCHANGED <<app, life, at, held, spoiled, rec, shared, cleanup, overlapped>>
  BY DEF Hang, Deadline, CancelOnDisconnect
<1>2. {cancel', late', watched', hung', spoiled'} \subseteq [Plays -> BOOLEAN]
  <2>1. {cancel, late, watched, hung, spoiled} \subseteq [Plays -> BOOLEAN]
    BY DEF IInv, TypeOK
  <2>2. CASE Hang(p)
    BY <2>1, <2>2 DEF Hang
  <2>3. CASE Deadline(p)
    BY <2>1, <2>3 DEF Deadline
  <2>4. CASE CancelOnDisconnect(p)
    BY <2>1, <2>4 DEF CancelOnDisconnect
  <2> QED
    BY <2>2, <2>3, <2>4
<1>3. at' \in [Plays -> Places] /\ held' \in [Plays -> SUBSET Resources] /\ at[p] # "none"
  BY <1>1 DEF Live, IInv, TypeOK, HasTask, Places
<1>4. spoiled'[p] \/ held'[p] \subseteq Has[at'[p]]
  BY <1>1 DEF IInv, HeldByPlace
<1> QED
  BY <1>1, <1>2, <1>3, <1>4, TaskStep

\* The handlers of POST /play.
LEMMA PlayStep ==
    ASSUME IInv, NEW p \in Plays, RefusePlay(p) \/ Play(p) \/ Answer(p)
    PROVE  IInv' /\ Contract!Next
<1>1. UNCHANGED <<held, spoiled, rec, shared, cleanup>>
  BY DEF RefusePlay, Play, Answer
<1>2. CASE RefusePlay(p)
  <2>1. life[p] = "new" /\ life' = [life EXCEPT ![p] = "refused"]
    BY <1>2 DEF RefusePlay
  <2>2. UNCHANGED <<app, at, cancel, late, watched, hung, overlapped>>
    BY <1>2 DEF RefusePlay
  <2>3. TypeOK'
    BY <1>1, <2>1, <2>2 DEF IInv, TypeOK, shared
  <2>4. HeldByPlace' /\ HasTask'
    BY <1>1, <2>1, <2>2 DEF IInv, TypeOK, HeldByPlace, HasTask
  <2>5. SlotIsOwned'
    BY <1>1, <2>1, <2>2 DEF IInv, TypeOK, SlotIsOwned, Live, Busy
  <2>6. Contract!Refuse(p)
    BY <1>1, <2>1 DEF Contract!Refuse, Contract!Become
  <2> QED
    BY <2>3, <2>4, <2>5, <2>6 DEF IInv, Contract!Next
<1>3. CASE Play(p)
  <2>1. /\ life[p] = "new" /\ life' = [life EXCEPT ![p] = "waiting"]
        /\ at' = [at EXCEPT ![p] = "start"]
        /\ app.state = "idle" /\ overlapped' = (overlapped \/ Busy)
        /\ app' = [app EXCEPT !.state = "playing", !.session = p, !.play = p, !.task = p]
    BY <1>3 DEF Play
  <2>2. UNCHANGED <<cancel, late, watched, hung>>
    BY <1>3 DEF Play
  <2>3. overlapped' \in BOOLEAN
    BY <2>1 DEF IInv, TypeOK, Busy
  <2>4. TypeOK'
    BY <1>1, <2>1, <2>2, <2>3 DEF IInv, TypeOK, shared, Opening
  <2>5. at[p] = "none" /\ \A q \in Plays: at'[q] = IF q = p THEN "start" ELSE at[q]
    BY <2>1 DEF IInv, TypeOK, HasTask
  <2>6. HeldByPlace'
    BY <1>1, <2>5 DEF IInv, HeldByPlace, Has
  <2>7. HasTask'
    BY <2>1, <2>5 DEF IInv, TypeOK, HasTask
  <2>8. ASSUME ~overlapped', NEW q \in Plays, Live(q)'
        PROVE  q = p
    <3>1. ~overlapped
      BY <2>1, <2>8
    <3>2. ~Live(q)
      BY <2>1, <3>1 DEF IInv, SlotIsOwned
    <3> QED
      BY <2>1, <2>5, <2>8, <3>2 DEF IInv, TypeOK, Live
  <2>9. ~overlapped' => ~Busy'
    BY <1>1, <2>1 DEF Busy
  <2>10. app'.state = "playing" /\ app'.play = p /\ app'.task = p
    BY <2>1 DEF IInv, TypeOK
  <2>11. SlotIsOwned'
    BY <2>8, <2>9, <2>10 DEF SlotIsOwned
  <2>12. Contract!Take(p)
    BY <1>1, <2>1 DEF Contract!Take, Contract!Become
  <2> QED
    BY <2>4, <2>6, <2>7, <2>11, <2>12 DEF IInv, Contract!Next
<1>4. CASE Answer(p)
  <2>1. /\ life[p] = "waiting" /\ at[p] = "ended" /\ life' = [life EXCEPT ![p] = "answered"]
        /\ at' = at /\ overlapped' = overlapped
        /\ app' = IF app.play = p THEN [Idle EXCEPT !.context = app.context] ELSE app
    BY <1>4 DEF Answer
  <2>2. {cancel', late', watched', hung', spoiled'} \subseteq [Plays -> BOOLEAN]
    <3>1. {cancel, late, watched, hung, spoiled} \subseteq [Plays -> BOOLEAN]
      BY DEF IInv, TypeOK
    <3> QED
      BY <1>1, <1>4, <3>1 DEF Answer, Disarm
  <2>3. app' \in [state: {"idle", "playing", "recording"},
                  session: Plays \cup Recordings \cup {NONE},
                  play: Plays \cup {NONE}, task: Plays \cup {NONE},
                  context: Recordings \cup {NONE}]
    <3>1. CASE app.play = p
      BY <2>1, <3>1 DEF IInv, TypeOK, Idle
    <3>2. CASE app.play # p
      BY <2>1, <3>2 DEF IInv, TypeOK
    <3> QED
      BY <3>1, <3>2
  <2>4. TypeOK'
    BY <1>1, <2>1, <2>2, <2>3 DEF IInv, TypeOK, shared
  <2>5. HeldByPlace' /\ HasTask'
    BY <1>1, <2>1 DEF IInv, TypeOK, HeldByPlace, HasTask
  <2>6. ASSUME ~overlapped, NEW q \in Plays, Live(q)'
        PROVE  Live(q) /\ app' = app
    <3>1. q # p /\ Live(q)
      BY <2>1, <2>6 DEF IInv, TypeOK, Live
    <3>2. app.play = q
      BY <2>6, <3>1 DEF IInv, SlotIsOwned
    <3> QED
      BY <2>1, <3>1, <3>2
  <2>7. Busy' = Busy
    BY <1>1 DEF Busy
  <2>8. SlotIsOwned'
    BY <2>1, <2>6, <2>7 DEF IInv, SlotIsOwned
  <2>9. held[p] = {} \/ spoiled[p]
    BY <2>1 DEF IInv, HeldByPlace, Has
  <2>10. Contract!Answer(p)
    BY <1>1, <2>1, <2>9 DEF Contract!Answer, Contract!Become
  <2> QED
    BY <2>4, <2>5, <2>8, <2>10 DEF IInv, Contract!Next
<1> QED
  BY <1>2, <1>3, <1>4

\* What leaves the plays alone keeps the slot if it starts nothing, or if no play is live.
LEMMA SharedStep ==
    ASSUME IInv, TypeOK', UNCHANGED <<life, at, held, spoiled>>,
           ~overlapped' =>
              /\ ~overlapped
              /\ \/ app' = app /\ (Busy' => Busy)
                 \/ \A p \in Plays: ~Live(p)
    PROVE  IInv' /\ UNCHANGED ContractVars
<1>1. HeldByPlace' /\ HasTask'
  BY DEF IInv, HeldByPlace, HasTask
<1>2. \A p \in Plays: Live(p)' <=> Live(p)
  BY DEF Live
<1>3. SlotIsOwned'
  BY <1>2 DEF IInv, SlotIsOwned
<1> QED
  BY <1>1, <1>3 DEF IInv, ContractVars

\* Starting a recording.
LEMMA RecordStep ==
    ASSUME IInv, NEW r \in Recordings, RefuseRecord(r) \/ Record(r) \/ RecordMoves(r)
    PROVE  IInv' /\ UNCHANGED ContractVars
<1>1. UNCHANGED <<playVars, cleanup>> /\ UNCHANGED <<life, at, held, spoiled>>
  BY DEF RefuseRecord, Record, RecordMoves, DriverStarted, BrowserStarted, ContextOpened,
         RecordStarted, RecordFails, playVars
<1>2. CASE RefuseRecord(r)
  <2>1. /\ rec[r] = "new" /\ rec' = [rec EXCEPT ![r] = "refused"]
        /\ UNCHANGED <<app, shared, overlapped>>
    BY <1>2 DEF RefuseRecord
  <2>2. TypeOK'
    BY <1>1, <2>1 DEF IInv, TypeOK, shared, playVars, Starting
  <2>3. Busy' => Busy
    BY <1>1, <2>1 DEF IInv, TypeOK, Busy, Starting
  <2> QED
    BY <1>1, <2>1, <2>2, <2>3, SharedStep
<1>3. CASE Record(r)
  <2>1. /\ app.state = "idle" /\ overlapped' = (overlapped \/ Busy)
        /\ UNCHANGED <<app, manager, drivers, browsers, contexts>>
    BY <1>3 DEF Record
  <2>2. rec' \in [Recordings -> {"new", "refused", "started", "failed"} \cup Starting]
    <3>1. \E place \in Starting: rec' = [rec EXCEPT ![r] = place]
      BY <1>3 DEF Record, Starting
    <3> QED
      BY <3>1 DEF IInv, TypeOK
  <2>3. home' \in [Recordings -> Recordings \cup {NONE}]
    <3>1. manager.browser \in Recordings \cup {NONE}
      BY DEF IInv, TypeOK
    <3>2. home' = home \/ home' = [home EXCEPT ![r] = manager.browser]
      BY <1>3 DEF Record
    <3> QED
      BY <3>1, <3>2 DEF IInv, TypeOK
  <2>4. overlapped' \in BOOLEAN
    BY <2>1 DEF IInv, TypeOK, Busy
  <2>5. TypeOK'
    BY <1>1, <2>1, <2>2, <2>3, <2>4 DEF IInv, TypeOK, playVars
  <2>6. ~overlapped' => ~overlapped
    BY <2>1
  <2>7. ~overlapped => \A p \in Plays: ~Live(p)
    BY <2>1 DEF IInv, SlotIsOwned
  <2> QED
    BY <1>1, <2>5, <2>6, <2>7, SharedStep
<1>4. CASE RecordMoves(r)
  <2>1. rec[r] \in Starting /\ overlapped' = overlapped
    BY <1>4 DEF RecordMoves, DriverStarted, BrowserStarted, ContextOpened, RecordStarted,
                RecordFails, Starting
  <2>2. ~overlapped' => ~overlapped /\ \A p \in Plays: ~Live(p)
    BY <2>1 DEF IInv, SlotIsOwned, Busy
  <2>3. TypeOK'
    <3>1. CASE DriverStarted(r)
      BY <1>1, <2>1, <3>1 DEF DriverStarted, IInv, TypeOK, playVars, Starting
    <3>2. CASE BrowserStarted(r)
      BY <1>1, <2>1, <3>2 DEF BrowserStarted, IInv, TypeOK, playVars, Starting
    <3>3. CASE ContextOpened(r)
      BY <1>1, <2>1, <3>3 DEF ContextOpened, IInv, TypeOK, playVars, Starting
    <3>4. CASE RecordStarted(r)
      <4>1. rec' = [rec EXCEPT ![r] = "started"]
        BY <3>4 DEF RecordStarted
      <4>2. rec' \in [Recordings -> {"new", "refused", "started", "failed"} \cup Starting]
        BY <4>1 DEF IInv, TypeOK
      <4>3. app' = [app EXCEPT !.state = "recording", !.session = r, !.context = r]
        BY <3>4 DEF RecordStarted
      <4>4. app' \in [state: {"idle", "playing", "recording"},
                      session: Plays \cup Recordings \cup {NONE},
                      play: Plays \cup {NONE}, task: Plays \cup {NONE},
                      context: Recordings \cup {NONE}]
        BY <4>3 DEF IInv, TypeOK
      <4>5. UNCHANGED <<playVars, shared, cleanup, overlapped>>
        BY <3>4 DEF RecordStarted
      <4> QED
        BY <4>2, <4>4, <4>5 DEF IInv, TypeOK, playVars, shared
    <3>5. CASE RecordFails(r)
      BY <1>1, <2>1, <3>5 DEF RecordFails, IInv, TypeOK, playVars, shared, Starting
    <3> QED
      BY <1>4, <3>1, <3>2, <3>3, <3>4, <3>5 DEF RecordMoves
  <2> QED
    BY <1>1, <2>2, <2>3, SharedStep
<1> QED
  BY <1>2, <1>3, <1>4

AppType == [state: {"idle", "playing", "recording"},
            session: Plays \cup Recordings \cup {NONE},
            play: Plays \cup {NONE}, task: Plays \cup {NONE},
            context: Recordings \cup {NONE}]
CleanupType == [Stops -> [at: {"new", "context", "browser", "driver", "done"},
                          what: Recordings \cup {NONE}]]
ManagerType == [browser: Recordings \cup {NONE}, driver: Recordings \cup {NONE}]

\* Closing the manager gives what it is asked to the next stage, or ends the clean-up.
LEMMA CloseManagerTypes ==
    ASSUME cleanup \in CleanupType, NEW s \in Stops, NEW known \in ManagerType,
           NEW state \in AppType, CloseManager(s, known, state)
    PROVE  app' \in AppType /\ cleanup' \in CleanupType
<1>1. known.browser \in Recordings \cup {NONE} /\ known.driver \in Recordings \cup {NONE}
  BY DEF ManagerType
<1>2. PICK place \in {"browser", "driver", "done"}, what \in Recordings \cup {NONE}:
        cleanup' = [cleanup EXCEPT ![s] = [at |-> place, what |-> what]]
  BY <1>1 DEF CloseManager
<1>3. cleanup' \in CleanupType
  BY <1>2 DEF CleanupType
<1>4. app' = state \/ app' = [state EXCEPT !.state = "idle", !.session = NONE]
  BY DEF CloseManager
<1>5. app' \in AppType
  BY <1>4 DEF AppType
<1> QED
  BY <1>3, <1>5

\* _cleanup, once it has begun.
LEMMA CleanupStep ==
    ASSUME IInv, NEW s \in Stops, CleanupMoves(s)
    PROVE  IInv' /\ UNCHANGED ContractVars
<1>1. UNCHANGED <<playVars, rec, home, overlapped>> /\ UNCHANGED <<life, at, held, spoiled>>
  BY DEF CleanupMoves, ContextClosed, BrowserClosed, DriverStopped, playVars
<1>2. cleanup[s].at \in {"context", "browser", "driver"}
  BY DEF CleanupMoves, ContextClosed, BrowserClosed, DriverStopped
<1>3. ~overlapped' => ~overlapped /\ \A p \in Plays: ~Live(p)
  BY <1>1, <1>2 DEF IInv, SlotIsOwned, Busy
<1>4. app \in AppType /\ cleanup \in CleanupType /\ manager \in ManagerType
  BY DEF IInv, TypeOK, AppType, CleanupType, ManagerType
<1>5. /\ manager' \in ManagerType
      /\ drivers' \subseteq drivers /\ browsers' \subseteq browsers /\ contexts' \subseteq contexts
  BY <1>4 DEF CleanupMoves, ContextClosed, BrowserClosed, DriverStopped, ManagerType, Surviving
<1>6. app' \in AppType /\ cleanup' \in CleanupType
  <2>1. CASE ContextClosed(s)
    <3>1. [app EXCEPT !.context = NONE] \in AppType
      BY <1>4 DEF AppType
    <3> QED
      BY <1>4, <2>1, <3>1, CloseManagerTypes DEF ContextClosed
  <2>2. CASE BrowserClosed(s)
    BY <1>4, <1>5, <2>2, CloseManagerTypes DEF BrowserClosed
  <2>3. CASE DriverStopped(s)
    BY <1>4, <2>3 DEF DriverStopped, AppType, CleanupType
  <2> QED
    BY <2>1, <2>2, <2>3 DEF CleanupMoves
<1>7. TypeOK'
  BY <1>1, <1>5, <1>6 DEF IInv, TypeOK, playVars, AppType, CleanupType, ManagerType
<1> QED
  BY <1>1, <1>3, <1>7, SharedStep

\* _cleanup begins for a recording that is on, or when no play's task is left to cancel.
LEMMA BeginStep ==
    ASSUME IInv, NEW s \in Stops, BeginCleanup(s),
           ~overlapped => \A p \in Plays: ~Live(p)
    PROVE  IInv' /\ UNCHANGED ContractVars
<1>1. /\ UNCHANGED <<playVars, rec, shared>> /\ UNCHANGED <<life, at, held, spoiled>>
      /\ overlapped' = (overlapped \/ Busy)
  BY DEF BeginCleanup, playVars
<1>2. app \in AppType /\ cleanup \in CleanupType /\ manager \in ManagerType
  BY DEF IInv, TypeOK, AppType, CleanupType, ManagerType
<1>3. app' \in AppType /\ cleanup' \in CleanupType
  <2>1. CASE app.context # NONE
    BY <1>2, <2>1 DEF BeginCleanup, AppType, CleanupType
  <2>2. CASE app.context = NONE
    BY <1>2, <2>2, CloseManagerTypes DEF BeginCleanup
  <2> QED
    BY <2>1, <2>2
<1>4. overlapped' \in BOOLEAN
  BY <1>1 DEF IInv, TypeOK, Busy
<1>5. TypeOK'
  BY <1>1, <1>3, <1>4 DEF IInv, TypeOK, playVars, shared, AppType, CleanupType
<1>6. ~overlapped' => ~overlapped
  BY <1>1
<1> QED
  BY <1>1, <1>5, <1>6, SharedStep

\* A stop request that cancels a play's task.
LEMMA CancelStep ==
    ASSUME IInv, NEW s \in Stops, NEW p \in Plays, CancelFor(s, p)
    PROVE  IInv' /\ UNCHANGED ContractVars
<1>1. /\ cleanup[s].at = "new" /\ cleanup' = [cleanup EXCEPT ![s].at = "done"]
      /\ cancel' = [cancel EXCEPT ![p] = TRUE]
      /\ UNCHANGED <<app, life, at, held, late, watched, hung, spoiled, rec, shared, overlapped>>
  BY DEF CancelFor
<1>2. cancel' \in [Plays -> BOOLEAN]
  <2>1. cancel \in [Plays -> BOOLEAN]
    BY DEF IInv, TypeOK
  <2> QED
    BY <1>1, <2>1
<1>3. cleanup' \in CleanupType /\ \A t \in Stops: t # s => cleanup'[t] = cleanup[t]
  BY <1>1 DEF IInv, TypeOK, CleanupType
<1>4. cleanup'[s].at = "done"
  BY <1>1 DEF IInv, TypeOK
<1>5. TypeOK'
  BY <1>1, <1>2, <1>3 DEF IInv, TypeOK, shared, CleanupType
<1>6. Busy' => Busy
  BY <1>1, <1>3, <1>4 DEF Busy
<1> QED
  BY <1>1, <1>5, <1>6, SharedStep

LEMMA StopStep ==
    ASSUME IInv, NEW s \in Stops, StopCall(s)
    PROVE  IInv' /\ UNCHANGED ContractVars
<1>1. CASE \E r \in Recordings: StopRecording(s, r)
  <2>1. BeginCleanup(s) /\ app.state = "recording"
    BY <1>1 DEF StopRecording
  <2>2. ~overlapped => \A p \in Plays: ~Live(p)
    BY <2>1 DEF IInv, SlotIsOwned
  <2> QED
    BY <2>1, <2>2, BeginStep
<1>2. CASE \E p \in Plays: StopPlay(s, p)
  BY <1>2, CancelStep DEF StopPlay
<1>3. CASE ForceStop(s)
  <2>1. CASE app.task # NONE /\ at[app.task] # "ended"
    <3>1. app.task \in Plays
      BY <2>1 DEF IInv, TypeOK
    <3> QED
      BY <1>3, <2>1, <3>1, CancelStep DEF ForceStop
  <2>2. CASE ~(app.task # NONE /\ at[app.task] # "ended")
    <3>1. BeginCleanup(s)
      BY <1>3, <2>2 DEF ForceStop
    <3>2. ASSUME ~overlapped, NEW p \in Plays, Live(p)
          PROVE  FALSE
      <4>1. app.task = p /\ at[p] # "ended"
        BY <3>2 DEF IInv, SlotIsOwned, Live
      <4> QED
        BY <2>2, <4>1, SessionsAssumption
    <3> QED
      BY <3>1, <3>2, BeginStep
  <2> QED
    BY <2>1, <2>2
<1> QED
  BY <1>1, <1>2, <1>3 DEF StopCall

LEMMA Inductive ==
    ASSUME IInv, [Next]_vars PROVE IInv' /\ [Contract!Next]_ContractVars
<1>1. ASSUME NEW p \in Plays, RefusePlay(p) \/ Play(p) \/ Answer(p) \/ PlayMoves(p)
      PROVE  IInv' /\ Contract!Next
  <2>1. CASE RefusePlay(p) \/ Play(p) \/ Answer(p)
    BY <2>1, PlayStep
  <2>2. CASE Open(p) \/ OpenFails(p) \/ RunEnds(p) \/ Close(p)
    BY <2>2, MoveStep
  <2>3. CASE Interrupted(p)
    BY <2>3, InterruptStep
  <2>4. CASE Hang(p) \/ Deadline(p) \/ CancelOnDisconnect(p)
    BY <2>4, FlagStep
  <2> QED
    BY <1>1, <2>1, <2>2, <2>3, <2>4 DEF PlayMoves
<1>2. ASSUME NEW r \in Recordings, RefuseRecord(r) \/ Record(r) \/ RecordMoves(r)
      PROVE  IInv' /\ UNCHANGED ContractVars
  BY <1>2, RecordStep
<1>3. ASSUME NEW s \in Stops, StopCall(s) PROVE IInv' /\ UNCHANGED ContractVars
  BY <1>3, StopStep
<1>4. ASSUME NEW s \in Stops, CleanupMoves(s) PROVE IInv' /\ UNCHANGED ContractVars
  BY <1>4, CleanupStep
<1>5. CASE UNCHANGED vars
  <2>1. UNCHANGED <<app, life, at, held, cancel, late, watched, hung, spoiled, rec, shared,
                    cleanup, overlapped>>
    BY <1>5 DEF vars, playVars
  <2>2. TypeOK'
    BY <2>1 DEF IInv, TypeOK, shared
  <2> QED
    BY <2>1, <2>2, SharedStep DEF Busy
<1> DEFINE Goal == IInv' /\ [Contract!Next]_ContractVars
<1>6. ASSUME NEW p \in Plays, RefusePlay(p) \/ Play(p) \/ Answer(p) \/ PlayMoves(p)
      PROVE  Goal
  BY <1>1, <1>6
<1>7. ASSUME NEW r \in Recordings, RefuseRecord(r) \/ Record(r) \/ RecordMoves(r)
      PROVE  Goal
  BY <1>2, <1>7
<1>8. ASSUME NEW s \in Stops, StopCall(s) PROVE Goal
  BY <1>3, <1>8
<1>9. ASSUME NEW s \in Stops, CleanupMoves(s) PROVE Goal
  BY <1>4, <1>9
<1>10. UNCHANGED vars => Goal
  BY <1>5
<1> HIDE DEF Goal
<1>11. Requested => Goal
  <2>1. (\E p \in Plays: RefusePlay(p) \/ Play(p) \/ Answer(p)) => Goal
    BY <1>6
  <2>2. (\E r \in Recordings: RefuseRecord(r) \/ Record(r)) => Goal
    BY <1>7
  <2>3. (\E s \in Stops: StopCall(s)) => Goal
    BY <1>8
  <2> QED
    BY <2>1, <2>2, <2>3 DEF Requested
<1>12. Awaited => Goal
  <2>1. (\E p \in Plays: PlayMoves(p)) => Goal
    BY <1>6
  <2>2. (\E r \in Recordings: RecordMoves(r)) => Goal
    BY <1>7
  <2>3. (\E s \in Stops: CleanupMoves(s)) => Goal
    BY <1>9
  <2> QED
    BY <2>1, <2>2, <2>3 DEF Awaited
<1>13. Goal
  BY <1>10, <1>11, <1>12 DEF Next
<1> QED
  BY <1>13 DEF Goal
-----------------------------------------------------------------------------
THEOREM Invariance == Spec => []IInv
<1>1. Init => IInv
  BY Initially
<1>2. IInv /\ [Next]_vars => IInv'
  BY Inductive
<1> QED
  BY <1>1, <1>2, PTL DEF Spec

\* Types of the sidecar's state, for any plays, recordings and stop requests.
THEOREM TypeCorrect == Spec => []TypeOK
<1>1. IInv => TypeOK
  BY DEF IInv
<1> QED
  BY Invariance, <1>1, PTL

\* While a play's task is not over the state is "playing" and names it, whatever late answers,
\* stops and clean-ups do, if no start or clean-up ran beside another request (main.py:266-299).
THEOREM SlotIsKept == Spec => []SlotIsHeld
<1>1. IInv => SlotIsHeld
  BY DEF IInv, SlotIsOwned, SlotIsHeld
<1> QED
  BY Invariance, <1>1, PTL

\* The sidecar implements PlayContract: each play is refused, or answered once after all it opened
\* was closed, for any number of plays, recordings and stops beside it (main.py:67-90, 258-307).
THEOREM ContractIsKept == Spec => PlaysKeepContract
<1>1. Init => Contract!Init
  BY Initially
<1>2. IInv /\ [Next]_vars => [Contract!Next]_<<life, held, spoiled>>
  BY Inductive DEF ContractVars
<1> QED
  BY <1>1, <1>2, Invariance, PTL DEF Spec, PlaysKeepContract, Contract!Spec
-----------------------------------------------------------------------------
(* What is open *)

Cleaning(s) == cleanup[s].at \in {"context", "browser", "driver"}

\* Recordings whose start failed half way, and what they may have left open.
Failed == {r \in Recordings: rec[r] = "failed"}
OnlyOpen(R) == drivers \cup browsers \cup contexts \subseteq Failed \cup R

\* The manager knows of the browser and the driver that r started, while they are up.
Traced(r) ==
    /\ r \in browsers => manager.browser = r
    /\ r \in drivers => manager.driver = r

\* One start or one clean-up at a time.
OneBusy ==
    /\ \A r, q \in Recordings: rec[r] \in Starting /\ rec[q] \in Starting => r = q
    /\ \A s, t \in Stops: Cleaning(s) /\ Cleaning(t) => s = t
    /\ \A r \in Recordings, s \in Stops: rec[r] \in Starting => ~Cleaning(s)

\* What a start may have open, beside what earlier failures left.
StartIsKnown ==
    \A r \in Recordings:
        rec[r] \in Starting => app.state # "recording" /\ OnlyOpen({r}) /\ Traced(r)

\* What is open while a recording is on: its own, and what earlier failures left.
SessionIsKnown ==
    app.state = "recording" =>
        /\ app.session \in Recordings
        /\ OnlyOpen({app.session}) /\ Traced(app.session)
        /\ \A p \in Plays: life[p] # "waiting"
        /\ (\A s \in Stops: ~Cleaning(s)) => app.context = app.session

\* What the clean-up of a recording has closed by each of its awaits.
CleanupIsKnown ==
    app.state = "recording" =>
        \A s \in Stops:
            LET c == cleanup[s] IN
            /\ c.at = "context" => c.what = app.session
            /\ c.at \in {"browser", "driver"} => app.context = NONE /\ app.session \notin contexts
            /\ c.at = "browser" => c.what = manager.browser
            /\ c.at = "driver" => c.what = manager.driver /\ manager.browser = NONE

\* Without a recording nothing is open but what failures left.
RestIsKnown ==
    app.state # "recording" =>
        /\ app.context = NONE
        /\ (\A r \in Recordings: rec[r] \notin Starting) => OnlyOpen({})

Known == OneBusy /\ StartIsKnown /\ SessionIsKnown /\ CleanupIsKnown /\ RestIsKnown

\* Unless requests overlapped, it is known what is open.
OpenIsKnown == ~overlapped => Known

\* What starts and cleans up nothing, and leaves the shared browser alone.
LEMMA OtherStep ==
    ASSUME Known, UNCHANGED <<drivers, browsers, contexts, manager>>,
           app'.state = app.state, app'.context = app.context, app'.session = app.session,
           \A r \in Recordings: rec'[r] = rec[r]
               \/ {rec[r], rec'[r]} \cap (Starting \cup {"failed"}) = {},
           \A s \in Stops: cleanup'[s] = cleanup[s] \/ (~Cleaning(s) /\ ~Cleaning(s)'),
           app.state = "recording" =>
               \A p \in Plays: life'[p] = "waiting" => life[p] = "waiting"
    PROVE  Known'
<1>1. /\ \A r \in Recordings: rec'[r] \in Starting <=> rec[r] \in Starting
      /\ \A r \in Recordings: rec'[r] = "failed" <=> rec[r] = "failed"
  OBVIOUS
<1>2. /\ \A s \in Stops: Cleaning(s)' <=> Cleaning(s)
      /\ \A s \in Stops: Cleaning(s)' => cleanup'[s] = cleanup[s]
  BY DEF Cleaning
<1>3. Failed' = Failed
  BY <1>1 DEF Failed
<1>4. /\ \A R: OnlyOpen(R)' <=> OnlyOpen(R)
      /\ \A r: Traced(r)' <=> Traced(r)
  BY <1>3 DEF OnlyOpen, Traced
<1>5. OneBusy'
  BY <1>1, <1>2 DEF Known, OneBusy
<1>6. StartIsKnown'
  BY <1>1, <1>4 DEF Known, StartIsKnown
<1>7. CleanupIsKnown'
  <2>1. \A s \in Stops: cleanup'[s].at \in {"context", "browser", "driver"} =>
                            cleanup'[s] = cleanup[s]
    BY <1>2 DEF Cleaning
  <2> QED
    BY <2>1 DEF Known, CleanupIsKnown
<1>8. SessionIsKnown'
  <2>1. OnlyOpen({app.session})' <=> OnlyOpen({app.session})
    BY <1>3 DEF OnlyOpen
  <2>2. Traced(app.session)' <=> Traced(app.session)
    BY DEF Traced
  <2> QED
    BY <1>2, <2>1, <2>2 DEF Known, SessionIsKnown
<1>9. RestIsKnown'
  BY <1>1, <1>4 DEF Known, RestIsKnown
<1> QED
  BY <1>5, <1>6, <1>7, <1>8, <1>9 DEF Known

\* A start that begins, goes on or fails.
LEMMA StartIsTracked ==
    ASSUME IInv, Known, ~overlapped, ~overlapped', NEW r \in Recordings,
           Record(r) \/ (RecordMoves(r) /\ ~AnswerIsDue)
    PROVE  Known'
<1>1. /\ UNCHANGED <<playVars, cleanup>> /\ life' = life
      /\ rec \in [Recordings -> {"new", "refused", "started", "failed"} \cup Starting]
  BY DEF Record, RecordMoves, DriverStarted, BrowserStarted, ContextOpened, RecordStarted,
         RecordFails, playVars, IInv, TypeOK
<1>2. \A s \in Stops: Cleaning(s)' <=> Cleaning(s)
  BY <1>1 DEF Cleaning
<1>3. /\ app.state # "recording" /\ app.context = NONE /\ OnlyOpen({r})
      /\ \A q \in Recordings: rec[q] \in Starting => q = r
      /\ \A s \in Stops: ~Cleaning(s)
      /\ rec[r] # "failed"
      /\ Traced(r)
  <2>1. CASE Record(r)
    <3>1. ~Busy /\ app.state = "idle" /\ rec[r] = "new"
      BY <2>1 DEF Record
    <3>2. app.context = NONE /\ OnlyOpen({})
      BY <3>1 DEF Known, RestIsKnown, Busy
    <3>3. r \notin drivers \cup browsers \cup contexts
      BY <3>1, <3>2 DEF OnlyOpen, Failed
    <3> QED
      BY <3>1, <3>2, <3>3 DEF Busy, Cleaning, OnlyOpen, Traced
  <2>2. CASE RecordMoves(r)
    <3>1. rec[r] \in Starting
      BY <2>2 DEF RecordMoves, DriverStarted, BrowserStarted, ContextOpened, RecordStarted,
                  RecordFails, Starting
    <3> QED
      BY <3>1 DEF Known, StartIsKnown, OneBusy, RestIsKnown, Starting
  <2> QED
    BY <2>1, <2>2
<1>4. ASSUME NEW place \in Starting, rec' = [rec EXCEPT ![r] = place], app' = app,
             OnlyOpen({r})', Traced(r)'
      PROVE  Known'
  <2>1. /\ \A q \in Recordings: rec'[q] \in Starting => q = r
        /\ rec'[r] \in Starting
    BY <1>1, <1>3, <1>4
  <2>2. OneBusy' /\ StartIsKnown'
    BY <1>2, <1>3, <1>4, <2>1 DEF OneBusy, StartIsKnown
  <2>3. SessionIsKnown' /\ CleanupIsKnown' /\ RestIsKnown'
    BY <1>3, <1>4, <2>1 DEF SessionIsKnown, CleanupIsKnown, RestIsKnown
  <2> QED
    BY <2>2, <2>3 DEF Known
<1>5. ASSUME NEW place \in Starting, rec' = [rec EXCEPT ![r] = place]
      PROVE  Failed' = Failed
  BY <1>1, <1>3, <1>5 DEF Failed, Starting
<1>6. CASE Record(r)
  <2>1. UNCHANGED <<app, drivers, browsers, contexts, manager>>
    BY <1>6 DEF Record
  <2>2. PICK place \in Starting: rec' = [rec EXCEPT ![r] = place]
    BY <1>6 DEF Record, Starting
  <2>3. OnlyOpen({r})' /\ Traced(r)'
    BY <1>3, <1>5, <2>1, <2>2 DEF OnlyOpen, Traced
  <2> QED
    BY <1>4, <2>1, <2>2, <2>3
<1>7. CASE DriverStarted(r)
  <2>1. /\ rec' = [rec EXCEPT ![r] = "browser"] /\ "browser" \in Starting
        /\ app' = app /\ drivers' = drivers \cup {r} /\ UNCHANGED <<browsers, contexts>>
        /\ manager' = [manager EXCEPT !.driver = r]
    BY <1>7 DEF DriverStarted, Starting
  <2>2. manager'.driver = r /\ manager'.browser = manager.browser
    BY <2>1 DEF IInv, TypeOK
  <2>3. OnlyOpen({r})' /\ Traced(r)'
    BY <1>3, <1>5, <2>1, <2>2 DEF OnlyOpen, Traced
  <2> QED
    BY <1>4, <2>1, <2>3
<1>8. CASE BrowserStarted(r)
  <2>1. /\ rec' = [rec EXCEPT ![r] = "opening"] /\ "opening" \in Starting
        /\ app' = app /\ browsers' = browsers \cup {r} /\ UNCHANGED <<drivers, contexts>>
        /\ manager' = [manager EXCEPT !.browser = r]
    BY <1>8 DEF BrowserStarted, Starting
  <2>2. manager'.browser = r /\ manager'.driver = manager.driver
    BY <2>1 DEF IInv, TypeOK
  <2>3. OnlyOpen({r})' /\ Traced(r)'
    BY <1>3, <1>5, <2>1, <2>2 DEF OnlyOpen, Traced
  <2> QED
    BY <1>4, <2>1, <2>3
<1>9. CASE ContextOpened(r)
  <2>1. /\ rec' = [rec EXCEPT ![r] = "loading"] /\ "loading" \in Starting
        /\ app' = app /\ contexts' = contexts \cup {r} /\ UNCHANGED <<drivers, browsers, manager>>
    BY <1>9 DEF ContextOpened, Starting
  <2>2. OnlyOpen({r})' /\ Traced(r)'
    BY <1>3, <1>5, <2>1 DEF OnlyOpen, Traced
  <2> QED
    BY <1>4, <2>1, <2>2
<1>10. CASE RecordStarted(r) /\ ~AnswerIsDue
  <2>1. /\ rec' = [rec EXCEPT ![r] = "started"] /\ rec[r] = "loading"
        /\ app' = [app EXCEPT !.state = "recording", !.session = r, !.context = r]
        /\ UNCHANGED <<drivers, browsers, contexts, manager>>
    BY <1>10 DEF RecordStarted, shared
  <2>2. app'.state = "recording" /\ app'.context = r /\ app'.session = r
    BY <2>1 DEF IInv, TypeOK
  <2>3. \A q \in Recordings: rec'[q] \notin Starting
    BY <1>1, <1>3, <2>1 DEF Starting
  <2>4. Failed' = Failed
    BY <1>1, <2>1 DEF Failed
  <2>5. OnlyOpen({r})' /\ Traced(r)'
    BY <1>3, <2>1, <2>4 DEF OnlyOpen, Traced
  <2>6. OnlyOpen({app.session})' /\ Traced(app.session)'
    BY <2>2, <2>5 DEF OnlyOpen, Traced
  <2>7. \A p \in Plays: life'[p] # "waiting"
    <3>1. \A p \in Plays: ~Live(p)
      BY <2>1 DEF IInv, SlotIsOwned, Busy, Starting
    <3> QED
      BY <1>1, <1>10, <3>1 DEF AnswerIsDue, Live
  <2>8. SessionIsKnown'
    BY <2>2, <2>6, <2>7 DEF SessionIsKnown
  <2>9. OneBusy' /\ StartIsKnown' /\ RestIsKnown'
    BY <1>2, <1>3, <2>2, <2>3 DEF OneBusy, StartIsKnown, RestIsKnown
  <2>10. CleanupIsKnown'
    BY <1>2, <1>3 DEF CleanupIsKnown, Cleaning
  <2> QED
    BY <2>8, <2>9, <2>10 DEF Known
<1>11. CASE RecordFails(r)
  <2>1. /\ rec' = [rec EXCEPT ![r] = "failed"]
        /\ UNCHANGED <<app, drivers, browsers, contexts, manager>>
    BY <1>11 DEF RecordFails, shared
  <2>2. \A q \in Recordings: rec'[q] \notin Starting
    BY <1>1, <1>3, <2>1 DEF Starting
  <2>3. Failed' = Failed \cup {r}
    BY <1>1, <2>1 DEF Failed
  <2>4. OnlyOpen({})'
    BY <1>3, <2>1, <2>3 DEF OnlyOpen
  <2>5. OneBusy' /\ StartIsKnown'
    BY <1>2, <1>3, <2>2 DEF OneBusy, StartIsKnown
  <2>6. SessionIsKnown' /\ CleanupIsKnown' /\ RestIsKnown'
    BY <1>3, <2>1, <2>4 DEF SessionIsKnown, CleanupIsKnown, RestIsKnown
  <2> QED
    BY <2>5, <2>6 DEF Known
<1> QED
  BY <1>6, <1>7, <1>8, <1>9, <1>10, <1>11 DEF RecordMoves

\* The end of a clean-up: whoever was recorded has nothing open any more.
LEMMA EndIsTracked ==
    ASSUME NEW s \in Stops, life' = life, rec' = rec,
           \A r \in Recordings: rec[r] \notin Starting,
           \A t \in Stops: ~Cleaning(t)',
           app'.state # "recording", app'.context = NONE, OnlyOpen({})'
    PROVE  Known'
<1>1. OneBusy' /\ StartIsKnown'
  BY DEF OneBusy, StartIsKnown
<1>2. SessionIsKnown' /\ CleanupIsKnown' /\ RestIsKnown'
  BY DEF SessionIsKnown, CleanupIsKnown, RestIsKnown
<1> QED
  BY <1>1, <1>2 DEF Known

\* From here on what the clean-up s knows to be open is closed: its next await has something
\* left, or everything is closed and the state is idle.
LEMMA CloseIsTracked ==
    ASSUME IInv, NEW s \in Stops, NEW state \in AppType, state.context = NONE,
           CloseManager(s, manager', state), life' = life, rec' = rec,
           \A r \in Recordings: rec[r] \notin Starting,
           \A t \in Stops: t # s => ~Cleaning(t),
           \/ state.state # "recording" /\ OnlyOpen({})'
           \/ /\ state.state = "recording" /\ state.session \in Recordings
              /\ OnlyOpen({state.session})' /\ Traced(state.session)'
              /\ state.session \notin contexts'
              /\ \A p \in Plays: life[p] # "waiting"
    PROVE  Known'
<1>1. cleanup \in CleanupType
  BY DEF IInv, TypeOK, CleanupType
<1>2. ASSUME NEW place \in {"browser", "driver", "done"}, NEW what,
             cleanup' = [cleanup EXCEPT ![s] = [at |-> place, what |-> what]]
      PROVE  /\ cleanup'[s].at = place /\ cleanup'[s].what = what
             /\ \A t \in Stops: t # s => ~Cleaning(t)'
  BY <1>1, <1>2 DEF CleanupType, Cleaning
<1>3. ASSUME NEW place \in {"browser", "driver"}, NEW what, app' = state,
             cleanup' = [cleanup EXCEPT ![s] = [at |-> place, what |-> what]],
             place = "browser" => what = manager'.browser,
             place = "driver" => what = manager'.driver /\ manager'.browser = NONE
      PROVE  Known'
  <2>1. /\ cleanup'[s].at = place /\ cleanup'[s].what = what
        /\ \A t \in Stops: t # s => ~Cleaning(t)'
    BY <1>2, <1>3
  <2>2. Cleaning(s)'
    BY <2>1 DEF Cleaning
  <2>3. OneBusy' /\ StartIsKnown'
    BY <2>1 DEF OneBusy, StartIsKnown
  <2>4. CleanupIsKnown'
    <3> SUFFICES ASSUME app'.state = "recording", NEW t \in Stops
                 PROVE  LET c == cleanup'[t] IN
                        /\ c.at = "context" => c.what = app'.session
                        /\ c.at \in {"browser", "driver"} =>
                               app'.context = NONE /\ app'.session \notin contexts'
                        /\ c.at = "browser" => c.what = manager'.browser
                        /\ c.at = "driver" => c.what = manager'.driver /\ manager'.browser = NONE
      BY DEF CleanupIsKnown
    <3>1. CASE t = s
      BY <1>3, <2>1, <3>1
    <3>2. CASE t # s
      BY <2>1, <3>2 DEF Cleaning
    <3> QED
      BY <3>1, <3>2
  <2>5. SessionIsKnown'
    <3>1. app'.state = "recording" =>
            OnlyOpen({app.session})' /\ Traced(app.session)' /\ app'.session \in Recordings
              /\ \A p \in Plays: life'[p] # "waiting"
      BY <1>3 DEF OnlyOpen, Traced
    <3> QED
      BY <2>2, <3>1 DEF SessionIsKnown
  <2>6. RestIsKnown'
    BY <1>3 DEF RestIsKnown
  <2> QED
    BY <2>3, <2>4, <2>5, <2>6 DEF Known
<1>4. CASE /\ manager'.browser # NONE
           /\ cleanup' = [cleanup EXCEPT ![s] = [at |-> "browser", what |-> manager'.browser]]
           /\ app' = state
  BY <1>3, <1>4
<1>5. CASE /\ manager'.browser = NONE
           /\ manager'.driver # NONE
           /\ cleanup' = [cleanup EXCEPT ![s] = [at |-> "driver", what |-> manager'.driver]]
           /\ app' = state
  BY <1>3, <1>5
<1>6. CASE /\ manager'.browser = NONE
           /\ manager'.driver = NONE
           /\ cleanup' = [cleanup EXCEPT ![s] = [at |-> "done", what |-> NONE]]
           /\ app' = [state EXCEPT !.state = "idle", !.session = NONE]
  <2>1. app'.state = "idle" /\ app'.context = NONE
    BY <1>6 DEF AppType
  <2>2. \A t \in Stops: ~Cleaning(t)'
    BY <1>2, <1>6 DEF Cleaning
  <2>3. OnlyOpen({})'
    <3>1. ASSUME state.state = "recording" PROVE OnlyOpen({})'
      <4>1. state.session # NONE
        BY <3>1, SessionsAssumption DEF SessionsAssumption
      <4>2. state.session \notin browsers' /\ state.session \notin drivers'
        BY <1>6, <3>1, <4>1 DEF Traced
      <4> QED
        BY <3>1, <4>2 DEF OnlyOpen
    <3> QED
      BY <3>1
  <2> QED
    BY <2>1, <2>2, <2>3, EndIsTracked
<1> QED
  BY <1>4, <1>5, <1>6 DEF CloseManager

\* A clean-up begins when nothing is being started or cleaned up.
LEMMA BeginIsTracked ==
    ASSUME IInv, Known, ~overlapped', NEW s \in Stops, BeginCleanup(s)
    PROVE  Known'
<1>1. ~Busy /\ UNCHANGED <<life, rec, drivers, browsers, contexts, manager>>
  BY DEF BeginCleanup, playVars, shared
<1>2. /\ \A r \in Recordings: rec[r] \notin Starting
      /\ \A t \in Stops: ~Cleaning(t)
  BY <1>1 DEF Busy, Cleaning
<1>3. app \in AppType /\ cleanup \in CleanupType
  BY DEF IInv, TypeOK, AppType, CleanupType
<1>4. Failed' = Failed
  BY <1>1 DEF Failed
<1>5. CASE app.state = "recording"
  <2> DEFINE c == app.session
  <2>1. app.context = c /\ c \in Recordings /\ c # NONE /\ OnlyOpen({c}) /\ Traced(c)
          /\ \A p \in Plays: life[p] # "waiting"
    BY <1>2, <1>5, SessionsAssumption DEF Known, SessionIsKnown, SessionsAssumption
  <2>2. cleanup' = [cleanup EXCEPT ![s] = [at |-> "context", what |-> c]] /\ app' = app
    BY <2>1 DEF BeginCleanup
  <2>3. /\ cleanup'[s].at = "context" /\ cleanup'[s].what = c
        /\ \A t \in Stops: t # s => ~Cleaning(t)'
    BY <1>2, <1>3, <2>2 DEF CleanupType, Cleaning
  <2>4. OneBusy' /\ StartIsKnown' /\ Cleaning(s)'
    BY <1>1, <1>2, <2>3 DEF OneBusy, StartIsKnown, Cleaning
  <2>5. OnlyOpen({app.session})' /\ Traced(app.session)'
    BY <1>1, <1>4, <2>1, <2>2 DEF OnlyOpen, Traced
  <2>6. SessionIsKnown' /\ RestIsKnown'
    BY <1>1, <1>5, <2>1, <2>2, <2>4, <2>5 DEF SessionIsKnown, RestIsKnown
  <2>7. CleanupIsKnown'
    BY <2>2, <2>3 DEF CleanupIsKnown, Cleaning
  <2> QED
    BY <2>4, <2>6, <2>7 DEF Known
<1>6. CASE app.state # "recording"
  <2>1. app.context = NONE /\ OnlyOpen({})
    BY <1>2, <1>6 DEF Known, RestIsKnown
  <2>2. CloseManager(s, manager, app) /\ manager' = manager
    BY <1>1, <2>1 DEF BeginCleanup
  <2>3. OnlyOpen({})'
    BY <1>1, <1>4, <2>1 DEF OnlyOpen
  <2>4. CloseManager(s, manager', app)
    BY <2>2
  <2> QED
    BY <1>1, <1>2, <1>3, <1>6, <2>1, <2>3, <2>4, CloseIsTracked
<1> QED
  BY <1>5, <1>6

\* A clean-up that goes on closes what it knows of.
LEMMA CleanupIsTracked ==
    ASSUME IInv, Known, NEW s \in Stops, CleanupMoves(s)
    PROVE  Known'
<1>1. /\ Cleaning(s)
      /\ UNCHANGED <<life, rec>>
      /\ drivers' \subseteq drivers /\ browsers' \subseteq browsers /\ contexts' \subseteq contexts
  BY DEF CleanupMoves, ContextClosed, BrowserClosed, DriverStopped, Cleaning, playVars, Surviving
<1>2. app \in AppType /\ cleanup \in CleanupType /\ manager \in ManagerType
  BY DEF IInv, TypeOK, AppType, CleanupType, ManagerType
<1>3. /\ \A r \in Recordings: rec[r] \notin Starting
      /\ \A t \in Stops: t # s => ~Cleaning(t)
  BY <1>1 DEF Known, OneBusy
<1>4. Failed' = Failed /\ \A R: OnlyOpen(R) => OnlyOpen(R)'
  BY <1>1 DEF Failed, OnlyOpen
<1>5. CASE app.state # "recording"
  <2>1. app.context = NONE /\ OnlyOpen({})'
    BY <1>3, <1>4, <1>5 DEF Known, RestIsKnown
  <2>2. CASE ContextClosed(s) \/ BrowserClosed(s)
    <3>1. \E state \in {app, [app EXCEPT !.context = NONE]}: CloseManager(s, manager', state)
      BY <2>2 DEF ContextClosed, BrowserClosed
    <3>2. PICK state \in AppType: /\ state.context = NONE /\ state.state # "recording"
                                  /\ CloseManager(s, manager', state)
      BY <1>2, <1>5, <2>1, <3>1 DEF AppType
    <3> QED
      BY <1>1, <1>3, <2>1, <3>2, CloseIsTracked
  <2>3. CASE DriverStopped(s)
    <3>1. /\ cleanup' = [cleanup EXCEPT ![s] = [at |-> "done", what |-> NONE]]
          /\ app' = [app EXCEPT !.state = "idle", !.session = NONE]
      BY <2>3 DEF DriverStopped
    <3>2. app'.state = "idle" /\ app'.context = NONE /\ \A t \in Stops: ~Cleaning(t)'
      BY <1>2, <1>3, <2>1, <3>1 DEF AppType, CleanupType, Cleaning
    <3> QED
      BY <1>1, <1>3, <2>1, <3>2, EndIsTracked
  <2> QED
    BY <2>2, <2>3 DEF CleanupMoves
<1>6. CASE app.state = "recording"
  <2> PICK c: c = app.session
    OBVIOUS
  <2>1. /\ c \in Recordings /\ OnlyOpen({c}) /\ Traced(c) /\ c # NONE
        /\ \A p \in Plays: life[p] # "waiting"
    BY <1>6, SessionsAssumption DEF Known, SessionIsKnown, SessionsAssumption
  <2>2. OnlyOpen({c})'
    BY <1>4, <2>1
  <2>3. ASSUME NEW state \in AppType, state.context = NONE, state.state = "recording",
               state.session = c, CloseManager(s, manager', state), Traced(c)', c \notin contexts'
        PROVE  Known'
    BY <1>1, <1>3, <2>1, <2>2, <2>3, CloseIsTracked
  <2>4. CASE ContextClosed(s)
    <3>1. cleanup[s].what = c
      BY <1>6, <2>4 DEF ContextClosed, Known, CleanupIsKnown
    <3>2. PICK state \in AppType: /\ state.context = NONE /\ state.state = "recording"
                                  /\ state.session = c /\ CloseManager(s, manager', state)
      <4>1. CloseManager(s, manager', [app EXCEPT !.context = NONE])
        BY <2>4 DEF ContextClosed
      <4> QED
        BY <1>2, <1>6, <4>1 DEF AppType
    <3>3. Traced(c)' /\ c \notin contexts'
      BY <2>1, <2>4, <3>1 DEF ContextClosed, Traced
    <3> QED
      BY <2>3, <3>2, <3>3
  <2>5. CASE BrowserClosed(s)
    <3>1. cleanup[s].what = manager.browser /\ app.context = NONE /\ c \notin contexts
      BY <1>6, <2>5 DEF BrowserClosed, Known, CleanupIsKnown
    <3>2. PICK state \in AppType: /\ state.context = NONE /\ state.state = "recording"
                                  /\ state.session = c /\ CloseManager(s, manager', state)
      BY <1>2, <1>6, <2>5, <3>1 DEF BrowserClosed
    <3>3. manager'.driver = manager.driver /\ drivers' = drivers
      BY <1>2, <2>5 DEF BrowserClosed, ManagerType
    <3>4. c \notin browsers'
      BY <2>1, <2>5, <3>1 DEF BrowserClosed, Traced
    <3>5. Traced(c)' /\ c \notin contexts'
      BY <1>1, <2>1, <3>1, <3>3, <3>4 DEF Traced
    <3> QED
      BY <2>3, <3>2, <3>5
  <2>6. CASE DriverStopped(s)
    <3>1. /\ cleanup[s].what = manager.driver /\ manager.browser = NONE
          /\ app.context = NONE /\ c \notin contexts
      BY <1>6, <2>6 DEF DriverStopped, Known, CleanupIsKnown
    <3>2. c \notin drivers' /\ c \notin browsers' /\ c \notin contexts'
      BY <1>1, <2>1, <2>6, <3>1 DEF DriverStopped, Traced
    <3>3. OnlyOpen({})'
      BY <2>2, <3>2 DEF OnlyOpen
    <3>4. /\ cleanup' = [cleanup EXCEPT ![s] = [at |-> "done", what |-> NONE]]
          /\ app' = [app EXCEPT !.state = "idle", !.session = NONE]
      BY <2>6 DEF DriverStopped
    <3>5. app'.state = "idle" /\ app'.context = NONE /\ \A t \in Stops: ~Cleaning(t)'
      BY <1>2, <1>3, <3>1, <3>4 DEF AppType, CleanupType, Cleaning
    <3> QED
      BY <1>1, <1>3, <3>3, <3>5, EndIsTracked
  <2> QED
    BY <2>4, <2>5, <2>6 DEF CleanupMoves
<1> QED
  BY <1>5, <1>6

\* A play begins, goes on or is answered: the recordings' browser is left alone.
LEMMA PlayIsTracked ==
    ASSUME IInv, Known, ~overlapped', NEW p \in Plays,
           RefusePlay(p) \/ Play(p) \/ Answer(p) \/ PlayMoves(p)
    PROVE  Known'
<1>1. UNCHANGED <<rec, manager, drivers, browsers, contexts, cleanup>>
  BY DEF RefusePlay, Play, Answer, PlayMoves, Open, OpenFails, RunEnds, Hang, Close, Interrupted,
         Deadline, CancelOnDisconnect, shared
<1>2. app \in AppType
  BY DEF IInv, TypeOK, AppType
<1>3. CASE RefusePlay(p) \/ PlayMoves(p)
  <2>1. app' = app /\ \A q \in Plays: life'[q] = "waiting" => life[q] = "waiting"
    BY <1>3 DEF IInv, TypeOK, RefusePlay, PlayMoves, Open, OpenFails, RunEnds, Hang, Close,
                Interrupted, Deadline, CancelOnDisconnect
  <2> QED
    BY <1>1, <2>1, OtherStep
<1>4. /\ Failed' = Failed /\ (\A R: OnlyOpen(R)' <=> OnlyOpen(R))
      /\ (\A r: Traced(r)' <=> Traced(r)) /\ (\A s: Cleaning(s)' <=> Cleaning(s))
  BY <1>1 DEF Failed, OnlyOpen, Traced, Cleaning
<1>5. ASSUME app.state # "recording", app'.state # "recording", app'.context = app.context
      PROVE  Known'
  <2>1. OneBusy' /\ StartIsKnown'
    BY <1>1, <1>4, <1>5 DEF Known, OneBusy, StartIsKnown
  <2>2. SessionIsKnown' /\ CleanupIsKnown'
    BY <1>5 DEF SessionIsKnown, CleanupIsKnown
  <2>3. RestIsKnown'
    BY <1>1, <1>4, <1>5 DEF Known, RestIsKnown
  <2> QED
    BY <2>1, <2>2, <2>3 DEF Known
<1>6. CASE Play(p)
  <2>1. app.state = "idle" /\ app'.state = "playing" /\ app'.context = app.context
    BY <1>2, <1>6 DEF Play, AppType
  <2> QED
    BY <1>5, <2>1
<1>7. CASE Answer(p)
  <2>1. app.state # "recording"
    BY <1>7 DEF Answer, Known, SessionIsKnown
  <2>2. app'.context = app.context /\ app'.state \in {app.state, "idle"}
    BY <1>2, <1>7 DEF Answer, AppType, Idle
  <2> QED
    BY <1>5, <2>1, <2>2
<1> QED
  BY <1>3, <1>6, <1>7

LEMMA KnownStep == IInv /\ OpenIsKnown /\ [Next]_vars => OpenIsKnown'
<1> SUFFICES ASSUME IInv, OpenIsKnown, [Next]_vars, ~overlapped' PROVE Known'
  BY DEF OpenIsKnown
<1>1. overlapped' = overlapped \/ overlapped' = (overlapped \/ Busy)
  BY DEF Next, Requested, Awaited, RefusePlay, Play, Answer, PlayMoves, Open, OpenFails,
         RunEnds, Hang, Close, Interrupted, Deadline, CancelOnDisconnect, RefuseRecord, Record,
         RecordMoves, DriverStarted, BrowserStarted, ContextOpened, RecordStarted, RecordFails,
         StopCall, StopRecording, StopPlay, ForceStop, CancelFor, BeginCleanup, CleanupMoves,
         ContextClosed, BrowserClosed, DriverStopped, vars
<1>2. ~overlapped
  BY <1>1
<1>3. Known
  BY <1>2 DEF OpenIsKnown
<1>4. ASSUME NEW p \in Plays, RefusePlay(p) \/ Play(p) \/ Answer(p) \/ PlayMoves(p)
      PROVE  Known'
  BY <1>3, <1>4, PlayIsTracked
<1>5. ASSUME NEW r \in Recordings, Record(r) \/ (RecordMoves(r) /\ ~AnswerIsDue)
      PROVE  Known'
  BY <1>2, <1>3, <1>5, StartIsTracked
<1>6. ASSUME NEW r \in Recordings, RefuseRecord(r)
      PROVE  Known'
  <2>1. /\ rec[r] = "new" /\ rec' = [rec EXCEPT ![r] = "refused"]
        /\ UNCHANGED <<app, life, drivers, browsers, contexts, manager, cleanup>>
    BY <1>6 DEF RefuseRecord, playVars, shared
  <2>2. \A q \in Recordings: rec'[q] = rec[q]
            \/ {rec[q], rec'[q]} \cap (Starting \cup {"failed"}) = {}
    BY <2>1 DEF IInv, TypeOK, Starting
  <2> QED
    BY <1>3, <2>1, <2>2, OtherStep
<1>7. ASSUME NEW s \in Stops, StopCall(s)
      PROVE  Known'
  <2>1. CASE BeginCleanup(s)
    BY <1>3, <2>1, BeginIsTracked
  <2>2. CASE \E p: CancelFor(s, p)
    <3>1. /\ cleanup[s].at = "new" /\ cleanup' = [cleanup EXCEPT ![s].at = "done"]
          /\ UNCHANGED <<app, life, rec, drivers, browsers, contexts, manager>>
      BY <2>2 DEF CancelFor, shared
    <3>2. \A t \in Stops: cleanup'[t] = cleanup[t] \/ (~Cleaning(t) /\ ~Cleaning(t)')
      BY <3>1 DEF IInv, TypeOK, Cleaning
    <3> QED
      BY <1>3, <3>1, <3>2, OtherStep
  <2> QED
    BY <1>7, <2>1, <2>2 DEF StopCall, StopRecording, StopPlay, ForceStop
<1>8. ASSUME NEW s \in Stops, CleanupMoves(s)
      PROVE  Known'
  BY <1>3, <1>8, CleanupIsTracked
<1>9. CASE UNCHANGED vars
  BY <1>3, <1>9, OtherStep DEF vars, playVars, shared
<1> HIDE DEF Known
<1> QED
  BY <1>4, <1>5, <1>6, <1>7, <1>8, <1>9 DEF Next, Requested, Awaited

\* The sidecar at rest has nothing open, for any number of plays, recordings and stop requests that
\* did not overlap: no play holds anything unless a cancellation hit its closing, and the drivers,
\* browsers and contexts left are those of recordings whose start failed (main.py:67-90, 171-183).
THEOREM RestIsClean == Spec => []IdleIsClean
<1>1. Init => OpenIsKnown
  <2> SUFFICES ASSUME Init PROVE Known
    BY DEF OpenIsKnown
  <2>1. /\ app.state = "idle" /\ app.context = NONE /\ OnlyOpen({})
        /\ (\A s \in Stops: ~Cleaning(s)) /\ (\A r \in Recordings: rec[r] \notin Starting)
    BY DEF Init, Idle, OnlyOpen, Cleaning, Starting
  <2> QED
    BY <2>1 DEF Known, OneBusy, StartIsKnown, SessionIsKnown, CleanupIsKnown, RestIsKnown
<1>2. IInv /\ OpenIsKnown => IdleIsClean
  <2> SUFFICES ASSUME IInv, OpenIsKnown, ~overlapped, app.state = "idle",
                      ~\E r \in Recordings: rec[r] \in Starting
               PROVE  /\ \A p \in Plays: held[p] = {} \/ spoiled[p]
                      /\ \A r \in browsers \cup drivers \cup contexts: rec[r] = "failed"
    BY DEF IdleIsClean
  <2>1. ASSUME NEW p \in Plays PROVE held[p] = {} \/ spoiled[p]
    <3>1. ~Live(p)
      BY DEF IInv, SlotIsOwned
    <3>2. at[p] \in {"none", "ended"}
      BY <3>1 DEF IInv, HasTask, Live
    <3> QED
      BY <3>2 DEF IInv, HeldByPlace, Has
  <2>2. OnlyOpen({})
    BY DEF OpenIsKnown, Known, RestIsKnown
  <2> QED
    BY <2>1, <2>2 DEF OnlyOpen, Failed
<1> QED
  BY <1>1, <1>2, KnownStep, Invariance, PTL DEF Spec
-----------------------------------------------------------------------------
(* The recorder *)

\* A document has the listeners once, a task that waits to inject is that of a document that
\* was loaded, nothing is heard before its time, and what answers has stopped.
Listening ==
    /\ listeners = IF marked THEN 1 ELSE 0
    /\ pending <= doc
    /\ heard \subseteq 1..clock
    /\ report # NULL => phase = "stopped"

Hearing == RecTypeOK /\ Listening /\ HeardIsKeptOnce

LEMMA AppendedTimes ==
    ASSUME NEW T, NEW s \in Seq(T), NEW e \in T
    PROVE  /\ TimesOf(Append(s, e)) = TimesOf(s) \cup {e.time}
           /\ Once(s) /\ e.time \notin TimesOf(s) => Once(Append(s, e))
<1>1. /\ DOMAIN Append(s, e) = DOMAIN s \cup {Len(s) + 1}
      /\ \A n \in DOMAIN s: Append(s, e)[n] = s[n]
      /\ Append(s, e)[Len(s) + 1] = e
      /\ Len(s) + 1 \notin DOMAIN s
  OBVIOUS
<1>2. TimesOf(Append(s, e)) = TimesOf(s) \cup {e.time}
  BY <1>1 DEF TimesOf
<1>3. Once(s) /\ e.time \notin TimesOf(s) => Once(Append(s, e))
  BY <1>1 DEF TimesOf, Once
<1> QED
  BY <1>2, <1>3

LEMMA FirstTime ==
    ASSUME NEW T, NEW s \in Seq(T), s # <<>>
    PROVE  /\ TimesOf(s) = {Head(s).time} \cup TimesOf(Tail(s))
           /\ Once(s) => Once(Tail(s)) /\ Head(s).time \notin TimesOf(Tail(s))
<1> Len(s) \in Nat /\ Len(s) > 0 /\ DOMAIN s = 1..Len(s)
  OBVIOUS
<1>1. /\ DOMAIN Tail(s) = 1..(Len(s) - 1)
      /\ \A n \in DOMAIN Tail(s): Tail(s)[n] = s[n + 1] /\ n + 1 \in DOMAIN s /\ n + 1 # 1
      /\ Head(s) = s[1] /\ 1 \in DOMAIN s
  OBVIOUS
<1>2. \A n \in DOMAIN s: n = 1 \/ (n - 1 \in DOMAIN Tail(s) /\ Tail(s)[n - 1] = s[n])
  BY <1>1
<1>3. TimesOf(s) = {Head(s).time} \cup TimesOf(Tail(s))
  <2>1. TimesOf(s) \subseteq {Head(s).time} \cup TimesOf(Tail(s))
    <3> SUFFICES ASSUME NEW n \in DOMAIN s, n # 1
                 PROVE  s[n].time \in TimesOf(Tail(s))
      BY <1>1 DEF TimesOf
    <3> QED
      BY <1>2 DEF TimesOf
  <2>2. TimesOf(Tail(s)) \subseteq TimesOf(s) /\ Head(s).time \in TimesOf(s)
    BY <1>1 DEF TimesOf
  <2> QED
    BY <2>1, <2>2
<1>4. ASSUME Once(s) PROVE Once(Tail(s)) /\ Head(s).time \notin TimesOf(Tail(s))
  <2>1. Once(Tail(s))
    <3> SUFFICES ASSUME NEW m \in DOMAIN Tail(s), NEW n \in DOMAIN Tail(s), m # n
                 PROVE  Tail(s)[m].time # Tail(s)[n].time
      BY DEF Once
    <3>1. m + 1 # n + 1
      BY <1>1
    <3> QED
      BY <1>1, <1>4, <3>1 DEF Once
  <2>2. Head(s).time \notin TimesOf(Tail(s))
    BY <1>1, <1>4 DEF Once, TimesOf
  <2> QED
    BY <2>1, <2>2
<1> QED
  BY <1>3, <1>4

LEMMA CutTimes ==
    ASSUME NEW T, NEW s \in Seq(T), NEW n \in 0..Len(s)
    PROVE  LET front == SubSeq(s, 1, n)
               cut == {s[m].time: m \in (n + 1)..Len(s)}
           IN  /\ front \in Seq(T)
               /\ TimesOf(s) = TimesOf(front) \cup cut
               /\ Once(s) => Once(front) /\ TimesOf(front) \cap cut = {}
<1> DEFINE first == SubSeq(s, 1, n)
           cut == {s[m].time: m \in (n + 1)..Len(s)}
<1>1. first \in Seq(T)
  OBVIOUS
<1>2. DOMAIN first = 1..n /\ \A m \in 1..n: first[m] = s[m]
  OBVIOUS
<1>3. DOMAIN s = (1..n) \cup ((n + 1)..Len(s))
  <2>1. Len(s) \in Nat /\ DOMAIN s = 1..Len(s)
    OBVIOUS
  <2> QED
    BY <2>1
<1>4. (1..n) \cap ((n + 1)..Len(s)) = {}
  OBVIOUS
<1> HIDE DEF first
<1>5. TimesOf(s) = TimesOf(first) \cup cut
  BY <1>2, <1>3 DEF TimesOf
<1>6. Once(s) => Once(first)
  BY <1>2, <1>3 DEF Once
<1>7. Once(s) => TimesOf(first) \cap cut = {}
  BY <1>2, <1>3, <1>4 DEF Once, TimesOf
<1> QED
  BY <1>1, <1>5, <1>6, <1>7 DEF first

LEMMA Sorting ==
    ASSUME NEW T, NEW s \in Seq(T), \A t \in T: t.time \in Nat, Once(s)
    PROVE  LET r == SortedByTime(s)
           IN  /\ r \in Seq(T) /\ Len(r) = Len(s)
               /\ TimesOf(r) = TimesOf(s)
               /\ \A m, n \in DOMAIN r: m < n => r[m].time < r[n].time
<1> DEFINE D == DOMAIN s
           NotAfter(n) == {m \in D: s[m].time < s[n].time \/ (s[m].time = s[n].time /\ m <= n)}
           At(k) == CHOOSE n \in D: Rank(s, n) = k
           r == SortedByTime(s)
<1>1. Len(s) \in Nat /\ D = 1..Len(s)
  OBVIOUS
<1>2. IsFiniteSet(D) /\ Cardinality(D) = Len(s)
  <2>1. IsFiniteSet(1..Len(s)) /\ Cardinality(1..Len(s)) = IF 1 > Len(s) THEN 0 ELSE Len(s) - 1 + 1
    BY <1>1, FS_Interval
  <2> QED
    BY <1>1, <2>1
<1>3. /\ \A n \in D: s[n].time \in Nat /\ n \in Nat
      /\ \A m, n \in D: m # n => s[m].time # s[n].time
  BY <1>1 DEF Once
<1>4. \A n \in D: /\ IsFiniteSet(NotAfter(n)) /\ NotAfter(n) \subseteq D
                  /\ Cardinality(NotAfter(n)) \in Nat
                  /\ Cardinality(NotAfter(n)) <= Len(s)
  <2> SUFFICES ASSUME NEW n \in D
               PROVE  /\ IsFiniteSet(NotAfter(n)) /\ NotAfter(n) \subseteq D
                      /\ Cardinality(NotAfter(n)) \in Nat
                      /\ Cardinality(NotAfter(n)) <= Len(s)
    OBVIOUS
  <2>1. NotAfter(n) \in SUBSET D
    OBVIOUS
  <2> HIDE DEF D, NotAfter
  <2>2. IsFiniteSet(NotAfter(n)) /\ Cardinality(NotAfter(n)) <= Cardinality(D)
    BY <1>2, <2>1, FS_Subset
  <2>3. Cardinality(NotAfter(n)) \in Nat
    BY <2>2, FS_CardinalityType
  <2> QED
    BY <1>2, <2>1, <2>2, <2>3
<1>5. \A n \in D: Rank(s, n) = Cardinality(NotAfter(n))
  BY DEF Rank
<1>6. \A n \in D: Rank(s, n) \in D
  <2> SUFFICES ASSUME NEW n \in D PROVE Rank(s, n) \in D
    OBVIOUS
  <2>1. n \in NotAfter(n)
    BY <1>3
  <2> HIDE DEF D, NotAfter
  <2>2. Cardinality(NotAfter(n)) # 0
    BY <1>4, <2>1, FS_EmptySet
  <2> QED
    BY <1>1, <1>4, <1>5, <2>2
<1>7. \A m, n \in D: s[m].time < s[n].time => Rank(s, m) < Rank(s, n)
  <2> SUFFICES ASSUME NEW m \in D, NEW n \in D, s[m].time < s[n].time
               PROVE  Cardinality(NotAfter(m)) < Cardinality(NotAfter(n))
    BY <1>5
  <2>1. NotAfter(m) \in SUBSET NotAfter(n)
    BY <1>3
  <2>2. n \in NotAfter(n) /\ n \notin NotAfter(m)
    BY <1>3
  <2> HIDE DEF D, NotAfter
  <2>3. /\ Cardinality(NotAfter(m)) <= Cardinality(NotAfter(n))
        /\ Cardinality(NotAfter(m)) = Cardinality(NotAfter(n)) => NotAfter(m) = NotAfter(n)
    BY <1>4, <2>1, FS_Subset
  <2> QED
    BY <1>4, <2>2, <2>3
<1>8. \A m, n \in D: m # n => Rank(s, m) # Rank(s, n)
  <2> HIDE DEF D
  <2> SUFFICES ASSUME NEW m \in D, NEW n \in D, m # n PROVE Rank(s, m) # Rank(s, n)
    OBVIOUS
  <2>1. s[m].time < s[n].time \/ s[n].time < s[m].time
    BY <1>3
  <2>2. Rank(s, m) \in Nat /\ Rank(s, n) \in Nat
    BY <1>1, <1>6
  <2> QED
    BY <1>7, <2>1, <2>2
<1>9. \A k \in D: \E n \in D: Rank(s, n) = k
  <2> DEFINE f == [n \in D |-> Rank(s, n)]
  <2> HIDE DEF D
  <2>1. f \in Injection(D, D)
    BY <1>6, <1>8 DEF Injection, IsInjective
  <2> HIDE DEF f
  <2>2. f \in Surjection(D, D)
    BY <1>2, <2>1, FS_Injection
  <2> QED
    BY <2>2 DEF Surjection, f
<1>10. \A k \in D: At(k) \in D /\ Rank(s, At(k)) = k
  BY <1>9
<1>11. r = [k \in D |-> s[At(k)]]
  BY DEF SortedByTime
<1> HIDE DEF D, At, r
<1>12. r \in Seq(T) /\ Len(r) = Len(s) /\ DOMAIN r = D
  <2>1. \A k \in D: s[At(k)] \in T
    BY <1>10 DEF D
  <2>2. r \in [1..Len(s) -> T]
    BY <1>1, <1>11, <2>1
  <2> QED
    BY <1>1, <2>2
<1>13. TimesOf(r) = TimesOf(s)
  <2>1. TimesOf(r) \subseteq TimesOf(s)
    BY <1>10, <1>11, <1>12 DEF TimesOf, D
  <2>2. TimesOf(s) \subseteq TimesOf(r)
    <3> SUFFICES ASSUME NEW n \in D PROVE s[n].time \in TimesOf(r)
      BY DEF TimesOf, D
    <3>1. Rank(s, n) \in D /\ At(Rank(s, n)) = n
      BY <1>6, <1>8, <1>10
    <3>2. r[Rank(s, n)] = s[n]
      BY <1>11, <3>1
    <3> QED
      BY <1>12, <3>1, <3>2 DEF TimesOf
  <2> QED
    BY <2>1, <2>2
<1>14. ASSUME NEW m \in DOMAIN r, NEW n \in DOMAIN r, m < n
       PROVE  r[m].time < r[n].time
  <2>1. m \in D /\ n \in D /\ m # n
    BY <1>1, <1>12, <1>14
  <2>2. At(m) \in D /\ At(n) \in D /\ Rank(s, At(m)) = m /\ Rank(s, At(n)) = n
    BY <1>10, <2>1
  <2>3. s[At(m)].time # s[At(n)].time
    BY <1>3, <2>1, <2>2
  <2>4. ~(s[At(n)].time < s[At(m)].time)
    <3>1. ~(n < m)
      BY <1>1, <1>14, <2>1
    <3> QED
      BY <1>7, <2>2, <3>1
  <2>5. s[At(m)].time \in Nat /\ s[At(n)].time \in Nat
    BY <1>3, <2>2
  <2>6. r[m] = s[At(m)] /\ r[n] = s[At(n)]
    BY <1>11, <2>1
  <2> QED
    BY <2>3, <2>4, <2>5, <2>6
<1> QED
  BY <1>12, <1>13, <1>14 DEF r

LEMMA HeardIsSent ==
    ASSUME Hearing, Acting, NEW el \in Elements, Hears(el), UNCHANGED <<actions, lost, report>>
    PROVE  /\ wire' \in [Documents -> Seq(Message)] /\ clock' \in 0..MaxActs
           /\ heard' \subseteq 1..clock' /\ heard' \subseteq Times
           /\ HeardIsKeptOnce'
<1>1. /\ doc \in Documents /\ clock \in Nat /\ clock + 1 \in Times /\ clock' = clock + 1
      /\ clock' \in 0..MaxActs /\ heard \subseteq 1..clock /\ clock + 1 \notin heard
      /\ listeners \in {0, 1}
  BY RecorderAssumption DEF Hearing, RecTypeOK, Listening, Acting, Hears, Documents, Times
<1>2. PICK m \in Message: /\ m.time = clock + 1
                          /\ wire' = [wire EXCEPT ![doc] = @ \o [n \in 1..listeners |-> m]]
  <2>1. PICK checked \in BOOLEAN:
           wire' = [wire EXCEPT ![doc] = @ \o [n \in 1..listeners |-> Sent(el, checked)]]
    BY DEF Hears
  <2>2. Sent(el, checked) \in Message /\ Sent(el, checked).time = clock + 1
    BY <1>1 DEF Sent, Message, ActionType, ReplayedActions
  <2> QED
    BY <2>1, <2>2
<1>3. wire \in [Documents -> Seq(Message)] /\ HeardIsKeptOnce
  BY DEF Hearing, RecTypeOK
<1>4. PICK t: t = clock + 1
  OBVIOUS
<1>5. t \in Times /\ t \notin heard /\ 1..clock' = (1..clock) \cup {t}
  BY <1>1, <1>4
<1>6. CASE listeners = 0
  <2>1. wire' = wire
    <3>1. wire[doc] \o [n \in 1..0 |-> m] = wire[doc]
      BY <1>1, <1>3
    <3> QED
      BY <1>2, <1>3, <1>6, <3>1
  <2>2. heard' = heard
    BY <1>6 DEF Hears
  <2>3. HeardIsKeptOnce'
    BY <1>3, <2>1, <2>2 DEF HeardIsKeptOnce, HeardIsSomewhere, NothingIsTwice, Answered
  <2>4. heard' \subseteq 1..clock' /\ heard' \subseteq Times
    BY <1>1, <1>5, <2>2 DEF Hearing, RecTypeOK
  <2> QED
    BY <1>1, <1>3, <2>1, <2>3, <2>4
<1>7. CASE listeners = 1
  <2>1. heard' = heard \cup {t}
    BY <1>4, <1>7 DEF Hears
  <2>2. wire' = [wire EXCEPT ![doc] = Append(@, m)]
    <3>1. wire[doc] \o [n \in 1..1 |-> m] = Append(wire[doc], m)
      BY <1>1, <1>3
    <3> QED
      BY <1>2, <1>3, <1>7, <3>1
  <2>3. wire[doc] \in Seq(Message)
    BY <1>1, <1>3
  <2>4. /\ wire' \in [Documents -> Seq(Message)]
        /\ wire'[doc] = Append(wire[doc], m)
        /\ \A d \in Documents \ {doc}: wire'[d] = wire[d]
    BY <1>1, <1>3, <2>2, <2>3
  <2>5. /\ TimesOf(wire'[doc]) = TimesOf(wire[doc]) \cup {t}
        /\ Once(wire[doc]) /\ t \notin TimesOf(wire[doc]) => Once(wire'[doc])
    <3>1. m.time = t
      BY <1>2, <1>4
    <3>2. /\ TimesOf(Append(wire[doc], m)) = TimesOf(wire[doc]) \cup {m.time}
          /\ Once(wire[doc]) /\ m.time \notin TimesOf(wire[doc]) => Once(Append(wire[doc], m))
      BY <2>3, AppendedTimes
    <3> QED
      BY <2>4, <3>1, <3>2
  <2>6. /\ t \notin TimesOf(actions) /\ t \notin lost
        /\ \A d \in Documents: t \notin TimesOf(wire[d])
    BY <1>3, <1>5 DEF HeardIsKeptOnce, HeardIsSomewhere
  <2>7. doc \in Documents /\ UNCHANGED <<actions, lost, report>>
    BY <1>1
  <2>8. HeardIsSomewhere'
    BY <1>3, <2>1, <2>4, <2>5, <2>7 DEF HeardIsKeptOnce, HeardIsSomewhere
  <2>9. NothingIsTwice'
    <3>1. NothingIsTwice
      BY <1>3 DEF HeardIsKeptOnce
    <3>2. ASSUME NEW d \in Documents PROVE Once(wire'[d])
      BY <2>4, <2>5, <2>6, <3>1 DEF NothingIsTwice
    <3>3. ASSUME NEW d \in Documents PROVE TimesOf(wire'[d]) \cap (TimesOf(actions) \cup lost) = {}
      BY <2>4, <2>5, <2>6, <3>1 DEF NothingIsTwice
    <3>4. ASSUME NEW d \in Documents, NEW e \in Documents \ {d}
          PROVE  TimesOf(wire'[d]) \cap TimesOf(wire'[e]) = {}
      <4>1. TimesOf(wire[d]) \cap TimesOf(wire[e]) = {}
        BY <3>1 DEF NothingIsTwice
      <4>2. CASE d = doc
        BY <2>4, <2>5, <2>6, <4>1, <4>2
      <4>3. CASE e = doc
        BY <2>4, <2>5, <2>6, <4>1, <4>3
      <4>4. CASE d # doc /\ e # doc
        BY <2>4, <4>1, <4>4
      <4> QED
        BY <4>2, <4>3, <4>4
    <3> QED
      BY <2>7, <3>1, <3>2, <3>3, <3>4 DEF NothingIsTwice
  <2>10. Answered'
    BY <1>3 DEF HeardIsKeptOnce, Answered
  <2>11. heard' \subseteq 1..clock' /\ heard' \subseteq Times
    BY <1>1, <1>5, <2>1 DEF Hearing, RecTypeOK
  <2> QED
    BY <1>1, <2>4, <2>8, <2>9, <2>10, <2>11 DEF HeardIsKeptOnce
<1> QED
  BY <1>1, <1>6, <1>7

\* What a document leaves behind is lost or arrives.
LEMMA LeftIsLost ==
    ASSUME Hearing, NewDocument, UNCHANGED <<heard, actions, report>>
    PROVE  /\ wire' \in [Documents -> Seq(Message)] /\ lost' \subseteq Times
           /\ HeardIsKeptOnce'
<1>1. wire \in [Documents -> Seq(Message)] /\ HeardIsKeptOnce /\ lost \subseteq Times /\ heard \subseteq Times
  BY DEF Hearing, RecTypeOK
<1>2. CASE doc = 0
  BY <1>1, <1>2 DEF NewDocument, HeardIsKeptOnce, HeardIsSomewhere, NothingIsTwice, Answered
<1>3. CASE doc # 0
  <2>1. doc \in Documents
    BY <1>3, RecorderAssumption DEF Hearing, RecTypeOK, Documents
  <2>2. PICK n \in 0..Len(wire[doc]):
           /\ wire' = [wire EXCEPT ![doc] = SubSeq(@, 1, n)]
           /\ lost' = lost \cup {wire[doc][m].time: m \in (n + 1)..Len(wire[doc])}
    BY <1>3 DEF NewDocument
  <2>3. PICK cut: cut = {wire[doc][m].time: m \in (n + 1)..Len(wire[doc])}
    OBVIOUS
  <2>4. wire[doc] \in Seq(Message)
    BY <1>1, <2>1
  <2>5. LET first == SubSeq(wire[doc], 1, n)
        IN  /\ first \in Seq(Message)
            /\ TimesOf(wire[doc]) = TimesOf(first) \cup cut
            /\ Once(wire[doc]) => Once(first) /\ TimesOf(first) \cap cut = {}
    BY <2>3, <2>4, CutTimes
  <2>6. /\ wire' \in [Documents -> Seq(Message)]
        /\ wire'[doc] = SubSeq(wire[doc], 1, n)
        /\ \A d \in Documents \ {doc}: wire'[d] = wire[d]
        /\ lost' = lost \cup cut
    BY <1>1, <2>1, <2>2, <2>3, <2>5
  <2>7. /\ TimesOf(wire[doc]) = TimesOf(wire'[doc]) \cup cut
        /\ Once(wire[doc]) => Once(wire'[doc]) /\ TimesOf(wire'[doc]) \cap cut = {}
    BY <2>5, <2>6
  <2>8. HeardIsSomewhere'
    BY <1>1, <2>1, <2>6, <2>7 DEF HeardIsKeptOnce, HeardIsSomewhere
  <2>9. NothingIsTwice'
    BY <1>1, <2>1, <2>6, <2>7 DEF HeardIsKeptOnce, NothingIsTwice
  <2>10. Answered'
    BY <1>1 DEF HeardIsKeptOnce, Answered
  <2>11. lost' \subseteq Times
    BY <1>1, <2>1, <2>6, <2>7 DEF HeardIsKeptOnce, HeardIsSomewhere
  <2> QED
    BY <2>6, <2>8, <2>9, <2>10, <2>11 DEF HeardIsKeptOnce
<1> QED
  BY <1>2, <1>3

LEMMA CallArrives ==
    ASSUME Hearing, NEW d \in Documents, OnDomAction(d)
    PROVE  /\ wire' \in [Documents -> Seq(Message)] /\ actions' \in Seq(Action)
           /\ HeardIsKeptOnce'
<1>1. /\ wire \in [Documents -> Seq(Message)] /\ wire[d] \in Seq(Message) /\ wire[d] # <<>>
      /\ actions \in Seq(Action) /\ HeardIsKeptOnce /\ report = NULL /\ UNCHANGED <<heard, lost, report>>
  BY DEF Hearing, RecTypeOK, Listening, OnDomAction
<1>2. PICK m \in Message: m = Head(wire[d])
  BY <1>1
<1>3. PICK a \in Action: a = Captured(m)
  <2>1. /\ m.time \in Times /\ m.action_type \in ReplayedActions /\ m.field \in Elements
        /\ m.value \in {NULL, "typed"} /\ m.checked \in BOOLEAN \cup {NULL}
    BY DEF Message
  <2>2. PICK value \in {NULL, "typed"}, checked \in BOOLEAN \cup {NULL}, secret \in {TRUE, NULL}:
           Captured(m) = [time |-> m.time, action_type |-> m.action_type, field |-> m.field,
                          value |-> value, checked |-> checked, secret |-> secret]
    <3>1. CASE m.action_type = "fill" /\ IsCredentialField(m.field)
      <4>1. Captured(m) = [time |-> m.time, action_type |-> m.action_type, field |-> m.field,
                           value |-> NULL, checked |-> NULL, secret |-> TRUE]
        BY <3>1 DEF Captured
      <4> QED
        BY <4>1
    <3>2. CASE ~(m.action_type = "fill" /\ IsCredentialField(m.field)) /\ m.action_type = "check"
      <4>1. Captured(m) = [time |-> m.time, action_type |-> m.action_type, field |-> m.field,
                           value |-> m.value, checked |-> m.checked, secret |-> NULL]
        BY <3>2 DEF Captured
      <4> QED
        BY <2>1, <4>1
    <3>3. CASE ~(m.action_type = "fill" /\ IsCredentialField(m.field)) /\ m.action_type # "check"
      <4>1. Captured(m) = [time |-> m.time, action_type |-> m.action_type, field |-> m.field,
                           value |-> m.value, checked |-> NULL, secret |-> NULL]
        BY <3>3 DEF Captured
      <4> QED
        BY <2>1, <4>1
    <3> QED
      BY <3>1, <3>2, <3>3
  <2> QED
    BY <2>1, <2>2 DEF Action
<1>4. a.time = m.time
  BY <1>3 DEF Captured
<1>5. /\ wire' = [wire EXCEPT ![d] = Tail(@)]
      /\ actions' = Append(actions, a)
  BY <1>2, <1>3 DEF OnDomAction, Message
<1>6. /\ wire' \in [Documents -> Seq(Message)] /\ actions' \in Seq(Action)
      /\ wire'[d] = Tail(wire[d])
      /\ \A e \in Documents \ {d}: wire'[e] = wire[e]
  BY <1>1, <1>5
<1>7. /\ TimesOf(wire[d]) = {m.time} \cup TimesOf(wire'[d])
      /\ Once(wire[d]) => Once(wire'[d]) /\ m.time \notin TimesOf(wire'[d])
  BY <1>1, <1>2, <1>6, FirstTime
<1>8. /\ TimesOf(actions') = TimesOf(actions) \cup {m.time}
      /\ Once(actions) /\ m.time \notin TimesOf(actions) => Once(actions')
  BY <1>1, <1>4, <1>5, AppendedTimes
<1>9. HeardIsSomewhere'
  BY <1>1, <1>6, <1>7, <1>8 DEF HeardIsKeptOnce, HeardIsSomewhere
<1>10. NothingIsTwice'
  <2>1. NothingIsTwice /\ UNCHANGED lost
    BY <1>1 DEF HeardIsKeptOnce
  <2>2. m.time \in TimesOf(wire[d]) /\ m.time \notin TimesOf(actions) \cup lost
    BY <1>7, <2>1 DEF NothingIsTwice
  <2>3. Once(actions') /\ TimesOf(actions') \cap lost = {}
    BY <1>8, <2>1, <2>2 DEF NothingIsTwice
  <2>4. ASSUME NEW e \in Documents
        PROVE  Once(wire'[e]) /\ TimesOf(wire'[e]) \subseteq TimesOf(wire[e])
    BY <1>6, <1>7, <2>1 DEF NothingIsTwice
  <2>5. ASSUME NEW e \in Documents PROVE m.time \notin TimesOf(wire'[e])
    BY <1>6, <1>7, <2>1, <2>2 DEF NothingIsTwice
  <2>6. ASSUME NEW e \in Documents PROVE TimesOf(wire'[e]) \cap (TimesOf(actions') \cup lost) = {}
    BY <1>8, <2>1, <2>4, <2>5 DEF NothingIsTwice
  <2>7. ASSUME NEW e \in Documents, NEW f \in Documents \ {e}
        PROVE  TimesOf(wire'[e]) \cap TimesOf(wire'[f]) = {}
    BY <2>1, <2>4 DEF NothingIsTwice
  <2> QED
    BY <2>1, <2>3, <2>4, <2>6, <2>7 DEF NothingIsTwice
<1>11. Answered'
  BY <1>1 DEF Answered
<1> QED
  BY <1>6, <1>9, <1>10, <1>11 DEF HeardIsKeptOnce

LEMMA StopSorts ==
    ASSUME Hearing, Stop
    PROVE  actions' \in Seq(Action) /\ HeardIsKeptOnce'
<1>1. /\ actions \in Seq(Action) /\ Once(actions) /\ HeardIsKeptOnce
      /\ \A a \in Action: a.time \in Nat
      /\ actions' = SortedByTime(actions) /\ UNCHANGED <<wire, heard, lost>>
  <2>1. \A a \in Action: a.time \in Nat
    BY RecorderAssumption DEF Action, Times
  <2> QED
    BY <2>1 DEF Hearing, RecTypeOK, HeardIsKeptOnce, NothingIsTwice, Stop
<1>2. /\ actions' \in Seq(Action) /\ Len(actions') = Len(actions)
      /\ TimesOf(actions') = TimesOf(actions)
      /\ \A m, n \in DOMAIN actions': m < n => actions'[m].time < actions'[n].time
  BY <1>1, Sorting
<1>3. Len(actions) \in Nat /\ DOMAIN actions = 1..Len(actions) /\ DOMAIN actions' = 1..Len(actions)
  BY <1>1, <1>2
<1>4. /\ \A n \in DOMAIN actions': actions'[n] \in Action /\ actions'[n].time \in Nat
  BY <1>1, <1>2
<1>5. Once(actions')
  BY <1>2, <1>3, <1>4 DEF Once
<1>6. Answered'
  <2>1. PICK answer: answer = [n \in DOMAIN actions |-> Response(actions'[n])]
    OBVIOUS
  <2>2. report'.actions = answer /\ report'.captured_actions = Len(actions)
    BY <2>1 DEF Stop
  <2>3. /\ DOMAIN answer = DOMAIN actions' /\ Len(answer) = Len(actions)
        /\ \A n \in DOMAIN answer: answer[n] = Response(actions'[n])
    BY <1>3, <2>1
  <2>4. \A a \in Action: Response(a).time = a.time
    BY DEF Response, Action
  <2>5. \A n \in DOMAIN answer: answer[n].time = actions'[n].time
    BY <1>4, <2>3, <2>4
  <2>6. TimesOf(answer) = TimesOf(actions')
    BY <2>3, <2>5 DEF TimesOf
  <2>7. \A m, n \in DOMAIN answer: m < n => answer[m].time < answer[n].time
    BY <1>2, <2>3, <2>5
  <2> QED
    BY <2>2, <2>3, <2>6, <2>7 DEF Answered
<1> QED
  BY <1>1, <1>2, <1>5, <1>6 DEF HeardIsKeptOnce, HeardIsSomewhere, NothingIsTwice

LEMMA HearingInit == RecInit => Hearing
<1> SUFFICES ASSUME RecInit PROVE Hearing
  OBVIOUS
<1>1. RecTypeOK
  <2>1. wire \in [Documents -> Seq(Message)]
    BY DEF RecInit
  <2>2. actions \in Seq(Action) /\ downloads \in Seq(Files)
    BY DEF RecInit
  <2>3. attempt \in 1..3 /\ doc \in 0..MaxDocs /\ pending \in 0..MaxDocs /\ clock \in 0..MaxActs /\ listeners \in Nat
    BY RecorderAssumption DEF RecInit
  <2>4. marked \in BOOLEAN
    BY DEF RecInit
  <2> QED
    BY <2>1, <2>2, <2>3, <2>4 DEF RecInit, RecTypeOK
<1>2. Listening
  BY DEF RecInit, Listening
<1>3. HeardIsSomewhere
  BY DEF RecInit, HeardIsSomewhere, TimesOf
<1>4. NothingIsTwice /\ Answered
  BY DEF RecInit, NothingIsTwice, Answered, Once, TimesOf
<1> QED
  BY <1>1, <1>2, <1>3, <1>4 DEF Hearing, HeardIsKeptOnce

\* What touches neither the calls nor the actions.
LEMMA NothingHeard ==
    ASSUME Hearing, UNCHANGED <<wire, actions, report, heard, lost>>
    PROVE  HeardIsKeptOnce'
BY DEF Hearing, HeardIsKeptOnce, HeardIsSomewhere, NothingIsTwice, Answered

\* What a try to inject leaves.
LEMMA TryLeaves ==
    ASSUME Hearing, TriesToInject
    PROVE  /\ deaf' \subseteq 0..MaxDocs
           /\ marked' \in BOOLEAN
           /\ listeners' \in Nat
           /\ listeners' = IF marked' THEN 1 ELSE 0
<1>1. /\ deaf \subseteq 0..MaxDocs /\ doc \in 0..MaxDocs
      /\ listeners \in Nat /\ listeners = IF marked THEN 1 ELSE 0
  BY DEF Hearing, RecTypeOK, Listening
<1>2. marked \in BOOLEAN
  BY DEF Hearing, RecTypeOK
<1>3. CASE Inject /\ UNCHANGED deaf
  <2>1. marked' = TRUE
    BY <1>3 DEF Inject
  <2>2. listeners' = 1
    <3>1. CASE marked
      BY <1>1, <1>3, <3>1 DEF Inject
    <3>2. CASE ~marked
      BY <1>1, <1>3, <3>2 DEF Inject
    <3> QED
      BY <3>1, <3>2
  <2>3. deaf' \subseteq 0..MaxDocs
    BY <1>1, <1>3
  <2> QED
    BY <2>1, <2>2, <2>3
<1>4. CASE deaf' = deaf \cup {doc} /\ UNCHANGED <<listeners, marked>>
  <2>1. deaf' \subseteq 0..MaxDocs
    BY <1>1, <1>4
  <2>2. marked' \in BOOLEAN
    BY <1>2, <1>4
  <2> QED
    BY <1>1, <1>4, <2>1, <2>2
<1> QED
  BY <1>3, <1>4 DEF TriesToInject

LEMMA HearingNext == Hearing /\ [RecNext]_recVars => Hearing'
<1> SUFFICES ASSUME Hearing, [RecNext]_recVars PROVE Hearing'
  OBVIOUS
<1> USE RecorderAssumption DEF kept, starting, document
<1>1. ASSUME NEW el \in Elements, Types(el) PROVE Hearing'
  <2>1. HeardIsKeptOnce'
    BY <1>1, NothingHeard DEF Types
  <2> QED
    BY <1>1, <2>1 DEF Hearing, RecTypeOK, Listening, Types
<1>2. ASSUME NEW el \in Elements, Acting, Hears(el), dirty' \in Fields \cup {NULL},
             UNCHANGED <<starting, doc, listeners, marked, pending, kept, lost, deaf>>
      PROVE  Hearing'
  <2>1. /\ wire' \in [Documents -> Seq(Message)] /\ clock' \in 0..MaxActs
        /\ heard' \subseteq 1..clock' /\ heard' \subseteq Times
        /\ HeardIsKeptOnce'
    BY <1>2, HeardIsSent
  <2> QED
    BY <1>2, <2>1 DEF Hearing, RecTypeOK, Listening
<1>3. ASSUME NEW el \in Elements, Changes(el) PROVE Hearing'
  BY <1>2, <1>3 DEF Changes
<1>4. ASSUME NEW el \in Elements, ClicksOn(el) PROVE Hearing'
  <2>1. CASE el = "button"
    BY <1>2, <1>4, <2>1 DEF ClicksOn, Hearing, RecTypeOK
  <2>2. CASE el # "button"
    <3>1. HeardIsKeptOnce'
      BY <1>4, <2>2, NothingHeard DEF ClicksOn
    <3> QED
      BY <1>4, <2>2, <3>1 DEF Hearing, RecTypeOK, Listening, ClicksOn
  <2> QED
    BY <2>1, <2>2
<1>5. CASE Submits
  <2>1. dirty \in Elements
    BY <1>5 DEF Submits, Elements, Fields
  <2> QED
    BY <1>2, <1>5, <2>1 DEF Submits
<1>6. ASSUME NewDocument, phase' \in {"loading", "settling", "started", "failed", "stopped"},
             phase = "stopped" => phase' = "stopped", attempt' \in 1..3,
             UNCHANGED <<clock, kept, heard, deaf>>
      PROVE  Hearing'
  <2>1. /\ wire' \in [Documents -> Seq(Message)] /\ lost' \subseteq Times
        /\ HeardIsKeptOnce'
    BY <1>6, LeftIsLost
  <2>2. /\ doc' \in 0..MaxDocs /\ pending' \in 0..MaxDocs /\ pending' <= doc'
        /\ listeners' = 0 /\ marked' = FALSE /\ dirty' = NULL
    BY <1>6 DEF Hearing, RecTypeOK, Listening, NewDocument
  <2> QED
    BY <1>6, <2>1, <2>2 DEF Hearing, RecTypeOK, Listening
<1>7. CASE Navigates
  BY <1>6, <1>7 DEF Navigates, Hearing, RecTypeOK
<1>8. CASE StartLoads
  BY <1>6, <1>8 DEF StartLoads, Hearing, RecTypeOK
<1>9. CASE StartInjects
  <2>1. HeardIsKeptOnce'
    BY <1>9, NothingHeard DEF StartInjects
  <2>2. /\ phase' = "started"
        /\ UNCHANGED <<attempt, doc, pending, dirty, clock, wire, kept, heard, lost>>
    BY <1>9 DEF StartInjects
  <2>3. /\ deaf' \subseteq 0..MaxDocs /\ marked' \in BOOLEAN
        /\ listeners' \in Nat /\ listeners' = IF marked' THEN 1 ELSE 0
    BY <1>9, TryLeaves DEF StartInjects
  <2>4. ~(phase = "stopped") /\ report' = report
    BY <1>9, <2>2 DEF StartInjects
  <2>5. Listening'
    BY <2>2, <2>3, <2>4 DEF Hearing, Listening
  <2>6. RecTypeOK'
    BY <2>2, <2>3 DEF Hearing, RecTypeOK
  <2> QED
    BY <2>1, <2>5, <2>6 DEF Hearing
<1>10. CASE StartFails
  <2>1. phase = "loading" /\ phase' \in {"loading", "failed"} /\ attempt' \in 1..3
    <3>1. attempt \in 1..3
      BY DEF Hearing, RecTypeOK
    <3>2. /\ phase = "loading"
          /\ \/ attempt < 3 /\ attempt' = attempt + 1 /\ phase' = phase
             \/ phase' = "failed" /\ attempt' = attempt
      BY <1>10 DEF StartFails
    <3> QED
      BY <3>1, <3>2
  <2>4. UNCHANGED <<clock, kept, heard, deaf>>
    BY <1>10 DEF StartFails
  <2>2. CASE NewDocument
    BY <1>6, <2>1, <2>2, <2>4
  <2>3. CASE UNCHANGED <<document, wire, lost>>
    <3>1. HeardIsKeptOnce'
      BY <2>3, <2>4, NothingHeard
    <3> QED
      BY <2>1, <2>3, <2>4, <3>1 DEF Hearing, RecTypeOK, Listening
  <2> QED
    BY <1>10, <2>2, <2>3 DEF StartFails
<1>11. CASE Loaded
  <2>1. HeardIsKeptOnce'
    BY <1>11, NothingHeard DEF Loaded
  <2>2. /\ pending' \in 0..MaxDocs /\ pending' <= doc
        /\ UNCHANGED <<starting, doc, dirty, clock, wire, kept, heard, lost>>
    BY <1>11 DEF Hearing, RecTypeOK, Listening, Loaded
  <2>3. /\ deaf' \subseteq 0..MaxDocs /\ marked' \in BOOLEAN
        /\ listeners' \in Nat /\ listeners' = IF marked' THEN 1 ELSE 0
    BY <1>11, TryLeaves DEF Loaded
  <2> QED
    BY <2>1, <2>2, <2>3 DEF Hearing, RecTypeOK, Listening
<1>12. CASE Stop
  <2>1. actions' \in Seq(Action) /\ HeardIsKeptOnce'
    BY <1>12, StopSorts
  <2> QED
    BY <1>12, <2>1 DEF Hearing, RecTypeOK, Listening, Stop
<1>13. ASSUME NEW d \in Documents, OnDomAction(d) PROVE Hearing'
  <2>1. /\ wire' \in [Documents -> Seq(Message)] /\ actions' \in Seq(Action)
        /\ HeardIsKeptOnce'
    BY <1>13, CallArrives
  <2> QED
    BY <1>13, <2>1 DEF Hearing, RecTypeOK, Listening, OnDomAction
<1>14. ASSUME NEW f \in Files, DownloadBegins(f) \/ DownloadSaved(f) PROVE Hearing'
  <2>1. UNCHANGED <<starting, document, clock, wire, actions, report, heard, lost, deaf>>
    BY <1>14 DEF DownloadBegins, DownloadSaved
  <2>2. HeardIsKeptOnce'
    BY <2>1, NothingHeard
  <2>3. fetching' \subseteq Files
    BY <1>14 DEF Hearing, RecTypeOK, DownloadBegins, DownloadSaved
  <2>4. downloads \in Seq(Files) /\ downloads' \in {downloads, Append(downloads, f)}
    BY <1>14 DEF Hearing, RecTypeOK, DownloadBegins, DownloadSaved
  <2>5. downloads' \in Seq(Files)
    BY <2>4
  <2> QED
    BY <2>1, <2>2, <2>3, <2>5 DEF Hearing, RecTypeOK, Listening
<1>15. CASE UNCHANGED recVars
  <2>1. HeardIsKeptOnce'
    BY <1>15, NothingHeard DEF recVars
  <2> QED
    BY <1>15, <2>1 DEF Hearing, RecTypeOK, Listening, recVars
<1> QED
  BY <1>1, <1>3, <1>4, <1>5, <1>7, <1>8, <1>9, <1>10, <1>11, <1>12, <1>13, <1>14, <1>15
     DEF RecNext, User, Start

\* Types of the recorder.
THEOREM RecorderTypes == RecSpec => []RecTypeOK
<1>1. Hearing => RecTypeOK
  BY DEF Hearing
<1> QED
  BY HearingInit, HearingNext, <1>1, PTL DEF RecSpec

\* What a listener of the page heard is an action, a call under way or lost with its document,
\* once, and the answer of a stop is sorted: for any number of acts and documents (recorder.py,
\* _DOM_RECORDER_JS, _on_dom_action, async_stop).
THEOREM HeardOnce == RecSpec => []HeardIsKeptOnce
<1>1. Hearing => HeardIsKeptOnce
  BY DEF Hearing
<1> QED
  BY HearingInit, HearingNext, <1>1, PTL DEF RecSpec
=============================================================================
