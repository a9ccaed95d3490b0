-------------------------- MODULE StepWalk_proofs --------------------------
(***************************************************************************)
(* What holds of StepWalk for every workflow, every route table (loops and *)
(* dangling routes included) and every choice of skills: its types, no     *)
(* step twice, a history that replays, an honest "recovered", no privileged    *)
(* skill in a run that was not started privileged, and a result that is    *)
(* the latest where routes only lead forward (Climbing).                   *)
(*                                                                         *)
(* And of CircuitBreaker, which stands between the walk and each skill,    *)
(* for any number of callers, any threshold and any number of crashes and  *)
(* reloads: its types, that an open circuit always has its timer or its    *)
(* message, that a closed one opens only after MaxFailures failures in a   *)
(* row, and that one is tested only when it is due.                        *)
(***************************************************************************)
EXTENDS StepWalk, CircuitBreaker, WellFoundedInduction, TLAPS
-----------------------------------------------------------------------------
(* Positions *)

\* A nonempty set of naturals has a least element.
LEMMA LeastNatural ==
  ASSUME NEW T, T \subseteq Nat, T # {}
  PROVE  \E x \in T: \A y \in T: x =< y
<1> DEFINE R == OpToRel(<, Nat)
<1>1. IsWellFoundedOn(R, Nat)
  BY NatLessThanWellFounded
<1>2. \A x, y \in Nat: y < x => <<y, x>> \in R
  BY DEF OpToRel
<1> HIDE DEF R
<1>3. PICK x \in T: \A y \in T: <<y, x>> \notin R
  BY <1>1, WFMin
<1>4. \A y \in T: ~(y < x)
  BY <1>2, <1>3
<1> QED
  BY <1>4

\* The lowest of some positions is one of them.
LEMMA MinIsMember ==
  ASSUME NEW S, S \subseteq -PositionLimit..PositionLimit, S # {}
  PROVE  Min(S) \in S
<1> DEFINE T == {PositionLimit + x: x \in S}
<1>1. T \subseteq Nat /\ T # {}
  <2>1. \A x \in S: PositionLimit + x \in Nat
    BY WalkAssumption DEF WalkAssumption
  <2> QED
    BY <2>1
<1> HIDE DEF T
<1>2. PICK t \in T: \A y \in T: t =< y
  BY <1>1, LeastNatural
<1>3. PICK x \in S: t = PositionLimit + x
  BY DEF T
<1>4. ASSUME NEW y \in S PROVE x =< y
  <2>1. PositionLimit + y \in T
    BY DEF T
  <2>2. PositionLimit + x =< PositionLimit + y
    BY <1>2, <1>3, <2>1
  <2>3. x \in Int /\ y \in Int /\ PositionLimit \in Int
    BY WalkAssumption DEF WalkAssumption
  <2> QED
    BY <2>2, <2>3
<1> QED
  BY <1>4 DEF Min

\* The highest of some positions is one of them.
LEMMA MaxIsMember ==
  ASSUME NEW S, S \subseteq -PositionLimit..PositionLimit, S # {}
  PROVE  Max(S) \in S
<1> DEFINE T == {PositionLimit - x: x \in S}
<1>1. T \subseteq Nat /\ T # {}
  <2>1. \A x \in S: PositionLimit - x \in Nat
    BY WalkAssumption DEF WalkAssumption
  <2> QED
    BY <2>1
<1> HIDE DEF T
<1>2. PICK t \in T: \A y \in T: t =< y
  BY <1>1, LeastNatural
<1>3. PICK x \in S: t = PositionLimit - x
  BY DEF T
<1>4. ASSUME NEW y \in S PROVE x >= y
  <2>1. PositionLimit - y \in T
    BY DEF T
  <2>2. PositionLimit - x =< PositionLimit - y
    BY <1>2, <1>3, <2>1
  <2>3. x \in Int /\ y \in Int /\ PositionLimit \in Int
    BY WalkAssumption DEF WalkAssumption
  <2> QED
    BY <2>2, <2>3
<1> QED
  BY <1>4 DEF Max
-----------------------------------------------------------------------------
(* Types *)

\* The rows of the workflow being run.
LEMMA RunningType == TypeOK => WorkflowType(wf) /\ Steps \subseteq -PositionLimit..PositionLimit
  BY WalkAssumption DEF WalkAssumption, TypeOK, WorkflowType, wf, Steps

\* The input of a step is a value.
LEMMA InputIsValue ==
  ASSUME TypeOK, NEW p \in Steps
  PROVE  InputOf(p) \in Values
<1>1. \A q: Passed(q) \in Values
  BY DEF TypeOK, Passed, Nil, Value, Values
<1>2. Remote \in Values /\ Initial \in Values
  BY DEF Remote, Initial, Nil, Value, Values
<1> QED
  BY <1>1, <1>2 DEF InputOf

\* The result of a run is a value.
LEMMA LastIsValue ==
  ASSUME TypeOK, NEW o \in [Steps -> Values]
  PROVE  LastOutput(o) \in Values
<1> DEFINE passed == {q \in Steps: o[q] # Absent}
<1>1. CASE passed = {}
  BY <1>1 DEF LastOutput, Nil, Value, Values
<1>2. CASE passed # {}
  <2>1. passed \subseteq -PositionLimit..PositionLimit
    BY RunningType
  <2> HIDE DEF passed
  <2>2. Max(passed) \in passed
    BY <1>2, <2>1, MaxIsMember
  <2> QED
    BY <1>2, <2>2 DEF LastOutput, passed
<1> QED
  BY <1>1, <1>2

\* What a move may change: the walk goes to a step, or ends.
Moved ==
    /\ phase' \in {"walking", "done", "failed"}
    /\ pos' \in Int
    /\ phase' = "walking" => pos' \in Steps
    /\ result' \in Values

\* go/4 moves to a step of the workflow or ends the run, whatever the route says.
LEMMA GoMoves ==
  ASSUME TypeOK, NEW p \in Steps, NEW b, NEW kind, NEW o \in [Steps -> Values],
         Go(p, b, kind, o) \/ GoNext(p, o)
  PROVE  Moved
<1>1. Steps \subseteq Int
  BY RunningType, WalkAssumption DEF WalkAssumption
<1>2. ASSUME Finish(o) PROVE Moved
  BY <1>2, LastIsValue DEF Finish, Moved, TypeOK
<1>3. ASSUME GiveUp PROVE Moved
  BY <1>3 DEF GiveUp, Moved, TypeOK
<1>4. ASSUME NEW q \in Steps, WalkTo(q) PROVE Moved
  BY <1>1, <1>4 DEF WalkTo, Moved, TypeOK
<1>5. ASSUME GoNext(p, o) PROVE Moved
  <2>1. CASE After(p) = {}
    BY <1>2, <1>5, <2>1 DEF GoNext
  <2>2. CASE After(p) # {}
    <3>1. After(p) \subseteq Steps
      BY DEF After
    <3>2. Min(After(p)) \in Steps
      BY <2>2, <3>1, MinIsMember, RunningType
    <3> QED
      BY <1>4, <1>5, <2>2, <3>2 DEF GoNext
  <2> QED
    BY <2>1, <2>2
<1>6. ASSUME Go(p, b, kind, o) PROVE Moved
  <2> DEFINE route == RouteOf(p, b)
  <2>1. CASE route \in Steps
    <3>1. route # End
      BY <1>1, <2>1, WalkAssumption DEF WalkAssumption
    <3>2. route # NoRoute
      BY <1>1, <2>1, WalkAssumption DEF WalkAssumption
    <3> HIDE DEF route
    <3>3. WalkTo(route)
      BY <1>6, <2>1, <3>1, <3>2 DEF Go, route
    <3> QED
      BY <1>4, <2>1, <3>3
  <2>2. CASE route \notin Steps
    <3>1. Finish(o) \/ GiveUp \/ GoNext(p, o)
      BY <1>6, <2>2, WalkAssumption DEF Go, WalkAssumption
    <3> QED
      BY <1>2, <1>3, <1>5, <3>1
  <2> QED
    BY <2>1, <2>2
<1> QED
  BY <1>5, <1>6

\* The workflow being run stays the same.
LEMMA SameWorkflow == UNCHANGED config => Steps' = Steps /\ Values' = Values
  BY DEF config, Steps, wf, Values

\* The initial state is well typed.
LEMMA TypeInit == Init => TypeOK
<1> SUFFICES ASSUME Init PROVE TypeOK
  OBVIOUS
<1>1. 0 \in Int /\ visited \subseteq Steps /\ errors \subseteq Steps
         /\ results \in [Steps -> Entries] /\ ran \subseteq Steps \X Skills /\ trail \in Seq(Steps)
  BY DEF Init, Entries
<1>2. outputs \in [Steps -> Values] /\ result \in Values
  BY DEF Init, Values, Absent, Nil, Value
<1> QED
  BY <1>1, <1>2 DEF Init, TypeOK

\* What a step records, of whatever kind it is.
Recorded ==
    /\ visited' \subseteq Steps
    /\ outputs' \in [Steps -> Values]
    /\ results' \in [Steps -> Entries]
    /\ recovered' \in BOOLEAN
    /\ trail' \in Seq(Steps)
    /\ errors' \subseteq Steps
    /\ ran' \subseteq Steps \X Skills

\* Every step keeps the types.
LEMMA TypeStep == TypeOK /\ [Next]_vars => TypeOK'
<1> SUFFICES ASSUME TypeOK, [Next]_vars PROVE TypeOK'
  OBVIOUS
<1>1. ASSUME UNCHANGED config, Recorded,
             Moved \/ (phase' = "killed" /\ UNCHANGED <<pos, result>>)
      PROVE  TypeOK'
  <2>1. Steps' = Steps /\ Values' = Values
    BY <1>1, SameWorkflow
  <2> QED
    BY <1>1, <2>1 DEF TypeOK, Moved, Recorded, config
<1>2. ASSUME NEW p \in Steps, Enter(p)
      PROVE  visited' \subseteq Steps /\ trail' \in Seq(Steps) /\ UNCHANGED config
  BY <1>2 DEF Enter, TypeOK
<1>3. ASSUME NEW p \in Steps, NEW s \in Skills, NEW b \in Branches, Return(p, s, b)
      PROVE  TypeOK'
  <2> DEFINE o == [outputs EXCEPT ![p] = Value("out", p)]
             kind == Kind[wf.skill[p]][b]
  <2>1. o \in [Steps -> Values]
    BY DEF TypeOK, Value, Values
  <2>2. Enter(p) /\ outputs' = o /\ Record(p, b) /\ ran' = ran \cup {<<p, s>>}
          /\ errors' \in {errors, errors \cup {p}}
    BY <1>3 DEF Return
  <2>3. Recorded
    <3>1. recovered' \in BOOLEAN
      BY <1>3 DEF Return, Handled, TypeOK
    <3> QED
      BY <1>2, <2>1, <2>2, <3>1 DEF Record, Recorded, Entries, TypeOK
  <2>4. GiveUp \/ Go(p, b, kind, o)
    BY <1>3 DEF Return
  <2> HIDE DEF o, kind
  <2>5. Moved
    BY <2>1, <2>4, GoMoves DEF GiveUp, Moved, TypeOK
  <2> QED
    BY <1>1, <1>2, <2>2, <2>3, <2>5
<1>4. ASSUME NEW p \in Steps, Skip(p) PROVE TypeOK'
  <2> DEFINE o == [outputs EXCEPT ![p] = InputOf(p)]
  <2>1. o \in [Steps -> Values]
    BY InputIsValue DEF TypeOK
  <2>2. Enter(p) /\ outputs' = o /\ Record(p, "skipped") /\ UNCHANGED <<recovered, errors, ran>>
          /\ GoNext(p, o)
    BY <1>4 DEF Skip
  <2> HIDE DEF o
  <2>3. Recorded
    BY <1>2, <2>1, <2>2 DEF Record, Recorded, Entries, TypeOK
  <2>4. Moved
    BY <2>1, <2>2, GoMoves
  <2> QED
    BY <1>1, <1>2, <2>2, <2>3, <2>4
<1>5. ASSUME NEW p \in Steps, NEW tried \in SUBSET Skills, Fail(p, tried) PROVE TypeOK'
  <2> DEFINE o == [outputs EXCEPT ![p] = Value("error", p)]
  <2>1. o \in [Steps -> Values]
    BY DEF TypeOK, Value, Values
  <2>2. Enter(p) /\ Record(p, "error") /\ ran' = ran \cup {<<p, s>>: s \in tried}
          /\ errors' = errors \cup {p}
          /\ outputs' \in {outputs, o} /\ recovered' \in BOOLEAN
    BY <1>5 DEF Fail, Handled, TypeOK
  <2>3. GiveUp \/ Go(p, OnError, "error", o)
    BY <1>5 DEF Fail
  <2> HIDE DEF o
  <2>4. Recorded
    BY <1>2, <2>1, <2>2 DEF Record, Recorded, Entries, TypeOK
  <2>5. Moved
    BY <2>1, <2>3, GoMoves DEF GiveUp, Moved, TypeOK
  <2> QED
    BY <1>1, <1>2, <2>2, <2>4, <2>5
<1>6. ASSUME NEW p \in Steps, NEW s \in Skills, Escape(p, s) PROVE TypeOK'
  <2>1. Enter(p) /\ Recorded /\ phase' = "killed" /\ UNCHANGED <<pos, result>>
    BY <1>2, <1>6 DEF Escape, Recorded, TypeOK
  <2> QED
    BY <1>1, <1>2, <2>1
<1>7. CASE Start
  <2>1. UNCHANGED config /\ Recorded
    BY <1>7 DEF Start, Recorded, TypeOK
  <2>2. CASE Steps = {}
    <3>1. Finish(outputs)
      BY <1>7, <2>2 DEF Start
    <3> QED
      BY <1>1, <2>1, <3>1, LastIsValue DEF Finish, Moved, TypeOK
  <2>3. CASE Steps # {}
    <3>1. Min(Steps) \in Steps
      BY <2>3, MinIsMember, RunningType
    <3>2. WalkTo(Min(Steps))
      BY <1>7, <2>3 DEF Start
    <3>3. Min(Steps) \in Int
      BY <3>1, RunningType, WalkAssumption DEF WalkAssumption
    <3> QED
      BY <1>1, <2>1, <3>1, <3>2, <3>3 DEF WalkTo, Moved, TypeOK
  <2> QED
    BY <2>2, <2>3
<1>8. CASE Loop
  BY <1>1, <1>8 DEF Loop, GiveUp, Moved, Recorded, TypeOK
<1>9. CASE UNCHANGED vars
  <2>1. Steps' = Steps /\ Values' = Values
    BY <1>9, SameWorkflow DEF vars, config
  <2> QED
    BY <1>9, <2>1 DEF vars, config, TypeOK
<1> QED
  BY <1>3, <1>4, <1>5, <1>6, <1>7, <1>8, <1>9 DEF Next, Step

\* The run's state is well typed in every behaviour.
THEOREM TypeCorrect == Spec => []TypeOK
  BY TypeInit, TypeStep, PTL DEF Spec
-----------------------------------------------------------------------------
(* Safety *)

\* The trail is the record of the visited positions, at every step.
LEMMA TrailStep == TypeOK /\ NoStepTwice /\ [Next]_vars => NoStepTwice'
<1> SUFFICES ASSUME TypeOK, NoStepTwice, [Next]_vars PROVE NoStepTwice'
  OBVIOUS
<1>1. ASSUME NEW p \in Steps, Enter(p) PROVE NoStepTwice'
  <2>1. trail' = Append(trail, p) /\ visited' = visited \cup {p} /\ p \notin visited
          /\ trail \in Seq(Steps)
    BY <1>1 DEF Enter, TypeOK
  <2>2. DOMAIN trail' = DOMAIN trail \cup {Len(trail) + 1}
    BY <2>1
  <2>3. /\ \A i \in DOMAIN trail: trail'[i] = trail[i]
        /\ trail'[Len(trail) + 1] = p
    BY <2>1
  <2>4. Len(trail) + 1 \notin DOMAIN trail
    BY <2>1
  <2> QED
    BY <2>1, <2>2, <2>3, <2>4 DEF NoStepTwice
<1>2. ASSUME UNCHANGED <<visited, trail>> PROVE NoStepTwice'
  BY <1>2 DEF NoStepTwice
<1> QED
  BY <1>1, <1>2 DEF Next, Step, Start, Loop, Return, Skip, Fail, Escape, vars

\* No position runs twice in any run of any workflow.
THEOREM NoStepRunsTwice == Spec => []NoStepTwice
<1>1. Init => NoStepTwice
  BY DEF Init, NoStepTwice
<1> QED
  BY <1>1, TrailStep, TypeCorrect, PTL DEF Spec

\* Where a branch b of kind `kind` leads from p.
Way(p, b, kind) ==
    IF RouteOf(p, b) # NoRoute THEN RouteOf(p, b)
    ELSE IF kind = "error" THEN NoRoute
    ELSE IF kind = "empty" THEN End
    ELSE IF After(p) = {} THEN End ELSE Min(After(p))

\* The walk goes to s, or ends because of s.
Leads(s) ==
    /\ phase' \in {"walking", "done", "failed"}
    /\ phase' = "walking" => pos' = s
    /\ phase' = "done" => s = End
    /\ phase' = "failed" => s \notin Steps \cup {End}

\* The next step of a walk that goes on in order.
Following(p) == IF After(p) = {} THEN End ELSE Min(After(p))

\* Going on in order goes to the following step.
LEMMA NextLeads ==
  ASSUME NEW p \in Steps, NEW o, GoNext(p, o)
  PROVE  Leads(Following(p))
  BY DEF GoNext, Leads, Following, Finish, WalkTo

\* Routing goes where the branch leads.
LEMMA GoLeads ==
  ASSUME TypeOK, NEW p \in Steps, NEW b, NEW kind, NEW o,
         \/ Unrouted(p, b, kind) /\ GiveUp
         \/ ~Unrouted(p, b, kind) /\ Go(p, b, kind, o)
  PROVE  Leads(Way(p, b, kind))
<1> DEFINE route == RouteOf(p, b)
<1>1. Steps \subseteq Int /\ End \notin Int /\ NoRoute \notin Int /\ End # NoRoute
  BY RunningType, WalkAssumption DEF WalkAssumption
<1>2. CASE Unrouted(p, b, kind)
  BY <1>1, <1>2 DEF Unrouted, GiveUp, Leads, Way
<1>3. CASE ~Unrouted(p, b, kind)
  <2>1. Go(p, b, kind, o)
    BY <1>3
  <2>2. CASE route = NoRoute
    <3>1. kind # "error"
      BY <1>3, <2>2 DEF Unrouted
    <3>2. CASE kind = "empty"
      BY <1>1, <2>1, <2>2, <3>2 DEF Go, Finish, Leads, Way
    <3>3. CASE kind # "empty"
      <4>1. GoNext(p, o)
        BY <1>1, <2>1, <2>2, <3>3 DEF Go
      <4> QED
        BY <2>2, <3>1, <3>3, <4>1, NextLeads DEF Way, Following
    <3> QED
      BY <3>2, <3>3
  <2>3. CASE route # NoRoute
    <3>1. Way(p, b, kind) = route
      BY <2>3 DEF Way
    <3>2. \/ route = End /\ Finish(o)
          \/ route \in Steps /\ route # End /\ WalkTo(route)
          \/ route \notin Steps \cup {End} /\ GiveUp
      BY <1>1, <2>1, <2>3 DEF Go
    <3> HIDE DEF route
    <3>3. Leads(route)
      BY <3>2 DEF Leads, Finish, WalkTo, GiveUp
    <3> QED
      BY <3>1, <3>3
  <2> QED
    BY <2>2, <2>3
<1> QED
  BY <1>2, <1>3

\* What HistoryReplays rests on: nothing is recorded of a step not yet entered, and a
\* walk that entered none is about to enter the first.
HistoryInv ==
    /\ HistoryReplays
    /\ \A q \in Steps \ visited: results[q] = "none"
    /\ phase = "start" => trail = <<>>
    /\ phase = "walking" /\ trail = <<>> => pos = Min(Steps)

\* A step is followed as before while nothing new is recorded of it.
LEMMA SameSuccessor ==
  ASSUME UNCHANGED config, NEW q, results'[q] = results[q]
  PROVE  Successor(q)' = Successor(q)
  BY DEF Successor, RouteOf, After, config, wf, Steps

\* A step that enters p, records `entry` of it and goes where that leads.
LEMMA EntryStep ==
  ASSUME TypeOK, NoStepTwice, HistoryInv, NEW p \in Steps, Enter(p), NEW entry,
         \/ entry # "none" /\ Record(p, entry) /\ Leads(Successor(p)')
         \/ entry = "none" /\ UNCHANGED results /\ phase' = "killed"
  PROVE  HistoryInv'
<1>1. /\ phase = "walking" /\ pos = p /\ p \notin visited /\ UNCHANGED config
      /\ visited' = visited \cup {p} /\ trail' = Append(trail, p)
      /\ trail \in Seq(Steps) /\ results \in [Steps -> Entries]
  BY DEF Enter, TypeOK
<1>2. Steps' = Steps
  BY <1>1, SameWorkflow
<1>3. Steps \subseteq Int /\ End \notin Int
  BY RunningType, WalkAssumption DEF WalkAssumption
<1>4. results'[p] = entry /\ \A q \in Steps: q # p => results'[q] = results[q]
  <2>1. CASE entry # "none"
    BY <1>1, <2>1 DEF Record
  <2>2. CASE entry = "none"
    BY <1>1, <2>2 DEF HistoryInv
  <2> QED
    BY <2>1, <2>2
<1>5. PICK n \in Nat: n = Len(trail)
  BY <1>1
<1>6. /\ Len(trail') = n + 1 /\ trail'[n + 1] = p
      /\ \A i \in 1..n: trail'[i] = trail[i] /\ trail[i] \in visited /\ trail[i] \in Steps
      /\ trail' # <<>>
  BY <1>1, <1>5 DEF NoStepTwice
<1>7. trail'[1] = Min(Steps)'
  <2>1. Min(Steps)' = Min(Steps)
    BY <1>2 DEF Min
  <2>2. CASE trail = <<>>
    <3>1. n = 0 /\ pos = Min(Steps)
      BY <1>1, <1>5, <2>2 DEF HistoryInv
    <3> QED
      BY <1>1, <1>6, <2>1, <3>1
  <2>3. CASE trail # <<>>
    <3>1. 1 \in 1..n /\ trail[1] = Min(Steps)
      BY <1>1, <1>5, <2>3 DEF HistoryInv, HistoryReplays
    <3>2. trail'[1] = trail[1]
      BY <1>6, <3>1
    <3> QED
      BY <2>1, <3>1, <3>2
  <2> QED
    BY <2>2, <2>3
<1>8. ASSUME NEW i \in 1..n
      PROVE  results'[trail'[i]] # "none" /\ trail'[i + 1] = Successor(trail[i])'
  <2>1. PICK q \in visited: q = trail[i] /\ q = trail'[i] /\ q \in Steps /\ q # p
    BY <1>1, <1>6
  <2>2. results'[q] = results[q] /\ Successor(q)' = Successor(q)
    <3>1. results'[q] = results[q]
      BY <1>4, <2>1
    <3> QED
      BY <1>1, <3>1, SameSuccessor
  <2>3. trail # <<>>
    BY <1>1, <1>5
  <2>4. CASE i = n
    <3>1. results[q] # "none" /\ pos = Successor(q)
      BY <1>1, <1>5, <2>1, <2>3, <2>4 DEF HistoryInv, HistoryReplays
    <3> QED
      BY <1>1, <1>6, <2>1, <2>2, <2>4, <3>1
  <2>5. CASE i # n
    <3>1. i \in 1..(n - 1) /\ i + 1 \in 1..n
      BY <2>5
    <3>2. results[trail[i]] # "none" /\ trail[i + 1] = Successor(trail[i])
      BY <1>5, <2>3, <3>1 DEF HistoryInv, HistoryReplays
    <3>3. trail'[i + 1] = trail[i + 1]
      BY <1>6, <3>1
    <3> QED
      BY <2>1, <2>2, <3>2, <3>3
  <2> QED
    BY <2>4, <2>5
<1>9. PICK s: s = Successor(p)'
  OBVIOUS
<1>10. /\ IF phase' = "killed" THEN entry = "none" ELSE entry # "none"
       /\ phase' = "walking" => pos' = s
       /\ phase' = "done" => s = End
       /\ phase' = "failed" => s \notin Steps \cup {End}
       /\ phase' # "start"
  BY <1>9 DEF Leads
<1>11. HistoryReplays'
  <2>1. \A i \in 1..(Len(trail') - 1):
            results'[trail'[i]] # "none" /\ trail'[i + 1] = Successor(trail[i])'
    BY <1>6, <1>8
  <2>2. trail'[Len(trail')] = p /\ Successor(trail[Len(trail)])' = s
    BY <1>6, <1>9
  <2> QED
    BY <1>2, <1>4, <1>6, <1>7, <1>10, <2>1, <2>2 DEF HistoryReplays
<1>12. \A q \in Steps' \ visited': results'[q] = "none"
  BY <1>1, <1>2, <1>4 DEF HistoryInv
<1> QED
  BY <1>6, <1>10, <1>11, <1>12 DEF HistoryInv

\* Every step keeps the history.
LEMMA HistoryStep == TypeOK /\ NoStepTwice /\ HistoryInv /\ [Next]_vars => HistoryInv'
<1> SUFFICES ASSUME TypeOK, NoStepTwice, HistoryInv, [Next]_vars PROVE HistoryInv'
  OBVIOUS
<1>0. OnError \in Branches /\ Branches \cap {"skipped", "error", "none"} = {}
  BY WalkAssumption DEF WalkAssumption
<1>1. ASSUME NEW p \in Steps, NEW entry \in Entries, Enter(p), Record(p, entry)
      PROVE  Successor(p)' =
                 LET branch == IF entry = "error" THEN OnError ELSE entry
                     kind == IF entry = "error" THEN "error" ELSE Kind[wf.skill[p]][entry]
                 IN  IF entry = "skipped" THEN Following(p) ELSE Way(p, branch, kind)
  <2>1. wf' = wf /\ Steps' = Steps /\ results'[p] = entry
    BY <1>1 DEF Enter, Record, config, wf, Steps, TypeOK
  <2> QED
    BY <2>1 DEF Successor, Way, Following, RouteOf, After
<1>2. ASSUME NEW p \in Steps, NEW s \in Skills, NEW b \in Branches, Return(p, s, b)
      PROVE  HistoryInv'
  <2> DEFINE kind == Kind[wf.skill[p]][b]
  <2>1. b \in Entries /\ b \notin {"skipped", "error", "none"}
    BY <1>0 DEF Entries
  <2>2. Enter(p) /\ Record(p, b)
    BY <1>2 DEF Return
  <2>3. \E o: \/ Unrouted(p, b, kind) /\ GiveUp
              \/ ~Unrouted(p, b, kind) /\ Go(p, b, kind, o)
    BY <1>2 DEF Return
  <2>4. Successor(p)' = Way(p, b, kind)
    BY <1>1, <2>1, <2>2
  <2> HIDE DEF kind
  <2>5. Leads(Way(p, b, kind))
    BY <2>3, GoLeads
  <2>6. Leads(Successor(p)')
    BY <2>4, <2>5 DEF Leads
  <2> QED
    BY <2>1, <2>2, <2>6, EntryStep
<1>3. ASSUME NEW p \in Steps, Skip(p) PROVE HistoryInv'
  <2>1. Enter(p) /\ Record(p, "skipped") /\ \E o: GoNext(p, o)
    BY <1>3 DEF Skip
  <2>2. Successor(p)' = Following(p)
    BY <1>1, <2>1 DEF Entries
  <2>3. Leads(Following(p))
    BY <2>1, NextLeads
  <2>4. Leads(Successor(p)')
    BY <2>2, <2>3 DEF Leads
  <2> QED
    BY <2>1, <2>4, EntryStep
<1>4. ASSUME NEW p \in Steps, NEW tried, Fail(p, tried) PROVE HistoryInv'
  <2>1. Enter(p) /\ Record(p, "error")
    BY <1>4 DEF Fail
  <2>2. \E o: \/ Unrouted(p, OnError, "error") /\ GiveUp
              \/ ~Unrouted(p, OnError, "error") /\ Go(p, OnError, "error", o)
    BY <1>4 DEF Fail
  <2>3. Successor(p)' = Way(p, OnError, "error")
    BY <1>1, <2>1 DEF Entries
  <2>4. Leads(Way(p, OnError, "error"))
    BY <2>2, GoLeads
  <2>5. Leads(Successor(p)')
    BY <2>3, <2>4 DEF Leads
  <2> QED
    BY <2>1, <2>5, EntryStep
<1>5. ASSUME NEW p \in Steps, NEW s \in Skills, Escape(p, s) PROVE HistoryInv'
  BY <1>5, EntryStep DEF Escape
<1>6. CASE Start
  <2>1. UNCHANGED <<config, visited, results, trail>> /\ trail = <<>>
          /\ phase' \in {"walking", "done"}
          /\ (phase' = "walking" => pos' = Min(Steps))
    BY <1>6 DEF Start, Finish, WalkTo, HistoryInv
  <2>2. Steps' = Steps /\ Min(Steps)' = Min(Steps)
    BY <2>1, SameWorkflow DEF Min
  <2> QED
    BY <2>1, <2>2 DEF HistoryInv, HistoryReplays
<1>7. CASE Loop
  <2>1. /\ UNCHANGED <<config, visited, results, trail>>
        /\ phase = "walking" /\ phase' = "failed" /\ pos \in visited /\ UNCHANGED pos
    BY <1>7 DEF Loop, GiveUp
  <2>2. Steps' = Steps /\ \A q: Successor(q)' = Successor(q)
    BY <2>1, SameWorkflow, SameSuccessor
  <2>3. trail # <<>> /\ pos \in Steps /\ pos \in Int /\ End \notin Int
    <3>1. trail # <<>>
      BY <2>1 DEF NoStepTwice
    <3> QED
      BY <2>1, <3>1, WalkAssumption DEF TypeOK, WalkAssumption
  <2>4. Min(Steps)' = Min(Steps)
    BY <2>2 DEF Min
  <2>5. HistoryReplays'
    <3>1. PICK last: last = trail[Len(trail)] /\ last = trail'[Len(trail')]
      BY <2>1
    <3>2. Successor(last)' = Successor(last)
      BY <2>2
    <3>3. pos = Successor(last) /\ results[last] # "none" /\ trail[1] = Min(Steps)
            /\ \A i \in 1..(Len(trail) - 1):
                  results[trail[i]] # "none" /\ trail[i + 1] = Successor(trail[i])
      BY <2>1, <2>3, <3>1 DEF HistoryInv, HistoryReplays
    <3>4. Successor(last) \notin (Steps \ visited) \cup {End}
      BY <2>1, <2>3, <3>3
    <3>5. ASSUME NEW i \in 1..(Len(trail) - 1)
          PROVE  results'[trail'[i]] # "none" /\ trail'[i + 1] = Successor(trail[i])'
      <4>1. PICK q: q = trail[i] /\ q = trail'[i]
        BY <2>1
      <4> QED
        BY <2>1, <2>2, <3>3, <4>1
    <3>6. Successor(trail[Len(trail)])' = Successor(last)'
      BY <3>1
    <3> QED
      BY <2>1, <2>2, <2>4, <3>1, <3>2, <3>3, <3>4, <3>5, <3>6 DEF HistoryReplays
  <2> QED
    BY <2>1, <2>2, <2>5 DEF HistoryInv
<1>8. CASE UNCHANGED vars
  <2>1. UNCHANGED <<workflow, launch, allowed, phase, pos, visited, results, trail>>
    BY <1>8 DEF vars
  <2>2. Steps' = Steps /\ Min(Steps)' = Min(Steps) /\ \A q: Successor(q)' = Successor(q)
    BY <2>1, SameWorkflow, SameSuccessor DEF Min, config
  <2>3. HistoryReplays'
    <3>1. \A i: trail'[i] = trail[i] /\ Successor(trail[i])' = Successor(trail[i])
      <4>1. ASSUME NEW i PROVE Successor(trail[i])' = Successor(trail[i])
        <5>1. PICK q: q = trail[i] /\ q = trail'[i]
          BY <2>1
        <5> QED
          BY <2>2, <5>1
      <4> QED
        BY <2>1, <4>1
    <3>2. Successor(trail[Len(trail)])' = Successor(trail[Len(trail)])
      <4>1. PICK n: n = Len(trail) /\ n = Len(trail')
        BY <2>1
      <4>2. PICK q: q = trail[n] /\ q = trail'[n]
        BY <2>1
      <4> QED
        BY <2>2, <4>1, <4>2
    <3> QED
      BY <2>1, <2>2, <3>1, <3>2 DEF HistoryInv, HistoryReplays
  <2> QED
    BY <2>1, <2>2, <2>3 DEF HistoryInv
<1> QED
  BY <1>2, <1>3, <1>4, <1>5, <1>6, <1>7, <1>8 DEF Next, Step

\* Whatever the routes, a run's history and its definition together tell every step the
\* walk took and why it ended, except the step whose linked task killed the run.
THEOREM HistoryTellsTheWalk == Spec => []HistoryReplays
<1>1. Init => HistoryInv
  BY DEF Init, HistoryInv, HistoryReplays
<1>2. HistoryInv => HistoryReplays
  BY DEF HistoryInv
<1> QED
  BY <1>1, <1>2, HistoryStep, NoStepRunsTwice, TypeCorrect, PTL DEF Spec

\* Until a run fails, recovered says whether a step of it ended in an error: a run
\* that failed may have both, the error it failed by and the errors it handled.
RecoveredSoFar == phase \in {"start", "walking", "done"} => (recovered <=> errors # {})

\* "recovered" and "completed" tell the truth about a finished run.
THEOREM RecoveredIsHonest == Spec => []RecoveredMeansHandled
<1>1. Init => RecoveredSoFar
  BY DEF Init, RecoveredSoFar
<1>2. TypeOK /\ RecoveredSoFar /\ [Next]_vars => RecoveredSoFar'
  <2> SUFFICES ASSUME TypeOK, RecoveredSoFar, [Next]_vars PROVE RecoveredSoFar'
    OBVIOUS
  <2> USE DEF RecoveredSoFar
  <2>1. ASSUME NEW p \in Steps, NEW s \in Skills, NEW b \in Branches, Return(p, s, b)
        PROVE  RecoveredSoFar'
    <3> DEFINE kind == Kind[wf.skill[p]][b]
    <3>1. phase = "walking" /\ recovered \in BOOLEAN
      BY <2>1 DEF Return, Enter, TypeOK
    <3>2. errors' = IF kind = "error" THEN errors \cup {p} ELSE errors
      BY <2>1 DEF Return
    <3>3. phase' = "failed" \/ recovered' = (recovered \/ kind = "error")
      BY <2>1 DEF Return, GiveUp, Handled
    <3> HIDE DEF kind
    <3>4. CASE kind = "error"
      BY <3>1, <3>2, <3>3, <3>4
    <3>5. CASE kind # "error"
      BY <3>1, <3>2, <3>3, <3>5
    <3> QED
      BY <3>4, <3>5
  <2>2. ASSUME NEW p \in Steps, NEW tried, Fail(p, tried) PROVE RecoveredSoFar'
    <3>1. errors' # {} /\ (phase' = "failed" \/ recovered')
      BY <2>2 DEF Fail, GiveUp, Handled
    <3> QED
      BY <3>1
  <2>3. ASSUME NEW p \in Steps, Skip(p) PROVE RecoveredSoFar'
    BY <2>3 DEF Skip, Enter
  <2>4. ASSUME NEW p \in Steps, NEW s \in Skills, Escape(p, s) PROVE RecoveredSoFar'
    BY <2>4 DEF Escape
  <2>5. CASE Start \/ Loop \/ UNCHANGED vars
    BY <2>5 DEF Start, Loop, vars
  <2> QED
    BY <2>1, <2>2, <2>3, <2>4, <2>5 DEF Next, Step
<1>3. RecoveredSoFar => RecoveredMeansHandled
  BY DEF RecoveredSoFar, RecoveredMeansHandled
<1> QED
  BY <1>1, <1>2, <1>3, TypeCorrect, PTL DEF Spec

\* No privileged skill runs in a run that was not started privileged, whatever its
\* steps name as skill or fallback.
THEOREM PrivilegeHolds == Spec => []PrivilegedOnlyWhenAllowed
<1>1. Init => PrivilegedOnlyWhenAllowed
  BY DEF Init, PrivilegedOnlyWhenAllowed
<1>2. PrivilegedOnlyWhenAllowed /\ [Next]_vars => PrivilegedOnlyWhenAllowed'
  <2> SUFFICES ASSUME PrivilegedOnlyWhenAllowed, [Next]_vars
               PROVE  PrivilegedOnlyWhenAllowed'
    OBVIOUS
  <2>1. ASSUME NEW p \in Steps, NEW s, Runs(p, s) PROVE s \in Privileged => allowed
    BY <2>1 DEF Runs, MayRun
  <2>2. ASSUME UNCHANGED allowed, \A x \in ran': x \in ran \/ (x[2] \in Privileged => allowed)
        PROVE  PrivilegedOnlyWhenAllowed'
    BY <2>2 DEF PrivilegedOnlyWhenAllowed
  <2>3. ASSUME NEW p \in Steps, NEW s \in Skills, NEW b \in Branches, Return(p, s, b)
        PROVE  PrivilegedOnlyWhenAllowed'
    BY <2>1, <2>2, <2>3 DEF Return, Enter, config
  <2>4. ASSUME NEW p \in Steps, NEW tried, Fail(p, tried) PROVE PrivilegedOnlyWhenAllowed'
    BY <2>1, <2>2, <2>4 DEF Fail, Enter, config
  <2>5. ASSUME NEW p \in Steps, Skip(p) PROVE PrivilegedOnlyWhenAllowed'
    BY <2>2, <2>5 DEF Skip, Enter, config
  <2>6. ASSUME NEW p \in Steps, NEW s \in Skills, Escape(p, s)
        PROVE  PrivilegedOnlyWhenAllowed'
    BY <2>1, <2>2, <2>6 DEF Escape, Enter, config
  <2>7. CASE Start \/ Loop \/ UNCHANGED vars
    BY <2>2, <2>7 DEF Start, Loop, vars, config
  <2> QED
    BY <2>3, <2>4, <2>5, <2>6, <2>7 DEF Next, Step
<1> QED
  BY <1>1, <1>2, PTL DEF Spec
-----------------------------------------------------------------------------
(* The result *)

\* What a walk of a workflow whose routes only lead forward has behind it: it stands past
\* all it visited, and the position it entered last is the highest that passed anything on.
Climbing ==
    Forward(wf) =>
        /\ \A q \in Steps: outputs[q] # Absent => q \in visited
        /\ phase = "start" => visited = {} /\ trail = <<>>
        /\ phase = "walking" => \A q \in visited: q < pos
        /\ trail # <<>> =>
            LET last == trail[Len(trail)] IN
            /\ last \in Steps
            /\ \A q \in visited: q =< last
            /\ phase \in {"walking", "done"} => outputs[last] # Absent
            /\ phase = "done" => result = outputs[last]

\* The highest position is the one that no other exceeds.
LEMMA MaxIsHighest ==
  ASSUME NEW S, S \subseteq Int, NEW m \in S, \A x \in S: x =< m
  PROVE  Max(S) = m
<1>1. m \in S /\ \A y \in S: m >= y
  OBVIOUS
<1> DEFINE x == Max(S)
<1>2. x \in S /\ \A y \in S: x >= y
  BY <1>1 DEF Max
<1> HIDE DEF x
<1>3. x >= m /\ m >= x /\ x \in Int /\ m \in Int
  BY <1>1, <1>2
<1>4. x = m
  BY <1>3
<1> QED
  BY <1>4 DEF x

\* The lowest position after p is after p.
LEMMA MinIsAfter ==
  ASSUME TypeOK, NEW p \in Steps, After(p) # {}
  PROVE  Min(After(p)) \in Steps /\ Min(After(p)) > p
<1>1. After(p) \subseteq -PositionLimit..PositionLimit
  BY RunningType DEF After
<1>2. Min(After(p)) \in After(p)
  BY <1>1, MinIsMember
<1> QED
  BY <1>2 DEF After

\* In such a workflow the walk moves up, or finishes, or gives up.
LEMMA GoClimbs ==
  ASSUME TypeOK, Forward(wf), NEW p \in Steps, NEW b \in Branches, NEW kind, NEW o,
         Go(p, b, kind, o) \/ GoNext(p, o)
  PROVE  Finish(o) \/ GiveUp \/ \E q \in Steps: q > p /\ WalkTo(q)
<1>1. ASSUME GoNext(p, o)
      PROVE  Finish(o) \/ \E q \in Steps: q > p /\ WalkTo(q)
  BY <1>1, MinIsAfter DEF GoNext
<1>2. ASSUME Go(p, b, kind, o)
      PROVE  Finish(o) \/ GiveUp \/ GoNext(p, o) \/ \E q \in Steps: q > p /\ WalkTo(q)
  <2> DEFINE route == RouteOf(p, b)
  <2>1. CASE route \in Steps
    <3>1. route > p
      BY <2>1 DEF Forward, RouteOf, Names, Steps
    <3>2. route # End /\ route # NoRoute
      BY <2>1, RunningType, WalkAssumption DEF WalkAssumption
    <3> HIDE DEF route
    <3>3. WalkTo(route)
      BY <1>2, <2>1, <3>2 DEF Go, route
    <3> QED
      BY <2>1, <3>1, <3>3
  <2>2. CASE route \notin Steps
    BY <1>2, <2>2, WalkAssumption DEF Go, WalkAssumption
  <2> QED
    BY <2>1, <2>2
<1> QED
  BY <1>1, <1>2

\* An input is never absent: what a skipped step passes on counts as an output.
LEMMA InputIsPresent == ASSUME NEW p PROVE InputOf(p) # Absent
<1>1. Nil # Absent /\ Remote # Absent /\ Initial # Absent
  BY DEF Nil, Remote, Initial, Absent, Value
<1>2. \A q: Passed(q) # Absent
  BY <1>1 DEF Passed
<1> QED
  BY <1>1, <1>2 DEF InputOf

\* A step at p that passes something on, or gives up, leaves the walk climbing.
LEMMA StepClimbs ==
  ASSUME TypeOK, Climbing, NEW p \in Steps, Enter(p), NEW value, value # Absent,
         value \in Values, NEW b \in Branches, NEW kind,
         LET o == [outputs EXCEPT ![p] = value] IN
         \/ outputs' = o /\ (Go(p, b, kind, o) \/ GoNext(p, o) \/ GiveUp)
         \/ outputs' = outputs /\ (GiveUp \/ phase' = "killed")
  PROVE  Climbing'
<1> DEFINE o == [outputs EXCEPT ![p] = value]
<1>1. /\ phase = "walking" /\ pos = p /\ visited' = visited \cup {p}
      /\ trail' = Append(trail, p) /\ UNCHANGED config
  BY DEF Enter
<1>2. wf' = wf /\ Steps' = Steps /\ Forward(wf)' = Forward(wf)
  BY <1>1 DEF config, wf, Steps
<1> SUFFICES ASSUME Forward(wf) PROVE Climbing'
  BY <1>2 DEF Climbing
<1>3. Steps \subseteq Int /\ p \in Int /\ visited \subseteq Steps
  BY RunningType, WalkAssumption DEF WalkAssumption, TypeOK
<1>4. \A q \in visited': q =< p
  BY <1>1, <1>3 DEF Climbing
<1>5. trail' # <<>> /\ trail'[Len(trail')] = p
  BY <1>1 DEF TypeOK
<1>6. outputs \in [Steps -> Values]
  BY DEF TypeOK
<1>7. \A q \in Steps: outputs'[q] # Absent => q \in visited'
  <2>1. outputs' \in {o, outputs}
    OBVIOUS
  <2>2. \A q \in Steps: q # p => outputs'[q] = outputs[q]
    BY <1>6, <2>1
  <2> QED
    BY <1>1, <2>2 DEF Climbing
<1>8. CASE GiveUp \/ phase' = "killed"
  <2>1. phase' \in {"failed", "killed"}
    BY <1>8 DEF GiveUp
  <2> QED
    BY <1>2, <1>4, <1>5, <1>7, <2>1 DEF Climbing
<1>9. CASE outputs' = o /\ (Go(p, b, kind, o) \/ GoNext(p, o)) /\ ~GiveUp
  <2>1. o[p] = value
    BY <1>6
  <2> HIDE DEF o
  <2>2. Finish(o) \/ \E q \in Steps: q > p /\ WalkTo(q)
    BY <1>9, GoClimbs
  <2>3. CASE Finish(o)
    <3> DEFINE passed == {q \in Steps: o[q] # Absent}
    <3>1. p \in passed /\ passed \subseteq Int /\ \A q \in passed: q =< p
      BY <1>2, <1>3, <1>4, <1>7, <1>9, <2>1
    <3> HIDE DEF passed
    <3>2. Max(passed) = p
      BY <3>1, MaxIsHighest
    <3>3. LastOutput(o) = o[p]
      BY <3>1, <3>2 DEF LastOutput, passed
    <3>4. phase' = "done" /\ result' = outputs'[p]
      BY <1>9, <2>3, <3>3 DEF Finish
    <3> QED
      BY <1>2, <1>4, <1>5, <1>7, <1>9, <2>1, <3>4 DEF Climbing
  <2>4. ASSUME NEW q \in Steps, q > p, WalkTo(q)
        PROVE  Climbing'
    <3>1. phase' = "walking" /\ pos' = q /\ \A x \in visited': x < pos'
      BY <1>1, <1>3, <1>4, <2>4 DEF WalkTo
    <3> QED
      BY <1>2, <1>4, <1>5, <1>7, <1>9, <2>1, <3>1 DEF Climbing
  <2> QED
    BY <2>2, <2>3, <2>4
<1> QED
  BY <1>8, <1>9

LEMMA ClimbingStep == TypeOK /\ Climbing /\ [Next]_vars => Climbing'
<1> SUFFICES ASSUME TypeOK, Climbing, [Next]_vars PROVE Climbing'
  OBVIOUS
<1>1. ASSUME NEW p \in Steps PROVE Value("out", p) \in Values \ {Absent} /\ Value("error", p) \in Values \ {Absent}
  BY DEF Value, Values, Absent
<1>2. ASSUME NEW p \in Steps, NEW s \in Skills, NEW b \in Branches, Return(p, s, b)
      PROVE  Climbing'
  <2>1. \E kind: LET o == [outputs EXCEPT ![p] = Value("out", p)] IN
            Enter(p) /\ outputs' = o /\ (GiveUp \/ Go(p, b, kind, o))
    BY <1>2 DEF Return
  <2> QED
    BY <1>1, <2>1, StepClimbs
<1>3. ASSUME NEW p \in Steps, Skip(p) PROVE Climbing'
  <2>1. LET o == [outputs EXCEPT ![p] = InputOf(p)] IN
            Enter(p) /\ outputs' = o /\ GoNext(p, o)
    BY <1>3 DEF Skip
  <2>2. InputOf(p) \in Values /\ InputOf(p) # Absent
    BY InputIsValue, InputIsPresent
  <2>3. OnError \in Branches
    BY WalkAssumption DEF WalkAssumption
  <2> QED
    BY <2>1, <2>2, <2>3, StepClimbs
<1>4. ASSUME NEW p \in Steps, NEW tried, Fail(p, tried) PROVE Climbing'
  <2>1. LET o == [outputs EXCEPT ![p] = Value("error", p)] IN
            /\ Enter(p)
            /\ \/ outputs' = outputs /\ GiveUp
               \/ outputs' = o /\ Go(p, OnError, "error", o)
    BY <1>4 DEF Fail
  <2>2. OnError \in Branches
    BY WalkAssumption DEF WalkAssumption
  <2> QED
    BY <1>1, <2>1, <2>2, StepClimbs
<1>5. ASSUME NEW p \in Steps, NEW s \in Skills, Escape(p, s) PROVE Climbing'
  <2>1. Enter(p) /\ outputs' = outputs /\ phase' = "killed"
    BY <1>5 DEF Escape
  <2>2. OnError \in Branches
    BY WalkAssumption DEF WalkAssumption
  <2> QED
    BY <1>1, <2>1, <2>2, StepClimbs
<1>6. CASE Start
  <2>1. /\ phase = "start" /\ UNCHANGED <<config, visited, outputs, trail>>
        /\ phase' \in {"walking", "done"}
    BY <1>6 DEF Start, Finish, WalkTo
  <2>2. wf' = wf /\ Steps' = Steps
    BY <2>1 DEF config, wf, Steps
  <2>3. Forward(wf) => visited = {} /\ trail = <<>>
    BY <2>1 DEF Climbing
  <2> QED
    BY <2>1, <2>2, <2>3 DEF Climbing
<1>7. CASE Loop
  <2>1. phase' = "failed" /\ UNCHANGED <<config, visited, outputs, trail>>
    BY <1>7 DEF Loop, GiveUp
  <2>2. wf' = wf /\ Steps' = Steps
    BY <2>1 DEF config, wf, Steps
  <2> QED
    BY <2>1, <2>2 DEF Climbing
<1>8. CASE UNCHANGED vars
  <2>1. UNCHANGED <<workflow, phase, pos, visited, outputs, trail, result>>
    BY <1>8 DEF vars
  <2>2. wf' = wf /\ Steps' = Steps
    BY <2>1 DEF wf, Steps
  <2> QED
    BY <2>1, <2>2 DEF Climbing
<1> QED
  BY <1>2, <1>3, <1>4, <1>5, <1>6, <1>7, <1>8 DEF Next, Step

\* A run whose routes only lead forward ends with the output of the step it entered last:
\* reading the highest position is then the same as reading the latest (last_output/1).
THEOREM ResultIsTheLatest == Spec => []ResultIsLatest
<1>1. Init => Climbing
  BY DEF Init, Climbing
<1>2. Climbing => ResultIsLatest
  BY DEF Climbing, ResultIsLatest
<1> QED
  BY <1>1, <1>2, ClimbingStep, TypeCorrect, PTL DEF Spec
-----------------------------------------------------------------------------
(* The circuit breaker a skill is called through *)

\* A closed circuit's count never runs ahead of the failures in a row.
CountIsHonest ==
    circuit.state = "closed" => circuit.count =< streak /\ circuit.count < MaxFailures

BreakerInv == BreakerTypeOK /\ OpenHasWayOut /\ CountIsHonest
-----------------------------------------------------------------------------
(* The mailbox *)

\* Appending keeps a waiting :half_open, and adds one.
LEMMA Posted ==
  ASSUME NEW q \in Seq(Messages), NEW m \in Messages
  PROVE  /\ Append(q, m) \in Seq(Messages)
         /\ Contains(q, "half_open") => Contains(Append(q, m), "half_open")
         /\ m = "half_open" => Contains(Append(q, m), "half_open")
<1>1. Append(q, m) \in Seq(Messages) /\ Len(Append(q, m)) = Len(q) + 1
         /\ Append(q, m)[Len(q) + 1] = m
         /\ \A i \in 1..Len(q): Append(q, m)[i] = q[i]
  OBVIOUS
<1>2. Len(q) \in Nat
  OBVIOUS
<1> QED
  BY <1>1, <1>2 DEF Contains

\* Serving another message keeps a waiting :half_open.
LEMMA Served ==
  ASSUME NEW q \in Seq(Messages), q # <<>>
  PROVE  /\ Tail(q) \in Seq(Messages)
         /\ Contains(q, "half_open") /\ Head(q) # "half_open"
               => Contains(Tail(q), "half_open")
<1>1. Tail(q) \in Seq(Messages) /\ Len(Tail(q)) = Len(q) - 1 /\ Head(q) = q[1]
         /\ \A i \in 1..Len(q) - 1: Tail(q)[i] = q[i + 1]
  OBVIOUS
<1>2. ASSUME NEW i \in 1..Len(q), q[i] = "half_open", Head(q) # "half_open"
      PROVE  i - 1 \in 1..Len(Tail(q)) /\ Tail(q)[i - 1] = "half_open"
  BY <1>1, <1>2
<1> QED
  BY <1>1, <1>2 DEF Contains

\* At most one :half_open is waiting.
OneTest(q) ==
    \A i, j \in 1..Len(q): q[i] = "half_open" /\ q[j] = "half_open" => i = j

\* What a message adds to the tests that wait.
LEMMA PostedTests ==
  ASSUME NEW q \in Seq(Messages), NEW m \in Messages
  PROVE  /\ m # "half_open" => Contains(Append(q, m), "half_open") = Contains(q, "half_open")
         /\ m # "half_open" /\ OneTest(q) => OneTest(Append(q, m))
         /\ ~Contains(q, "half_open") => OneTest(Append(q, m))
<1>1. Append(q, m) \in Seq(Messages) /\ Len(Append(q, m)) = Len(q) + 1
         /\ Append(q, m)[Len(q) + 1] = m
         /\ \A i \in 1..Len(q): Append(q, m)[i] = q[i]
  OBVIOUS
<1>2. Len(q) \in Nat
  OBVIOUS
<1>3. ASSUME m # "half_open"
      PROVE  Contains(Append(q, m), "half_open") <=> Contains(q, "half_open")
  BY <1>1, <1>2, <1>3 DEF Contains
<1>4. ASSUME m # "half_open", OneTest(q) PROVE OneTest(Append(q, m))
  BY <1>1, <1>2, <1>4 DEF OneTest
<1>5. ASSUME ~Contains(q, "half_open") PROVE OneTest(Append(q, m))
  BY <1>1, <1>2, <1>5 DEF Contains, OneTest
<1>6. Contains(Append(q, m), "half_open") \in BOOLEAN /\ Contains(q, "half_open") \in BOOLEAN
  BY DEF Contains
<1> QED
  BY <1>3, <1>4, <1>5, <1>6

\* What serving a message takes from the tests that wait.
LEMMA ServedTests ==
  ASSUME NEW q \in Seq(Messages), q # <<>>
  PROVE  /\ Head(q) # "half_open" => Contains(Tail(q), "half_open") = Contains(q, "half_open")
         /\ OneTest(q) => OneTest(Tail(q))
         /\ OneTest(q) /\ Head(q) = "half_open" => ~Contains(Tail(q), "half_open")
         /\ ~Contains(q, "half_open") => ~Contains(Tail(q), "half_open")
         /\ Head(q) = "half_open" => Contains(q, "half_open")
         /\ ~Contains(Tail(q), "half_open") => OneTest(Tail(q))
<1>1. Tail(q) \in Seq(Messages) /\ Len(Tail(q)) = Len(q) - 1 /\ Head(q) = q[1]
         /\ Len(q) \in Nat \ {0}
         /\ \A i \in 1..Len(q) - 1: Tail(q)[i] = q[i + 1]
  OBVIOUS
<1>2. ASSUME NEW i \in 1..Len(Tail(q))
      PROVE  i + 1 \in 1..Len(q) /\ i + 1 # 1 /\ Tail(q)[i] = q[i + 1]
  BY <1>1
<1>3. ASSUME NEW i \in 1..Len(q), q[i] = "half_open", Head(q) # "half_open"
      PROVE  i - 1 \in 1..Len(Tail(q)) /\ Tail(q)[i - 1] = "half_open"
  BY <1>1, <1>3
<1>4. 1 \in 1..Len(q)
  BY <1>1
<1>5. Head(q) # "half_open" => (Contains(Tail(q), "half_open") <=> Contains(q, "half_open"))
  BY <1>2, <1>3 DEF Contains
<1>6. OneTest(q) => OneTest(Tail(q))
  <2>1. ASSUME OneTest(q), NEW i \in 1..Len(Tail(q)), NEW j \in 1..Len(Tail(q)),
               Tail(q)[i] = "half_open", Tail(q)[j] = "half_open"
        PROVE  i = j
    <3>1. i + 1 = j + 1
      BY <1>2, <2>1 DEF OneTest
    <3> QED
      BY <1>1, <3>1
  <2> QED
    BY <2>1 DEF OneTest
<1>7. OneTest(q) /\ Head(q) = "half_open" => ~Contains(Tail(q), "half_open")
  BY <1>1, <1>2, <1>4 DEF Contains, OneTest
<1>8. ~Contains(q, "half_open") => ~Contains(Tail(q), "half_open")
  BY <1>2 DEF Contains
<1>9. Head(q) = "half_open" => Contains(q, "half_open")
  BY <1>1, <1>4 DEF Contains
<1>10. ~Contains(Tail(q), "half_open") => OneTest(Tail(q))
  BY DEF Contains, OneTest
<1>11. Contains(Tail(q), "half_open") \in BOOLEAN /\ Contains(q, "half_open") \in BOOLEAN
  BY DEF Contains
<1> QED
  BY <1>5, <1>6, <1>7, <1>8, <1>9, <1>10, <1>11
-----------------------------------------------------------------------------
\* The initial state satisfies the invariant.
LEMMA BreakerInitially == BreakerInit => BreakerInv
<1> SUFFICES ASSUME BreakerInit PROVE BreakerInv
  OBVIOUS
<1>1. stray \in BOOLEAN
  BY DEF BreakerInit
<1>2. BreakerTypeOK
  BY <1>1, BreakerAssumption
     DEF BreakerAssumption, BreakerInit, BreakerTypeOK, NoCircuit, Row, States, Messages
<1>3. OpenHasWayOut /\ CountIsHonest
  BY DEF BreakerInit, OpenHasWayOut, CountIsHonest, NoCircuit, Row
<1> QED
  BY <1>2, <1>3 DEF BreakerInv

\* Every step keeps the types.
LEMMA BreakerTypeStep == BreakerTypeOK /\ [BreakerNext]_breakerVars => BreakerTypeOK'
<1> SUFFICES ASSUME BreakerTypeOK, [BreakerNext]_breakerVars PROVE BreakerTypeOK'
  OBVIOUS
<1> USE BreakerAssumption
    DEF BreakerAssumption, BreakerTypeOK, States, Row, Closed, NoCircuit, Known,
        Boot, server, bounds
<1>1. ASSUME NEW c \in Callers, Ensure(c) PROVE BreakerTypeOK'
  BY <1>1 DEF Ensure
<1>2. ASSUME NEW c \in Callers, Check(c) PROVE BreakerTypeOK'
  BY <1>2 DEF Check
<1>3. ASSUME NEW c \in Callers, NEW outcome \in {"ok", "error", "raise"}, Report(c, outcome)
      PROVE  BreakerTypeOK'
  <2>1. mailbox' \in Seq(Messages)
    BY <1>3, Posted DEF Report, Messages
  <2> QED
    BY <1>3, <2>1 DEF Report
<1>4. ASSUME NEW m \in Messages, Receive(m) PROVE mailbox' \in Seq(Messages)
  BY <1>4, Served DEF Receive
<1>5. CASE RecordFailure
  <2>1. mailbox' \in Seq(Messages)
    BY <1>4, <1>5 DEF RecordFailure, Messages
  <2>2. Known \in [state: States, count: Nat]
    OBVIOUS
  <2>3. \E count \in Nat: Open(count) \/ (circuit' = Row(Known.state, count) /\ UNCHANGED timer)
    <3> HIDE DEF Known
    <3>1. Known.count + 1 \in Nat
      BY <2>2
    <3>2. \/ Open(Known.count + 1)
          \/ Open(MaxFailures)
          \/ circuit' = Row(Known.state, Known.count + 1) /\ UNCHANGED timer
      BY <1>5 DEF RecordFailure
    <3> QED
      BY <3>1, <3>2
  <2>4. circuit' \in [state: States, count: Nat] /\ timer' \in {"none", "armed", "fired"}
    BY <2>2, <2>3 DEF Open
  <2> QED
    BY <1>5, <2>1, <2>4 DEF RecordFailure, Receive
<1>6. CASE RecordSuccess
  <2>1. mailbox' \in Seq(Messages)
    BY <1>4, <1>6 DEF RecordSuccess, Messages
  <2> QED
    BY <1>6, <2>1 DEF RecordSuccess, Receive, Succeed
<1>7. CASE HalfOpen
  <2>1. mailbox' \in Seq(Messages)
    BY <1>4, <1>7 DEF HalfOpen, Messages
  <2> QED
    BY <1>7, <2>1 DEF HalfOpen, Receive
<1>8. CASE Reset
  <2>1. mailbox' \in Seq(Messages)
    BY <1>4, <1>8 DEF Reset, Messages
  <2> QED
    BY <1>8, <2>1 DEF Reset, Receive
<1>9. CASE Fire
  <2>1. mailbox' \in Seq(Messages)
    BY <1>9, Posted DEF Fire, Messages
  <2> QED
    BY <1>9, <2>1 DEF Fire
<1>10. CASE Crash
  <2>1. stray' \in BOOLEAN
    BY <1>10 DEF Crash, Gone
  <2> QED
    BY <1>10, <2>1 DEF Crash, Gone
<1>11. CASE Restart
  BY <1>11 DEF Restart
<1>12. CASE LoseTable
  BY <1>12 DEF LoseTable
<1>13. CASE Stop
  <2>1. stray' \in BOOLEAN
    BY <1>13 DEF Stop, Gone
  <2> QED
    BY <1>13, <2>1 DEF Stop, Gone
<1>14. CASE Delete
  BY <1>14 DEF Delete
<1>15. CASE Reload
  <2>1. mailbox' \in Seq(Messages)
    BY <1>15, Posted DEF Reload, Messages
  <2> QED
    BY <1>15, <2>1 DEF Reload
<1>16. CASE UNCHANGED breakerVars
  BY <1>16 DEF breakerVars
<1> QED
  BY <1>1, <1>2, <1>3, <1>5, <1>6, <1>7, <1>8, <1>9, <1>10, <1>11, <1>12, <1>13, <1>14,
     <1>15, <1>16
     DEF BreakerNext, Serve

\* Every step keeps the way out.
LEMMA WayOutStep == BreakerInv /\ [BreakerNext]_breakerVars => OpenHasWayOut'
<1> SUFFICES ASSUME BreakerInv, [BreakerNext]_breakerVars PROVE OpenHasWayOut'
  OBVIOUS
<1>0. mailbox \in Seq(Messages) /\ (breaker # "up" => mailbox = <<>>)
  BY DEF BreakerInv, BreakerTypeOK
<1> USE DEF BreakerInv, BreakerTypeOK, OpenHasWayOut, Row, Closed, NoCircuit, Boot, server, bounds
<1>1. ASSUME NEW c \in Callers, Ensure(c) \/ Check(c) PROVE OpenHasWayOut'
  BY <1>1 DEF Ensure, Check
<1>2. ASSUME NEW c \in Callers, NEW outcome \in {"ok", "error", "raise"}, Report(c, outcome)
      PROVE  OpenHasWayOut'
  <2>1. Contains(mailbox, "half_open") => Contains(mailbox', "half_open")
    BY <1>0, <1>2, Posted DEF Report, Messages
  <2> QED
    BY <1>2, <2>1 DEF Report
<1>3. ASSUME NEW m \in Messages, m # "half_open", Receive(m),
             Contains(mailbox, "half_open")
      PROVE  Contains(mailbox', "half_open")
  BY <1>0, <1>3, Served DEF Receive
<1>4. CASE RecordFailure
  <2>1. Contains(mailbox, "half_open") => Contains(mailbox', "half_open")
    BY <1>3, <1>4 DEF RecordFailure, Messages
  <2>2. breaker = "up" /\ UNCHANGED loose
    BY <1>4 DEF RecordFailure, Receive
  <2>3. timer' = "armed" \/ (circuit'.state = Known.state /\ UNCHANGED timer)
    BY <1>4 DEF RecordFailure, Open
  <2>4. Known.state = "open" => circuit.state = "open"
    BY DEF Known
  <2> QED
    BY <2>1, <2>2, <2>3, <2>4
<1>5. CASE RecordSuccess
  <2>1. Contains(mailbox, "half_open") => Contains(mailbox', "half_open")
    BY <1>3, <1>5 DEF RecordSuccess, Messages
  <2> QED
    BY <1>5, <2>1 DEF RecordSuccess, Receive, Succeed, Known
<1>6. CASE HalfOpen \/ Reset \/ Restart \/ LoseTable \/ Delete
  BY <1>6 DEF HalfOpen, Reset, Restart, LoseTable, Delete
<1>7. CASE Fire
  <2>1. Contains(mailbox', "half_open")
    BY <1>0, <1>7, Posted DEF Fire, Messages
  <2> QED
    BY <2>1
<1>8. CASE Crash \/ Stop
  BY <1>8 DEF Crash, Stop, Gone
<1>9. CASE Reload
  <2>1. Contains(mailbox, "half_open") => Contains(mailbox', "half_open")
    BY <1>0, <1>9, Posted DEF Reload, Messages
  <2> QED
    BY <1>9, <2>1 DEF Reload
<1>10. CASE UNCHANGED breakerVars
  BY <1>10 DEF breakerVars
<1> QED
  BY <1>1, <1>2, <1>4, <1>5, <1>6, <1>7, <1>8, <1>9, <1>10 DEF BreakerNext, Serve

\* A failure the breaker is told of: what it does to a circuit that was closed.
LEMMA FailureCounts ==
  ASSUME BreakerInv, RecordFailure
  PROVE  /\ CountIsHonest'
         /\ circuit.state \in {"closed", "absent"} /\ circuit'.state = "open"
               => streak' >= MaxFailures
<1> USE BreakerAssumption DEF BreakerAssumption, BreakerInv, BreakerTypeOK, CountIsHonest, Row, Closed
<1>1. streak' = IF streak < MaxFailures THEN streak + 1 ELSE streak
  BY DEF RecordFailure
<1>2. Known.state \in {"closed", "open", "half_open"} /\ Known.count \in Nat
        /\ (Known.state = "closed" => Known.count =< streak)
        /\ (circuit.state \in {"closed", "absent"} => Known.state = "closed")
  BY DEF Known, States
<1> HIDE DEF Closed
<1>3. CASE Known.state = "closed" /\ Known.count + 1 >= MaxFailures
  <2>1. circuit'.state = "open"
    BY <1>3 DEF RecordFailure, Open
  <2> QED
    BY <1>1, <1>2, <1>3, <2>1
<1>4. CASE Known.state = "half_open"
  <2>1. circuit'.state = "open"
    BY <1>4 DEF RecordFailure, Open
  <2> QED
    BY <1>2, <1>4, <2>1
<1>5. CASE ~(Known.state = "closed" /\ Known.count + 1 >= MaxFailures)
             /\ Known.state # "half_open"
  <2>1. circuit' = Row(Known.state, Known.count + 1)
    BY <1>5 DEF RecordFailure
  <2> QED
    BY <1>1, <1>2, <1>5, <2>1
<1> QED
  BY <1>3, <1>4, <1>5

\* Every other step leaves the count honest, and a closed circuit not open.
LEMMA OthersCount ==
  ASSUME BreakerInv, [BreakerNext]_breakerVars, ~RecordFailure
  PROVE  /\ CountIsHonest'
         /\ circuit.state \in {"closed", "absent"} => circuit'.state # "open"
<1> USE BreakerAssumption DEF BreakerAssumption, BreakerInv, BreakerTypeOK, CountIsHonest, Row, Closed,
        NoCircuit, Known, Boot, server, bounds
<1>1. ASSUME NEW c \in Callers, Ensure(c) \/ Check(c) \/ \E outcome: Report(c, outcome)
      PROVE  /\ CountIsHonest'
             /\ circuit.state \in {"closed", "absent"} => circuit'.state # "open"
  BY <1>1 DEF Ensure, Check, Report
<1>2. CASE RecordSuccess
  BY <1>2 DEF RecordSuccess, Receive, Succeed
<1>3. CASE HalfOpen \/ Reset \/ Fire \/ Crash
  BY <1>3 DEF HalfOpen, Reset, Fire, Crash
<1>4. CASE Restart \/ LoseTable \/ Stop \/ Delete \/ Reload \/ UNCHANGED breakerVars
  BY <1>4 DEF Restart, LoseTable, Stop, Delete, Reload, breakerVars
<1> QED
  BY <1>1, <1>2, <1>3, <1>4 DEF BreakerNext, Serve
-----------------------------------------------------------------------------
(* Theorems *)

\* BreakerInv is an invariant, whatever calls, crashes and reloads interleave.
LEMMA Inductive == BreakerSpec => []BreakerInv
<1>1. BreakerInv /\ [BreakerNext]_breakerVars => BreakerInv'
  BY BreakerTypeStep, WayOutStep, FailureCounts, OthersCount DEF BreakerInv
<1> QED
  BY <1>1, BreakerInitially, PTL DEF BreakerSpec

\* The breaker's state is well typed in every behaviour.
THEOREM BreakerTypes == BreakerSpec => []BreakerTypeOK
<1>1. BreakerInv => BreakerTypeOK
  BY DEF BreakerInv
<1> QED
  BY <1>1, Inductive, PTL

\* An open circuit of a living breaker always has an armed timer or its message.
THEOREM OpenIsNeverStuck == BreakerSpec => []OpenHasWayOut
<1>1. BreakerInv => OpenHasWayOut
  BY DEF BreakerInv
<1> QED
  BY <1>1, Inductive, PTL

\* A closed circuit opens only after MaxFailures failures in a row, however many
\* callers report them.
THEOREM OpensOnlyOnEvidence == BreakerSpec => OpensOnEvidence
<1>1. BreakerInv /\ [BreakerNext]_breakerVars =>
        [circuit.state \in {"closed", "absent"} /\ circuit'.state = "open"
            => streak' >= MaxFailures]_breakerVars
  BY FailureCounts, OthersCount
<1> QED
  BY <1>1, Inductive, PTL DEF BreakerSpec, OpensOnEvidence

\* While nothing stray is about, a timer runs just as long as the circuit is open, and a
\* :half_open waits just when that timer has fired.
TestsMatchTimer ==
    breaker = "up" /\ ~stray =>
        /\ loose = 0
        /\ timer # "none" <=> circuit.state = "open"
        /\ timer = "fired" <=> Contains(mailbox, "half_open")
        /\ OneTest(mailbox)

\* Every step keeps timers, messages and the open circuit together, or leaves something
\* stray behind.
LEMMA TestsStep ==
  BreakerTypeOK /\ TestsMatchTimer /\ [BreakerNext]_breakerVars => TestsMatchTimer'
<1> SUFFICES ASSUME BreakerTypeOK, TestsMatchTimer, [BreakerNext]_breakerVars
             PROVE  TestsMatchTimer'
  OBVIOUS
<1>0. /\ mailbox \in Seq(Messages) /\ circuit.state \in States /\ loose \in Nat
      /\ timer \in {"none", "armed", "fired"}
      /\ breaker # "up" => mailbox = <<>> /\ timer = "none" /\ loose = 0
  BY DEF BreakerTypeOK
<1>1. ASSUME NEW m \in Messages \ {"half_open"}, mailbox' = Append(mailbox, m)
      PROVE  /\ Contains(mailbox', "half_open") = Contains(mailbox, "half_open")
             /\ OneTest(mailbox) => OneTest(mailbox')
  BY <1>0, <1>1, PostedTests
<1>2. ASSUME NEW m \in Messages \ {"half_open"}, Receive(m)
      PROVE  /\ breaker = "up" /\ breaker' = breaker
             /\ Contains(mailbox', "half_open") = Contains(mailbox, "half_open")
             /\ OneTest(mailbox) => OneTest(mailbox')
  BY <1>0, <1>2, ServedTests DEF Receive
<1>3. ASSUME NEW c \in Callers, Ensure(c) PROVE TestsMatchTimer'
  <2>1. CASE breaker = "up"
    BY <1>3, <2>1 DEF Ensure, TestsMatchTimer
  <2>2. CASE breaker # "up"
    <3>1. mailbox' = <<>> /\ timer' = "none" /\ loose' = 0 /\ circuit'.state = "closed"
      BY <1>0, <1>3, <2>2 DEF Ensure, Boot, Closed, Row
    <3> QED
      BY <3>1 DEF TestsMatchTimer, Contains, OneTest
  <2> QED
    BY <2>1, <2>2
<1>4. ASSUME NEW c \in Callers, Check(c) PROVE TestsMatchTimer'
  BY <1>4 DEF Check, server, TestsMatchTimer
<1>5. ASSUME NEW c \in Callers, NEW outcome \in {"ok", "error", "raise"}, Report(c, outcome)
      PROVE  TestsMatchTimer'
  <2>1. UNCHANGED <<circuit, breaker, timer, loose, stray>>
    BY <1>5 DEF Report, server
  <2>2. mailbox' = mailbox \/ \E m \in Messages \ {"half_open"}: mailbox' = Append(mailbox, m)
    BY <1>5 DEF Report, Messages
  <2>3. /\ Contains(mailbox', "half_open") = Contains(mailbox, "half_open")
        /\ OneTest(mailbox) => OneTest(mailbox')
    BY <1>1, <2>2
  <2> QED
    BY <2>1, <2>3 DEF TestsMatchTimer
<1>6. CASE RecordFailure
  <2>1. /\ breaker = "up" /\ breaker' = breaker /\ UNCHANGED <<loose, stray>>
        /\ Contains(mailbox', "half_open") = Contains(mailbox, "half_open")
        /\ OneTest(mailbox) => OneTest(mailbox')
    BY <1>2, <1>6 DEF RecordFailure, Messages
  <2>2. \/ /\ Known.state \in {"closed", "half_open"}
           /\ circuit'.state = "open" /\ timer' = "armed"
        \/ circuit'.state = Known.state /\ UNCHANGED timer
    BY <1>6 DEF RecordFailure, Open, Row
  <2>3. /\ Known.state = "open" <=> circuit.state = "open"
        /\ Known.state \in {"closed", "half_open"} => circuit.state # "open"
    BY DEF Known, Closed, Row
  <2> HIDE DEF Known
  <2> QED
    BY <2>1, <2>2, <2>3 DEF TestsMatchTimer
<1>7. CASE RecordSuccess
  <2>1. /\ breaker = "up" /\ breaker' = breaker /\ UNCHANGED <<loose, stray>>
        /\ Contains(mailbox', "half_open") = Contains(mailbox, "half_open")
        /\ OneTest(mailbox) => OneTest(mailbox')
    BY <1>2, <1>7 DEF RecordSuccess, Messages
  <2>2. \/ Known.state = "half_open" /\ circuit'.state = "closed" /\ timer' = "none"
        \/ circuit'.state = Known.state /\ UNCHANGED timer
    BY <1>7 DEF RecordSuccess, Succeed, Closed, Row
  <2>3. /\ Known.state = "open" <=> circuit.state = "open"
        /\ Known.state = "half_open" => circuit.state # "open"
    BY DEF Known, Closed, Row
  <2> HIDE DEF Known
  <2> QED
    BY <2>1, <2>2, <2>3 DEF TestsMatchTimer
<1>8. CASE HalfOpen
  <2>1. /\ breaker = "up" /\ mailbox # <<>> /\ Head(mailbox) = "half_open"
        /\ mailbox' = Tail(mailbox) /\ breaker' = breaker
        /\ circuit'.state = "half_open" /\ timer' = "none"
        /\ loose' = IF timer = "armed" THEN loose + 1 ELSE loose
        /\ stray' = (stray /\ (loose' > 0 \/ Contains(mailbox', "half_open")))
    BY <1>8 DEF HalfOpen, Receive, Row
  <2>2. CASE stray
    <3>1. loose' \in Nat
      BY <1>0, <2>1
    <3>2. ~stray' => ~(loose' > 0) /\ ~Contains(mailbox', "half_open")
      <4>1. stray' = (stray /\ (loose' > 0 \/ Contains(mailbox', "half_open")))
        BY <2>1
      <4> QED
        BY <2>2, <4>1, Zenon
    <3>3. ~(loose' > 0) => loose' = 0
      BY <3>1
    <3>4. ~Contains(mailbox', "half_open") => OneTest(mailbox')
      BY <1>0, <2>1, ServedTests
    <3> QED
      BY <2>1, <3>2, <3>3, <3>4 DEF TestsMatchTimer
  <2>3. CASE ~stray
    <3>1. Contains(mailbox, "half_open")
      BY <1>0, <2>1, ServedTests
    <3>2. timer = "fired" /\ loose = 0 /\ OneTest(mailbox)
      BY <2>1, <2>3, <3>1 DEF TestsMatchTimer
    <3>3. ~Contains(mailbox', "half_open") /\ OneTest(mailbox')
      BY <1>0, <2>1, <3>2, ServedTests
    <3> QED
      BY <2>1, <3>2, <3>3 DEF TestsMatchTimer
  <2> QED
    BY <2>2, <2>3
<1>9. CASE Reset
  <2>1. /\ breaker = "up" /\ breaker' = breaker /\ UNCHANGED loose
        /\ Contains(mailbox', "half_open") = Contains(mailbox, "half_open")
        /\ OneTest(mailbox) => OneTest(mailbox')
    BY <1>2, <1>9 DEF Reset, Messages
  <2>2. circuit'.state = "closed" /\ timer' = "none" /\ stray' = (stray \/ timer = "fired")
    BY <1>9 DEF Reset, Closed, Row
  <2> QED
    BY <2>1, <2>2 DEF TestsMatchTimer
<1>10. CASE Fire
  <2>1. /\ breaker = "up" /\ mailbox' = Append(mailbox, "half_open")
        /\ UNCHANGED <<circuit, breaker, stray>>
        /\ \/ timer = "armed" /\ timer' = "fired" /\ UNCHANGED loose
           \/ loose > 0 /\ loose' = loose - 1 /\ UNCHANGED timer
    BY <1>10 DEF Fire
  <2>2. Contains(mailbox', "half_open")
           /\ (~Contains(mailbox, "half_open") => OneTest(mailbox'))
    BY <1>0, <2>1, Posted, PostedTests DEF Messages
  <2>3. CASE ~stray
    <3>1. loose = 0
      BY <2>1, <2>3 DEF TestsMatchTimer
    <3>2. timer = "armed" /\ timer' = "fired" /\ loose' = 0
      BY <2>1, <3>1
    <3> QED
      BY <2>1, <2>2, <2>3, <3>1, <3>2 DEF TestsMatchTimer
  <2> QED
    BY <2>1, <2>3 DEF TestsMatchTimer
<1>11. CASE Crash \/ Stop
  BY <1>11 DEF Crash, Stop, Gone, TestsMatchTimer
<1>12. CASE Restart
  <2>1. mailbox' = <<>> /\ timer' = "none" /\ loose' = 0 /\ circuit'.state = "closed"
    BY <1>0, <1>12 DEF Restart, Boot, Closed, Row
  <2> QED
    BY <2>1 DEF TestsMatchTimer, Contains, OneTest
<1>13. CASE LoseTable \/ Delete
  <2>1. /\ circuit'.state = "absent" /\ stray' = (stray \/ timer # "none")
        /\ UNCHANGED <<breaker, timer, loose, mailbox>>
    BY <1>13 DEF LoseTable, Delete, NoCircuit, Row
  <2> QED
    BY <2>1 DEF TestsMatchTimer
<1>14. CASE Reload
  <2>1. UNCHANGED <<circuit, breaker, timer, loose, stray>>
          /\ mailbox' = Append(mailbox, "reset")
    BY <1>14 DEF Reload, server
  <2>2. /\ Contains(mailbox', "half_open") = Contains(mailbox, "half_open")
        /\ OneTest(mailbox) => OneTest(mailbox')
    BY <1>1, <2>1 DEF Messages
  <2> QED
    BY <2>1, <2>2 DEF TestsMatchTimer
<1>15. CASE UNCHANGED breakerVars
  BY <1>15 DEF breakerVars, TestsMatchTimer
<1> QED
  BY <1>3, <1>4, <1>5, <1>6, <1>7, <1>8, <1>9, <1>10, <1>11, <1>12, <1>13, <1>14, <1>15
     DEF BreakerNext, Serve

\* A circuit is put to the test only when it is open and its own timer fired, unless a
\* reset or a lost row left a message behind.
THEOREM TestsAreDue == BreakerSpec => TestIsDue
<1>1. BreakerInit => TestsMatchTimer
  BY DEF BreakerInit, TestsMatchTimer
<1>2. BreakerTypeOK /\ TestsMatchTimer /\ [BreakerNext]_breakerVars =>
        [HalfOpen => (circuit.state = "open" /\ timer = "fired") \/ stray]_breakerVars
  <2> SUFFICES ASSUME BreakerTypeOK, TestsMatchTimer, HalfOpen, ~stray
               PROVE  circuit.state = "open" /\ timer = "fired"
    OBVIOUS
  <2>1. breaker = "up" /\ mailbox # <<>> /\ Head(mailbox) = "half_open"
          /\ mailbox \in Seq(Messages)
    BY DEF HalfOpen, Receive, BreakerTypeOK
  <2>2. Contains(mailbox, "half_open")
    BY <2>1, ServedTests
  <2> QED
    BY <2>1, <2>2 DEF TestsMatchTimer
<1> QED
  BY <1>1, <1>2, TestsStep, BreakerTypes, PTL DEF BreakerSpec, TestIsDue
=============================================================================
