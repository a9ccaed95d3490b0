---------------------------- MODULE Player_proofs ----------------------------
(***************************************************************************)
(* For any recipes, pages and downloads: what the contract accepts can be   *)
(* played, a login starts on its origin, and success means that every step  *)
(* had its effect, in order.                                                *)
(*                                                                         *)
(* That needs to know which actions each await belongs to (Fits), which     *)
(* steps had their effect by then (Progress), and that the downloads        *)
(* reported are those of the download steps among them (Counted).  That     *)
(* each was saved needs whose handler was called for what (Filing).         *)
(***************************************************************************)
EXTENDS Player, FiniteSetTheorems, TLAPS

\* What validation and dump leave of the steps.
Shape ==
    /\ Len(steps) \in Nat /\ DOMAIN steps = 1..Len(steps)
    /\ \A n \in DOMAIN steps: /\ Playable(steps[n])
                              /\ "origin" \in DOMAIN steps[n] => steps[n].action = "fill"

Fits ==
    /\ k = 0 => pc \in {"loading", "next", "failing"} \cup Over
    /\ k > 0 => /\ pc = "loading" => steps[k].action = "navigate"
                /\ pc = "clicking" => steps[k].action \in {"click", "download"}
                /\ pc = "awaiting" => steps[k].action = "download"
                /\ pc \in {"resting", "evaluating", "shooting"} =>
                       steps[k].action \notin {"fill", "download"}

\* The awaits of a step before its effect.
Fresh == {"loading", "finding", "acting", "awaiting", "resting", "evaluating", "shooting"}

Progress ==
    /\ \A n \in DOMAIN steps: (n < k => acted[n] > 0) /\ (n > k => acted[n] = 0)
    /\ k > 0 => /\ pc = "next" => acted[k] > 0
                /\ pc = "typing" => acted[k] > 0
                /\ pc \in Fresh => acted[k] = 0
                /\ pc = "clicking" => /\ acted[k] <= attempt /\ attempt < Attempts
                                      /\ steps[k].action = "download" => acted[k] = 0
    /\ pc = "finding" => attempt < Polls

Verdict ==
    /\ status # NONE => pc = "ended"
    /\ status = "success" => ~refused /\ \A n \in DOMAIN steps: acted[n] > 0
    /\ refused => pc \in {"failing"} \cup Over

Reported == {n \in DOMAIN steps: steps[n].action = "download" /\ acted[n] > 0}
Counted == Len(downloads) = Cardinality(Reported)

\* A handler that saves or has saved was called for a file.
Filed == \A h \in DOMAIN steps: (h \in event \/ \E f \in Files: <<h, f>> \in saving) => path[h] # NONE

IInv == TypeOK /\ Shape /\ Fits /\ Progress /\ Verdict /\ Counted /\ Filed /\ ~broken

\* A step the contract accepts keeps, once dumped, the fields the player subscripts, and only
\* a fill has an origin.
LEMMA AcceptedStep ==
    ASSUME NEW s, ValidStep(s)
    PROVE  Playable(Dump(s)) /\ ("origin" \in DOMAIN Dump(s) => Dump(s).action = "fill")
<1>1. /\ DOMAIN Dump(s) = {f \in DOMAIN s: f = "action" \/ s[f] # NULL}
      /\ \A f \in DOMAIN Dump(s): Dump(s)[f] = s[f]
  BY DEF Dump
<1>2. "action" \in DOMAIN s /\ Dump(s).action = s.action
  BY <1>1 DEF ValidStep
<1>3. s.action \in DOMAIN First
  BY DEF ValidStep, Actions, Required, First
<1>4. \A f \in Required[s.action]: f \in DOMAIN s
  BY DEF ValidStep
<1>5. \A f \in DOMAIN s \ {"action"}: f \in Optional(s.action) \/ s[f] # NULL
  BY DEF ValidStep
<1>6. s.action = "navigate" => "url" \in DOMAIN Dump(s)
  <2>1. "url" \notin Optional("navigate")
    BY DEF Optional
  <2> QED
    BY <1>1, <1>4, <1>5, <2>1 DEF Required
<1>7. s.action = "wait" => "seconds" \in DOMAIN Dump(s)
  <2>1. "seconds" \notin Optional("wait")
    BY DEF Optional
  <2> QED
    BY <1>1, <1>4, <1>5, <2>1 DEF Required
<1>8. s.action = "keyboard" => "key" \in DOMAIN Dump(s)
  <2>1. "key" \notin Optional("keyboard")
    BY DEF Optional
  <2> QED
    BY <1>1, <1>4, <1>5, <2>1 DEF Required
<1>9. "timeout_ms" \in DOMAIN Dump(s) => Dump(s).timeout_ms # NULL
  BY <1>1
<1>10. "origin" \in DOMAIN Dump(s) => s.action = "fill"
  <2> SUFFICES ASSUME "origin" \in DOMAIN s PROVE s.action = "fill"
    BY <1>1
  <2>1. "origin" \in Required[s.action] \cup Optional(s.action) /\ s.action \in DOMAIN Required
    BY DEF ValidStep, Actions
  <2>2. "origin" \notin Required[s.action]
    BY <2>1 DEF Required
  <2> QED
    BY <2>1, <2>2 DEF Optional
<1> QED
  BY <1>2, <1>3, <1>6, <1>7, <1>8, <1>9, <1>10 DEF Playable

\* Where the player may be.
Labels == Over \cup {"next", "failing", "typing", "clicking"} \cup Fresh

LEMMA LabelsAreTyped ==
    Labels = Over \cup {"next", "failing", "typing", "acting", "awaiting"} \cup Range(First)
<1>1. Range(First) = {"loading", "finding", "clicking", "resting", "evaluating", "shooting"}
  <2>1. DOMAIN First = {"navigate", "fill", "select", "check", "click", "download", "wait",
                        "keyboard", "scrape", "extract_grid", "scrape_text", "screenshot"}
    BY DEF First
  <2>2. \A x \in DOMAIN First: First[x] \in {"loading", "finding", "clicking", "resting",
                                           "evaluating", "shooting"}
    BY DEF First
  <2>3. /\ First["navigate"] = "loading" /\ First["fill"] = "finding"
        /\ First["click"] = "clicking" /\ First["wait"] = "resting"
        /\ First["scrape"] = "evaluating" /\ First["screenshot"] = "shooting"
    BY DEF First
  <2> QED
    BY <2>1, <2>2, <2>3 DEF Range
<1> QED
  BY <1>1 DEF Labels, Fresh

LEMMA Initially == Init => IInv
<1> SUFFICES ASSUME Init PROVE IInv
  OBVIOUS
<1> PICK r \in Recipes: /\ ValidRecipe(r)
                        /\ url = r.url
                        /\ steps = [n \in DOMAIN r.steps |-> Dump(r.steps[n])]
  BY DEF Init
<1>1. Len(r.steps) \in Nat /\ DOMAIN r.steps = 1..Len(r.steps)
  BY PlayerAssumption
<1>2. Shape
  <2>1. steps \in Seq({Dump(r.steps[n]): n \in DOMAIN r.steps})
    BY <1>1
  <2>2. Len(steps) \in Nat /\ DOMAIN steps = 1..Len(steps)
    BY <2>1
  <2>3. ASSUME NEW n \in DOMAIN steps
        PROVE  Playable(steps[n]) /\ ("origin" \in DOMAIN steps[n] => steps[n].action = "fill")
    <3>1. ValidStep(r.steps[n]) /\ steps[n] = Dump(r.steps[n])
      BY DEF ValidRecipe
    <3> QED
      BY <3>1, AcceptedStep
  <2> QED
    BY <2>2, <2>3 DEF Shape
<1>3. TypeOK
  <2>1. pc \in Labels
    BY DEF Init, Labels, Fresh
  <2>2. /\ path \in [DOMAIN steps -> Files \cup {NONE}]
        /\ acted \in [DOMAIN steps -> 0..Attempts]
        /\ seen \in [DOMAIN steps -> SUBSET Files]
    BY PlayerAssumption DEF Init
  <2>3. k \in 0..N /\ attempt \in 0..(Polls + Attempts)
    BY <1>2, PlayerAssumption DEF Init, N, Shape
  <2>4. pc \in Over \cup {"next", "failing", "typing", "acting", "awaiting"} \cup Range(First)
    BY <2>1, LabelsAreTyped
  <2>5. /\ page \in Urls \cup {Blank} /\ downloads \in Seq(Files) /\ status \in {NONE, "success", "error"}
        /\ saving \subseteq handlers \X Files
    BY DEF Init
  <2> QED
    BY <2>2, <2>3, <2>4, <2>5 DEF Init, TypeOK
<1>4. Fits /\ Progress /\ Verdict /\ Filed /\ ~broken
  BY <1>2, PlayerAssumption DEF Init, Fits, Progress, Verdict, Filed, Over, Fresh
<1>5. Counted
  <2>1. Reported = {}
    BY DEF Reported, Init
  <2> QED
    BY <2>1, FS_EmptySet DEF Counted, Init
<1> QED
  BY <1>2, <1>3, <1>4, <1>5 DEF IInv

-----------------------------------------------------------------------------
\* What one step of the player does to what it reports: only Downloaded adds to it.
LEMMA CountKept ==
    ASSUME IInv, UNCHANGED <<steps, downloads>>,
           \/ UNCHANGED acted
           \/ /\ k > 0 /\ steps[k].action # "download"
              /\ acted' = [acted EXCEPT ![k] = @ + 1]
    PROVE  Counted'
<1>1. acted \in [DOMAIN steps -> Nat]
  BY DEF IInv, TypeOK
<1>2. Reported' = Reported
  BY <1>1 DEF Reported
<1> QED
  BY <1>2 DEF Counted, IInv

LEMMA CountGrows ==
    ASSUME IInv, Downloaded PROVE Counted'
<1>1. k \in DOMAIN steps /\ steps[k].action = "download" /\ acted[k] = 0
  BY DEF IInv, TypeOK, Shape, Fits, Progress, Downloaded, Fresh, Over, N
<1>2. acted \in [DOMAIN steps -> Nat] /\ acted' = [acted EXCEPT ![k] = @ + 1] /\ steps' = steps
  <2>1. acted \in [DOMAIN steps -> Nat]
    BY PlayerAssumption DEF IInv, TypeOK
  <2>2. k # 0
    BY <1>1 DEF IInv, Shape
  <2> QED
    BY <2>1, <2>2 DEF Downloaded, Done, Goto, Effect, config
<1>3. Reported' = Reported \cup {k} /\ k \notin Reported
  BY <1>1, <1>2 DEF Reported
<1>4. IsFiniteSet(Reported)
  <2>1. IsFiniteSet(1..Len(steps))
    <3>1. Len(steps) \in Nat
      BY DEF IInv, Shape
    <3> QED
      BY <3>1, FS_Interval
  <2> QED
    BY <2>1, FS_Subset DEF Reported, IInv, Shape
<1>5. Cardinality(Reported') = Cardinality(Reported) + 1
  BY <1>3, <1>4, FS_AddElement
<1>6. Len(downloads') = Len(downloads) + 1
  BY DEF Downloaded, IInv, TypeOK
<1> QED
  BY <1>5, <1>6 DEF Counted, IInv

LEMMA ShapeKept == ASSUME Shape, UNCHANGED steps PROVE Shape'
BY DEF Shape

\* Nothing was decided while the player runs, nothing refused while it goes on.
LEMMA Undecided ==
    ASSUME IInv, pc \notin Over
    PROVE  status = NONE /\ (pc # "failing" => ~refused)
BY DEF IInv, Verdict, Over

\* The step k had its effect (Effect) or not.
Acts ==
    \/ UNCHANGED acted
    \/ /\ k > 0 /\ steps[k].action # "download" /\ acted[k] < Attempts
       /\ acted' = [acted EXCEPT ![k] = @ + 1]

LEMMA ActedTypes ==
    ASSUME IInv, Acts, UNCHANGED steps
    PROVE  /\ acted' \in [DOMAIN steps -> 0..Attempts]
           /\ \A n \in DOMAIN steps: n # k => acted'[n] = acted[n]
           /\ \A n \in DOMAIN steps: acted'[n] >= acted[n]
           /\ k > 0 => k \in DOMAIN steps
<1>1. acted \in [DOMAIN steps -> 0..Attempts] /\ Attempts \in Nat
  BY PlayerAssumption DEF IInv, TypeOK
<1>2. k > 0 => k \in DOMAIN steps
  BY DEF IInv, TypeOK, Shape, N
<1>3. CASE UNCHANGED acted
  BY <1>1, <1>2, <1>3
<1>4. CASE /\ k > 0 /\ acted[k] < Attempts
           /\ acted' = [acted EXCEPT ![k] = @ + 1]
  <2>1. acted[k] + 1 \in 0..Attempts
    BY <1>1, <1>2, <1>4
  <2> QED
    BY <1>1, <1>2, <1>4, <2>1
<1> QED
  BY <1>3, <1>4 DEF Acts

\* What the player moves when it goes on within the recipe: never what is filed or reported.
Moves ==
    /\ UNCHANGED <<config, k, filing, status, stuck, broken, downloads>>
    /\ pc \notin Over \cup {"failing"} /\ pc' \in Labels
    /\ attempt' \in 0..(Polls + Attempts)
    /\ page' \in Urls \cup {Blank}
    /\ refused' \in BOOLEAN

LEMMA MovesKeep ==
    ASSUME IInv, Moves, Acts
    PROVE  TypeOK' /\ Shape' /\ Counted' /\ Filed' /\ ~broken'
<1>1. UNCHANGED <<steps, downloads, broken, k, handlers, path, saving, event, seen, saved, status, stuck>>
  BY DEF Moves, config, filing
<1>2. Counted'
  BY <1>1, CountKept DEF Acts
<1>3. Shape'
  BY <1>1, ShapeKept DEF IInv
<1>4. pc' \in Over \cup {"next", "failing", "typing", "acting", "awaiting"} \cup Range(First)
  BY LabelsAreTyped DEF Moves
<1>5. acted' \in [DOMAIN steps' -> 0..Attempts]
  BY <1>1, ActedTypes
<1>6. TypeOK'
  BY <1>1, <1>4, <1>5 DEF IInv, TypeOK, Moves, N
<1>7. Filed'
  BY <1>1 DEF IInv, Filed
<1> QED
  BY <1>1, <1>2, <1>3, <1>6, <1>7 DEF IInv

\* The step is over, with its effect, or raises.
LEMMA StepOver ==
    ASSUME IInv, Moves, Acts, pc' \in {"next", "failing"},
           pc' = "next" => ~refused' /\ (k = 0 \/ acted'[k] > 0)
    PROVE  IInv'
<1>1. TypeOK' /\ Shape' /\ Counted' /\ Filed' /\ ~broken'
  BY MovesKeep
<1>2. steps' = steps /\ k' = k /\ status' = NONE
  BY Undecided DEF Moves, config
<1>3. Fits'
  BY <1>2 DEF Fits, Over
<1>4. Progress'
  <2>1. \A n \in DOMAIN steps: (n < k => acted'[n] > 0) /\ (n > k => acted'[n] = 0)
    BY <1>2, ActedTypes DEF IInv, Progress, TypeOK
  <2> QED
    BY <1>2, <2>1 DEF Progress, Fresh
<1>5. Verdict'
  BY <1>2, PlayerAssumption DEF Verdict, Over
<1> QED
  BY <1>1, <1>3, <1>4, <1>5 DEF IInv

\* The step goes on to its next await.
LEMMA StepGoesOn ==
    ASSUME IInv, Moves, Acts, k > 0, UNCHANGED refused,
           pc' \in {"finding", "acting", "typing", "clicking", "awaiting"},
           pc' = "typing" => acted'[k] > 0,
           pc' \in {"finding", "acting", "awaiting"} => acted'[k] = 0,
           pc' = "finding" => attempt' < Polls,
           pc' = "awaiting" => steps[k].action = "download",
           pc' = "clicking" => /\ steps[k].action \in {"click", "download"}
                               /\ acted'[k] <= attempt' /\ attempt' < Attempts
                               /\ steps[k].action = "download" => acted'[k] = 0
    PROVE  IInv'
<1>1. TypeOK' /\ Shape' /\ Counted' /\ Filed' /\ ~broken'
  BY MovesKeep
<1>2. steps' = steps /\ k' = k /\ status' = NONE /\ ~refused'
  BY Undecided DEF Moves, config
<1>3. Fits'
  BY <1>2 DEF Fits, Over
<1>4. Progress'
  <2>1. \A n \in DOMAIN steps: (n < k => acted'[n] > 0) /\ (n > k => acted'[n] = 0)
    BY <1>2, ActedTypes DEF IInv, Progress, TypeOK
  <2> QED
    BY <1>2, <2>1 DEF Progress, Fresh
<1>5. Verdict'
  BY <1>2, PlayerAssumption DEF Verdict, Over
<1> QED
  BY <1>1, <1>3, <1>4, <1>5 DEF IInv

\* In the course of a step, k is one of the recipe's.
LEMMA InAStep ==
    ASSUME IInv, pc \notin {"loading", "next", "failing"} \cup Over
    PROVE  k > 0 /\ k \in DOMAIN steps
BY DEF IInv, TypeOK, Shape, Fits, N

LEMMA LoadStep == ASSUME IInv, Loads \/ LoadFails PROVE IInv'
<1>1. pc = "loading" /\ ~refused /\ attempt \in 0..(Polls + Attempts) /\ page \in Urls \cup {Blank}
  BY Undecided DEF Loads, LoadFails, Over, IInv, TypeOK
<1>2. CASE Loads
  <2>1. Moves /\ pc' = "next" /\ refused' = refused
    BY <1>1, <1>2 DEF Loads, Moves, Done, Goto, Over, Labels, IInv, TypeOK
  <2>2. CASE k = 0
    BY <1>1, <1>2, <2>1, <2>2, StepOver DEF Loads, Effect, Acts
  <2>3. CASE k > 0
    <3>1. acted' = [acted EXCEPT ![k] = @ + 1] /\ acted[k] = 0 /\ steps[k].action = "navigate"
      BY <1>1, <1>2, <2>3 DEF Loads, Effect, IInv, Progress, Fits, Fresh
    <3>2. k \in DOMAIN steps /\ acted \in [DOMAIN steps -> 0..Attempts]
      BY <2>3 DEF IInv, TypeOK, Shape, N
    <3>3. Acts /\ acted'[k] > 0
      BY <2>3, <3>1, <3>2, PlayerAssumption DEF Acts
    <3> QED
      BY <1>1, <2>1, <3>3, StepOver
  <2>4. k \in Nat
    BY DEF IInv, TypeOK
  <2> QED
    BY <2>2, <2>3, <2>4
<1>3. CASE LoadFails
  <2>1. Moves /\ Acts /\ pc' = "failing"
    BY <1>1, <1>3 DEF LoadFails, Moves, Acts, Raise, Goto, Over, Labels, IInv, TypeOK
  <2> QED
    BY <2>1, StepOver
<1> QED
  BY <1>2, <1>3

\* A step other than a download had its one effect.
LEMMA FirstEffect ==
    ASSUME IInv, k > 0, k \in DOMAIN steps, steps[k].action # "download", acted[k] = 0, Effect
    PROVE  Acts /\ acted'[k] > 0
<1>1. acted' = [acted EXCEPT ![k] = @ + 1] /\ acted \in [DOMAIN steps -> 0..Attempts]
  BY DEF Effect, IInv, TypeOK
<1> QED
  BY <1>1, PlayerAssumption DEF Acts

\* rests, evaluates, shoots, sets: over at once, with the effect or without.
LEMMA OneAwaitStep == ASSUME IInv, Rests \/ Evaluates \/ Shoots \/ Sets PROVE IInv'
<1>1. /\ pc \in {"resting", "evaluating", "shooting", "acting"}
      /\ pc \notin Over
      /\ UNCHANGED <<attempt, page, downloads, refused, broken>>
      /\ Effect \/ UNCHANGED acted
      /\ Done \/ Raise
      /\ UNCHANGED acted => Effect \/ Raise
  BY DEF Rests, Evaluates, Shoots, Sets, Over
<1>2. ~refused /\ k > 0 /\ k \in DOMAIN steps /\ acted[k] = 0
  BY <1>1, Undecided, InAStep DEF Over, IInv, Progress, Fresh
<1>3. steps[k].action # "download"
  <2>1. CASE pc = "acting"
    BY <2>1 DEF Rests, Evaluates, Shoots, Sets, Step
  <2>2. CASE pc # "acting"
    BY <1>1, <1>2, <2>2 DEF IInv, Fits
  <2> QED
    BY <2>1, <2>2
<1>4. Moves /\ pc' \in {"next", "failing"}
  BY <1>1 DEF Moves, Done, Raise, Goto, Over, Labels, IInv, TypeOK
<1>5. CASE Effect
  BY <1>1, <1>2, <1>3, <1>4, <1>5, FirstEffect, StepOver
<1>6. CASE UNCHANGED acted /\ Raise
  BY <1>1, <1>4, <1>6, StepOver DEF Acts, Raise, Goto
<1> QED
  BY <1>1, <1>5, <1>6

LEMMA ElementStep == ASSUME IInv, Finds \/ NotFound PROVE IInv'
<1>1. /\ pc = "finding" /\ k > 0 /\ k \in DOMAIN steps /\ acted[k] = 0 /\ attempt < Polls
      /\ UNCHANGED <<acted, page, downloads, refused, broken>>
  BY InAStep DEF Finds, NotFound, Over, IInv, Progress, Fresh
<1>2. attempt \in 0..(Polls + Attempts) /\ {Polls, Attempts} \subseteq Nat
  BY PlayerAssumption DEF IInv, TypeOK
<1>3. CASE Finds
  <2>1. Moves /\ Acts /\ pc' = "acting"
    BY <1>1, <1>2, <1>3 DEF Finds, Moves, Acts, Goto, Over, Labels, Fresh, IInv, TypeOK
  <2> QED
    BY <1>1, <2>1, StepGoesOn
<1>4. CASE attempt + 1 < Polls /\ attempt' = attempt + 1 /\ Goto("finding")
  <2>1. Moves /\ Acts /\ pc' = "finding" /\ attempt' < Polls
    BY <1>1, <1>2, <1>4 DEF Moves, Acts, Goto, Over, Labels, Fresh, IInv, TypeOK
  <2> QED
    BY <1>1, <2>1, StepGoesOn
<1>5. CASE attempt' = attempt /\ Raise
  <2>1. Moves /\ Acts /\ pc' = "failing"
    BY <1>1, <1>2, <1>5 DEF Moves, Acts, Raise, Goto, Over, Labels, IInv, TypeOK
  <2> QED
    BY <2>1, StepOver
<1> QED
  BY <1>3, <1>4, <1>5 DEF NotFound, Finds

LEMMA TypeStep == ASSUME IInv, Types \/ Typed PROVE IInv'
<1>1. /\ pc \in {"acting", "typing"} /\ k > 0 /\ k \in DOMAIN steps
      /\ UNCHANGED <<attempt, page, downloads, refused, broken>>
  BY InAStep DEF Types, Typed, Over
<1>2. ~refused
  BY <1>1, Undecided DEF Over
<1>3. CASE Types /\ Effect /\ Goto("typing")
  <2>1. acted[k] = 0 /\ steps[k].action = "fill"
    BY <1>1, <1>3 DEF Types, Step, IInv, Progress, Fresh
  <2>2. Acts /\ acted'[k] > 0
    BY <1>1, <1>3, <2>1, FirstEffect
  <2>3. Moves /\ pc' = "typing"
    BY <1>1, <1>3 DEF Moves, Goto, Over, Labels, IInv, TypeOK
  <2> QED
    BY <1>1, <2>2, <2>3, StepGoesOn
<1>4. CASE Types /\ UNCHANGED acted /\ Raise
  <2>1. Moves /\ Acts /\ pc' = "failing"
    BY <1>1, <1>4 DEF Moves, Acts, Raise, Goto, Over, Labels, IInv, TypeOK
  <2> QED
    BY <2>1, StepOver
<1>5. CASE Typed
  <2>1. acted[k] > 0 /\ UNCHANGED acted /\ (Done \/ Raise)
    BY <1>1, <1>5 DEF Typed, IInv, Progress
  <2>2. Moves /\ Acts /\ pc' \in {"next", "failing"}
    BY <1>1, <2>1 DEF Moves, Acts, Done, Raise, Goto, Over, Labels, IInv, TypeOK
  <2> QED
    BY <1>1, <1>2, <2>1, <2>2, StepOver
<1> QED
  BY <1>3, <1>4, <1>5 DEF Types

LEMMA ClickStep == ASSUME IInv, Clicks \/ ClickFails PROVE IInv'
<1>1. /\ pc = "clicking" /\ k > 0 /\ k \in DOMAIN steps /\ acted[k] <= attempt /\ attempt < Attempts
      /\ steps[k].action \in {"click", "download"}
      /\ steps[k].action = "download" => acted[k] = 0
      /\ UNCHANGED <<page, downloads, refused, broken>>
  BY InAStep DEF Clicks, ClickFails, Over, IInv, Progress, Fits
<1>2. /\ ~refused /\ attempt \in 0..(Polls + Attempts) /\ {Polls, Attempts} \subseteq Nat
      /\ acted \in [DOMAIN steps -> 0..Attempts]
  BY <1>1, Undecided, PlayerAssumption DEF Over, IInv, TypeOK
<1>3. steps[k].action = "click" /\ Effect => Acts /\ acted'[k] = acted[k] + 1
  BY <1>1, <1>2 DEF Effect, Acts
<1>4. CASE Clicks /\ Step.action = "download"
  <2>1. Moves /\ Acts /\ pc' = "awaiting" /\ acted'[k] = 0
    BY <1>1, <1>4 DEF Clicks, Step, Moves, Acts, Goto, Over, Labels, Fresh, IInv, TypeOK
  <2> QED
    BY <1>1, <1>4, <2>1, StepGoesOn DEF Step
<1>5. CASE Clicks /\ Step.action # "download"
  <2>1. Moves /\ pc' = "next" /\ Effect
    BY <1>1, <1>5 DEF Clicks, Moves, Done, Goto, Over, Labels, IInv, TypeOK
  <2> QED
    BY <1>1, <1>2, <1>3, <1>5, <2>1, StepOver DEF Step
<1>6. CASE ClickFails
  <2>1. /\ Acts /\ acted'[k] <= attempt + 1
        /\ steps[k].action = "download" => acted'[k] = 0
    <3>1. CASE UNCHANGED acted
      BY <1>1, <1>2, <3>1 DEF Acts
    <3>2. CASE Step.action = "click" /\ Effect
      BY <1>1, <1>2, <1>3, <3>2 DEF Step
    <3> QED
      BY <1>6, <3>1, <3>2 DEF ClickFails
  <2>2. CASE attempt + 1 < Attempts
    <3>1. Moves /\ pc' = "clicking" /\ attempt' = attempt + 1
      BY <1>1, <1>2, <1>6, <2>2 DEF ClickFails, Moves, Goto, Over, Labels, IInv, TypeOK
    <3> QED
      BY <1>1, <2>1, <2>2, <3>1, StepGoesOn
  <2>3. CASE ~(attempt + 1 < Attempts)
    <3>1. Moves /\ pc' = "failing"
      BY <1>1, <1>2, <1>6, <2>3 DEF ClickFails, Moves, Raise, Goto, Over, Labels, IInv, TypeOK
    <3> QED
      BY <2>1, <3>1, StepOver
  <2> QED
    BY <2>2, <2>3
<1> QED
  BY <1>4, <1>5, <1>6

LEMMA DownloadStep == ASSUME IInv, Downloaded \/ DownloadTimesOut PROVE IInv'
<1>1. /\ pc = "awaiting" /\ k > 0 /\ k \in DOMAIN steps
      /\ steps[k].action = "download" /\ acted[k] = 0
      /\ UNCHANGED <<attempt, page, refused, broken>>
  BY InAStep DEF Downloaded, DownloadTimesOut, Over, IInv, Progress, Fits, Fresh
<1>2. ~refused /\ status = NONE
  BY <1>1, Undecided DEF Over
<1>3. CASE DownloadTimesOut
  <2>1. Moves /\ Acts /\ pc' = "failing"
    BY <1>1, <1>3 DEF DownloadTimesOut, Moves, Acts, Raise, Goto, Over, Labels, IInv, TypeOK
  <2> QED
    BY <2>1, StepOver
<1>4. CASE Downloaded
  <2>1. /\ pc' = "next" /\ k \in event /\ downloads' = Append(downloads, path[k])
        /\ acted' = [acted EXCEPT ![k] = @ + 1]
        /\ UNCHANGED <<steps, k, handlers, path, saving, event, seen, saved, status, stuck>>
    BY <1>1, <1>4 DEF Downloaded, Done, Goto, Effect, config, filing
  <2>2. path[k] \in Files
    BY <1>1, <2>1 DEF IInv, TypeOK, Filed
  <2>3. acted' \in [DOMAIN steps -> 0..Attempts] /\ acted'[k] = 1
        /\ \A n \in DOMAIN steps: n # k => acted'[n] = acted[n]
    <3>1. acted \in [DOMAIN steps -> 0..Attempts] /\ 1 \in 0..Attempts
      BY PlayerAssumption DEF IInv, TypeOK
    <3> QED
      BY <1>1, <2>1, <3>1
  <2>4. Counted'
    BY <1>4, CountGrows
  <2>5. downloads' \in Seq(Files)
    BY <2>1, <2>2 DEF IInv, TypeOK
  <2>6. pc' \in Over \cup {"next", "failing", "typing", "acting", "awaiting"} \cup Range(First)
    BY <2>1
  <2>7. TypeOK'
    BY <1>1, <2>1, <2>3, <2>5, <2>6 DEF IInv, TypeOK, N
  <2>8. Shape' /\ Filed' /\ Fits' /\ ~broken'
    BY <1>1, <2>1, ShapeKept DEF IInv, Filed, Fits, Over
  <2>9. Progress'
    BY <1>1, <2>1, <2>3 DEF IInv, Progress, Fresh
  <2>10. Verdict'
    BY <1>1, <1>2, <2>1, PlayerAssumption DEF Verdict
  <2> QED
    BY <2>4, <2>7, <2>8, <2>9, <2>10 DEF IInv
<1> QED
  BY <1>3, <1>4

LEMMA NextStepStep == ASSUME IInv, NextStep PROVE IInv'
<1> DEFINE s == steps[k + 1]
<1>1. /\ pc = "next" /\ k < N /\ k' = k + 1 /\ attempt' = 0
      /\ broken' = (broken \/ ~Playable(s))
      /\ pc' = IF Playable(s) /\ (s.action = "fill" => OnOrigin(s)) THEN First[s.action] ELSE "failing"
      /\ handlers' = IF s.action = "download" THEN handlers \cup {k + 1} ELSE handlers
      /\ UNCHANGED <<steps, page, path, saving, event, seen, saved, downloads, status, acted,
                     refused, stuck>>
  BY DEF NextStep, config
<1>2. k + 1 \in DOMAIN steps /\ k \in Nat
  BY <1>1 DEF IInv, TypeOK, Shape, N
<1>3. Playable(s) /\ s.action \in DOMAIN First
  BY <1>2 DEF IInv, Shape, Playable
<1>4. ~broken' /\ pc' \in {First[s.action], "failing"}
  BY <1>1, <1>3 DEF IInv
<1>5. pc' \in Over \cup {"next", "failing", "typing", "acting", "awaiting"} \cup Range(First)
  BY <1>3, <1>4 DEF Range
<1>6. ~refused /\ status = NONE
  BY <1>1, Undecided DEF Over
<1>7. TypeOK'
  <2>1. handlers' \subseteq DOMAIN steps /\ handlers \subseteq handlers'
    BY <1>1, <1>2 DEF IInv, TypeOK
  <2>2. k' \in 0..N /\ attempt' \in 0..(Polls + Attempts)
    BY <1>1, <1>2, PlayerAssumption DEF IInv, Shape, N
  <2> QED
    BY <1>1, <1>4, <1>5, <2>1, <2>2 DEF IInv, TypeOK, N
<1>8. Shape' /\ Counted' /\ Filed'
  BY <1>1, ShapeKept, CountKept DEF IInv, Filed
<1>9. /\ First[s.action] = "loading" => s.action = "navigate"
      /\ First[s.action] = "clicking" => s.action \in {"click", "download"}
      /\ First[s.action] \in {"resting", "evaluating", "shooting"} => s.action \notin {"fill", "download"}
      /\ First[s.action] \in {"loading", "clicking", "finding", "resting", "evaluating", "shooting"}
  BY <1>3 DEF First
<1>10. Fits'
  BY <1>1, <1>2, <1>4, <1>9 DEF Fits, Over
<1>11. Progress'
  <2>1. \A n \in DOMAIN steps: (n < k' => acted[n] > 0) /\ (n > k' => acted[n] = 0)
    BY <1>1, <1>2 DEF IInv, Progress, Shape
  <2>2. acted[k'] = 0
    BY <1>1, <1>2 DEF IInv, Progress
  <2> QED
    BY <1>1, <1>4, <1>9, <2>1, <2>2, PlayerAssumption DEF Progress, Fresh
<1>12. Verdict'
  BY <1>1, <1>6, PlayerAssumption DEF Verdict
<1> QED
  BY <1>4, <1>7, <1>8, <1>10, <1>11, <1>12 DEF IInv

\* The end of the run, or its cancellation.
LEMMA EndStep == ASSUME IInv, Finish \/ Fail \/ Cancel PROVE IInv'
<1>1. /\ pc \notin Over /\ pc' \in {"ended", "cancelled", "failing"}
      /\ UNCHANGED <<steps, k, attempt, page, handlers, path, saving, event, seen, saved, downloads,
                     acted, refused, broken, stuck>>
  BY DEF Finish, Fail, Cancel, Over, config, filing
<1>2. status = NONE /\ status' \in {NONE, "success", "error"}
  BY <1>1, Undecided DEF Finish, Fail, Cancel
<1>3. TypeOK'
  BY <1>1, <1>2 DEF IInv, TypeOK, N, Over
<1>4. Shape' /\ Counted' /\ Filed' /\ Fits' /\ Progress' /\ ~broken'
  <2>1. Shape' /\ Counted'
    BY <1>1, ShapeKept, CountKept DEF IInv
  <2>2. Filed' /\ ~broken'
    BY <1>1 DEF IInv, Filed
  <2>3. Fits'
    BY <1>1 DEF IInv, Fits, Over
  <2>4. Progress'
    BY <1>1 DEF IInv, Progress, Fresh
  <2> QED
    BY <2>1, <2>2, <2>3, <2>4
<1>5. status' # NONE => pc' = "ended"
  BY <1>2 DEF Finish, Fail, Cancel
<1>6. status' = "success" => ~refused' /\ \A n \in DOMAIN steps': acted'[n] > 0
  <2> SUFFICES ASSUME status' = "success" PROVE ~refused /\ \A n \in DOMAIN steps: acted[n] > 0
    BY <1>1
  <2>1. pc = "next" /\ k = N
    BY <1>2, PlayerAssumption DEF Finish, Fail, Cancel
  <2>2. ~refused
    BY <1>1, <2>1, Undecided
  <2>3. \A n \in DOMAIN steps: acted[n] > 0
    BY <2>1 DEF IInv, Progress, Shape, N
  <2> QED
    BY <2>2, <2>3
<1>7. Verdict'
  BY <1>1, <1>5, <1>6 DEF Verdict, Over
<1> QED
  BY <1>3, <1>4, <1>7 DEF IInv

\* The page moves, hangs, or downloads.
LEMMA PageStep ==
    ASSUME IInv,
           \/ PageMoves \/ PageHangs
           \/ \E f \in Files: DownloadStarts(f) \/ \E h \in handlers: SaveEnds(h, f)
    PROVE  IInv'
<1>1. UNCHANGED <<steps, k, pc, attempt, handlers, downloads, status, acted, refused, broken>>
  BY DEF PageMoves, PageHangs, DownloadStarts, SaveEnds, config, filing
<1>2. Shape' /\ Counted' /\ Fits' /\ Progress' /\ Verdict' /\ ~broken'
  <2>1. Shape' /\ Counted'
    BY <1>1, ShapeKept, CountKept DEF IInv
  <2>2. Fits' /\ ~broken'
    BY <1>1 DEF IInv, Fits
  <2>3. Progress' /\ Verdict'
    BY <1>1 DEF IInv, Progress, Verdict
  <2> QED
    BY <2>1, <2>2, <2>3
<1>3. CASE PageMoves \/ PageHangs
  <2>1. UNCHANGED <<path, saving, event, seen, saved>> /\ page' \in Urls \cup {Blank} /\ stuck' \in BOOLEAN
    BY <1>3 DEF PageMoves, PageHangs, filing, IInv, TypeOK
  <2>2. TypeOK' /\ Filed'
    BY <1>1, <2>1 DEF IInv, TypeOK, Filed, N
  <2> QED
    BY <1>2, <2>2 DEF IInv
<1>4. ASSUME NEW f \in Files, DownloadStarts(f) PROVE IInv'
  <2>1. /\ path' = [h \in DOMAIN steps |-> IF h \in handlers THEN f ELSE path[h]]
        /\ seen' = [h \in DOMAIN steps |-> IF h \in handlers THEN seen[h] \cup {f} ELSE seen[h]]
        /\ saving' = saving \cup {<<h, f>>: h \in handlers}
        /\ UNCHANGED <<event, saved, page, stuck>>
    BY <1>4 DEF DownloadStarts
  <2>2. /\ path' \in [DOMAIN steps -> Files \cup {NONE}] /\ seen' \in [DOMAIN steps -> SUBSET Files]
        /\ saving' \subseteq handlers \X Files
    BY <2>1 DEF IInv, TypeOK
  <2>3. TypeOK'
    BY <1>1, <2>1, <2>2 DEF IInv, TypeOK, N
  <2>4. Filed'
    BY <1>1, <2>1, PlayerAssumption DEF IInv, Filed, TypeOK
  <2> QED
    BY <1>2, <2>3, <2>4 DEF IInv
<1>5. ASSUME NEW f \in Files, NEW h \in handlers, SaveEnds(h, f) PROVE IInv'
  <2>1. /\ <<h, f>> \in saving /\ saving' = saving \ {<<h, f>>}
        /\ saved' \subseteq saved \cup {f} /\ event' \subseteq event \cup {h}
        /\ UNCHANGED <<path, seen, page, stuck>>
    BY <1>5 DEF SaveEnds
  <2>2. TypeOK'
    BY <1>1, <2>1 DEF IInv, TypeOK, N
  <2>3. Filed'
    BY <1>1, <2>1 DEF IInv, Filed, TypeOK
  <2> QED
    BY <1>2, <2>2, <2>3 DEF IInv
<1> QED
  BY <1>3, <1>4, <1>5
-----------------------------------------------------------------------------
LEMMA Inductive == IInv /\ [Next]_vars => IInv'
<1> SUFFICES ASSUME IInv, [Next]_vars PROVE IInv'
  OBVIOUS
<1>1. CASE Runs
  <2>1. CASE Loads \/ LoadFails
    BY <2>1, LoadStep
  <2>2. CASE Rests \/ Evaluates \/ Shoots \/ Sets
    BY <2>2, OneAwaitStep
  <2>3. CASE Finds \/ NotFound
    BY <2>3, ElementStep
  <2>4. CASE Types \/ Typed
    BY <2>4, TypeStep
  <2>5. CASE Clicks \/ ClickFails
    BY <2>5, ClickStep
  <2>6. CASE Downloaded \/ DownloadTimesOut
    BY <2>6, DownloadStep
  <2>7. CASE NextStep
    BY <2>7, NextStepStep
  <2>8. CASE Finish \/ Fail
    BY <2>8, EndStep
  <2> QED
    BY <1>1, <2>1, <2>2, <2>3, <2>4, <2>5, <2>6, <2>7, <2>8 DEF Runs
<1>2. CASE Cancel
  BY <1>2, EndStep
<1>3. CASE \/ PageMoves \/ PageHangs
           \/ \E f \in Files: DownloadStarts(f) \/ \E h \in handlers: SaveEnds(h, f)
  BY <1>3, PageStep
<1>4. CASE UNCHANGED vars
  <2>1. UNCHANGED <<steps, k, pc, attempt, page, handlers, path, saving, event, seen, saved, downloads,
                    status, acted, refused, broken, stuck>>
    BY <1>4 DEF vars, config, filing
  <2>2. TypeOK' /\ Filed'
    BY <2>1 DEF IInv, TypeOK, Filed, N
  <2>3. Shape' /\ Counted' /\ Fits' /\ ~broken'
    BY <2>1, ShapeKept, CountKept DEF IInv, Fits
  <2>4. Progress' /\ Verdict'
    BY <2>1 DEF IInv, Progress, Verdict
  <2> QED
    BY <2>2, <2>3, <2>4 DEF IInv
<1> QED
  BY <1>1, <1>2, <1>3, <1>4 DEF Next

LEMMA Earned == IInv => SuccessIsEarned
<1> SUFFICES ASSUME IInv PROVE SuccessIsEarned
  OBVIOUS
<1>1. ASSUME NEW n \in DOMAIN steps, acted[n] > 0
      PROVE  n <= k /\ \A m \in 1..n: acted[m] > 0
  <2>1. n \in 1..Len(steps) /\ Len(steps) \in Nat /\ k \in 0..Len(steps)
    BY DEF IInv, Shape, TypeOK, N
  <2>2. n <= k
    BY <1>1, <2>1 DEF IInv, Progress
  <2>3. \A m \in 1..n: m \in DOMAIN steps /\ (m = n \/ m < k)
    BY <2>1, <2>2 DEF IInv, Shape
  <2> QED
    BY <1>1, <2>2, <2>3 DEF IInv, Progress
<1>2. ASSUME status = "success"
      PROVE  /\ \A n \in DOMAIN steps: acted[n] > 0
             /\ Len(downloads) = Cardinality({n \in DOMAIN steps: steps[n].action = "download"})
             /\ ~refused
  <2>1. Reported = {n \in DOMAIN steps: steps[n].action = "download"}
    BY <1>2 DEF IInv, Verdict, Reported
  <2> QED
    BY <1>2, <2>1 DEF IInv, Verdict, Counted
<1> QED
  BY <1>1, <1>2 DEF SuccessIsEarned

\* Typing is the only effect of a step with an origin.
LEMMA LoginStep ==
    ASSUME IInv, [Next]_vars, NEW n \in DOMAIN steps, acted'[n] # acted[n], "origin" \in DOMAIN steps[n]
    PROVE  OriginOf(page) = OriginOf(steps[n].origin)
<1>1. steps[n].action = "fill"
  BY DEF IInv, Shape
<1>2. acted' # acted
  OBVIOUS
<1>3. Runs /\ Effect
  <2>1. Runs
    BY <1>2 DEF Next, vars, Cancel, PageMoves, PageHangs, DownloadStarts, SaveEnds
  <2> QED
    BY <1>2, <2>1 DEF Runs, NextStep, Finish, Fail, Loads, LoadFails, Finds, NotFound, Sets, Types,
          Typed, Clicks, ClickFails, Downloaded, DownloadTimesOut, Rests, Evaluates, Shoots
<1>4. n = k /\ k > 0
  <2>1. k \in 0..N /\ acted \in [DOMAIN steps -> 0..Attempts]
    BY DEF IInv, TypeOK
  <2>2. k # 0
    BY <1>2, <1>3 DEF Effect
  <2>3. acted' = [acted EXCEPT ![k] = @ + 1]
    BY <1>3, <2>2 DEF Effect
  <2> QED
    BY <2>1, <2>2, <2>3 DEF IInv, Shape, N
<1>5. Types
  <2>1. pc \notin {"loading", "clicking", "awaiting", "resting", "evaluating", "shooting"}
    BY <1>1, <1>4 DEF IInv, Fits
  <2> QED
    BY <1>1, <1>2, <1>3, <1>4, <2>1 DEF Runs, NextStep, Finish, Fail, Loads, LoadFails, Finds, NotFound,
          Sets, Step, Typed, Clicks, ClickFails, Downloaded, DownloadTimesOut, Rests, Evaluates, Shoots
<1>6. OnOrigin(Step)
  BY <1>2, <1>5 DEF Types
<1> QED
  BY <1>4, <1>6 DEF OnOrigin, Step
-----------------------------------------------------------------------------
THEOREM Invariance == Spec => []IInv
  BY Initially, Inductive, PTL DEF Spec

\* Types, in particular that the player only reports downloads it was called for.
THEOREM TypeCorrect == Spec => []TypeOK
<1>1. IInv => TypeOK
  BY DEF IInv
<1> QED
  BY <1>1, Invariance, PTL

\* Whatever recipe the contract accepts, no step of it lacks a field the player takes for
\* granted.
THEOREM AcceptedCanBePlayed == Spec => []AcceptedIsPlayable
<1>1. IInv => AcceptedIsPlayable
  BY DEF IInv, AcceptedIsPlayable
<1> QED
  BY <1>1, Invariance, PTL

\* Steps have their effect in order, and a run that reports success left none out.
THEOREM SuccessIsHonest == Spec => []SuccessIsEarned
  BY Earned, Invariance, PTL

\* A login's keys are first sent to a page on its origin, however the page moves.
THEOREM LoginsKeepOrigin == Spec => LoginStartsOnOrigin
<1>1. IInv /\ [Next]_vars =>
        [\A n \in DOMAIN steps: acted'[n] # acted[n] /\ "origin" \in DOMAIN steps[n]
             => OriginOf(page) = OriginOf(steps[n].origin)]_vars
  BY LoginStep
<1> QED
  BY <1>1, Invariance, PTL DEF Spec, LoginStartsOnOrigin
-----------------------------------------------------------------------------
(* The downloads *)

\* The download steps up to h: the handlers that were registered when h's was.
UpTo(h) == {n \in DOMAIN steps: n <= h /\ steps[n].action = "download"}

\* A handler's step is one it was entered for, in the recipe's order.
Registered == handlers = UpTo(k)

\* A handler knows the last of the files it was called for, saves only those, and says so
\* only when one of them was saved.
Called ==
    \A h \in DOMAIN steps:
        /\ IsFiniteSet(seen[h])
        /\ path[h] # NONE => path[h] \in seen[h]
        /\ \A f \in Files: <<h, f>> \in saving => f \in seen[h]
        /\ h \in event => \E f \in seen[h]: f \in saved

Vouched(j, h) == downloads[j] \in saved \/ Cardinality(seen[h]) > 1

\* The j-th download is what the j-th download step reported.
Reports ==
    \A j \in DOMAIN downloads: \E h \in handlers: Cardinality(UpTo(h)) = j /\ Vouched(j, h)

Filing == Registered /\ Called /\ Reports

LEMMA UpToIsFinite ==
    ASSUME Shape, NEW h PROVE IsFiniteSet(UpTo(h)) /\ Cardinality(UpTo(h)) \in Nat
<1>1. IsFiniteSet(1..Len(steps))
  BY FS_Interval DEF Shape
<1>2. UpTo(h) \in SUBSET (1..Len(steps))
  BY DEF UpTo, Shape
<1>3. IsFiniteSet(UpTo(h))
  BY <1>1, <1>2, FS_Subset
<1> QED
  BY <1>3, FS_CardinalityType

\* No two handlers are registered as the same in number.
LEMMA UpToIsInjective ==
    ASSUME Shape, Registered, k \in Nat, NEW g \in handlers, NEW h \in handlers,
           Cardinality(UpTo(g)) = Cardinality(UpTo(h))
    PROVE  g = h
<1>1. /\ g \in Nat /\ h \in Nat /\ g \in UpTo(g) /\ h \in UpTo(h)
  BY DEF Registered, UpTo, Shape
<1>2. ASSUME NEW a \in handlers, NEW b \in handlers, a \in Nat, b \in Nat, a <= b, b \in UpTo(b),
             Cardinality(UpTo(a)) = Cardinality(UpTo(b))
      PROVE  a = b
  <2>1. UpTo(a) \in SUBSET UpTo(b)
    BY <1>2 DEF UpTo, Shape
  <2>2. UpTo(b) = UpTo(a)
    BY <1>2, <2>1, UpToIsFinite, FS_Subset
  <2>3. b <= a
    BY <1>2, <2>2 DEF UpTo
  <2> QED
    BY <1>2, <2>3
<1> QED
  BY <1>1, <1>2

\* A finite set with two different members has more than one.
LEMMA TwoAreMore ==
    ASSUME NEW S, IsFiniteSet(S), NEW a \in S, NEW b \in S, a # b
    PROVE  Cardinality(S) > 1
<1>1. Cardinality(S) \in Nat
  BY FS_CardinalityType
<1>2. Cardinality(S) # 0
  BY FS_EmptySet
<1>3. Cardinality(S) # 1
  <2>1. ~\E x: S = {x}
    OBVIOUS
  <2> QED
    BY <2>1, FS_Singleton
<1> QED
  BY <1>1, <1>2, <1>3

\* What leaves the downloads reported, and forgets no file that was seen or saved.
LEMMA ReportsKept ==
    ASSUME IInv, Reports, UNCHANGED <<steps, downloads>>, handlers \subseteq handlers',
           saved \subseteq saved',
           \A h \in handlers: /\ IsFiniteSet(seen[h]) /\ IsFiniteSet(seen'[h])
                              /\ seen[h] \subseteq seen'[h]
    PROVE  Reports'
<1> SUFFICES ASSUME NEW j \in DOMAIN downloads
             PROVE  \E h \in handlers': Cardinality(UpTo(h)') = j /\ Vouched(j, h)'
  BY DEF Reports
<1>1. PICK h \in handlers: Cardinality(UpTo(h)) = j /\ Vouched(j, h)
  BY DEF Reports
<1>2. h \in handlers' /\ UpTo(h)' = UpTo(h)
  BY DEF UpTo
<1>3. CASE downloads[j] \in saved
  BY <1>1, <1>2, <1>3 DEF Vouched
<1>4. CASE Cardinality(seen[h]) > 1
  <2>1. Cardinality(seen[h]) <= Cardinality(seen'[h])
    BY FS_Subset
  <2>2. Cardinality(seen[h]) \in Nat /\ Cardinality(seen'[h]) \in Nat
    BY FS_CardinalityType
  <2>3. Cardinality(seen'[h]) > 1
    BY <1>4, <2>1, <2>2
  <2> QED
    BY <1>1, <1>2, <2>3 DEF Vouched
<1> QED
  BY <1>1, <1>3, <1>4 DEF Vouched

\* The file that is reported was saved, or another was, for which the handler was called too.
LEMMA DownloadReports ==
    ASSUME IInv, Filing, Downloaded PROVE Reports'
<1>1. /\ k \in event /\ k \in handlers /\ k \in DOMAIN steps
      /\ steps[k].action = "download" /\ acted[k] = 0
      /\ downloads' = Append(downloads, path[k])
      /\ UNCHANGED <<steps, k, handlers, seen, saved>>
  BY DEF Downloaded, Done, Goto, config, filing, IInv, TypeOK, Shape, Fits, Progress, Fresh, Over, N
<1>2. path[k] \in Files /\ path[k] \in seen[k]
  BY <1>1 DEF IInv, Filed, TypeOK, Filing, Called
<1>3. path[k] \in saved \/ Cardinality(seen[k]) > 1
  <2>1. PICK f \in seen[k]: f \in saved
    BY <1>1 DEF Filing, Called
  <2>2. CASE f # path[k]
    BY <1>1, <1>2, <2>2, TwoAreMore DEF Filing, Called
  <2> QED
    BY <2>1, <2>2
<1>4. UpTo(k) = Reported \cup {k} /\ k \notin Reported
  <2>1. \A n \in DOMAIN steps: n \in Nat /\ k \in Nat
    BY <1>1 DEF IInv, Shape
  <2>2. acted \in [DOMAIN steps -> Nat]
    BY PlayerAssumption DEF IInv, TypeOK
  <2> QED
    BY <1>1, <2>1, <2>2 DEF IInv, Progress, UpTo, Reported
<1>5. IsFiniteSet(Reported)
  <2>1. Reported \in SUBSET UpTo(k)
    BY <1>4
  <2> QED
    BY <2>1, UpToIsFinite, FS_Subset DEF IInv
<1>6. Cardinality(UpTo(k)) = Len(downloads) + 1
  BY <1>4, <1>5, FS_AddElement DEF IInv, Counted
<1>7. downloads \in Seq(Files)
  BY DEF IInv, TypeOK
<1> SUFFICES ASSUME NEW j \in DOMAIN downloads'
             PROVE  \E h \in handlers': Cardinality(UpTo(h)') = j /\ Vouched(j, h)'
  BY DEF Reports
<1>8. \A h: UpTo(h)' = UpTo(h)
  BY <1>1 DEF UpTo
<1>9. CASE j = Len(downloads) + 1
  <2>1. downloads'[j] = path[k]
    BY <1>1, <1>2, <1>7, <1>9
  <2>2. Vouched(j, k)'
    BY <1>1, <1>3, <2>1 DEF Vouched
  <2> QED
    BY <1>1, <1>6, <1>8, <1>9, <2>2
<1>10. CASE j # Len(downloads) + 1
  <2>1. j \in DOMAIN downloads /\ downloads'[j] = downloads[j]
    BY <1>1, <1>2, <1>7, <1>10
  <2>2. PICK h \in handlers: Cardinality(UpTo(h)) = j /\ Vouched(j, h)
    BY <2>1 DEF Filing, Reports
  <2>3. Vouched(j, h)'
    BY <1>1, <2>1, <2>2 DEF Vouched
  <2> QED
    BY <1>1, <1>8, <2>2, <2>3
<1> QED
  BY <1>9, <1>10

LEMMA FilingStep == IInv /\ Filing /\ [Next]_vars => Filing'
<1> SUFFICES ASSUME IInv, Filing, [Next]_vars PROVE Filing'
  OBVIOUS
<1>1. /\ handlers \subseteq DOMAIN steps /\ path \in [DOMAIN steps -> Files \cup {NONE}]
      /\ seen \in [DOMAIN steps -> SUBSET Files] /\ k \in Nat
  BY DEF IInv, TypeOK
<1>2. ASSUME UNCHANGED <<steps, k, handlers, path, saving, event, seen, saved>>
      PROVE  Registered' /\ Called' /\ (UNCHANGED downloads => Reports')
  <2>1. Registered' /\ Called'
    BY <1>2 DEF Filing, Registered, Called, UpTo
  <2>2. ASSUME UNCHANGED downloads PROVE Reports'
    BY <1>1, <1>2, <2>2, ReportsKept DEF Filing, Called
  <2> QED
    BY <2>1, <2>2
<1>3. CASE Downloaded
  BY <1>2, <1>3, DownloadReports DEF Downloaded, Done, Goto, config, filing, Filing
<1>4. CASE NextStep
  <2>1. /\ k' = k + 1 /\ k + 1 \in DOMAIN steps
        /\ handlers' = IF steps[k + 1].action = "download" THEN handlers \cup {k + 1} ELSE handlers
        /\ UNCHANGED <<steps, path, saving, event, seen, saved, downloads>>
    BY <1>1, <1>4 DEF NextStep, config, N, IInv, Shape
  <2>2. Registered'
    BY <1>1, <2>1 DEF Filing, Registered, UpTo, IInv, Shape
  <2>3. Called'
    BY <2>1 DEF Filing, Called
  <2>4. Reports'
    BY <1>1, <2>1, ReportsKept DEF Filing, Called
  <2> QED
    BY <2>2, <2>3, <2>4 DEF Filing
<1>5. ASSUME NEW f \in Files, DownloadStarts(f)
      PROVE  Filing'
  <2>1. /\ UNCHANGED <<steps, k, handlers, event, saved, downloads>>
        /\ saving' = saving \cup {<<h, f>>: h \in handlers}
    BY <1>5 DEF DownloadStarts, config
  <2>2. /\ \A h \in DOMAIN steps: path'[h] = IF h \in handlers THEN f ELSE path[h]
        /\ \A h \in DOMAIN steps:
            seen'[h] = IF h \in handlers THEN seen[h] \cup {f} ELSE seen[h]
    BY <1>5, <2>1 DEF DownloadStarts
  <2>3. ASSUME NEW h \in DOMAIN steps
        PROVE  IsFiniteSet(seen[h]) /\ IsFiniteSet(seen'[h]) /\ seen[h] \subseteq seen'[h]
    <3>1. IsFiniteSet(seen[h]) /\ IsFiniteSet(seen[h] \cup {f})
      BY FS_AddElement DEF Filing, Called
    <3>2. seen'[h] \in {seen[h], seen[h] \cup {f}}
      BY <2>2
    <3> QED
      BY <3>1, <3>2
  <2>4. Reports'
    BY <1>1, <2>1, <2>3, ReportsKept DEF Filing
  <2>5. Registered'
    BY <2>1 DEF Filing, Registered, UpTo
  <2>6. ASSUME NEW h \in DOMAIN steps
        PROVE  /\ path'[h] # NONE => path'[h] \in seen'[h]
               /\ \A g \in Files: <<h, g>> \in saving' => g \in seen'[h]
               /\ h \in event' => \E g \in seen'[h]: g \in saved'
    <3>1. path'[h] # NONE => path'[h] \in seen'[h]
      BY <2>2 DEF Filing, Called
    <3>2. ASSUME NEW g \in Files, <<h, g>> \in saving' PROVE g \in seen'[h]
      BY <2>1, <2>2, <3>2 DEF Filing, Called
    <3>3. h \in event' => \E g \in seen'[h]: g \in saved'
      BY <2>1, <2>3 DEF Filing, Called
    <3> QED
      BY <3>1, <3>2, <3>3
  <2>7. Called'
    BY <2>1, <2>3, <2>6 DEF Called
  <2> QED
    BY <2>4, <2>5, <2>7 DEF Filing
<1>6. ASSUME NEW f \in Files, NEW s \in handlers, SaveEnds(s, f)
      PROVE  Filing'
  <2>1. /\ UNCHANGED <<steps, k, handlers, path, seen, downloads>>
        /\ <<s, f>> \in saving /\ saving' = saving \ {<<s, f>>}
        /\ \/ saved' = saved \cup {f} /\ event' = event \cup {s}
           \/ UNCHANGED <<saved, event>>
    BY <1>6 DEF SaveEnds, config
  <2>2. f \in seen[s] /\ saved \subseteq saved'
    BY <1>1, <2>1 DEF Filing, Called
  <2>3. Called'
    BY <2>1, <2>2 DEF Filing, Called
  <2>4. Registered'
    BY <2>1 DEF Filing, Registered, UpTo
  <2>5. Reports'
    BY <1>1, <2>1, <2>2, ReportsKept DEF Filing, Called
  <2> QED
    BY <2>3, <2>4, <2>5 DEF Filing
<1>7. CASE (Runs /\ ~Downloaded /\ ~NextStep) \/ Cancel \/ PageMoves \/ PageHangs \/ UNCHANGED vars
  <2>1. UNCHANGED <<steps, k, handlers, path, saving, event, seen, saved, downloads>>
    BY <1>7 DEF Runs, Finish, Fail, Loads, LoadFails, Finds, NotFound, Sets, Types, Typed, Clicks,
          ClickFails, DownloadTimesOut, Rests, Evaluates, Shoots, Cancel, PageMoves, PageHangs, vars,
          Done, Raise, Goto, config, filing
  <2> QED
    BY <1>2, <2>1 DEF Filing
<1> QED
  BY <1>3, <1>4, <1>5, <1>6, <1>7 DEF Next

LEMMA FilingIsEnough == IInv /\ Filing => DownloadsAreSaved
<1> SUFFICES ASSUME IInv, Filing, NEW j \in DOMAIN downloads
             PROVE  downloads[j] \in saved \/ Cardinality(seen[Reporter(j)]) > 1
  BY DEF DownloadsAreSaved
<1>1. Shape /\ k \in Nat
  BY DEF IInv, TypeOK
<1>2. ASSUME NEW h \in handlers PROVE {n \in handlers: n <= h} = UpTo(h)
  BY <1>1 DEF Filing, Registered, UpTo, Shape
<1>3. PICK h \in handlers: Cardinality(UpTo(h)) = j /\ Vouched(j, h)
  BY DEF Filing, Reports
<1> DEFINE r == Reporter(j)
<1>4. r \in handlers /\ Cardinality({n \in handlers: n <= r}) = j
  BY <1>2, <1>3 DEF Reporter
<1> HIDE DEF r
<1>5. r = h
  BY <1>1, <1>2, <1>3, <1>4, UpToIsInjective DEF Filing
<1> QED
  BY <1>3, <1>5 DEF Vouched, r

\* A reported download was saved, unless its step's handler was called for two, however many
\* handlers a download calls and whichever save fails (player.py:195-220).
THEOREM SavedIsSaved == Spec => []DownloadsAreSaved
<1>1. Init => Filing
  <2> SUFFICES ASSUME Init PROVE Filing
    OBVIOUS
  <2>1. Shape
    BY Initially DEF IInv
  <2>2. Registered
    BY <2>1 DEF Init, Registered, UpTo, Shape
  <2>3. Called
    BY FS_EmptySet DEF Init, Called
  <2>4. Reports
    BY DEF Init, Reports
  <2> QED
    BY <2>2, <2>3, <2>4 DEF Filing
<1> QED
  BY <1>1, FilingStep, FilingIsEnough, Invariance, PTL DEF Spec
=============================================================================
