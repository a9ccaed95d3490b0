----------------------------- MODULE MCStepWalk -----------------------------
(***************************************************************************)
(* StepWalk for TLC: every workflow of three steps in which each step      *)
(* routes at most one branch (its own, on_error or "default") to the end,  *)
(* to any step or to a position that does not exist, and the empty one.    *)
(***************************************************************************)
EXTENDS StepWalk, TLC
CONSTANTS plain, shell, loaded, receiver

Positions == {1, 2, 4}
AllSkills == {plain, shell, loaded, receiver}
AllBranches == {"on_items", "on_empty", "on_error"}

\* "loaded", a dynamic skill, declares on_items an error branch.
KindOf == [s \in AllSkills |->
              [b \in AllBranches |-> CASE b = "on_empty" -> "empty"
                                       [] b = "on_error" -> "error"
                                       [] b = "on_items" /\ s = loaded -> "error"
                                       [] OTHER -> "other"]]

OnlyShell == {shell}
OnlyLoaded == {loaded}

NoRoutes == [n \in AllBranches \cup {"default"} |-> NoRoute]

\* The i-th route table: nothing routed, or one of the names to one of the targets.
Table(i, names, targets) ==
    IF i = 0 THEN NoRoutes
    ELSE [NoRoutes EXCEPT ![names[1 + ((i - 1) \div Len(targets))]] =
                              targets[1 + ((i - 1) % Len(targets))]]

Workflow(t1, t2, t4, from) ==
    [steps |-> Positions,
     routes |-> 1 :> t1 @@ 2 :> t2 @@ 4 :> t4,
     inputFrom |-> 1 :> NoStep @@ 2 :> NoStep @@ 4 :> from,
     skill |-> 1 :> receiver @@ 2 :> shell @@ 4 :> loaded,
     fallback |-> 1 :> shell @@ 2 :> NoStep @@ 4 :> plain,
     onOpen |-> 1 :> "fallback" @@ 2 :> "skip" @@ 4 :> "halt",
     onMissing |-> 1 :> "fail" @@ 2 :> "fail" @@ 4 :> "skip"]

EmptyWorkflow ==
    LET none == [p \in {} |-> NoStep]
    IN  [steps |-> {}, routes |-> none, inputFrom |-> none, skill |-> none,
         fallback |-> none, onOpen |-> none, onMissing |-> none]

\* Workflow number i, from 0: its digits choose the tables of its steps and step 4's
\* input_from.
Numbered(i) ==
    Workflow(Table(i % 9, <<"on_items", "on_error">>, <<1, 3, 4, End>>),
             Table((i \div 9) % 13, <<"on_empty", "on_error", "default">>, <<1, 2, 4, End>>),
             Table((i \div 117) % 7, <<"on_items", "on_error">>, <<1, 2, End>>),
             IF i < 819 THEN NoStep ELSE 1)

\* TLC builds the sequence once: SubSeq makes it a tuple, and a definition that a cfg
\* does not substitute is evaluated only once.
Built == SubSeq(<<EmptyWorkflow>> \o [i \in 1..1638 |-> Numbered(i - 1)], 1, 1639)

SmallWorkflows == Built

Ids == 1..1639
=============================================================================
