------------------------------- MODULE Player -------------------------------
(***************************************************************************)
(* The player (web-automator/app/player.py): it loads a recipe's URL and   *)
(* runs its steps, one after the other, on one page.                       *)
(*                                                                         *)
(* The page is the environment: at any await it may go elsewhere, its      *)
(* elements come and go, a call on it may raise, before or after it had    *)
(* its effect, and it may start a download whenever it likes.              *)
(***************************************************************************)
EXTENDS Naturals, Sequences, FiniteSets, Functions, Recipe

CONSTANTS Recipes,   \* the recipes that are sent to POST /play
          Urls,      \* where the page may be
          Files,     \* the downloads the page may start
          Polls,     \* how often _element looks before its time is over
          Attempts,  \* max(1, int(timeout)): how often _click tries
          NONE

ASSUME PlayerAssumption ==
    /\ Polls \in Nat \ {0} /\ Attempts \in Nat \ {0}
    /\ \A r \in Recipes: r.steps \in Seq(Range(r.steps))
    /\ NONE \notin Files \cup {"success", "error"}

VARIABLES
    url,       \* config["url"]
    steps,     \* config["steps"]
    k,         \* the step under way, 0 while the recipe's URL is loaded
    pc,        \* what the player waits for in it
    attempt,   \* of _element's polls or _click's attempts
    page,      \* page.url
    handlers,  \* the download steps whose handle_download is registered, for good
    path,      \* each handler's download_path
    saving,    \* the save_as calls under way: <<handler, file>>
    event,     \* the handlers whose download_event is set
    downloads, \* self.downloads
    status,    \* the run's result
    stuck,     \* a script of the page does not yield: calls without a timeout hang
    acted,     \* history: how often each step had its effect on the page
    seen,      \* history: the files each handler was called for
    saved,     \* history: the files that were saved
    refused,   \* history: the egress proxy refused a navigation
    broken     \* history: a step lacked a field the player takes for granted

config == <<url, steps>>
filing == <<handlers, path, saving, event, seen, saved>>
vars == <<config, k, pc, attempt, page, filing, downloads, status, acted, refused, broken, stuck>>

Step == steps[k]
N == Len(steps)
Over == {"ended", "cancelled"}

\* _origin_of: the port is left out when it is the scheme's default.
DefaultPort == [http |-> "80", https |-> "443"]
OriginOf(u) ==
    [scheme |-> u.scheme, host |-> u.host,
     port |-> IF u.scheme \in DOMAIN DefaultPort /\ u.port = DefaultPort[u.scheme]
              THEN NULL ELSE u.port]

\* _on_origin does not raise.
OnOrigin(s) == "origin" \in DOMAIN s => OriginOf(page) = OriginOf(s.origin)

Blank == [scheme |-> "about", host |-> NULL, port |-> NULL, path |-> "blank"]

Init ==
    /\ \E r \in Recipes:
        /\ ValidRecipe(r)
        /\ url = r.url
        /\ steps = [n \in DOMAIN r.steps |-> Dump(r.steps[n])]
    /\ k = 0
    /\ pc = "loading"
    /\ attempt = 0
    /\ page = Blank
    /\ handlers = {}
    /\ path = [n \in DOMAIN steps |-> NONE]
    /\ saving = {}
    /\ event = {}
    /\ downloads = <<>>
    /\ status = NONE
    /\ acted = [n \in DOMAIN steps |-> 0]
    /\ seen = [n \in DOMAIN steps |-> {}]
    /\ saved = {}
    /\ refused = FALSE
    /\ broken = FALSE
    /\ stuck = FALSE
-----------------------------------------------------------------------------
(* Helpers *)

\* The step had its effect on the page.
Effect == acted' = IF k = 0 THEN acted ELSE [acted EXCEPT ![k] = @ + 1]

Goto(label) == pc' = label /\ UNCHANGED <<config, k, filing, status, stuck>>
Done == Goto("next")

\* An exception leaves the step: run catches it and later steps do not run.
Raise == Goto("failing")
-----------------------------------------------------------------------------
(* run, _run_step *)

\* What each action waits for first.
First == [navigate |-> "loading", fill |-> "finding", select |-> "finding", check |-> "finding",
          click |-> "clicking", download |-> "clicking", wait |-> "resting",
          keyboard |-> "resting", scrape |-> "evaluating", extract_grid |-> "evaluating",
          scrape_text |-> "evaluating", screenshot |-> "shooting"]

\* The fields that are subscripted, and a timeout that is divided.
Playable(s) ==
    /\ s.action \in DOMAIN First
    /\ s.action = "navigate" => "url" \in DOMAIN s
    /\ s.action = "wait" => "seconds" \in DOMAIN s
    /\ s.action = "keyboard" => "key" \in DOMAIN s
    /\ "timeout_ms" \in DOMAIN s => s.timeout_ms # NULL

\* The next step: a login's origin is checked before its field is looked up, and a
\* download's handler is there before its trigger is clicked.
NextStep ==
    /\ pc = "next" /\ k < N
    /\ k' = k + 1
    /\ attempt' = 0
    /\ LET s == steps[k + 1] IN
        /\ broken' = (broken \/ ~Playable(s))
        /\ pc' = IF Playable(s) /\ (s.action = "fill" => OnOrigin(s)) THEN First[s.action] ELSE "failing"
        /\ handlers' = IF s.action = "download" THEN handlers \cup {k + 1} ELSE handlers
    /\ UNCHANGED <<config, page, path, saving, event, seen, saved, downloads, status, acted,
                   refused, stuck>>

\* The final screenshot, which may raise like any step.
Finish ==
    /\ pc = "next" /\ k = N
    /\ \/ pc' = "ended" /\ status' = "success"
       \/ pc' = "failing" /\ UNCHANGED status
    /\ UNCHANGED <<config, k, attempt, page, filing, downloads, acted, refused, broken, stuck>>

\* The except of run: a screenshot that may fail, and the answer.
Fail ==
    /\ pc = "failing"
    /\ pc' = "ended"
    /\ status' = "error"
    /\ UNCHANGED <<config, k, attempt, page, filing, downloads, acted, refused, broken, stuck>>

\* The play's task is cancelled: nothing here catches that, and there is no answer.
Cancel ==
    /\ pc \notin Over
    /\ pc' = "cancelled"
    /\ UNCHANGED <<config, k, attempt, page, filing, downloads, status, acted, refused, broken, stuck>>
-----------------------------------------------------------------------------
(* _navigate *)

\* goto returns, maybe redirected; the page settles.
Loads ==
    /\ pc = "loading"
    /\ page' \in Urls
    /\ Effect
    /\ Done
    /\ UNCHANGED <<attempt, downloads, refused, broken>>

\* The egress proxy refuses, by its header or as a tunnel that fails; or goto raises.
LoadFails ==
    /\ pc = "loading"
    /\ \E egress \in BOOLEAN:
        /\ refused' = (refused \/ egress)
        /\ page' \in IF egress THEN Urls ELSE {page}
    /\ Raise
    /\ UNCHANGED <<attempt, downloads, acted, broken>>

-----------------------------------------------------------------------------
(* _element, _fill, _select, _check *)

Finds ==
    /\ pc = "finding"
    /\ Goto("acting")
    /\ UNCHANGED <<attempt, page, downloads, acted, refused, broken>>

\* Variant: the deadline is computed anew for each look.
PollsForever ==
    /\ pc = "finding"
    /\ \/ attempt' = (attempt + 1) % Polls /\ Goto("finding")
       \/ attempt' = attempt /\ Raise
    /\ UNCHANGED <<page, downloads, acted, refused, broken>>

\* Nothing matches yet: it looks again, until its time is over.  The look may raise.
NotFound ==
    /\ pc = "finding"
    /\ \/ attempt + 1 < Polls /\ attempt' = attempt + 1 /\ Goto("finding")
       \/ attempt' = attempt /\ Raise
    /\ UNCHANGED <<page, downloads, acted, refused, broken>>

\* A select or a checkbox is set; a call that raises may have had its effect.
Sets ==
    /\ pc = "acting" /\ Step.action \in {"select", "check"}
    /\ \/ Effect /\ (Done \/ Raise)
       \/ UNCHANGED acted /\ Raise
    /\ UNCHANGED <<attempt, page, downloads, refused, broken>>

\* Variant: the origin is not checked again.
TypesAnyway ==
    /\ pc = "acting" /\ Step.action = "fill"
    /\ \/ Effect /\ Goto("typing")
       \/ UNCHANGED acted /\ Raise
    /\ UNCHANGED <<attempt, page, downloads, refused, broken>>

\* The field was clicked and its text selected, which takes a while: the origin is checked
\* again and typing starts.
Types ==
    /\ pc = "acting" /\ Step.action = "fill"
    /\ \/ OnOrigin(Step) /\ Effect /\ Goto("typing")
       \/ UNCHANGED acted /\ Raise
    /\ UNCHANGED <<attempt, page, downloads, refused, broken>>

Typed ==
    /\ pc = "typing"
    /\ Done \/ Raise
    /\ UNCHANGED <<attempt, page, downloads, acted, refused, broken>>
-----------------------------------------------------------------------------
(* _click, _wait_for_download *)

\* el.click() returned: a download waits for its file now.
Clicks ==
    /\ pc = "clicking"
    /\ IF Step.action = "download" THEN Goto("awaiting") /\ UNCHANGED acted ELSE Done /\ Effect
    /\ UNCHANGED <<attempt, page, downloads, refused, broken>>

\* Variant: nothing is raised after the last attempt.
GivesUpSilently ==
    /\ pc = "clicking"
    /\ UNCHANGED acted
    /\ IF attempt + 1 < Attempts
       THEN attempt' = attempt + 1 /\ Goto("clicking")
       ELSE attempt' = attempt /\ Done
    /\ UNCHANGED <<page, downloads, refused, broken>>

\* No visible element, or the click raised, maybe after it was done: the next attempt.
ClickFails ==
    /\ pc = "clicking"
    /\ UNCHANGED acted \/ (Step.action = "click" /\ Effect)
    /\ IF attempt + 1 < Attempts
       THEN attempt' = attempt + 1 /\ Goto("clicking")
       ELSE attempt' = attempt /\ Raise
    /\ UNCHANGED <<page, downloads, refused, broken>>

\* download_event is set; download_path is what the handler was called for last.
Downloaded ==
    /\ pc = "awaiting"
    /\ k \in event
    /\ downloads' = Append(downloads, path[k])
    /\ Effect
    /\ Done
    /\ UNCHANGED <<attempt, page, refused, broken>>

DownloadTimesOut ==
    /\ pc = "awaiting"
    /\ k \notin event
    /\ Raise
    /\ UNCHANGED <<attempt, page, downloads, acted, refused, broken>>

\* Variant: the event is set before the file is saved.
EventFirst(f) ==
    /\ pc \notin Over
    /\ \A h \in DOMAIN steps: f \notin seen[h]
    /\ path' = [h \in DOMAIN steps |-> IF h \in handlers THEN f ELSE path[h]]
    /\ seen' = [h \in DOMAIN steps |-> IF h \in handlers THEN seen[h] \cup {f} ELSE seen[h]]
    /\ saving' = saving \cup {<<h, f>>: h \in handlers}
    /\ event' = handlers
    /\ UNCHANGED <<config, k, pc, attempt, page, handlers, saved, downloads, status, acted,
                   refused, broken, stuck>>

\* The page starts a download: every handler that was ever registered is called.
DownloadStarts(f) ==
    /\ pc \notin Over
    /\ \A h \in DOMAIN steps: f \notin seen[h]
    /\ path' = [h \in DOMAIN steps |-> IF h \in handlers THEN f ELSE path[h]]
    /\ seen' = [h \in DOMAIN steps |-> IF h \in handlers THEN seen[h] \cup {f} ELSE seen[h]]
    /\ saving' = saving \cup {<<h, f>>: h \in handlers}
    /\ UNCHANGED <<config, k, pc, attempt, page, handlers, event, saved, downloads, status, acted,
                   refused, broken, stuck>>

\* save_as returns, or raises in the handler's own task, where nobody sees it.
SaveEnds(h, f) ==
    /\ pc \notin Over
    /\ <<h, f>> \in saving
    /\ saving' = saving \ {<<h, f>>}
    /\ \/ saved' = saved \cup {f} /\ event' = event \cup {h}
       \/ UNCHANGED <<saved, event>>
    /\ UNCHANGED <<config, k, pc, attempt, page, handlers, path, seen, downloads, status, acted,
                   refused, broken, stuck>>
-----------------------------------------------------------------------------
(* The other actions: wait, keyboard; scrape, scrape_text, extract_grid; screenshot *)

Rests ==
    /\ pc = "resting"
    /\ \/ Effect /\ Done
       \/ Step.action = "keyboard" /\ UNCHANGED acted /\ Raise
    /\ UNCHANGED <<attempt, page, downloads, refused, broken>>

\* A script of the player runs in the page.  A grid that is not there is data, no failure.
Evaluates ==
    /\ pc = "evaluating"
    /\ \/ Effect /\ Done
       \/ UNCHANGED acted /\ Raise
    /\ UNCHANGED <<attempt, page, downloads, refused, broken>>

Shoots ==
    /\ pc = "shooting"
    /\ \/ Effect /\ Done
       \/ UNCHANGED acted /\ Raise
    /\ UNCHANGED <<attempt, page, downloads, refused, broken>>

\* A script of the page never yields.
PageHangs ==
    /\ pc \notin Over /\ ~stuck
    /\ stuck' = TRUE
    /\ UNCHANGED <<config, k, pc, attempt, page, filing, downloads, status, acted, refused, broken>>

\* A script of the page, or an answer to what was clicked, leads it elsewhere.
PageMoves ==
    /\ pc \notin Over
    /\ page' \in Urls
    /\ UNCHANGED <<config, k, pc, attempt, filing, downloads, status, acted, refused, broken, stuck>>
-----------------------------------------------------------------------------
Runs == \/ NextStep \/ Finish \/ Fail
        \/ Loads \/ LoadFails \/ Finds \/ NotFound \/ Sets \/ Types \/ Typed
        \/ Clicks \/ ClickFails \/ Downloaded \/ DownloadTimesOut
        \/ Rests \/ Evaluates \/ Shoots

Next == \/ Runs \/ Cancel \/ PageMoves \/ PageHangs
        \/ \E f \in Files: DownloadStarts(f) \/ \E h \in handlers: SaveEnds(h, f)

Spec == Init /\ [][Next]_vars

\* A timeout or a sleep ends every await of the player but the calls that need the page's
\* own thread (query_selector, evaluate, the keyboard), which have none.
FairSpec == Spec /\ WF_vars(~stuck /\ Runs)
-----------------------------------------------------------------------------
TypeOK ==
    /\ k \in 0..N
    /\ pc \in Over \cup {"next", "failing", "typing", "acting", "awaiting"} \cup Range(First)
    /\ attempt \in 0..(Polls + Attempts)
    /\ page \in Urls \cup {Blank}
    /\ handlers \subseteq DOMAIN steps
    /\ path \in [DOMAIN steps -> Files \cup {NONE}]
    /\ saving \subseteq handlers \X Files
    /\ event \subseteq handlers
    /\ downloads \in Seq(Files)
    /\ status \in {NONE, "success", "error"}
    /\ acted \in [DOMAIN steps -> 0..Attempts]
    /\ seen \in [DOMAIN steps -> SUBSET Files]
    /\ saved \subseteq Files
    /\ refused \in BOOLEAN /\ broken \in BOOLEAN /\ stuck \in BOOLEAN

\* The download step that reported the j-th download.
Reporter(j) == CHOOSE h \in handlers: Cardinality({n \in handlers: n <= h}) = j

\* Steps have their effect in the recipe's order, each only after all before it; the run
\* succeeds only when every one had its own, with a file for each download step and no
\* navigation that the egress proxy refused.
SuccessIsEarned ==
    /\ \A n \in DOMAIN steps: acted[n] > 0 => n <= k /\ \A m \in 1..n: acted[m] > 0
    /\ status = "success" =>
        /\ \A n \in DOMAIN steps: acted[n] > 0
        /\ Len(downloads) = Cardinality({n \in DOMAIN steps: steps[n].action = "download"})
        /\ ~refused

\* A download that is reported was saved, unless its step's handler was called for a second
\* one before the first was.
DownloadsAreSaved ==
    \A j \in DOMAIN downloads:
        downloads[j] \in saved \/ Cardinality(seen[Reporter(j)]) > 1

\* What the contract accepts has every field the player takes for granted.
AcceptedIsPlayable == ~broken

\* The keys of a login are sent to a page that is, when typing starts, on its origin, even
\* if the page moved while its field was looked for, clicked and selected.
LoginStartsOnOrigin ==
    [][\A n \in DOMAIN steps:
        acted'[n] # acted[n] /\ "origin" \in DOMAIN steps[n]
            => OriginOf(page) = OriginOf(steps[n].origin)]_vars

\* Every run ends, with a result or cancelled, if the page's scripts let its calls return.
PlayerEnds == <>(pc \in Over \/ stuck)
=============================================================================
