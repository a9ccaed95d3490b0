-------------------------- MODULE DesktopRecorder --------------------------
(***************************************************************************)
(* The desktop recorder (web-automator/recorder_desktop.py): it starts the *)
(* user's Chrome as a plain process, watches its requests and downloads    *)
(* until ENTER or Ctrl-C, and then stops Chrome, removes its profile and   *)
(* writes the recording.                                                   *)
(*                                                                         *)
(* A request is what the two decision lists ask of it.  One Ctrl-C is      *)
(* modelled: it cancels the main task at the await it is in.               *)
(***************************************************************************)
EXTENDS Naturals, Sequences, SequencesExt

CONSTANTS MaxRequests,  \* bound: the requests of the pages it watches
          Files,        \* the downloads
          Probes,       \* how often it looks whether Chrome is up: 30
          NONE

\* What a recording's file may hold.
ActionTypes == {"login", "download_click", "filter", "navigate", "submit", "interaction"}
Action == [action_type: ActionTypes, post_data: {"tiny", "short", NONE}]
Download == [file: Files, trigger: ActionTypes \cup {NONE}]
Recordings == [actions: Seq(Action), downloads: Seq(Download), total_requests: Nat,
               ignored_requests: Nat]

ASSUME DesktopAssumption ==
    MaxRequests \in Nat /\ Probes \in Nat \ {0} /\ NONE \notin Files \cup Recordings

VARIABLES
    phase,       \* where run is; "left" when it ended before its try
    probe,       \* the attempt to reach Chrome
    chrome,      \* the process: "none", "running", "gone"; "terminated" or "killed" when it
                 \* was told to end and nobody waited for that
    profile,     \* whether its temporary profile is there
    asked,       \* the thread in input: "no", "reading", "read"
    interrupted, \* Ctrl-C was pressed
    suffix,      \* whether the output file's name contains .json
    writable,    \* whether it can be written
    requests,    \* self.request_count
    ignored,     \* self.ignored_count
    actions,     \* self.actions; self.last_action is the last of them
    fetching,    \* downloads being saved
    downloads,   \* self.downloads, each with its trigger_action
    files,       \* what was written: the recording, the cookies
    undecoded    \* history: requests whose body is no text

chromeVars == <<chrome, profile>>
counted == <<requests, ignored, actions, undecoded>>
fetched == <<fetching, downloads>>
vars == <<phase, probe, chromeVars, asked, interrupted, suffix, writable, counted, fetched, files>>

Init ==
    /\ phase = "starting" /\ probe = 0
    /\ chrome = "none" /\ profile = FALSE
    /\ asked = "no" /\ interrupted = FALSE
    /\ suffix \in BOOLEAN /\ writable \in BOOLEAN
    /\ requests = 0 /\ ignored = 0 /\ actions = <<>> /\ undecoded = 0
    /\ fetching = {} /\ downloads = <<>>
    /\ files = [recording |-> NONE, cookies |-> FALSE]
-----------------------------------------------------------------------------
(* _is_interesting, _classify, _on_request *)

\* body: its length is at most 2, below 500, or more.  words: a pattern is in the path, the
\* body or an x- header.  topic: the first of _classify's keywords that is there.
Request ==
    {q \in [path: {"asset", "ping", "page"}, type: {"document", "fetch", "image"}, words: BOOLEAN,
            topic: {"login", "download", "filter", "none"}, method: {"GET", "POST", "PUT"},
            body: {"none", "tiny", "short", "long", "binary"}]:
        q.method = "GET" => q.body = "none"}

\* An asset and a heartbeat are not looked at any further.
Skipped(q) == q.path \in {"asset", "ping"}

IsInteresting(q) ==
    /\ ~Skipped(q)
    /\ IF q.method = "POST" THEN q.words \/ q.body \in {"short", "long"}
       ELSE q.type \in {"document", "fetch"}

\* A body that is no text raises where it is read: a POST's in _is_interesting, that of any
\* other request to be kept in _classify.
Raises(q) == q.body = "binary" /\ IF q.method = "POST" THEN ~Skipped(q) ELSE IsInteresting(q)

Classify(q) ==
    [action_type |-> CASE q.topic = "login" -> "login"
                       [] q.topic = "download" -> "download_click"
                       [] q.topic = "filter" -> "filter"
                       [] q.topic = "none" /\ q.type = "document" -> "navigate"
                       [] q.topic = "none" /\ q.type # "document" /\ q.method = "POST" -> "submit"
                       [] OTHER -> "interaction",
     post_data |-> IF q.body \in {"tiny", "short"} THEN q.body ELSE NONE]

Watching == phase \in {"recording", "cookies", "closing"}

\* Variant: a heartbeat is skipped before it is counted as ignored.
SkipsUncounted(q) ==
    /\ Watching /\ requests < MaxRequests
    /\ requests' = requests + 1
    /\ undecoded' = IF Raises(q) THEN undecoded + 1 ELSE undecoded
    /\ ignored' = IF q.path = "ping" \/ Raises(q) \/ IsInteresting(q) THEN ignored ELSE ignored + 1
    /\ actions' = IF Raises(q) \/ ~IsInteresting(q) THEN actions ELSE Append(actions, Classify(q))
    /\ UNCHANGED <<phase, probe, chromeVars, asked, interrupted, suffix, writable, fetched,
                   files>>

\* A request of a page it watches: counted, and then ignored or kept.
OnRequest(q) ==
    /\ Watching /\ requests < MaxRequests
    /\ requests' = requests + 1
    /\ undecoded' = IF Raises(q) THEN undecoded + 1 ELSE undecoded
    /\ ignored' = IF Raises(q) \/ IsInteresting(q) THEN ignored ELSE ignored + 1
    /\ actions' = IF Raises(q) \/ ~IsInteresting(q) THEN actions ELSE Append(actions, Classify(q))
    /\ UNCHANGED <<phase, probe, chromeVars, asked, interrupted, suffix, writable, fetched,
                   files>>

DownloadBegins(f) ==
    /\ Watching
    /\ f \notin fetching /\ \A n \in DOMAIN downloads: downloads[n].file # f
    /\ fetching' = fetching \cup {f}
    /\ UNCHANGED <<phase, probe, chromeVars, asked, interrupted, suffix, writable, counted,
                   downloads, files>>

\* save_as returned: its trigger is the last action by then.
DownloadSaved(f) ==
    /\ Watching /\ f \in fetching
    /\ fetching' = fetching \ {f}
    /\ downloads' = Append(downloads,
           [file |-> f,
            trigger |-> IF actions = <<>> THEN NONE ELSE Last(actions).action_type])
    /\ UNCHANGED <<phase, probe, chromeVars, asked, interrupted, suffix, writable, counted, files>>
-----------------------------------------------------------------------------
(* run *)

Untouched == UNCHANGED <<suffix, writable, counted, fetched>>

\* find_chrome exits when there is none; Popen follows the new profile at once, which stays
\* when it raises.
Launch ==
    /\ phase = "starting"
    /\ \/ phase' = "exited" /\ profile' \in BOOLEAN /\ UNCHANGED chrome
       \/ phase' = "waiting" /\ chrome' = "running" /\ profile' = TRUE
    /\ Untouched /\ UNCHANGED <<probe, asked, interrupted, files>>

\* Its debugging port accepts a connection, or not yet, or not in time: Chrome is terminated
\* then, and its profile removed under it, as far as that goes.
Probe ==
    /\ phase = "waiting"
    /\ probe' = probe + 1
    /\ \/ phase' = "connecting" /\ UNCHANGED chromeVars
       \/ probe + 1 < Probes /\ UNCHANGED <<phase, chromeVars>>
       \/ probe + 1 = Probes /\ phase' = "exited" /\ chrome' = "terminated" /\ profile' \in BOOLEAN
    /\ Untouched /\ UNCHANGED <<asked, interrupted, files>>

\* Connected, listeners attached to the first page and to those opened later; input waits
\* in a thread.  Or an exception.
Connect ==
    /\ phase = "connecting"
    /\ \/ phase' = "recording" /\ asked' = "reading"
       \/ phase' = "finally" /\ UNCHANGED asked
    /\ Untouched /\ UNCHANGED <<probe, chromeVars, interrupted, files>>

\* ENTER: the thread ends, and with it the recording if that still waits.
Enter ==
    /\ asked = "reading"
    /\ asked' = "read"
    /\ phase' = IF phase = "recording" THEN "cookies" ELSE phase
    /\ Untouched /\ UNCHANGED <<probe, chromeVars, interrupted, files>>

\* The cookies go to the output's name with .json replaced; no exception leaves.
ExportCookies ==
    /\ phase = "cookies"
    /\ phase' = "closing"
    /\ \/ UNCHANGED files
       \/ files' = [files EXCEPT !.cookies = TRUE]
    /\ Untouched /\ UNCHANGED <<probe, chromeVars, asked, interrupted>>

\* The driver stops; browser.close() is called but not awaited, so it does nothing.
Disconnect ==
    /\ phase = "closing"
    /\ phase' = "finally"
    /\ Untouched /\ UNCHANGED <<probe, chromeVars, asked, interrupted, files>>

Recording ==
    [actions |-> actions, downloads |-> downloads, total_requests |-> requests,
     ignored_requests |-> ignored]

\* Opening the output file may raise, and leaves run.
Save ==
    files' = IF writable THEN [recording |-> Recording, cookies |-> files.cookies /\ suffix]
             ELSE files

\* Variant: no kill follows when Chrome does not end within five seconds.
FinallyWithoutKill ==
    /\ phase = "finally"
    /\ phase' = "complete"
    /\ \/ chrome' = "gone" /\ profile' = FALSE
       \/ chrome' = "terminated" /\ profile' \in BOOLEAN
    /\ Save
    /\ Untouched /\ UNCHANGED <<probe, asked, interrupted>>

\* Chrome is terminated and waited for; after five seconds it is killed, which is not.  Its
\* profile is removed, errors ignored, and the recording written over what has its name.
Finally ==
    /\ phase = "finally"
    /\ phase' = "complete"
    /\ \/ chrome' = "gone" /\ profile' = FALSE
       \/ chrome' = "killed" /\ profile' \in BOOLEAN
    /\ Save
    /\ Untouched /\ UNCHANGED <<probe, asked, interrupted>>

\* asyncio.run joins the thread, which reads until ENTER.
Exit ==
    /\ phase = "complete"
    /\ asked # "reading"
    /\ phase' = "exited"
    /\ Untouched /\ UNCHANGED <<probe, chromeVars, asked, interrupted, files>>

\* Variant: a cancelled input leaves run.
InterruptLeaves ==
    /\ ~interrupted /\ interrupted' = TRUE
    /\ phase \notin {"starting", "finally", "complete", "exited", "left"}
    /\ phase' = IF phase \in {"waiting", "recording"} THEN "left" ELSE "finally"
    /\ Untouched /\ UNCHANGED <<probe, chromeVars, asked, files>>

\* Ctrl-C: before the try nothing is cleaned up or written; in input it ends the recording;
\* at another await within the try it leads to the finally.
Interrupt ==
    /\ ~interrupted /\ interrupted' = TRUE
    /\ phase \notin {"starting", "finally", "complete", "exited", "left"}
    /\ phase' = CASE phase = "waiting" -> "left"
                  [] phase = "recording" -> "cookies"
                  [] OTHER -> "finally"
    /\ Untouched /\ UNCHANGED <<probe, chromeVars, asked, files>>
-----------------------------------------------------------------------------
Run == Launch \/ Probe \/ Connect \/ ExportCookies \/ Disconnect \/ Finally \/ Exit

Next == \/ Run \/ Enter \/ Interrupt
        \/ \E q \in Request: OnRequest(q)
        \/ \E f \in Files: DownloadBegins(f) \/ DownloadSaved(f)

Spec == Init /\ [][Next]_vars

\* Every await of run but input ends by itself.
FairSpec == Spec /\ WF_vars(Run)
-----------------------------------------------------------------------------
TypeOK ==
    /\ phase \in {"starting", "waiting", "connecting", "recording", "cookies", "closing",
                  "finally", "complete", "exited", "left"}
    /\ probe \in 0..Probes
    /\ chrome \in {"none", "running", "gone", "terminated", "killed"}
    /\ profile \in BOOLEAN
    /\ asked \in {"no", "reading", "read"} /\ interrupted \in BOOLEAN /\ suffix \in BOOLEAN
    /\ writable \in BOOLEAN
    /\ requests \in 0..MaxRequests /\ ignored \in Nat /\ undecoded \in Nat
    /\ actions \in Seq(Action)
    /\ fetching \subseteq Files
    /\ downloads \in Seq(Download)

\* Every request is ignored or recorded, once, but those whose body is no text; and so it
\* is in the file, which says all that was seen.
CountsAddUp ==
    /\ requests = ignored + Len(actions) + undecoded
    /\ files.recording # NONE => files.recording = Recording

\* When run is over and got as far as to ask for ENTER, Chrome ended or was killed and the
\* recording is written where it can be.  Chrome is left running only by a Ctrl-C before it
\* was reached, left with a request to end only when its port never answered, and where it is
\* known to have ended no profile stays.
EndsClean ==
    phase \in {"complete", "exited", "left"} =>
        /\ asked # "no" =>
               /\ chrome \in {"gone", "killed"}
               /\ files.recording # NONE \/ ~writable
        /\ chrome = "running" => interrupted /\ phase = "left"
        /\ chrome = "terminated" => probe = Probes
        /\ chrome = "gone" => ~profile

\* ENTER or Ctrl-C ends the recording, which is then written, even while the thread that
\* Ctrl-C does not end still waits for ENTER.
RecordingIsWritten ==
    asked = "read" \/ (asked = "reading" /\ interrupted)
        ~> files.recording # NONE \/ ~writable
=============================================================================
