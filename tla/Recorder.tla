------------------------------ MODULE Recorder ------------------------------
(***************************************************************************)
(* The recorder behind POST /record (web-automator/app/recorder.py): a     *)
(* script injected into each document of one page hears what the user does *)
(* and calls back into Python, which keeps it until the recording stops.   *)
(*                                                                         *)
(* The user, the page and the network are the environment.  A document is  *)
(* replaced at any time, with it its listeners; calls from one document    *)
(* arrive in order, those of two may overtake each other, and some of a    *)
(* document that was left never arrive.                                    *)
(***************************************************************************)
EXTENDS Naturals, Sequences, FiniteSets, SequencesExt

CONSTANTS MaxActs,   \* bound: what the user does
          MaxDocs,   \* bound: the documents loaded
          Files,     \* the downloads
          NULL

ASSUME RecorderAssumption == MaxActs \in Nat /\ MaxDocs \in Nat /\ NULL \notin Nat

VARIABLES
    phase,      \* Recorder.start: "loading", "settling", "started", "failed"; "stopped"
    attempt,    \* the load under way, of three
    doc,        \* the page's document, 0 before the first
    listeners,  \* how many sets of listeners it has
    marked,     \* window.__webAutomatorRecording
    pending,    \* the _on_load tasks that sleep before they inject
    dirty,      \* the field that was typed in and not yet left, or NULL
    clock,      \* the time, one tick per act
    wire,       \* calls of __recordAction under way, per document
    actions,    \* self.actions
    fetching,   \* downloads that are being saved
    downloads,  \* self.downloads
    report,     \* what stop_recording answers, NULL before
    heard,      \* history: the times of the acts a listener heard
    lost,       \* history: those whose call was lost with its document
    deaf        \* history: the documents in which an injection of the script raised

starting == <<phase, attempt>>
document == <<doc, listeners, marked, pending, dirty>>
kept == <<actions, fetching, downloads, report>>
recVars == <<starting, document, clock, wire, kept, heard, lost, deaf>>

Fields == {"text", "password", "one-time-code", "radio", "checkbox", "select"}
Elements == Fields \cup {"button", "other"}
Documents == 1..MaxDocs

RecInit ==
    /\ phase = "loading" /\ attempt = 1
    /\ doc = 0 /\ listeners = 0 /\ marked = FALSE /\ pending = 0 /\ dirty = NULL
    /\ clock = 0
    /\ wire = [d \in Documents |-> <<>>]
    /\ actions = <<>> /\ fetching = {} /\ downloads = <<>>
    /\ report = NULL
    /\ heard = {} /\ lost = {} /\ deaf = {}
-----------------------------------------------------------------------------
(* The injected script: _DOM_RECORDER_JS *)

\* The script and the recorder tell a credential field in the same way, each for itself.
IsCredentialField(el) == el \in {"password", "one-time-code"}

ActionType(el) ==
    CASE el \in {"radio", "select"} -> "select"
      [] el = "checkbox" -> "check"
      [] el = "button" -> "click"
      [] OTHER -> "fill"

\* What its listeners send of a change or a click.
Sent(el, checked) ==
    [time |-> clock + 1, action_type |-> ActionType(el), field |-> el,
     value |-> IF IsCredentialField(el) THEN NULL ELSE "typed",
     checked |-> IF el \in {"radio", "checkbox"} THEN checked ELSE NULL]

\* Every set of listeners hears the act.
Hears(el) ==
    /\ clock < MaxActs
    /\ clock' = clock + 1
    /\ \E checked \in BOOLEAN:
        wire' = [wire EXCEPT ![doc] = @ \o [n \in 1..listeners |-> Sent(el, checked)]]
    /\ heard' = IF listeners > 0 THEN heard \cup {clock + 1} ELSE heard

Acting == phase # "stopped" /\ doc > 0

\* The user types in a field and stays in it: no event yet.
Types(el) ==
    /\ Acting
    /\ el \in Fields /\ dirty = NULL
    /\ dirty' = el
    /\ UNCHANGED <<starting, doc, listeners, marked, pending, clock, wire, kept, heard, lost, deaf>>

\* The field is left, or a box or a list changed: change.
Changes(el) ==
    /\ Acting
    /\ dirty = el
    /\ dirty' = NULL
    /\ Hears(el)
    /\ UNCHANGED <<starting, doc, listeners, marked, pending, kept, lost, deaf>>

\* A click: only on what looks like a button or a link.
ClicksOn(el) ==
    /\ Acting
    /\ el \in {"button", "other"}
    /\ IF el = "button" THEN Hears(el) ELSE UNCHANGED <<clock, wire, heard>>
    /\ UNCHANGED <<starting, document, kept, lost, deaf>>
-----------------------------------------------------------------------------
(* Documents come and go *)

\* A new document: no listeners, and domcontentloaded has one more task wait to inject.
\* Some of the last calls of the old one may be lost.
NewDocument ==
    /\ doc < MaxDocs
    /\ doc' = doc + 1
    /\ listeners' = 0 /\ marked' = FALSE /\ dirty' = NULL
    /\ pending' = pending + 1
    /\ IF doc = 0
       THEN UNCHANGED <<wire, lost>>
       ELSE \E n \in 0..Len(wire[doc]):
               /\ wire' = [wire EXCEPT ![doc] = SubSeq(@, 1, n)]
               /\ lost' = lost \cup {wire[doc][m].time: m \in (n + 1)..Len(wire[doc])}

\* The user or a script goes elsewhere.  _on_request flushes window.__recordedActions,
\* which nothing fills.
Navigates ==
    /\ Acting
    /\ NewDocument
    /\ UNCHANGED <<starting, clock, kept, heard, deaf>>

\* A form is submitted: the script leaves the field that has the focus, whose change is sent
\* before the document goes.
Submits ==
    /\ Acting /\ listeners > 0
    /\ dirty \in {"text", "password", "one-time-code"}
    /\ dirty' = NULL
    /\ Hears(dirty)
    /\ UNCHANGED <<starting, doc, listeners, marked, pending, kept, lost, deaf>>

\* Variant: the script does not ask whether it is there already.
InjectAgain ==
    /\ listeners' = listeners + 1
    /\ marked' = TRUE

\* The script of _inject_dom_recorder: it leaves a document it has been in alone.
Inject ==
    /\ listeners' = IF marked THEN listeners ELSE listeners + 1
    /\ marked' = TRUE

\* _inject_dom_recorder: what it raises is only logged, the document stays unheard.
TriesToInject ==
    \/ Inject /\ UNCHANGED deaf
    \/ deaf' = deaf \cup {doc} /\ UNCHANGED <<listeners, marked>>

\* Variant: the listener of domcontentloaded is there for the first document only.
LoadedOnce ==
    /\ Acting /\ pending > 0
    /\ pending' = pending - 1
    /\ IF doc = 1 THEN TriesToInject ELSE UNCHANGED <<listeners, marked, deaf>>
    /\ UNCHANGED <<starting, doc, dirty, clock, wire, kept, heard, lost>>

\* _on_load: half a second later, in the document the page has by then.
Loaded ==
    /\ Acting /\ pending > 0
    /\ pending' = pending - 1
    /\ TriesToInject
    /\ UNCHANGED <<starting, doc, dirty, clock, wire, kept, heard, lost>>
-----------------------------------------------------------------------------
(* start *)

\* goto returned; it then lets the page settle.
StartLoads ==
    /\ phase = "loading"
    /\ NewDocument
    /\ phase' = "settling"
    /\ UNCHANGED <<attempt, clock, kept, heard, deaf>>

StartInjects ==
    /\ phase = "settling"
    /\ phase' = "started"
    /\ TriesToInject
    /\ UNCHANGED <<attempt, doc, pending, dirty, clock, wire, kept, heard, lost>>

\* goto raised, before the site's document (or an error's) was there or after: three attempts,
\* then start raises.
StartFails ==
    /\ phase = "loading"
    /\ IF attempt < 3
       THEN attempt' = attempt + 1 /\ UNCHANGED phase
       ELSE phase' = "failed" /\ UNCHANGED attempt
    /\ NewDocument \/ UNCHANGED <<document, wire, lost>>
    /\ UNCHANGED <<clock, kept, heard, deaf>>
-----------------------------------------------------------------------------
(* The recorder: _on_dom_action, _on_download, async_stop *)

\* The actions of app.recipe that a document can send.
ReplayedActions == {"click", "fill", "select", "check"}

\* captured_action: a credential field's fill is a slot, whatever the page sent.
Captured(m) ==
    LET secret == m.action_type = "fill" /\ IsCredentialField(m.field) IN
    [time |-> m.time, action_type |-> m.action_type, field |-> m.field,
     value |-> IF secret THEN NULL ELSE m.value,
     checked |-> IF m.action_type = "check" THEN m.checked ELSE NULL,
     secret |-> IF secret THEN TRUE ELSE NULL]

\* The next call of a document arrives.
OnDomAction(d) ==
    /\ phase # "stopped" /\ wire[d] # <<>>
    /\ wire' = [wire EXCEPT ![d] = Tail(@)]
    /\ actions' = IF Head(wire[d]).action_type \in ReplayedActions
                  THEN Append(actions, Captured(Head(wire[d]))) ELSE actions
    /\ UNCHANGED <<starting, document, clock, fetching, downloads, report, heard, lost, deaf>>

\* A download begins; it is listed once it is saved.
DownloadBegins(f) ==
    /\ Acting
    /\ f \notin fetching /\ ~Contains(downloads, f)
    /\ fetching' = fetching \cup {f}
    /\ UNCHANGED <<starting, document, clock, wire, actions, downloads, report, heard, lost, deaf>>

DownloadSaved(f) ==
    /\ phase # "stopped" /\ f \in fetching
    /\ fetching' = fetching \ {f}
    /\ downloads' = Append(downloads, f)
    /\ UNCHANGED <<starting, document, clock, wire, actions, report, heard, lost, deaf>>

\* models.CapturedAction, the response's: a field it does not declare is left out.
Response(a) == [f \in DOMAIN a \ {"secret"} |-> a[f]]

\* The place of s[n] after a stable sort by time.
Rank(s, n) ==
    Cardinality({m \in DOMAIN s: s[m].time < s[n].time \/ (s[m].time = s[n].time /\ m <= n)})

SortedByTime(s) == [k \in DOMAIN s |-> s[CHOOSE n \in DOMAIN s: Rank(s, n) = k]]

\* async_stop, from the answer of which on nothing is added: sorted by time.
Stop ==
    /\ phase = "started"
    /\ phase' = "stopped"
    /\ actions' = SortedByTime(actions)
    /\ report' = [actions |-> [n \in DOMAIN actions |-> Response(actions'[n])],
                  downloads |-> downloads, captured_actions |-> Len(actions)]
    /\ UNCHANGED <<attempt, document, clock, wire, fetching, downloads, heard, lost, deaf>>
-----------------------------------------------------------------------------
User == \/ \E el \in Elements: Types(el) \/ Changes(el) \/ ClicksOn(el)
        \/ Submits \/ Navigates
        \/ \E f \in Files: DownloadBegins(f) \/ DownloadSaved(f)

Start == StartLoads \/ StartInjects \/ StartFails

RecNext == User \/ Start \/ Stop \/ Loaded \/ \E d \in Documents: OnDomAction(d)

RecSpec == RecInit /\ [][RecNext]_recVars

\* goto has a timeout, documents are parsed to their end, and a task that sleeps wakes up.
RecFairSpec == RecSpec /\ WF_recVars(Start) /\ WF_recVars(Loaded)
-----------------------------------------------------------------------------
Times == 1..MaxActs
Action == [time: Times, action_type: ReplayedActions, field: Elements, value: {NULL, "typed"},
           checked: BOOLEAN \cup {NULL}, secret: {TRUE, NULL}]
Message == [time: Times, action_type: ReplayedActions, field: Elements, value: {NULL, "typed"},
            checked: BOOLEAN \cup {NULL}]

RecTypeOK ==
    /\ phase \in {"loading", "settling", "started", "failed", "stopped"}
    /\ attempt \in 1..3
    /\ doc \in 0..MaxDocs /\ pending \in 0..MaxDocs
    /\ listeners \in Nat /\ marked \in BOOLEAN
    /\ dirty \in Fields \cup {NULL}
    /\ clock \in 0..MaxActs
    /\ wire \in [Documents -> Seq(Message)] /\ actions \in Seq(Action)
    /\ fetching \subseteq Files /\ downloads \in Seq(Files)
    /\ heard \subseteq Times /\ lost \subseteq Times /\ deaf \subseteq 0..MaxDocs

TimesOf(s) == {s[n].time: n \in DOMAIN s}
Once(s) == \A m, n \in DOMAIN s: m # n => s[m].time # s[n].time

\* Everything heard is in one of three places, once.
HeardIsSomewhere == heard = TimesOf(actions) \cup lost \cup UNION {TimesOf(wire[d]): d \in Documents}

NothingIsTwice ==
    /\ Once(actions)
    /\ TimesOf(actions) \cap lost = {}
    /\ \A d \in Documents:
         /\ Once(wire[d])
         /\ TimesOf(wire[d]) \cap (TimesOf(actions) \cup lost) = {}
         /\ \A e \in Documents \ {d}: TimesOf(wire[d]) \cap TimesOf(wire[e]) = {}

Answered ==
    report # NULL =>
        /\ TimesOf(report.actions) = TimesOf(actions)
        /\ report.captured_actions = Len(report.actions)
        /\ \A m, n \in DOMAIN report.actions:
            m < n => report.actions[m].time < report.actions[n].time

\* Whatever a listener heard is, once, recorded, under way or lost with its document, although
\* two tasks inject the script into the first document and one may inject it into the document
\* after the one it waited for; the answer has all that was recorded, in the order in which it
\* happened.
HeardIsKeptOnce == HeardIsSomewhere /\ NothingIsTwice /\ Answered

\* A document that stays is listened to in the end, whichever load, of a start that was tried
\* again or of a later navigation, brought it; unless an injection raised in that document.
EveryDocumentIsHeard ==
    \A d \in Documents:
        doc = d ~> (listeners > 0 \/ doc # d \/ d \in deaf \/ phase = "stopped")

\* What lib/alex_claw/web_automation/recording.ex says of the answer: a credential field is
\* recorded as a slot, which is how a fill that awaits its login is told from an empty one.
LoginsAreSlots ==
    report # NULL =>
        \A n \in DOMAIN report.actions:
            IsCredentialField(report.actions[n].field) =>
                "secret" \in DOMAIN report.actions[n] /\ report.actions[n].secret = TRUE
=============================================================================
