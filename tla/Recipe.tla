------------------------------- MODULE Recipe -------------------------------
(***************************************************************************)
(* The recipe contract (web-automator/app/recipe.py, models.PlayRequest):  *)
(* what POST /play accepts, before anything runs, and what the player is   *)
(* then given.                                                             *)
(*                                                                         *)
(* A step is a record of the fields that were sent.  A URL is what         *)
(* urlsplit finds in it; any other value is the name of its class: "text", *)
(* "empty", "bool", "in range", "out of range".                            *)
(***************************************************************************)
EXTENDS Sequences

CONSTANT NULL \* JSON's null, Python's None

\* _http_url, _origin.
HttpUrl(u) == u.scheme \in {"http", "https"} /\ u.host # NULL
IsOrigin(u) == u.path = "" /\ HttpUrl(u)

\* The fields a step of each action must carry, and those it may.
Required ==
    [navigate |-> {"url"}, click |-> {"selector"}, fill |-> {"selector", "value"},
     select |-> {"selector", "value"}, check |-> {"selector", "checked"},
     wait |-> {"seconds"}, keyboard |-> {"key"}, download |-> {"selector"}, scrape |-> {},
     scrape_text |-> {}, extract_grid |-> {"selector"}, screenshot |-> {}]

Optional(a) == {"timeout_ms"} \cup (CASE a = "fill" -> {"input_type", "origin"}
                                      [] a \in {"scrape", "scrape_text"} -> {"selector"}
                                      [] a = "screenshot" -> {"name", "full_page"}
                                      [] OTHER -> {})

\* The actions of the contract (ACTIONS there).
Actions == DOMAIN Required

\* Whether a field's value is one its type admits.
Admits(field, value) ==
    CASE field = "url" -> HttpUrl(value)
      [] field = "origin" -> IsOrigin(value)
      [] field \in {"selector", "key", "name"} -> value = "text"
      [] field = "value" -> value \in {"text", "empty"}
      [] field \in {"checked", "full_page"} -> value = "bool"
      [] field = "input_type" -> value = "date"
      [] field \in {"seconds", "timeout_ms"} -> value = "in range"

\* A member of the discriminated union: no field is unknown, none is missing, and only an
\* optional one may be null.
ValidStep(s) ==
    /\ "action" \in DOMAIN s
    /\ s.action \in Actions
    /\ LET sent == DOMAIN s \ {"action"} IN
        /\ Required[s.action] \subseteq sent
        /\ sent \subseteq Required[s.action] \cup Optional(s.action)
        /\ \A f \in sent: \/ f \in Optional(s.action) /\ s[f] = NULL
                          \/ s[f] # NULL /\ Admits(f, s[f])

ValidRecipe(r) ==
    /\ HttpUrl(r.url)
    /\ \A k \in DOMAIN r.steps: ValidStep(r.steps[k])

\* Variant: model_dump() as it is by default.
DumpWithNulls(s) == s

\* What model_dump(exclude_none=True) hands to the player.
Dump(s) == [f \in {f \in DOMAIN s: f = "action" \/ s[f] # NULL} |-> s[f]]
=============================================================================
