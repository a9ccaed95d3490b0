------------------------------ MODULE MCPlayer ------------------------------
(* Player for TLC: every recipe of at most two of the steps below, some of which the *)
(* contract refuses, and of three fills, clicks and downloads.                        *)
EXTENDS Player
CONSTANTS f1, f2

https == [scheme |-> "https", host |-> "site", port |-> NULL, path |-> "/login"]
https443 == [scheme |-> "https", host |-> "site", port |-> "443", path |-> ""]
other == [scheme |-> "https", host |-> "other", port |-> NULL, path |-> ""]
noHost == [scheme |-> "https", host |-> NULL, port |-> NULL, path |-> ""]

\* Steps the contract accepts, one per way the player runs it.
Accepted ==
    {[action |-> "navigate", url |-> other],
     [action |-> "fill", selector |-> "text", value |-> "text", origin |-> https443],
     [action |-> "fill", selector |-> "text", value |-> "empty", origin |-> NULL],
     [action |-> "check", selector |-> "text", checked |-> "bool"],
     [action |-> "click", selector |-> "text", timeout_ms |-> NULL],
     [action |-> "download", selector |-> "text"],
     [action |-> "keyboard", key |-> "text"],
     [action |-> "wait", seconds |-> "in range"],
     [action |-> "scrape", selector |-> NULL],
     [action |-> "screenshot"]}

\* Steps it refuses: a field missing, unknown, null or of a value it does not admit.
Refused ==
    {[action |-> "navigate", timeout_ms |-> "in range"],
     [action |-> "navigate", url |-> noHost],
     [action |-> "fill", selector |-> "text", value |-> "text", origin |-> https],
     [action |-> "click", selector |-> "text", value |-> "text"],
     [action |-> "keyboard", key |-> NULL],
     [action |-> "wait"],
     [action |-> "wait", seconds |-> "out of range"],
     [action |-> "hover", selector |-> "text"],
     [selector |-> "text"]}

Pairs == {<<a, b>>: a \in Accepted, b \in Accepted}
Actors == {a \in Accepted: a.action \in {"fill", "click", "download"}}
Triples == {<<a, b, c>>: a \in Actors, b \in Actors, c \in Actors}
TheRecipes == {[url |-> https, steps |-> s]:
                  s \in Triples \cup Pairs \cup {<<a>>: a \in Accepted \cup Refused}}
              \cup {[url |-> noHost, steps |-> <<>>]}
TheUrls == {https, other}
=============================================================================
