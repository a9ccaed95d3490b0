---------------------------- MODULE EgressProxy ----------------------------
(***************************************************************************)
(* The forward proxy a play's Chromium is forced through                   *)
(* (web-automator/app/egress.py): one handler task per client connection,  *)
(* which reads one request, resolves and checks its destination, connects  *)
(* to an address it checked, and relays; and stop, which ends them.        *)
(*                                                                         *)
(* Name servers, upstream servers and the browser are the environment: a   *)
(* lookup may give another answer each time, an upstream may refuse, stay  *)
(* silent or hang up, the browser may close or drop a connection.          *)
(***************************************************************************)
EXTENDS Naturals, Sequences, Functions

CONSTANTS Conns,            \* client connections
          Hosts,            \* destinations, "host:port"
          Allow,            \* those let through although internal
          Addresses,        \* IP addresses
          Answers,          \* what a lookup of each may return: sequences of addresses
          BlockedNetworks,  \* _BLOCKED_NETWORKS: sets of addresses
          MappedTo,         \* the IPv4 address of each IPv4-mapped IPv6 address
          NONE

ASSUME EgressAssumption ==
    /\ Allow \subseteq Hosts
    /\ DOMAIN Answers = Hosts
    /\ \A h \in Hosts: Answers[h] \subseteq Seq(Addresses)
    /\ NONE \notin Hosts

VARIABLES
    server,   \* the listening server: "listening", "closing" in stop, "stopped"
    at,       \* each handler: the await it is suspended at, or "none", "done"
    request,  \* the request it serves: its kind and host
    addrs,    \* the checked addresses it has not tried yet
    client,   \* its client's side: "none", "open", "eof" (half closed), "lost", "closed"
    up,       \* its upstream connection: "none", "open", "closed"
    hung,     \* the upstream is silent and reads nothing
    reply,    \* the status of its own answer, 0 without one
    checked,  \* history: the answer of the lookup it checked
    tried,    \* history: the addresses it contacted
    relayed   \* history: its client was joined to its upstream

handler == <<request, addrs, up, hung, reply, checked, tried, relayed>>
vars == <<server, at, client, handler>>

Requests == [kind: {"connect", "forward"}, host: Hosts]
NoRequest == [kind |-> "none", host |-> NONE]

\* Heads that are answered without a destination.
StatusOf == [oversize |-> 431, request_line |-> 400, origin_form |-> 400, authority |-> 400,
             no_host |-> 400, chunked |-> 411]

Awaits == {"head", "resolving", "connecting", "sending", "tunnel", "relaying", "replying"}

Init ==
    /\ server = "listening"
    /\ at = [c \in Conns |-> "none"]
    /\ request = [c \in Conns |-> NoRequest]
    /\ addrs = [c \in Conns |-> <<>>]
    /\ client = [c \in Conns |-> "none"]
    /\ up = [c \in Conns |-> "none"]
    /\ hung = [c \in Conns |-> FALSE]
    /\ reply = [c \in Conns |-> 0]
    /\ checked = [c \in Conns |-> <<>>]
    /\ tried = [c \in Conns |-> {}]
    /\ relayed = [c \in Conns |-> FALSE]
-----------------------------------------------------------------------------
(* is_blocked_ip, check_host *)

\* The host an address leads to.
Reached(a) == IF a \in DOMAIN MappedTo THEN MappedTo[a] ELSE a

IsBlocked(a) == \E net \in BlockedNetworks: Reached(a) \in net

\* Whether an answer lets the browser go there.
Passes(h, answer) ==
    /\ answer # <<>>
    /\ h \in Allow \/ \A a \in Range(answer): ~IsBlocked(a)
-----------------------------------------------------------------------------
(* The client *)

Connects(c) ==
    /\ server = "listening"
    /\ client[c] = "none"
    /\ client' = [client EXCEPT ![c] = "open"]
    /\ at' = [at EXCEPT ![c] = "head"]
    /\ UNCHANGED <<server, handler>>

\* It closes its side (the transport stays for the answer) or drops the connection, which
\* the server then no longer counts.
ClientCloses(c) ==
    /\ client[c] \in {"open", "eof"}
    /\ \E how \in {"eof", "lost"} \ {client[c]}: client' = [client EXCEPT ![c] = how]
    /\ UNCHANGED <<server, at, handler>>
-----------------------------------------------------------------------------
(* A handler: _handle, _serve, _open, _tunnel, _forward *)

\* Variant: _handle's finally does not close the client's writer.
EndsUnclosed(c, upstream) ==
    /\ at' = [at EXCEPT ![c] = "done"]
    /\ up' = [up EXCEPT ![c] = upstream]
    /\ hung' = [hung EXCEPT ![c] = FALSE]
    /\ UNCHANGED client

\* _handle's finally: the task leaves and closes its client; what it did with its
\* upstream is the given state.
Ends(c, upstream) ==
    /\ at' = [at EXCEPT ![c] = "done"]
    /\ client' = [client EXCEPT ![c] = "closed"]
    /\ up' = [up EXCEPT ![c] = upstream]
    /\ hung' = [hung EXCEPT ![c] = FALSE]

\* _refuse.
Replies(c, status) ==
    /\ at' = [at EXCEPT ![c] = "replying"]
    /\ reply' = [reply EXCEPT ![c] = status]

\* readuntil gives a head, from which the destination is taken.
ReadHead(c) ==
    /\ at[c] = "head"
    /\ client[c] # "lost"
    /\ \/ /\ \E r \in Requests: request' = [request EXCEPT ![c] = r]
          /\ at' = [at EXCEPT ![c] = "resolving"]
          /\ UNCHANGED reply
       \/ /\ \E bad \in DOMAIN StatusOf: Replies(c, StatusOf[bad])
          /\ UNCHANGED request
    /\ UNCHANGED <<server, client, addrs, up, hung, checked, tried, relayed>>

\* No head comes, it is beyond the reader's limit, or its length or port is no number:
\* the connection is closed without an answer.
NoHead(c) ==
    /\ at[c] = "head"
    /\ Ends(c, "none")
    /\ UNCHANGED <<server, request, addrs, reply, checked, tried, relayed>>

\* check_host, in a thread.
Check(c) ==
    /\ at[c] = "resolving"
    /\ \E answer \in Answers[request[c].host]:
        /\ checked' = [checked EXCEPT ![c] = answer]
        /\ IF Passes(request[c].host, answer)
           THEN /\ at' = [at EXCEPT ![c] = "connecting"]
                /\ addrs' = [addrs EXCEPT ![c] = answer]
                /\ UNCHANGED reply
           ELSE /\ Replies(c, 403)
                /\ UNCHANGED addrs
    /\ UNCHANGED <<server, client, request, up, hung, tried, relayed>>

\* Variant: the name is looked up again to connect, as open_connection(host, port) would.
ConnectByName(c) ==
    /\ at[c] = "connecting"
    /\ \E answer \in Answers[request[c].host] \ {<<>>}:
        tried' = [tried EXCEPT ![c] = @ \cup {Head(answer)}]
    /\ at' = [at EXCEPT ![c] = "sending"]
    /\ up' = [up EXCEPT ![c] = "open"]
    /\ UNCHANGED <<server, client, request, addrs, hung, reply, checked, relayed>>

\* _open: the next address accepts the connection.
Connect(c) ==
    /\ at[c] = "connecting"
    /\ tried' = [tried EXCEPT ![c] = @ \cup {Head(addrs[c])}]
    /\ at' = [at EXCEPT ![c] = "sending"]
    /\ up' = [up EXCEPT ![c] = "open"]
    /\ UNCHANGED <<server, client, request, addrs, hung, reply, checked, relayed>>

\* _open: it does not, in time; the next one's turn, or 502.
ConnectFails(c) ==
    /\ at[c] = "connecting"
    /\ tried' = [tried EXCEPT ![c] = @ \cup {Head(addrs[c])}]
    /\ addrs' = [addrs EXCEPT ![c] = Tail(@)]
    /\ IF Len(addrs[c]) > 1 THEN UNCHANGED <<at, reply>> ELSE Replies(c, 502)
    /\ UNCHANGED <<server, client, request, up, hung, checked, relayed>>

\* The tunnel is announced, or the request and its body are sent upstream.
Sent(c) ==
    /\ at[c] = "sending"
    /\ at' = [at EXCEPT ![c] = IF request[c].kind = "connect" THEN "tunnel" ELSE "relaying"]
    /\ relayed' = [relayed EXCEPT ![c] = TRUE]
    /\ UNCHANGED <<server, client, request, addrs, up, hung, reply, checked, tried>>

\* The client is gone before that is done, or the upstream is: neither _tunnel nor
\* _forward closes the upstream, which stays open.
SendFails(c) ==
    /\ at[c] = "sending"
    /\ request[c].kind = "connect" => client[c] = "lost"
    /\ Ends(c, "open")
    /\ UNCHANGED <<server, request, addrs, reply, checked, tried, relayed>>

\* Variant: _forward without its finally.
RelayedUnclosed(c) ==
    /\ at[c] \in {"tunnel", "relaying"}
    /\ Ends(c, IF at[c] = "relaying" THEN up[c] ELSE "closed")
    /\ UNCHANGED <<server, request, addrs, reply, checked, tried, relayed>>

\* The upstream closes or its response ends.
UpstreamEnds(c) ==
    /\ at[c] \in {"tunnel", "relaying"}
    /\ Ends(c, "closed")
    /\ UNCHANGED <<server, request, addrs, reply, checked, tried, relayed>>

\* A tunnel ends with its client too; a relayed response only when it is written to one
\* that is lost.
ClientGone(c) ==
    /\ ~hung[c]
    /\ \/ at[c] = "tunnel" /\ client[c] \in {"eof", "lost"}
       \/ at[c] = "relaying" /\ client[c] = "lost"
    /\ Ends(c, "closed")
    /\ UNCHANGED <<server, request, addrs, reply, checked, tried, relayed>>

\* The upstream stays silent from now on: nothing here gives up on it.
Hang(c) ==
    /\ at[c] \in {"tunnel", "relaying"}
    /\ ~hung[c]
    /\ hung' = [hung EXCEPT ![c] = TRUE]
    /\ UNCHANGED <<server, at, client, request, addrs, up, reply, checked, tried, relayed>>

\* The answer is written, or cannot be.
Replied(c) ==
    /\ at[c] = "replying"
    /\ Ends(c, "none")
    /\ UNCHANGED <<server, request, addrs, reply, checked, tried, relayed>>
-----------------------------------------------------------------------------
(* stop *)

BeginStop ==
    /\ server = "listening"
    /\ server' = "closing"
    /\ UNCHANGED <<at, client, handler>>

\* wait_closed returns once no connection is left; the tasks that still run, their clients
\* lost, are cancelled and awaited.  One that is relaying closes its upstream, one that is
\* still sending does not; nor does a tunnel that is cancelled a second time, while it waits
\* for the two pipes it has cancelled itself.
Stop ==
    /\ server = "closing"
    /\ \A c \in Conns: client[c] \notin {"open", "eof"}
    /\ server' = "stopped"
    /\ at' = [c \in Conns |-> IF at[c] \in Awaits THEN "done" ELSE at[c]]
    /\ client' = [c \in Conns |-> IF at[c] \in Awaits THEN "closed" ELSE client[c]]
    /\ \E again \in SUBSET {c \in Conns: at[c] = "tunnel"}:
        up' = [c \in Conns |-> IF at[c] \in {"tunnel", "relaying"} /\ c \notin again
                               THEN "closed" ELSE up[c]]
    /\ hung' = [c \in Conns |-> FALSE]
    /\ UNCHANGED <<request, addrs, reply, checked, tried, relayed>>
-----------------------------------------------------------------------------
Serve(c) ==
    \/ ReadHead(c) \/ NoHead(c) \/ Check(c) \/ Connect(c) \/ ConnectFails(c)
    \/ Sent(c) \/ SendFails(c) \/ ClientGone(c) \/ UpstreamEnds(c) \/ Replied(c)

Next ==
    \/ \E c \in Conns: Connects(c) \/ ClientCloses(c) \/ Serve(c) \/ Hang(c)
    \/ BeginStop \/ Stop

Spec == Init /\ [][Next]_vars

\* Lookups and connection attempts end, an upstream that is not silent ends its response,
\* and PlaySession.close calls stop after it closed the browser, whose sockets are then
\* closed, in order: that is an end of file and no loss.
Fairness ==
    /\ \A c \in Conns: /\ WF_vars(~hung[c] /\ Serve(c))
                       /\ WF_vars(server = "closing" /\ client[c] = "open" /\ ClientCloses(c))
    /\ WF_vars(Stop)

FairSpec == Spec /\ Fairness
-----------------------------------------------------------------------------
TypeOK ==
    /\ server \in {"listening", "closing", "stopped"}
    /\ at \in [Conns -> {"none", "done"} \cup Awaits]
    /\ request \in [Conns -> Requests \cup {NoRequest}]
    /\ addrs \in [Conns -> Seq(Addresses)]
    /\ client \in [Conns -> {"none", "open", "eof", "lost", "closed"}]
    /\ up \in [Conns -> {"none", "open", "closed"}]
    /\ hung \in [Conns -> BOOLEAN]
    /\ reply \in [Conns -> {0, 400, 403, 411, 431, 502}]
    /\ checked \in [Conns -> Seq(Addresses)]
    /\ tried \in [Conns -> SUBSET Addresses]
    /\ relayed \in [Conns -> BOOLEAN]

\* _open contacts an address only if the lookup that was checked returned it, and neither
\* that answer nor any later one leads it inside, but for a host of the allow list; a
\* refusal contacts nothing.
OnlyCheckedIsContacted ==
    \A c \in Conns:
        /\ reply[c] = 403 => tried[c] = {}
        /\ \A a \in tried[c]:
            /\ a \in Range(checked[c])
            /\ request[c].host \in Allow \/ \A net \in BlockedNetworks: Reached(a) \notin net

\* A connection to a server that was relayed is closed however its relay ends: by the server,
\* by a client that leaves or is lost, or by stop, but for a tunnel that stop cancels in its
\* own closing.  What else can be left open is a connection nothing was relayed on yet.  When
\* stop has returned no handler is at work, and none holds a client.
UpstreamIsClosed ==
    \A c \in Conns:
        /\ up[c] = "open" /\ at[c] = "done" /\ relayed[c] =>
               server = "stopped" /\ request[c].kind = "connect"
        /\ server = "stopped" => at[c] \notin Awaits /\ client[c] \notin {"open", "eof"}

\* stop returns, unless an upstream that says nothing keeps a connection from ending:
\* stop waits for the connections before it cancels their handlers.
StopEnds == server = "closing" ~> (server = "stopped" \/ \E c \in Conns: hung[c])
=============================================================================
