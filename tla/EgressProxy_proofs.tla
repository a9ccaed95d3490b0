------------------------- MODULE EgressProxy_proofs -------------------------
(***************************************************************************)
(* What EgressProxy promises for any clients, hosts, name servers and       *)
(* blocked networks: a handler contacts only what it checked, and closes    *)
(* the connection upstream that it relayed.                                 *)
(*                                                                         *)
(* Neither is inductive.  The addresses still to be tried must themselves   *)
(* come from the answer that passed, which says nothing until a handler     *)
(* reaches its lookup and must not change after.  What is closed needs to   *)
(* know which handlers relayed, and that a tunnel is one that was asked for *)
(* with CONNECT (UpstreamKnown).                                            *)
(***************************************************************************)
EXTENDS EgressProxy, TLAPS, SequenceTheorems

\* Before its lookup a handler has no addresses and contacted none.
NothingYet ==
    \A c \in Conns:
        at[c] \in {"none", "head", "resolving"} => addrs[c] = <<>> /\ tried[c] = {}

\* From its head on it has a destination.
HasRequest == \A c \in Conns: at[c] \in {"resolving", "connecting"} => request[c] \in Requests

\* It connects with the addresses of an answer that passed.
ConnectsToChecked ==
    \A c \in Conns:
        /\ Range(addrs[c]) \subseteq Range(checked[c])
        /\ at[c] = "connecting" => addrs[c] # <<>> /\ Passes(request[c].host, checked[c])

\* What it contacted is of such an answer.
TriedIsChecked ==
    \A c \in Conns:
        /\ tried[c] \subseteq Range(checked[c])
        /\ tried[c] # {} => Passes(request[c].host, checked[c])

\* A refusal is the end.
RefusedContactsNothing ==
    \A c \in Conns: reply[c] = 403 => tried[c] = {} /\ at[c] \in {"replying", "done"}

\* A handler has a client.
HasClient == \A c \in Conns: client[c] = "none" => at[c] = "none"

\* Nobody is at work once stop has returned.
StoppedIsDone == server = "stopped" => \A c \in Conns: at[c] \notin Awaits

IInv ==
    /\ TypeOK
    /\ HasClient
    /\ NothingYet
    /\ HasRequest
    /\ ConnectsToChecked
    /\ TriedIsChecked
    /\ RefusedContactsNothing
    /\ StoppedIsDone

LEMMA HeadIsOne ==
    ASSUME NEW S, NEW s \in Seq(S), s # <<>>
    PROVE  /\ Head(s) \in Range(s) /\ Head(s) \in S
           /\ Tail(s) \in Seq(S) /\ Range(Tail(s)) \subseteq Range(s)
           /\ Len(s) > 1 => Tail(s) # <<>>
<1>1. Len(s) \in Nat \ {0} /\ DOMAIN s = 1..Len(s)
  OBVIOUS
<1>2. Head(s) = s[1] /\ 1 \in DOMAIN s
  BY <1>1
<1>3. Tail(s) \in Seq(S) /\ Len(Tail(s)) = Len(s) - 1
  OBVIOUS
<1>4. ASSUME NEW i \in DOMAIN Tail(s)
      PROVE  Tail(s)[i] \in Range(s)
  <2>1. i \in 1..(Len(s) - 1) /\ Tail(s)[i] = s[i + 1]
    BY <1>3
  <2>2. i + 1 \in DOMAIN s
    BY <1>1, <2>1
  <2> QED
    BY <2>1, <2>2 DEF Range
<1>5. Range(Tail(s)) \subseteq Range(s)
  BY <1>4 DEF Range
<1>6. Len(s) > 1 => Tail(s) # <<>>
  <2>1. \A t: t = <<>> => Len(t) = 0
    BY EmptySeq
  <2>2. Tail(s) = <<>> => Len(Tail(s)) = 0
    BY <2>1
  <2>3. Len(s) > 1 => Len(Tail(s)) # 0
    BY <1>1, <1>3
  <2> QED
    BY <2>2, <2>3
<1> QED
  BY <1>2, <1>3, <1>5, <1>6 DEF Range

LEMMA Initially == Init => IInv
<1> SUFFICES ASSUME Init PROVE IInv
  OBVIOUS
<1>1. TypeOK
  BY DEF Init, TypeOK, Awaits
<1>2. HasClient /\ NothingYet /\ HasRequest /\ RefusedContactsNothing /\ StoppedIsDone
  BY DEF Init, HasClient, NothingYet, HasRequest, RefusedContactsNothing, StoppedIsDone
<1>3. ConnectsToChecked /\ TriedIsChecked
  BY DEF Init, ConnectsToChecked, TriedIsChecked, Range
<1> QED
  BY <1>1, <1>2, <1>3 DEF IInv

\* The lookup's answer, if it passes, is what is connected to.
LEMMA CheckStep == ASSUME IInv, NEW c \in Conns, Check(c) PROVE IInv'
<1>1. request[c].host \in Hosts
  BY DEF IInv, HasRequest, Check, Requests
<1>2. PICK answer \in Answers[request[c].host]:
        /\ checked' = [checked EXCEPT ![c] = answer]
        /\ IF Passes(request[c].host, answer)
           THEN /\ at' = [at EXCEPT ![c] = "connecting"]
                /\ addrs' = [addrs EXCEPT ![c] = answer]
                /\ UNCHANGED reply
           ELSE /\ Replies(c, 403)
                /\ UNCHANGED addrs
  BY DEF Check
<1>3. answer \in Seq(Addresses)
  BY <1>1, <1>2, EgressAssumption
<1>10. UNCHANGED <<server, client, request, up, hung, tried, relayed>>
  BY DEF Check
<1>4. TypeOK'
  <2>1. CASE Passes(request[c].host, answer)
    <3>1. /\ at' = [at EXCEPT ![c] = "connecting"]
          /\ addrs' = [addrs EXCEPT ![c] = answer]
          /\ reply' = reply
      BY <1>2, <2>1
    <3> QED
      BY <1>2, <1>3, <1>10, <3>1 DEF IInv, TypeOK, Awaits
  <2>2. CASE ~Passes(request[c].host, answer)
    <3>1. /\ at' = [at EXCEPT ![c] = "replying"]
          /\ reply' = [reply EXCEPT ![c] = 403]
          /\ addrs' = addrs
      BY <1>2, <2>2 DEF Replies
    <3>2. checked' \in [Conns -> Seq(Addresses)]
      BY <1>2, <1>3 DEF IInv, TypeOK
    <3> QED
      BY <1>10, <3>1, <3>2 DEF IInv, TypeOK, Awaits
  <2> QED
    BY <2>1, <2>2
<1>5. addrs[c] = <<>> /\ tried[c] = {} /\ Range(addrs[c]) = {}
  BY DEF IInv, NothingYet, Check, Range
<1>6. NothingYet' /\ HasRequest' /\ HasClient'
  <2>1. \A d \in Conns: d # c => at'[d] = at[d] /\ addrs'[d] = addrs[d]
    BY <1>2 DEF IInv, TypeOK, Replies
  <2>2. at'[c] \in {"connecting", "replying"} /\ request' = request /\ tried' = tried
    BY <1>2 DEF IInv, TypeOK, Replies, Check
  <2>3. at[c] = "resolving"
    BY DEF Check
  <2> QED
    BY <1>10, <2>1, <2>2, <2>3 DEF IInv, NothingYet, HasRequest, HasClient
<1>7. ConnectsToChecked'
  <2> SUFFICES ASSUME NEW d \in Conns
               PROVE  /\ Range(addrs'[d]) \subseteq Range(checked'[d])
                      /\ at'[d] = "connecting"
                            => addrs'[d] # <<>> /\ Passes(request'[d].host, checked'[d])
    BY DEF ConnectsToChecked, Passes, IsBlocked, Reached
  <2>1. CASE d # c
    BY <1>2, <2>1 DEF IInv, TypeOK, ConnectsToChecked, Check, Replies
  <2>2. CASE d = c /\ Passes(request[c].host, answer)
    <3>1. addrs'[c] = answer /\ checked'[c] = answer /\ request' = request
      BY <1>2, <2>2 DEF IInv, TypeOK, Check
    <3>2. answer # <<>>
      BY <2>2 DEF Passes
    <3> QED
      BY <2>2, <3>1, <3>2
  <2>3. CASE d = c /\ ~Passes(request[c].host, answer)
    BY <1>2, <1>5, <2>3 DEF IInv, TypeOK, Check, Replies
  <2> QED
    BY <2>1, <2>2, <2>3
<1>8. TriedIsChecked'
  BY <1>2, <1>5 DEF IInv, TypeOK, TriedIsChecked, Check, Passes, IsBlocked, Reached
<1>9. RefusedContactsNothing' /\ StoppedIsDone'
  <2>1. \A d \in Conns: d # c => at'[d] = at[d] /\ reply'[d] = reply[d]
    BY <1>2 DEF IInv, TypeOK, Replies
  <2>2. /\ at'[c] \in {"connecting", "replying"}
        /\ reply'[c] # reply[c] => at'[c] = "replying"
    BY <1>2 DEF IInv, TypeOK, Replies
  <2>3. at[c] = "resolving" /\ up' = up /\ tried' = tried /\ server' = server
    BY DEF Check
  <2> QED
    BY <1>5, <2>1, <2>2, <2>3 DEF IInv, RefusedContactsNothing, StoppedIsDone, Awaits
<1> QED
  BY <1>4, <1>6, <1>7, <1>8, <1>9 DEF IInv

\* A handler leaves, its upstream closed or not.
LEMMA EndStep ==
    ASSUME IInv, NEW c \in Conns, NEW left \in {"none", "open", "closed"}, Ends(c, left),
           UNCHANGED <<server, request, addrs, reply, checked, tried, relayed>>
    PROVE  IInv'
<1>1. /\ at' = [at EXCEPT ![c] = "done"]
      /\ client' = [client EXCEPT ![c] = "closed"]
      /\ up' = [up EXCEPT ![c] = left]
      /\ hung' = [hung EXCEPT ![c] = FALSE]
  BY DEF Ends
<1>2. TypeOK'
  BY <1>1 DEF IInv, TypeOK, Awaits
<1>3. \A d \in Conns: /\ at'[d] = (IF d = c THEN "done" ELSE at[d])
                      /\ up'[d] = (IF d = c THEN left ELSE up[d])
                      /\ client'[d] = (IF d = c THEN "closed" ELSE client[d])
  BY <1>1 DEF IInv, TypeOK
<1>4. HasClient' /\ NothingYet' /\ HasRequest' /\ RefusedContactsNothing'
  BY <1>3 DEF IInv, HasClient, NothingYet, HasRequest, RefusedContactsNothing
<1>5. ConnectsToChecked'
  BY <1>3 DEF IInv, ConnectsToChecked, Passes, IsBlocked, Reached
<1>6. TriedIsChecked'
  BY <1>3 DEF IInv, TriedIsChecked, Passes, IsBlocked, Reached
<1>7. StoppedIsDone'
  BY <1>3 DEF IInv, StoppedIsDone, Awaits
<1> QED
  BY <1>2, <1>4, <1>5, <1>6, <1>7 DEF IInv

\* What moves on without touching what was checked or contacted.
LEMMA QuietStep ==
    ASSUME IInv, TypeOK', HasClient', UNCHANGED <<addrs, checked, tried>>,
           \A d \in Conns:
              \/ /\ at'[d] = at[d] /\ request'[d] = request[d] /\ reply'[d] = reply[d]
                 /\ server' # "stopped"
              \/ /\ at'[d] \notin {"none", "head", "resolving", "connecting"}
                 /\ request'[d] = request[d]
                 /\ reply'[d] = reply[d]
                 /\ reply'[d] = 403 => at'[d] = "done"
                 /\ server' = "stopped" => at'[d] \notin Awaits
              \/ /\ at[d] = "none" /\ at'[d] = "head" /\ request'[d] = request[d]
                 /\ reply'[d] = reply[d] /\ server' # "stopped"
              \/ /\ at[d] = "head" /\ at'[d] \in {"resolving", "replying"}
                 /\ at'[d] = "resolving" => request'[d] \in Requests
                 /\ reply'[d] = 403 => reply[d] = 403
                 /\ server' # "stopped"
    PROVE  IInv'
<1>1. NothingYet' /\ HasRequest'
  BY DEF IInv, NothingYet, HasRequest
<1>2. ConnectsToChecked'
  BY DEF IInv, ConnectsToChecked, NothingYet, Passes, IsBlocked, Reached
<1>3. TriedIsChecked'
  BY DEF IInv, TriedIsChecked, NothingYet, Passes, IsBlocked, Reached
<1>4. RefusedContactsNothing'
  BY DEF IInv, RefusedContactsNothing, NothingYet
<1>5. StoppedIsDone'
  BY DEF IInv, StoppedIsDone
<1> QED
  BY <1>1, <1>2, <1>3, <1>4, <1>5 DEF IInv

\* A handler that is not at stop's end is at work with a server that has not stopped.
LEMMA StoppedIsIdle ==
    ASSUME IInv, NEW c \in Conns, at[c] \in Awaits PROVE server # "stopped"
BY DEF IInv, StoppedIsDone

\* Contacting the next address: what is left and what was tried stays within the answer.
LEMMA ConnectStep == ASSUME IInv, NEW c \in Conns, Connect(c) \/ ConnectFails(c) PROVE IInv'
<1>1. /\ at[c] = "connecting" /\ addrs[c] # <<>> /\ addrs[c] \in Seq(Addresses)
      /\ Range(addrs[c]) \subseteq Range(checked[c])
      /\ Passes(request[c].host, checked[c])
  BY DEF Connect, ConnectFails, IInv, TypeOK, ConnectsToChecked
<1>2. /\ Head(addrs[c]) \in Range(addrs[c]) /\ Head(addrs[c]) \in Addresses
      /\ Tail(addrs[c]) \in Seq(Addresses) /\ Range(Tail(addrs[c])) \subseteq Range(addrs[c])
      /\ Len(addrs[c]) > 1 => Tail(addrs[c]) # <<>>
  BY <1>1, HeadIsOne
<1>3. server # "stopped" /\ reply[c] # 403
  BY <1>1, StoppedIsIdle DEF Awaits, IInv, RefusedContactsNothing
<1>4. tried' = [tried EXCEPT ![c] = @ \cup {Head(addrs[c])}]
  BY DEF Connect, ConnectFails
<1>5. /\ tried' \in [Conns -> SUBSET Addresses]
      /\ \A d \in Conns: tried'[d] = IF d = c THEN tried[c] \cup {Head(addrs[c])} ELSE tried[d]
  BY <1>2, <1>4 DEF IInv, TypeOK
<1>6. UNCHANGED <<server, client, request, hung, checked, relayed>>
  BY DEF Connect, ConnectFails
<1>7. TriedIsChecked'
  BY <1>1, <1>2, <1>5, <1>6 DEF IInv, TriedIsChecked, Passes, IsBlocked, Reached
<1>8. CASE Connect(c)
  <2>1. /\ at' = [at EXCEPT ![c] = "sending"]
        /\ up' = [up EXCEPT ![c] = "open"]
        /\ addrs' = addrs /\ reply' = reply
    BY <1>8 DEF Connect
  <2>2. TypeOK'
    BY <1>5, <1>6, <2>1 DEF IInv, TypeOK, Awaits
  <2>3. \A d \in Conns: /\ at'[d] = (IF d = c THEN "sending" ELSE at[d])
                        /\ up'[d] = (IF d = c THEN "open" ELSE up[d])
    BY <2>1 DEF IInv, TypeOK
  <2>4. NothingYet' /\ HasRequest' /\ HasClient'
    BY <1>1, <1>5, <1>6, <2>1, <2>3 DEF IInv, NothingYet, HasRequest, HasClient
  <2>5. ConnectsToChecked'
    BY <1>6, <2>1, <2>3 DEF IInv, ConnectsToChecked, Passes, IsBlocked, Reached
  <2>6. RefusedContactsNothing' /\ StoppedIsDone'
    BY <1>3, <1>5, <1>6, <2>1, <2>3 DEF IInv, RefusedContactsNothing, StoppedIsDone
  <2> QED
    BY <1>7, <2>2, <2>4, <2>5, <2>6 DEF IInv
<1>9. CASE ConnectFails(c)
  <2>1. addrs' = [addrs EXCEPT ![c] = Tail(addrs[c])] /\ up' = up
    BY <1>9 DEF ConnectFails
  <2>2. /\ addrs' \in [Conns -> Seq(Addresses)]
        /\ \A d \in Conns: addrs'[d] = IF d = c THEN Tail(addrs[c]) ELSE addrs[d]
    BY <1>2, <2>1 DEF IInv, TypeOK
  <2>3. CASE Len(addrs[c]) > 1
    <3>1. at' = at /\ reply' = reply
      BY <1>9, <2>3 DEF ConnectFails
    <3>2. TypeOK'
      BY <1>5, <1>6, <2>1, <2>2, <3>1 DEF IInv, TypeOK
    <3>3. HasClient' /\ NothingYet' /\ HasRequest' /\ StoppedIsDone'
      BY <1>1, <1>5, <1>6, <2>1, <2>2, <3>1
         DEF IInv, HasClient, NothingYet, HasRequest, StoppedIsDone
    <3>4. ConnectsToChecked'
      BY <1>1, <1>2, <1>6, <2>2, <2>3, <3>1 DEF IInv, ConnectsToChecked, Passes, IsBlocked, Reached
    <3>5. RefusedContactsNothing'
      BY <1>3, <1>5, <3>1 DEF IInv, RefusedContactsNothing
    <3> QED
      BY <1>7, <3>2, <3>3, <3>4, <3>5 DEF IInv
  <2>4. CASE ~(Len(addrs[c]) > 1)
    <3>1. at' = [at EXCEPT ![c] = "replying"] /\ reply' = [reply EXCEPT ![c] = 502]
      BY <1>9, <2>4 DEF ConnectFails, Replies
    <3>2. TypeOK'
      BY <1>5, <1>6, <2>1, <2>2, <3>1 DEF IInv, TypeOK, Awaits
    <3>3. \A d \in Conns: /\ at'[d] = (IF d = c THEN "replying" ELSE at[d])
                          /\ reply'[d] = (IF d = c THEN 502 ELSE reply[d])
      BY <3>1 DEF IInv, TypeOK
    <3>4. NothingYet' /\ HasRequest'
      BY <1>1, <1>5, <1>6, <2>2, <3>3 DEF IInv, NothingYet, HasRequest
    <3>7. HasClient'
      BY <1>1, <1>6, <3>3 DEF IInv, HasClient
    <3>5. ConnectsToChecked'
      BY <1>1, <1>2, <1>6, <2>2, <3>3 DEF IInv, ConnectsToChecked, Passes, IsBlocked, Reached
    <3>6. RefusedContactsNothing' /\ StoppedIsDone'
      BY <1>1, <1>3, <1>5, <1>6, <2>1, <3>3 DEF IInv, RefusedContactsNothing, StoppedIsDone
    <3> QED
      BY <1>7, <3>2, <3>4, <3>5, <3>6, <3>7 DEF IInv
  <2> QED
    BY <2>3, <2>4
<1> QED
  BY <1>8, <1>9

LEMMA ClientStep == ASSUME IInv, NEW c \in Conns, Connects(c) \/ ClientCloses(c) PROVE IInv'
<1>1. UNCHANGED <<server, request, addrs, up, hung, reply, checked, tried, relayed>>
  BY DEF Connects, ClientCloses, handler
<1>2. CASE Connects(c)
  <2>1. /\ at' = [at EXCEPT ![c] = "head"] /\ client' = [client EXCEPT ![c] = "open"]
        /\ server # "stopped" /\ at[c] = "none"
    BY <1>2 DEF Connects, IInv, HasClient
  <2>2. TypeOK'
    BY <1>1, <2>1 DEF IInv, TypeOK, Awaits
  <2>3. \A d \in Conns: /\ at'[d] = (IF d = c THEN "head" ELSE at[d])
                        /\ client'[d] = (IF d = c THEN "open" ELSE client[d])
    BY <2>1 DEF IInv, TypeOK
  <2>4. HasClient'
    BY <2>3 DEF IInv, HasClient
  <2> QED
    BY <1>1, <2>1, <2>2, <2>3, <2>4, QuietStep
<1>3. CASE ClientCloses(c)
  <2>1. at' = at /\ client[c] # "none"
    BY <1>3 DEF ClientCloses
  <2>2. PICK how \in {"eof", "lost"}: client' = [client EXCEPT ![c] = how]
    BY <1>3 DEF ClientCloses
  <2>3. TypeOK'
    BY <1>1, <2>1, <2>2 DEF IInv, TypeOK
  <2>4. HasClient'
    BY <2>1, <2>2 DEF IInv, TypeOK, HasClient
  <2> QED
    BY <1>1, <2>1, <2>3, <2>4
       DEF IInv, NothingYet, HasRequest, ConnectsToChecked, TriedIsChecked,
           RefusedContactsNothing, StoppedIsDone, Passes, IsBlocked, Reached
<1> QED
  BY <1>2, <1>3

LEMMA HeadStep == ASSUME IInv, NEW c \in Conns, ReadHead(c) PROVE IInv'
<1>1. /\ at[c] = "head" /\ server # "stopped" /\ client[c] # "none"
      /\ UNCHANGED <<server, client, addrs, up, hung, checked, tried, relayed>>
  BY StoppedIsIdle DEF ReadHead, Awaits, IInv, HasClient
<1>2. CASE /\ \E r \in Requests: request' = [request EXCEPT ![c] = r]
           /\ at' = [at EXCEPT ![c] = "resolving"]
           /\ UNCHANGED reply
  <2>1. PICK r \in Requests: request' = [request EXCEPT ![c] = r]
    BY <1>2
  <2>2. TypeOK'
    BY <1>1, <1>2, <2>1 DEF IInv, TypeOK, Awaits
  <2>3. /\ \A d \in Conns: at'[d] = (IF d = c THEN "resolving" ELSE at[d])
        /\ \A d \in Conns: request'[d] = (IF d = c THEN r ELSE request[d])
    BY <1>2, <2>1 DEF IInv, TypeOK
  <2>4. HasClient'
    BY <1>1, <2>3 DEF IInv, HasClient
  <2> QED
    BY <1>1, <1>2, <2>2, <2>3, <2>4, QuietStep
<1>3. CASE /\ \E bad \in DOMAIN StatusOf: Replies(c, StatusOf[bad])
           /\ UNCHANGED request
  <2>1. PICK status \in {400, 411, 431}: Replies(c, status)
    BY <1>3 DEF StatusOf
  <2>2. at' = [at EXCEPT ![c] = "replying"] /\ reply' = [reply EXCEPT ![c] = status]
    BY <2>1 DEF Replies
  <2>3. TypeOK'
    BY <1>1, <1>3, <2>2 DEF IInv, TypeOK, Awaits
  <2>4. /\ \A d \in Conns: at'[d] = (IF d = c THEN "replying" ELSE at[d])
        /\ \A d \in Conns: reply'[d] = (IF d = c THEN status ELSE reply[d])
    BY <2>2 DEF IInv, TypeOK
  <2>5. HasClient'
    BY <1>1, <2>4 DEF IInv, HasClient
  <2> QED
    BY <1>1, <1>3, <2>3, <2>4, <2>5, QuietStep
<1> QED
  BY <1>2, <1>3 DEF ReadHead

LEMMA RelayStep == ASSUME IInv, NEW c \in Conns, Sent(c) \/ Hang(c) PROVE IInv'
<1>1. /\ at[c] \in {"sending", "tunnel", "relaying"} /\ server # "stopped" /\ client[c] # "none"
      /\ UNCHANGED <<server, client, request, addrs, up, reply, checked, tried>>
  BY StoppedIsIdle DEF Sent, Hang, handler, Awaits, IInv, HasClient
<1>2. reply[c] # 403
  BY <1>1 DEF IInv, RefusedContactsNothing
<1>3. CASE Sent(c)
  <2>1. PICK place \in {"tunnel", "relaying"}: at' = [at EXCEPT ![c] = place]
    BY <1>3 DEF Sent
  <2>2. hung' = hung /\ relayed' = [relayed EXCEPT ![c] = TRUE]
    BY <1>3 DEF Sent
  <2>3. TypeOK'
    BY <1>1, <2>1, <2>2 DEF IInv, TypeOK, Awaits
  <2>4. \A d \in Conns: at'[d] = (IF d = c THEN place ELSE at[d])
    BY <2>1 DEF IInv, TypeOK
  <2>5. HasClient'
    BY <1>1, <2>4 DEF IInv, HasClient
  <2> QED
    BY <1>1, <1>2, <2>3, <2>4, <2>5, QuietStep
<1>4. CASE Hang(c)
  <2>1. at' = at /\ hung' = [hung EXCEPT ![c] = TRUE] /\ relayed' = relayed
    BY <1>4 DEF Hang
  <2>2. TypeOK'
    BY <1>1, <2>1 DEF IInv, TypeOK
  <2>3. HasClient'
    BY <1>1, <2>1 DEF IInv, HasClient
  <2> QED
    BY <1>1, <2>1, <2>2, <2>3, QuietStep
<1> QED
  BY <1>3, <1>4

LEMMA LeaveStep ==
    ASSUME IInv, NEW c \in Conns,
           NoHead(c) \/ SendFails(c) \/ UpstreamEnds(c) \/ ClientGone(c) \/ Replied(c)
    PROVE  IInv'
BY EndStep DEF NoHead, SendFails, UpstreamEnds, ClientGone, Replied

LEMMA StopStep == ASSUME IInv, BeginStop \/ Stop PROVE IInv'
<1>1. CASE BeginStop
  <2>1. /\ server = "listening" /\ server' = "closing"
        /\ UNCHANGED <<at, client, request, addrs, up, hung, reply, checked, tried, relayed>>
    BY <1>1 DEF BeginStop, handler
  <2>2. TypeOK' /\ HasClient'
    BY <2>1 DEF IInv, TypeOK, HasClient
  <2> QED
    BY <2>1, <2>2, QuietStep
<1>2. CASE Stop
  <2>1. /\ server' = "stopped"
        /\ UNCHANGED <<request, addrs, reply, checked, tried, relayed>>
        /\ hung' = [c \in Conns |-> FALSE]
    BY <1>2 DEF Stop
  <2>2. \A d \in Conns:
           /\ at'[d] = (IF at[d] \in Awaits THEN "done" ELSE at[d])
           /\ client'[d] = (IF at[d] \in Awaits THEN "closed" ELSE client[d])
    BY <1>2 DEF Stop
  <2>3. /\ at' \in [Conns -> {"none", "done"} \cup Awaits]
        /\ client' \in [Conns -> {"none", "open", "eof", "lost", "closed"}]
        /\ up' \in [Conns -> {"none", "open", "closed"}]
    BY <1>2 DEF Stop, IInv, TypeOK
  <2>4. TypeOK'
    BY <2>1, <2>3 DEF IInv, TypeOK
  <2>5. \A d \in Conns: at[d] \in {"none", "done"} \cup Awaits
    BY DEF IInv, TypeOK
  <2>6. HasClient' /\ NothingYet' /\ HasRequest' /\ RefusedContactsNothing'
    BY <2>1, <2>2, <2>5
       DEF IInv, HasClient, NothingYet, HasRequest, RefusedContactsNothing, Awaits
  <2>7. ConnectsToChecked' /\ TriedIsChecked'
    BY <2>1, <2>2, <2>5
       DEF IInv, ConnectsToChecked, TriedIsChecked, Awaits, Passes, IsBlocked, Reached
  <2>8. StoppedIsDone'
    BY <2>1, <2>2, <2>5 DEF IInv, StoppedIsDone, Awaits
  <2> QED
    BY <2>4, <2>6, <2>7, <2>8 DEF IInv
<1> QED
  BY <1>1, <1>2

LEMMA Inductive == IInv /\ [Next]_vars => IInv'
<1> SUFFICES ASSUME IInv, [Next]_vars PROVE IInv'
  OBVIOUS
<1>1. ASSUME NEW c \in Conns, Serve(c) PROVE IInv'
  <2>1. CASE ReadHead(c)
    BY <2>1, HeadStep
  <2>2. CASE Check(c)
    BY <2>2, CheckStep
  <2>3. CASE Connect(c) \/ ConnectFails(c)
    BY <2>3, ConnectStep
  <2>4. CASE Sent(c)
    BY <2>4, RelayStep
  <2>5. CASE NoHead(c) \/ SendFails(c) \/ UpstreamEnds(c) \/ ClientGone(c) \/ Replied(c)
    BY <2>5, LeaveStep
  <2> QED
    BY <1>1, <2>1, <2>2, <2>3, <2>4, <2>5 DEF Serve
<1>2. CASE UNCHANGED vars
  <2>1. UNCHANGED <<server, at, client, request, addrs, up, hung, reply, checked, tried, relayed>>
    BY <1>2 DEF vars, handler
  <2>2. TypeOK' /\ HasClient' /\ NothingYet' /\ HasRequest'
    BY <2>1 DEF IInv, TypeOK, HasClient, NothingYet, HasRequest
  <2>3. ConnectsToChecked' /\ TriedIsChecked' /\ RefusedContactsNothing' /\ StoppedIsDone'
    BY <2>1 DEF IInv, ConnectsToChecked, TriedIsChecked, RefusedContactsNothing,
                StoppedIsDone, Passes, IsBlocked, Reached
  <2> QED
    BY <2>2, <2>3 DEF IInv
<1>3. ASSUME NEW c \in Conns, Connects(c) \/ ClientCloses(c) \/ Hang(c) PROVE IInv'
  BY <1>3, ClientStep, RelayStep
<1>4. ASSUME BeginStop \/ Stop PROVE IInv'
  BY <1>4, StopStep
<1>5. Next => (\E c \in Conns: Serve(c))
              \/ (\E c \in Conns: Connects(c) \/ ClientCloses(c) \/ Hang(c))
              \/ BeginStop \/ Stop
  BY DEF Next
<1> QED
  BY <1>1, <1>2, <1>3, <1>4, <1>5
-----------------------------------------------------------------------------
\* What is asked for follows from the invariant: an answer that passed leads nowhere blocked.
LEMMA Sufficient == IInv => OnlyCheckedIsContacted
BY DEF IInv, TriedIsChecked, RefusedContactsNothing, OnlyCheckedIsContacted, Passes, IsBlocked

THEOREM Invariance == Spec => []IInv
BY Initially, Inductive, PTL DEF Spec

\* Types of the proxy's state, for any clients, hosts and name servers.
THEOREM TypeCorrect == Spec => []TypeOK
<1>1. IInv => TypeOK
  BY DEF IInv
<1> QED
  BY Invariance, <1>1, PTL

\* The proxy contacts no address but one of the answer it checked, and none of a blocked network
\* for a host that is not allowed, whatever later lookups say (_open, egress.py:140-150).
THEOREM ContactsOnlyChecked == Spec => []OnlyCheckedIsContacted
BY Invariance, Sufficient, PTL

-----------------------------------------------------------------------------
(* What is closed *)

UpstreamKnown ==
    \A c \in Conns:
        /\ relayed[c] => at[c] \in {"tunnel", "relaying", "done"}
        /\ at[c] = "tunnel" => request[c].kind = "connect"
        /\ up[c] = "open" /\ at[c] = "done" /\ relayed[c] =>
               server = "stopped" /\ request[c].kind = "connect"
        /\ server = "stopped" => client[c] \notin {"open", "eof"}

\* A handler that ends has closed its upstream, or never came to relay it.
LEMMA EndKnown ==
    ASSUME IInv, UpstreamKnown, NEW c \in Conns, NEW left \in {"none", "open", "closed"},
           Ends(c, left), UNCHANGED <<server, request, relayed>>,
           left = "open" => ~relayed[c]
    PROVE  UpstreamKnown'
<1>1. \A d \in Conns: /\ at'[d] = (IF d = c THEN "done" ELSE at[d])
                      /\ up'[d] = (IF d = c THEN left ELSE up[d])
                      /\ client'[d] = (IF d = c THEN "closed" ELSE client[d])
  BY DEF Ends, IInv, TypeOK
<1> QED
  BY <1>1 DEF UpstreamKnown

\* A handler that goes on.
LEMMA ServeKnown ==
    ASSUME IInv, UpstreamKnown, NEW c \in Conns, Serve(c) PROVE UpstreamKnown'
<1>1. CASE NoHead(c) \/ UpstreamEnds(c) \/ ClientGone(c) \/ Replied(c)
  BY <1>1, EndKnown DEF NoHead, UpstreamEnds, ClientGone, Replied
<1>2. CASE SendFails(c)
  <2>1. Ends(c, "open") /\ UNCHANGED <<server, request, relayed>>
    BY <1>2 DEF SendFails
  <2>2. ~relayed[c]
    BY <1>2 DEF SendFails, UpstreamKnown
  <2> QED
    BY <2>1, <2>2, EndKnown
<1>3. CASE ReadHead(c) \/ Check(c) \/ Connect(c) \/ ConnectFails(c)
  <2>1. /\ at[c] \in {"head", "resolving", "connecting"}
        /\ UNCHANGED <<server, client, relayed>>
    BY <1>3 DEF ReadHead, Check, Connect, ConnectFails
  <2>2. /\ at'[c] \in {"resolving", "connecting", "replying", "sending"}
        /\ \A d \in Conns: d # c => at'[d] = at[d]
    BY <1>3 DEF ReadHead, Check, Connect, ConnectFails, Replies, IInv, TypeOK
  <2>3. \A d \in Conns: d # c => up'[d] = up[d]
    BY <1>3 DEF ReadHead, Check, Connect, ConnectFails, IInv, TypeOK
  <2>4. \A d \in Conns: d # c => request'[d] = request[d]
    BY <1>3 DEF ReadHead, Check, Connect, ConnectFails, IInv, TypeOK
  <2>5. ~relayed[c]
    BY <2>1 DEF UpstreamKnown
  <2> QED
    BY <2>1, <2>2, <2>3, <2>4, <2>5 DEF UpstreamKnown
<1>4. CASE Sent(c)
  <2>1. /\ UNCHANGED <<server, client, request, up>>
        /\ \A d \in Conns \ {c}: at'[d] = at[d] /\ relayed'[d] = relayed[d]
    BY <1>4 DEF Sent, IInv, TypeOK
  <2>2. /\ at'[c] \in {"tunnel", "relaying"}
        /\ at'[c] = "tunnel" => request[c].kind = "connect"
    BY <1>4 DEF Sent, IInv, TypeOK
  <2> QED
    BY <2>1, <2>2 DEF UpstreamKnown
<1> QED
  BY <1>1, <1>2, <1>3, <1>4 DEF Serve

\* What clients, servers and stop do.
LEMMA KnownStep == IInv /\ UpstreamKnown /\ [Next]_vars => UpstreamKnown'
<1> SUFFICES ASSUME IInv, UpstreamKnown, [Next]_vars PROVE UpstreamKnown'
  OBVIOUS
<1>1. ASSUME NEW c \in Conns, Serve(c) PROVE UpstreamKnown'
  BY <1>1, ServeKnown
<1>2. ASSUME NEW c \in Conns, Connects(c) PROVE UpstreamKnown'
  <2>1. /\ server # "stopped" /\ UNCHANGED <<server, request, up, relayed>>
        /\ \A d \in Conns: at'[d] = IF d = c THEN "head" ELSE at[d]
    BY <1>2 DEF Connects, handler, IInv, TypeOK
  <2>2. at[c] = "none"
    BY <1>2 DEF Connects, IInv, HasClient
  <2> QED
    BY <2>1, <2>2 DEF UpstreamKnown
<1>3. ASSUME NEW c \in Conns, ClientCloses(c) \/ Hang(c) PROVE UpstreamKnown'
  <2>1. UNCHANGED <<server, at, request, up, relayed>>
    BY <1>3 DEF ClientCloses, Hang, handler
  <2>2. server = "stopped" => client' = client
    BY <1>3 DEF ClientCloses, Hang, UpstreamKnown
  <2> QED
    BY <2>1, <2>2 DEF UpstreamKnown
<1>4. CASE BeginStop
  BY <1>4 DEF BeginStop, handler, UpstreamKnown
<1>5. CASE Stop
  <2>1. server' = "stopped" /\ UNCHANGED <<request, relayed>>
    BY <1>5 DEF Stop
  <2>2. \A d \in Conns:
           /\ at'[d] = (IF at[d] \in Awaits THEN "done" ELSE at[d])
           /\ client'[d] = (IF at[d] \in Awaits THEN "closed" ELSE client[d])
           /\ client[d] \notin {"open", "eof"}
           /\ (at[d] = "relaying" => up'[d] = "closed")
           /\ (at[d] \notin {"tunnel", "relaying"} => up'[d] = up[d])
    BY <1>5 DEF Stop
  <2>3. \A d \in Conns: at[d] \in {"none", "done"} \cup Awaits
    BY DEF IInv, TypeOK
  <2> QED
    BY <2>1, <2>2, <2>3 DEF UpstreamKnown, Awaits
<1>6. CASE UNCHANGED vars
  BY <1>6 DEF vars, handler, UpstreamKnown
<1> QED
  BY <1>1, <1>2, <1>3, <1>4, <1>5, <1>6 DEF Next

\* A relayed connection upstream is closed however its relay ends, but for a tunnel that stop
\* cancels in its own closing; after stop no handler works and no client is held (_forward's,
\* _pipe_both's and _handle's finally, egress.py:114-120, 197-202, 250-263).
THEOREM RelayedIsClosed == Spec => []UpstreamIsClosed
<1>1. Init => UpstreamKnown
  BY DEF Init, UpstreamKnown
<1>2. IInv /\ UpstreamKnown => UpstreamIsClosed
  BY DEF IInv, StoppedIsDone, UpstreamKnown, UpstreamIsClosed
<1> QED
  BY <1>1, <1>2, KnownStep, Invariance, PTL DEF Spec
=============================================================================
