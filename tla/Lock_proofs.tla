---------------------------- MODULE Lock_proofs ----------------------------
(***************************************************************************)
(* What holds of Lock for any number of processes, calls and crashes: its  *)
(* types, that two processes it let in never run at once, that a dead      *)
(* owner is always reported, and that only the owner's own release, its    *)
(* death or the server's crash frees it.                                   *)
(*                                                                         *)
(* Mutual exclusion rests on the order of one process's calls: a release   *)
(* that timed out is served before the next acquire of the same process,   *)
(* so it can never free the lock under the function that acquire let in.   *)
(***************************************************************************)
EXTENDS Lock, TLAPS

\* An acquire in the mailbox is waited for, or its caller died.
AcquireIsAwaited ==
    \A i \in DOMAIN mailbox, p \in Procs:
        mailbox[i] = Message("acquire", p) => pc[p] \in {"waiting", "dead"}

\* An awaited acquire is the last call of its process.
AcquireIsLast ==
    \A i, j \in DOMAIN mailbox, p \in Procs:
        mailbox[i].from = p /\ mailbox[j] = Message("acquire", p) => i =< j

\* A process that runs the function has no release under way.
NoReleaseInside ==
    \A i \in DOMAIN mailbox, p \in Procs:
        mailbox[i] = Message("release", p) => pc[p] # "inside"

\* Only a dead process is reported.
OnlyDeadReported == \A p \in downs: pc[p] = "dead"

IInv ==
    /\ TypeOK
    /\ AcquireIsAwaited
    /\ AcquireIsLast
    /\ NoReleaseInside
    /\ OneInside
    /\ DeadOwnerIsReported
    /\ OnlyDeadReported

Parts == AcquireIsAwaited /\ AcquireIsLast /\ NoReleaseInside /\ OneInside
            /\ DeadOwnerIsReported /\ OnlyDeadReported
-----------------------------------------------------------------------------
(* The mailbox *)

Messages == [kind: {"acquire", "unanswered", "release"}, from: Procs]

\* What a new message adds.
LEMMA Posted ==
  ASSUME NEW q \in Seq(Messages), NEW m \in Messages
  PROVE  LET t == Append(q, m)
         IN  /\ t \in Seq(Messages)
             /\ DOMAIN t = DOMAIN q \cup {Len(q) + 1}
             /\ \A i \in DOMAIN q: i < Len(q) + 1 /\ t[i] = q[i]
             /\ t[Len(q) + 1] = m
  OBVIOUS

\* What a served message leaves: each of the others, one place nearer.
LEMMA Served ==
  ASSUME NEW q \in Seq(Messages), q # <<>>
  PROVE  /\ Tail(q) \in Seq(Messages)
         /\ Head(q) = q[1] /\ 1 \in DOMAIN q
         /\ \A i \in DOMAIN Tail(q):
               i \in Nat /\ i + 1 \in DOMAIN q /\ 1 < i + 1 /\ Tail(q)[i] = q[i + 1]
  OBVIOUS
-----------------------------------------------------------------------------
\* The initial state satisfies the invariant.
LEMMA Initially == Init => IInv
  BY LockAssumption DEF LockAssumption, Init, IInv, TypeOK, Places, AcquireIsAwaited,
     AcquireIsLast, NoReleaseInside, OneInside, DeadOwnerIsReported, OnlyDeadReported

\* Every step keeps the types.
LEMMA TypeStep == TypeOK /\ [Next]_vars => TypeOK'
<1> SUFFICES ASSUME TypeOK, [Next]_vars PROVE TypeOK'
  OBVIOUS
<1> USE DEF TypeOK, Places, Move, Message
<1>1. ASSUME NEW p \in Procs, Acquire(p) PROVE TypeOK'
  BY <1>1 DEF Acquire, Post
<1>2. ASSUME NEW p \in Procs, Release(p) PROVE TypeOK'
  <2>1. CASE up
    <3>1. Message("release", p) \in Messages
      BY DEF Messages
    <3>2. mailbox \in Seq(Messages) /\ mailbox' = Append(mailbox, Message("release", p))
      BY <1>2, <2>1 DEF Release, Post, Messages
    <3>3. mailbox' \in Seq(Messages)
      BY ONLY <3>1, <3>2
    <3> QED
      BY <1>2, <2>1, <3>3 DEF Release, Messages
  <2>2. CASE ~up
    BY <1>2, <2>2 DEF Release
  <2> QED
    BY <2>1, <2>2
<1>3. ASSUME NEW p \in Procs, Raise(p) PROVE TypeOK'
  BY <1>3 DEF Raise
<1>4. ASSUME NEW p \in Procs, TimeOut(p) PROVE TypeOK'
  <2>1. mailbox' \in Seq(Messages)
    <3>1. Len(mailbox) \in Nat /\ DOMAIN mailbox = 1..Len(mailbox)
      OBVIOUS
    <3>2. \A i \in 1..Len(mailbox): mailbox[i] \in Messages
      <4>1. mailbox \in Seq(Messages)
        BY DEF Messages
      <4> QED
        BY ONLY <4>1
    <3>3. Message("unanswered", p) \in Messages
      BY DEF Messages
    <3>4. mailbox' = [i \in 1..Len(mailbox) |->
                        IF mailbox[i] = Message("acquire", p)
                        THEN Message("unanswered", p) ELSE mailbox[i]]
      BY <1>4, <3>1 DEF TimeOut
    <3>5. mailbox' \in [1..Len(mailbox) -> Messages]
      BY ONLY <3>2, <3>3, <3>4
    <3> QED
      BY ONLY <3>1, <3>5
  <2>2. mailbox = <<>> => mailbox' = <<>>
    BY <1>4 DEF TimeOut
  <2> QED
    BY <1>4, <2>1, <2>2 DEF TimeOut, Messages
<1>5. ASSUME NEW p \in Procs, Exit(p) PROVE TypeOK'
  BY <1>5, LockAssumption DEF LockAssumption, Exit
<1>6. ASSUME NEW p \in Procs, NEW kind, Grant(kind, p) \/ Refuse(kind, p) PROVE TypeOK'
  BY <1>6 DEF Grant, Refuse, Asked, Receive, Answer
<1>7. ASSUME NEW p \in Procs, HandleRelease(p) PROVE TypeOK'
  BY <1>7 DEF HandleRelease, Receive, Free
<1>8. ASSUME NEW p \in Procs, HandleDown(p) PROVE TypeOK'
  BY <1>8 DEF HandleDown
<1>9. CASE Crash
  <2>1. crashes' \in 0..MaxCrashes
    BY <1>9, LockAssumption DEF LockAssumption, Crash
  <2>2. pc' \in [Procs -> Places] /\ before' \subseteq Procs
    BY <1>9 DEF Crash
  <2>3. up' = FALSE /\ held' = Nobody /\ mailbox' = <<>> /\ downs' = {}
    BY <1>9 DEF Crash
  <2>4. mailbox' \in Seq([kind: {"acquire", "unanswered", "release"}, from: Procs])
    BY <2>3
  <2>5. up' \in BOOLEAN /\ held' \in Procs \cup {Nobody} /\ downs' \subseteq Procs
    BY <2>3
  <2> HIDE DEF Move, Message, Places
  <2> QED
    BY <2>1, <2>2, <2>3, <2>4, <2>5 DEF TypeOK
<1>10. CASE Restart
  BY <1>10 DEF Restart
<1>11. CASE UNCHANGED vars
  BY <1>11 DEF vars
<1> QED
  BY <1>1, <1>2, <1>3, <1>4, <1>5, <1>6, <1>7, <1>8, <1>9, <1>10, <1>11
     DEF Next, ServeCall

\* A call of a process with no awaited acquire keeps the order.
LEMMA PostKeepsOrder ==
  ASSUME TypeOK, AcquireIsLast, NEW p \in Procs, NEW kind \in {"acquire", "release"},
         Post(kind, p),
         \A i \in DOMAIN mailbox: mailbox[i] # Message("acquire", p)
  PROVE  AcquireIsLast'
<1> DEFINE m == Message(kind, p)
<1>1. m \in Messages
  BY DEF Message, Messages
<1>2. mailbox \in Seq(Messages) /\ mailbox' = Append(mailbox, m)
  BY DEF TypeOK, Messages, Post
<1> HIDE DEF m
<1>3. /\ DOMAIN mailbox' = DOMAIN mailbox \cup {Len(mailbox) + 1}
      /\ \A i \in DOMAIN mailbox:
            i \in Nat /\ i < Len(mailbox) + 1 /\ mailbox'[i] = mailbox[i]
      /\ mailbox'[Len(mailbox) + 1] = m
  BY <1>1, <1>2, Posted
<1>4. Len(mailbox) + 1 \in Nat
  BY <1>2
<1>5. ASSUME NEW i \in DOMAIN mailbox', NEW j \in DOMAIN mailbox', NEW q \in Procs,
             mailbox'[i].from = q, mailbox'[j] = Message("acquire", q)
      PROVE  i =< j
  <2>1. CASE j \in DOMAIN mailbox
    <3>1. q # p
      BY <1>3, <1>5, <2>1
    <3>2. i \in DOMAIN mailbox
      BY <1>3, <1>5, <3>1 DEF m, Message
    <3> QED
      BY <1>3, <1>5, <2>1, <3>2 DEF AcquireIsLast
  <2>2. CASE j = Len(mailbox) + 1
    BY <1>3, <1>4, <1>5, <2>2
  <2> QED
    BY <1>3, <2>1, <2>2
<1> QED
  BY <1>5 DEF AcquireIsLast

\* Serving the first message keeps the order of the others.
LEMMA ServeKeepsOrder ==
  ASSUME TypeOK, AcquireIsLast, mailbox # <<>>, mailbox' = Tail(mailbox)
  PROVE  AcquireIsLast'
<1>1. \A i \in DOMAIN mailbox':
        i \in Nat /\ i + 1 \in DOMAIN mailbox /\ mailbox'[i] = mailbox[i + 1]
  BY Served DEF TypeOK, Messages
<1> QED
  BY <1>1 DEF AcquireIsLast

\* Serving the first message keeps what the others say of their callers, if the
\* callers that have one stay where they are or stop waiting for a release.
LEMMA ServeKeepsCalls ==
  ASSUME TypeOK, NoReleaseInside, AcquireIsAwaited, NEW r, NEW k, Receive(k, r),
         \A i \in DOMAIN mailbox', q \in Procs:
            mailbox'[i].from = q => pc'[q] = pc[q] \/ (pc[q] = "leaving" /\ pc'[q] = "idle")
  PROVE  NoReleaseInside' /\ AcquireIsAwaited'
<1>1. mailbox \in Seq(Messages) /\ mailbox # <<>> /\ mailbox' = Tail(mailbox)
  BY DEF Receive, TypeOK, Messages
<1>2. ASSUME NEW i \in DOMAIN mailbox', NEW q \in Procs, NEW kind,
             mailbox'[i] = Message(kind, q)
      PROVE  /\ i + 1 \in DOMAIN mailbox /\ mailbox[i + 1] = Message(kind, q)
             /\ pc'[q] = pc[q] \/ (pc[q] = "leaving" /\ pc'[q] = "idle")
  <2>1. i + 1 \in DOMAIN mailbox /\ mailbox'[i] = mailbox[i + 1]
    BY <1>1, Served
  <2>2. mailbox'[i].from = q
    BY <1>2 DEF Message
  <2> QED
    BY <1>2, <2>1, <2>2
<1>3. NoReleaseInside'
  BY <1>2 DEF NoReleaseInside
<1>4. AcquireIsAwaited'
  BY <1>2 DEF AcquireIsAwaited
<1> QED
  BY <1>3, <1>4

\* Every step keeps the other parts.
LEMMA PartsStep == IInv /\ [Next]_vars => Parts'
<1> SUFFICES ASSUME IInv, [Next]_vars PROVE Parts'
  OBVIOUS
<1> USE DEF IInv, Parts
<1>0. mailbox \in Seq(Messages) /\ TypeOK'
  BY TypeStep DEF TypeOK, Messages
<1>1. ASSUME NEW p \in Procs, Acquire(p) PROVE Parts'
  <2>1. Post("acquire", p) /\ pc' = [pc EXCEPT ![p] = "waiting"] /\ pc[p] = "idle"
           /\ before' = before \ {p} /\ UNCHANGED <<held, downs>>
    BY <1>1 DEF Acquire, Move
  <2>2. /\ DOMAIN mailbox' = DOMAIN mailbox \cup {Len(mailbox) + 1}
        /\ \A i \in DOMAIN mailbox: mailbox'[i] = mailbox[i]
        /\ mailbox'[Len(mailbox) + 1] = Message("acquire", p)
    BY <1>0, <2>1, Posted DEF Post, Message, Messages
  <2>3. \A i \in DOMAIN mailbox: mailbox[i] # Message("acquire", p)
    BY <2>1 DEF AcquireIsAwaited
  <2>4. AcquireIsAwaited'
    BY <2>1, <2>2 DEF AcquireIsAwaited, Message, TypeOK
  <2>5. NoReleaseInside'
    BY <2>1, <2>2 DEF NoReleaseInside, Message, TypeOK
  <2>6. OneInside' /\ DeadOwnerIsReported' /\ OnlyDeadReported'
    BY <2>1 DEF OneInside, DeadOwnerIsReported, OnlyDeadReported, TypeOK
  <2> QED
    BY <2>1, <2>3, <2>4, <2>5, <2>6, PostKeepsOrder
<1>2. ASSUME NEW p \in Procs, Release(p), up PROVE Parts'
  <2>1. Post("release", p) /\ pc' = [pc EXCEPT ![p] = "leaving"] /\ pc[p] = "inside"
           /\ before' = before \ {p} /\ UNCHANGED <<held, downs>>
    BY <1>2 DEF Release, Move
  <2>2. /\ DOMAIN mailbox' = DOMAIN mailbox \cup {Len(mailbox) + 1}
        /\ \A i \in DOMAIN mailbox: mailbox'[i] = mailbox[i]
        /\ mailbox'[Len(mailbox) + 1] = Message("release", p)
    BY <1>0, <2>1, Posted DEF Post, Message, Messages
  <2>3. \A i \in DOMAIN mailbox: mailbox[i] # Message("acquire", p)
    BY <2>1 DEF AcquireIsAwaited
  <2>4. AcquireIsAwaited'
    BY <2>1, <2>2, <2>3 DEF AcquireIsAwaited, Message, TypeOK
  <2>5. NoReleaseInside'
    BY <2>1, <2>2 DEF NoReleaseInside, Message, TypeOK
  <2>6. OneInside' /\ DeadOwnerIsReported' /\ OnlyDeadReported'
    BY <2>1 DEF OneInside, DeadOwnerIsReported, OnlyDeadReported, TypeOK
  <2> QED
    BY <2>1, <2>3, <2>4, <2>5, <2>6, PostKeepsOrder
<1>3. ASSUME NEW p \in Procs, Raise(p) \/ (Release(p) /\ ~up) PROVE Parts'
  <2>1. pc' = [pc EXCEPT ![p] = "idle"] /\ pc[p] = "inside" /\ before' = before \ {p}
           /\ UNCHANGED <<held, downs, mailbox>>
    BY <1>3 DEF Raise, Release, Move
  <2> QED
    BY <2>1 DEF AcquireIsAwaited, AcquireIsLast, NoReleaseInside, OneInside,
       DeadOwnerIsReported, OnlyDeadReported, TypeOK
<1>4. ASSUME NEW p \in Procs, TimeOut(p) PROVE Parts'
  <2>1. pc' = [pc EXCEPT ![p] = "idle"] /\ pc[p] \in {"waiting", "leaving"}
           /\ before' = before \ {p} /\ UNCHANGED <<held, downs>>
    BY <1>4 DEF TimeOut, Move
  <2>2. /\ DOMAIN mailbox' = DOMAIN mailbox
        /\ \A i \in DOMAIN mailbox:
              \/ mailbox'[i] = mailbox[i] /\ mailbox[i] # Message("acquire", p)
              \/ mailbox'[i] = Message("unanswered", p)
    BY <1>4 DEF TimeOut
  <2>3. AcquireIsAwaited'
    BY <2>1, <2>2 DEF AcquireIsAwaited, Message, TypeOK
  <2>4. AcquireIsLast' /\ NoReleaseInside'
    BY <2>1, <2>2 DEF AcquireIsLast, NoReleaseInside, Message, TypeOK
  <2>5. OneInside' /\ DeadOwnerIsReported' /\ OnlyDeadReported'
    BY <2>1 DEF OneInside, DeadOwnerIsReported, OnlyDeadReported, TypeOK
  <2> QED
    BY <2>3, <2>4, <2>5
<1>5. ASSUME NEW p \in Procs, Exit(p) PROVE Parts'
  <2>1. pc' = [pc EXCEPT ![p] = "dead"] /\ before' = before \ {p}
           /\ UNCHANGED <<held, mailbox>>
           /\ downs' = IF held = p THEN downs \cup {p} ELSE downs
    BY <1>5 DEF Exit, Move
  <2> QED
    BY <2>1 DEF AcquireIsAwaited, AcquireIsLast, NoReleaseInside, OneInside,
       DeadOwnerIsReported, OnlyDeadReported, TypeOK
<1>6. ASSUME NEW p \in Procs, NEW kind, Receive(kind, p)
      PROVE  /\ mailbox # <<>> /\ mailbox' = Tail(mailbox)
             /\ 1 \in DOMAIN mailbox /\ mailbox[1] = Message(kind, p)
             /\ \A i \in DOMAIN mailbox':
                   /\ i + 1 \in DOMAIN mailbox /\ ~(i + 1 =< 1)
                   /\ mailbox'[i] = mailbox[i + 1]
  BY <1>0, <1>6, Served DEF Receive
<1>7. ASSUME NEW p \in Procs, NEW kind, Grant(kind, p) \/ Refuse(kind, p) PROVE Parts'
  <2>1. Receive(kind, p) /\ kind \in {"acquire", "unanswered"}
    BY <1>7 DEF Grant, Refuse, Asked
  <2>2. AcquireIsLast'
    BY <1>6, <2>1, ServeKeepsOrder
  <2>3. \/ UNCHANGED <<pc, before>>
        \/ kind = "acquire" /\ \E place \in {"inside", "idle"}: pc' = [pc EXCEPT ![p] = place]
    BY <1>7 DEF Grant, Refuse, Answer, Move
  <2>4. ASSUME kind = "acquire" PROVE \A i \in DOMAIN mailbox': mailbox'[i].from # p
    BY <1>6, <2>1, <2>4 DEF AcquireIsLast
  <2>5. \A i \in DOMAIN mailbox', q \in Procs:
          mailbox'[i].from = q => pc'[q] = pc[q]
    BY <2>3, <2>4 DEF TypeOK
  <2>6. NoReleaseInside' /\ AcquireIsAwaited'
    BY <2>1, <2>5, ServeKeepsCalls
  <2>7. OneInside' /\ DeadOwnerIsReported' /\ OnlyDeadReported'
    <3>1. CASE Grant(kind, p)
      BY <3>1, LockAssumption DEF Grant, Answer, Move, OneInside, DeadOwnerIsReported,
         OnlyDeadReported, TypeOK, LockAssumption
    <3>2. CASE Refuse(kind, p)
      BY <3>2 DEF Refuse, Answer, Move, OneInside, DeadOwnerIsReported, OnlyDeadReported,
         TypeOK
    <3> QED
      BY <1>7, <3>1, <3>2
  <2> QED
    BY <2>2, <2>6, <2>7
<1>8. ASSUME NEW p \in Procs, HandleRelease(p) PROVE Parts'
  <2>1. Receive("release", p) /\ pc[p] # "inside"
    BY <1>6, <1>8 DEF HandleRelease, NoReleaseInside
  <2>2. AcquireIsLast'
    BY <1>6, <2>1, ServeKeepsOrder
  <2>3. UNCHANGED pc \/ (pc[p] = "leaving" /\ pc' = [pc EXCEPT ![p] = "idle"])
    BY <1>8 DEF HandleRelease, Move
  <2>4. \A i \in DOMAIN mailbox', q \in Procs:
          mailbox'[i].from = q => pc'[q] = pc[q] \/ (pc[q] = "leaving" /\ pc'[q] = "idle")
    BY <2>3 DEF TypeOK
  <2>5. NoReleaseInside' /\ AcquireIsAwaited'
    BY <2>1, <2>4, ServeKeepsCalls
  <2>6. OneInside' /\ DeadOwnerIsReported' /\ OnlyDeadReported'
    BY <1>8, <2>1, LockAssumption
       DEF HandleRelease, Free, Move, OneInside, DeadOwnerIsReported, OnlyDeadReported,
           TypeOK, LockAssumption
  <2> QED
    BY <2>2, <2>5, <2>6
<1>9. ASSUME NEW p \in Procs, HandleDown(p) PROVE Parts'
  BY <1>9, LockAssumption DEF HandleDown, AcquireIsAwaited, AcquireIsLast, NoReleaseInside,
     OneInside, DeadOwnerIsReported, OnlyDeadReported, TypeOK, LockAssumption
<1>10. CASE Crash
  BY <1>10, LockAssumption DEF Crash, AcquireIsAwaited, AcquireIsLast, NoReleaseInside, OneInside,
     DeadOwnerIsReported, OnlyDeadReported, TypeOK, LockAssumption
<1>11. CASE Restart \/ UNCHANGED vars
  BY <1>11 DEF Restart, vars, AcquireIsAwaited, AcquireIsLast, NoReleaseInside, OneInside,
     DeadOwnerIsReported, OnlyDeadReported
<1> QED
  BY <1>1, <1>2, <1>3, <1>4, <1>5, <1>7, <1>8, <1>9, <1>10, <1>11 DEF Next, ServeCall
-----------------------------------------------------------------------------
(* Theorems *)

\* IInv is an invariant of every interleaving of calls, timeouts, deaths and crashes.
LEMMA Inductive == Spec => []IInv
<1>1. IInv /\ [Next]_vars => IInv'
  BY TypeStep, PartsStep DEF IInv, Parts
<1> QED
  BY <1>1, Initially, PTL DEF Spec

\* The lock's state is well typed in every behaviour.
THEOREM TypeCorrect == Spec => []TypeOK
<1>1. IInv => TypeOK
  BY DEF IInv
<1> QED
  BY <1>1, Inductive, PTL

\* One holder at a time: the process the server let in is the one it holds the lock
\* for, whatever timed out, died or was released late.
THEOREM MutualExclusion == Spec => []OneInside
<1>1. IInv => OneInside
  BY DEF IInv
<1> QED
  BY <1>1, Inductive, PTL

\* A dead owner's DOWN is always on its way: no owner dies unnoticed.
THEOREM NoDeadOwnerForgotten == Spec => []DeadOwnerIsReported
<1>1. IInv => DeadOwnerIsReported
  BY DEF IInv
<1> QED
  BY <1>1, Inductive, PTL

\* Nothing frees the lock but its owner's release or death, or the server's crash.
THEOREM OwnerFrees == Spec => OnlyOwnerFrees
<1>1. IInv /\ [Next]_vars => [\A p \in Procs: held = p /\ held' # p =>
                                 \/ ~up'
                                 \/ HandleRelease(p)
                                 \/ pc[p] = "dead"]_vars
  <2> SUFFICES ASSUME IInv, Next, NEW p \in Procs, held = p, held' # p
               PROVE  ~up' \/ HandleRelease(p) \/ pc[p] = "dead"
    OBVIOUS
  <2> USE LockAssumption DEF LockAssumption
  <2>1. ASSUME NEW q \in Procs, HandleRelease(q) PROVE HandleRelease(p)
    BY <2>1 DEF HandleRelease, Free
  <2>2. ASSUME NEW q \in Procs, HandleDown(q) PROVE pc[p] = "dead"
    BY <2>2 DEF HandleDown, IInv, OnlyDeadReported
  <2>3. ASSUME NEW q \in Procs, NEW kind, Grant(kind, q) \/ Refuse(kind, q) PROVE FALSE
    BY <2>3 DEF Grant, Refuse
  <2>4. ASSUME NEW q \in Procs,
               Acquire(q) \/ Release(q) \/ Raise(q) \/ TimeOut(q) \/ Exit(q)
        PROVE  FALSE
    BY <2>4 DEF Acquire, Release, Raise, TimeOut, Exit
  <2>5. CASE Crash
    BY <2>5 DEF Crash
  <2>6. CASE Restart
    BY <2>6 DEF Restart
  <2> QED
    BY <2>1, <2>2, <2>3, <2>4, <2>5, <2>6 DEF Next, ServeCall
<1> QED
  BY <1>1, Inductive, PTL DEF Spec, OnlyOwnerFrees
=============================================================================
