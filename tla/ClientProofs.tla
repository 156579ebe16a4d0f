---------------------------- MODULE ClientProofs ----------------------------
(***************************************************************************)
(* Proofs about the client's peers.  A request that is on the connection   *)
(* is answered because the connection is bound by then: every connection   *)
(* starts with a binding, which the server handles first or has handled.   *)
(***************************************************************************)
EXTENDS ClientPeers, TLAPS, FiniteSetTheorems, SequenceTheorems

Messages == {Leave} \cup {Add(p) : p \in Peers} \cup {Del(p) : p \in Peers}
Answers == [peer : Peers, success : BOOLEAN]

\* The binding of this connection is done or on its way, unless the client is leaving.
LinkBinds == alive /\ linked => bound \/ \E j \in DOMAIN wire : wire[j] = Bind

\* Without a login nothing is left to do once the loop thread has ended.
Quiet == (alive => running) /\ (~running => queue = <<>> /\ DOMAIN peers = {})

IInv == TypeOK /\ TimersHavePeers /\ FailedRetried /\ LinkBinds /\ Quiet

-----------------------------------------------------------------------------
(* Sequences of messages.                                                  *)

\* Nothing is a sequence of anything.
LEMMA EmptySequence == ASSUME NEW S PROVE <<>> \in Seq(S)
OBVIOUS

\* What Tail leaves, and where.
LEMMA TailElements ==
    ASSUME NEW S, NEW s \in Seq(S), s # <<>>
    PROVE  /\ Tail(s) \in Seq(S)
           /\ Head(s) = s[1] /\ Head(s) \in S
           /\ \A i \in DOMAIN s : i # 1 => i - 1 \in DOMAIN Tail(s) /\ Tail(s)[i - 1] = s[i]
OBVIOUS

\* What Append adds, and where.
LEMMA AppendElements ==
    ASSUME NEW S, NEW s \in Seq(S), NEW e \in S
    PROVE  /\ Append(s, e) \in Seq(S)
           /\ Len(s) + 1 \in DOMAIN Append(s, e) /\ Append(s, e)[Len(s) + 1] = e
           /\ \A i \in DOMAIN s : i \in DOMAIN Append(s, e) /\ Append(s, e)[i] = s[i] /\ i <= Len(s) + 1
OBVIOUS

\* What a concatenation is made of.
LEMMA ConcatElements ==
    ASSUME NEW S, NEW s \in Seq(S), NEW n \in Nat, NEW t \in [1 .. n -> S]
    PROVE  /\ s \o t \in Seq(S)
           /\ \A i \in DOMAIN s : i \in DOMAIN (s \o t) /\ (s \o t)[i] = s[i]
           /\ \A i \in 1 .. n : Len(s) + i \in DOMAIN (s \o t) /\ (s \o t)[Len(s) + i] = t[i]
<1>1. t \in Seq(S) /\ Len(t) = n
  OBVIOUS
<1>2. QED
  BY <1>1

\* The kinds of message differ, and each names its peer.
LEMMA MessageKinds ==
    /\ Bind \in Requests /\ Leave \in Requests
    /\ \A p \in Peers : {Ask(p), Add(p), Del(p)} \subseteq Requests
    /\ \A p \in Peers : Bind \notin {Ask(p), Add(p), Del(p), Leave}
    /\ \A p, q \in Peers : Ask(p) \notin {Add(q), Del(q), Leave}
    /\ \A p, q \in Peers : Ask(p) = Ask(q) => p = q
BY DEF Requests, Bind, Leave, Ask, Add, Del

-----------------------------------------------------------------------------
(* The parts of the invariant, and what keeps a request alive.             *)

AppTypes == {alive, running, inRoom, enableP2P} \subseteq BOOLEAN /\ queue \in Seq(Messages)
PeerTypes == DOMAIN peers \subseteq Peers /\ peers \in [DOMAIN peers -> Status]
TimerTypes == timers \in [DOMAIN timers -> [phase : {"LAN", "WAN"}, left : Nat]]
RetryTypes == failed \subseteq Peers /\ retries \in Nat
EchoTypes == punched \subseteq Peers \X {"LAN", "WAN"}
LinkTypes == linked \in BOOLEAN /\ links \in Nat /\ wire \in Seq(Requests) /\ answers \in Seq(Answers)
LateTyped == late \in [DOMAIN late -> [wire : Seq(Requests), bound : BOOLEAN]]
ServerTypes ==
    /\ {bound, registered} \subseteq BOOLEAN /\ LateTyped
    /\ online \subseteq Peers /\ forwards \subseteq online
LoopTypes == PeerTypes /\ TimerTypes /\ RetryTypes /\ EchoTypes

\* The type invariant in four parts, one for each actor.
LEMMA TypeParts == TypeOK <=> AppTypes /\ LoopTypes /\ LinkTypes /\ ServerTypes
BY DEF TypeOK, AppTypes, LoopTypes, PeerTypes, TimerTypes, RetryTypes, EchoTypes, LinkTypes,
       ServerTypes, LateTyped, Requests, Messages, Answers

\* The same after a step.
LEMMA TypePartsNext == TypeOK' <=> AppTypes' /\ LoopTypes' /\ LinkTypes' /\ ServerTypes'
BY DEF TypeOK, AppTypes, LoopTypes, PeerTypes, TimerTypes, RetryTypes, EchoTypes, LinkTypes,
       ServerTypes, LateTyped, Requests, Messages, Answers

\* A request for p is on the connection, which will be bound when it is handled.
Carried(p) ==
    \E i \in DOMAIN wire : wire[i] = Ask(p) /\ (bound \/ \E j \in 1 .. i : wire[j] = Bind)
Answered(p) == \E i \in DOMAIN answers : answers[i].peer = p

\* The four ways in which a peer is pursued.
LEMMA PursuedParts ==
    ASSUME NEW p
    PROVE  /\ Pursued(p) <=> p \in DOMAIN timers \/ Carried(p) \/ Answered(p) \/ p \in failed
           /\ Pursued(p)' <=> (p \in DOMAIN timers)' \/ Carried(p)' \/ Answered(p)' \/ (p \in failed)'
BY DEF Pursued, Carried, Answered

\* What PendingPursued says of a step.
Keeps == \A p \in Peers : Pending(p)' /\ (Pending(p) => Pursued(p)) => Pursued(p)' \/ ~linked' \/ ~alive' \/ ~inRoom

\* A message sent leaves what was sent before it where it is.
LEMMA SendStep ==
    ASSUME TypeOK, LinkBinds, NEW m \in Requests, Send(m), UNCHANGED <<alive, linked, bound>>
    PROVE  /\ wire' \in Seq(Requests)
           /\ LinkBinds'
           /\ \A p \in Peers : Carried(p) => Carried(p)'
           /\ \A p \in Peers : alive /\ linked /\ m = Ask(p) => Carried(p)'
<1>0. wire \in Seq(Requests)
  BY TypeParts DEF LinkTypes
<1>1. CASE ~linked /\ UNCHANGED wire
  BY <1>0, <1>1 DEF LinkBinds, Carried
<1>2. CASE wire' = Append(wire, m)
  <2>1. /\ wire' \in Seq(Requests)
        /\ Len(wire) + 1 \in DOMAIN wire' /\ wire'[Len(wire) + 1] = m
        /\ \A i \in DOMAIN wire : i \in DOMAIN wire' /\ wire'[i] = wire[i] /\ i <= Len(wire) + 1
    BY <1>0, <1>2, AppendElements
  <2>2. LinkBinds'
    BY <2>1 DEF LinkBinds
  <2>3. ASSUME NEW p \in Peers, Carried(p) PROVE Carried(p)'
    <3>1. PICK i \in DOMAIN wire : wire[i] = Ask(p) /\ (bound \/ \E j \in 1 .. i : wire[j] = Bind)
      BY <2>3 DEF Carried
    <3>2. \A j \in 1 .. i : j \in DOMAIN wire
      BY <1>0
    <3>3. QED
      BY <2>1, <3>1, <3>2 DEF Carried
  <2>4. ASSUME NEW p \in Peers, alive, linked, m = Ask(p) PROVE Carried(p)'
    <3>1. bound \/ \E j \in DOMAIN wire : wire[j] = Bind
      BY <2>4 DEF LinkBinds
    <3>2. \A j \in DOMAIN wire : j \in 1 .. (Len(wire) + 1)
      BY <1>0
    <3>3. QED
      BY <2>1, <2>4, <3>1, <3>2 DEF Carried
  <2>5. QED
    BY <2>1, <2>2, <2>3, <2>4
<1>3. QED
  BY <1>1, <1>2 DEF Send

\* So do several.
LEMMA SendAllStep ==
    ASSUME TypeOK, LinkBinds, NEW n \in Nat, NEW t \in [1 .. n -> Requests], wire' = wire \o t,
           UNCHANGED <<alive, linked, bound>>
    PROVE  /\ wire' \in Seq(Requests)
           /\ LinkBinds'
           /\ \A p \in Peers : Carried(p) => Carried(p)'
           /\ \A p \in Peers, i \in 1 .. n : alive /\ linked /\ t[i] = Ask(p) => Carried(p)'
<1>0. wire \in Seq(Requests)
  BY TypeParts DEF LinkTypes
<1>1. /\ wire' \in Seq(Requests)
      /\ \A i \in DOMAIN wire : i \in DOMAIN wire' /\ wire'[i] = wire[i]
      /\ \A i \in 1 .. n : Len(wire) + i \in DOMAIN wire' /\ wire'[Len(wire) + i] = t[i]
  <2>1. PICK w : w = wire \o t
    OBVIOUS
  <2>2. /\ w \in Seq(Requests)
        /\ \A i \in DOMAIN wire : i \in DOMAIN w /\ w[i] = wire[i]
        /\ \A i \in 1 .. n : Len(wire) + i \in DOMAIN w /\ w[Len(wire) + i] = t[i]
    BY <1>0, <2>1, ConcatElements
  <2>3. QED
    BY <2>1, <2>2
<1>2. LinkBinds'
  BY <1>1 DEF LinkBinds
<1>3. ASSUME NEW p \in Peers, Carried(p) PROVE Carried(p)'
  <2>1. PICK i \in DOMAIN wire : wire[i] = Ask(p) /\ (bound \/ \E j \in 1 .. i : wire[j] = Bind)
    BY <1>3 DEF Carried
  <2>2. \A j \in 1 .. i : j \in DOMAIN wire
    BY <1>0
  <2>3. QED
    BY <1>1, <2>1, <2>2 DEF Carried
<1>4. ASSUME NEW p \in Peers, NEW i \in 1 .. n, alive, linked, t[i] = Ask(p) PROVE Carried(p)'
  <2>1. \A j \in DOMAIN wire : j \in 1 .. Len(wire) + i
    BY <1>0
  <2>2. bound \/ \E j \in DOMAIN wire : wire[j] = Bind
    BY <1>4 DEF LinkBinds
  <2>3. QED
    BY <1>1, <1>4, <2>1, <2>2 DEF Carried
<1>5. QED
  BY <1>1, <1>2, <1>3, <1>4

\* A message handled is the only one that is gone.
LEMMA HandleStep ==
    ASSUME TypeOK, LinkBinds, NEW m \in Requests, Handle(m),
           bound => bound', m = Bind => bound', bound' \in BOOLEAN
    PROVE  /\ wire' \in Seq(Requests)
           /\ LinkBinds'
           /\ \A p \in Peers : Carried(p) => Carried(p)' \/ (bound /\ m = Ask(p))
<1>0. wire \in Seq(Requests) /\ wire # <<>> /\ wire' = Tail(wire) /\ Head(wire) = m
      /\ UNCHANGED linked
  BY TypeParts DEF LinkTypes, Handle
<1>1. /\ wire' \in Seq(Requests)
      /\ wire[1] = m
      /\ \A i \in DOMAIN wire : i # 1 => i - 1 \in DOMAIN wire' /\ wire'[i - 1] = wire[i]
  BY <1>0, TailElements
<1>2. LinkBinds'
  BY <1>0, <1>1 DEF LinkBinds, Handle, app
<1>3. ASSUME NEW p \in Peers, Carried(p) PROVE Carried(p)' \/ (bound /\ m = Ask(p))
  <2>1. PICK i \in DOMAIN wire : wire[i] = Ask(p) /\ (bound \/ \E j \in 1 .. i : wire[j] = Bind)
    BY <1>3 DEF Carried
  <2>2. \A j \in 1 .. i : j \in DOMAIN wire /\ j \in Nat /\ i \in Nat
    BY <1>0
  <2>3. i = 1 => m = Ask(p) /\ bound
    BY <1>1, <2>1, MessageKinds
  <2>4. i # 1 => Carried(p)'
    <3>1. SUFFICES ASSUME i # 1 PROVE Carried(p)'
      OBVIOUS
    <3>2. i - 1 \in DOMAIN wire' /\ wire'[i - 1] = Ask(p)
      BY <1>1, <2>1, <3>1
    <3>3. bound' \/ \E j \in 1 .. i - 1 : wire'[j] = Bind
      <4>1. CASE bound \/ m = Bind
        BY <4>1
      <4>2. CASE ~bound /\ m # Bind
        <5>1. PICK j \in 1 .. i : wire[j] = Bind
          BY <2>1, <4>2
        <5>2. j # 1 /\ j - 1 \in 1 .. i - 1 /\ wire'[j - 1] = Bind
          BY <1>1, <2>2, <4>2, <5>1
        <5>3. QED
          BY <5>2
      <4>3. QED
        BY <4>1, <4>2
    <3>4. QED
      BY <3>2, <3>3 DEF Carried
  <2>5. QED
    BY <2>3, <2>4
<1>4. QED
  BY <1>1, <1>2, <1>3

\* The first answer is the only one that is gone.
LEMMA TakeAnswer ==
    ASSUME TypeOK, answers # <<>>, answers' = Tail(answers)
    PROVE  /\ answers' \in Seq(Answers)
           /\ \A p \in Peers : Answered(p) => Answered(p)' \/ Head(answers).peer = p
<1>0. answers \in Seq(Answers)
  BY TypeParts DEF LinkTypes
<1>1. /\ answers' \in Seq(Answers)
      /\ Head(answers) = answers[1]
      /\ \A i \in DOMAIN answers : i # 1 => i - 1 \in DOMAIN answers' /\ answers'[i - 1] = answers[i]
  BY <1>0, TailElements
<1>2. QED
  BY <1>1 DEF Answered

-----------------------------------------------------------------------------
(* The application's thread.                                               *)

\* A call with its message to the loop thread.
LEMMA CallStep ==
    ASSUME IInv, alive, NEW m \in Messages, queue' = Append(queue, m), inRoom' \in BOOLEAN,
           UNCHANGED <<alive, running, enableP2P, loop, linked, links, answers, server>>,
           wire' = wire \/ \E n \in Requests : Send(n)
    PROVE  IInv' /\ Keeps
<1>1. queue' \in Seq(Messages)
  BY TypeParts, AppendElements DEF IInv, AppTypes
<1>2. wire' \in Seq(Requests) /\ LinkBinds' /\ \A p \in Peers : Carried(p) => Carried(p)'
  <2>1. CASE wire' = wire
    BY <2>1, TypeParts DEF IInv, LinkTypes, LinkBinds, Carried, server
  <2>2. CASE \E n \in Requests : Send(n)
    BY <2>2, SendStep DEF IInv, server
  <2>3. QED
    BY <2>1, <2>2
<1>3. TypeOK'
  BY <1>1, <1>2, TypeParts, TypePartsNext
  DEF IInv, AppTypes, LoopTypes, PeerTypes, TimerTypes, RetryTypes, EchoTypes, LinkTypes, ServerTypes, LateTyped,
      loop, server
<1>4. Keeps
  BY <1>2, PursuedParts DEF Keeps, Pending, Answered, loop
<1>5. QED
  BY <1>2, <1>3, <1>4 DEF IInv, TimersHavePeers, FailedRetried, Quiet, loop

\* Login preserves the invariant, and pending peers stay pursued.
LEMMA LoginStep == ASSUME IInv, Login PROVE IInv' /\ Keeps
<1>1. wire' \in Seq(Requests) /\ LinkBinds'
  BY MessageKinds DEF Login, LinkBinds
<1>2. TypeOK'
  BY <1>1, TypeParts, TypePartsNext
  DEF IInv, AppTypes, LoopTypes, PeerTypes, TimerTypes, RetryTypes, EchoTypes, LinkTypes, ServerTypes, LateTyped,
      loop, Login
<1>3. Keeps
  BY DEF IInv, Quiet, Keeps, Pending, loop, Login
<1>4. QED
  BY <1>1, <1>2, <1>3 DEF IInv, TimersHavePeers, FailedRetried, Quiet, loop, Login

\* Logout does.
LEMMA LogoutStep == ASSUME IInv, Logout PROVE IInv' /\ Keeps
<1>1. TypeOK'
  BY TypeParts, TypePartsNext
  DEF IInv, AppTypes, LoopTypes, PeerTypes, TimerTypes, RetryTypes, EchoTypes, LinkTypes, ServerTypes, LateTyped,
      loop, link, server, Logout
<1>2. QED
  BY <1>1
  DEF IInv, TimersHavePeers, FailedRetried, LinkBinds, Quiet, Keeps, loop, link, server, Logout

\* A connection that goes on at the server has its type.
LEMMA OutlivesTypes ==
    ASSUME TypeOK
    PROVE  Outlives \in [DOMAIN Outlives -> [wire : Seq(Requests), bound : BOOLEAN]]
<1> DEFINE c == [wire |-> wire, bound |-> bound]
<1>1. c \in [wire : Seq(Requests), bound : BOOLEAN]
  BY TypeParts DEF LinkTypes, ServerTypes, LateTyped
<1>2. late \in [DOMAIN late -> [wire : Seq(Requests), bound : BOOLEAN]]
  BY TypeParts DEF ServerTypes, LateTyped
<1> HIDE DEF c
<1>3. QED
  BY <1>1, <1>2 DEF Outlives, Put, c

\* The end of the loop thread does, in order or not.
LEMMA ClearedStep == ASSUME IInv, Cleared, inRoom' \in BOOLEAN PROVE IInv' /\ Keeps
<1>1. TypeOK'
  <2>1. AppTypes'
    BY EmptySequence, TypeParts DEF IInv, AppTypes, Cleared
  <2>2. LoopTypes'
    BY DEF LoopTypes, PeerTypes, TimerTypes, RetryTypes, EchoTypes, Cleared
  <2>3. LinkTypes'
    <3>1. wire' \in Seq(Requests) /\ answers' \in Seq(Answers)
      BY EmptySequence DEF Cleared
    <3>2. QED
      BY <3>1, TypeParts DEF IInv, LinkTypes, Cleared
  <2>4. ServerTypes'
    <3>1. late' \in [DOMAIN late' -> [wire : Seq(Requests), bound : BOOLEAN]]
      BY OutlivesTypes, TypeParts DEF IInv, ServerTypes, LateTyped, Cleared
    <3>2. {bound', registered'} \subseteq BOOLEAN /\ online' = online /\ forwards' = forwards
      BY TypeParts DEF IInv, ServerTypes, LateTyped, Cleared
    <3>3. QED
      BY <3>1, <3>2, TypeParts DEF IInv, ServerTypes, LateTyped
  <2>5. QED
    BY <2>1, <2>2, <2>3, <2>4, TypePartsNext
<1>2. QED
  BY <1>1 DEF IInv, TimersHavePeers, FailedRetried, LinkBinds, Quiet, Keeps, Pending, Cleared

\* The calls of the application do.
LEMMA AppStep == ASSUME IInv, App PROVE IInv' /\ Keeps
<1>1. ASSUME NEW p \in Peers, AddGroupClientNode(p) PROVE IInv' /\ Keeps
  <2>1. Add(p) \in Messages
    BY DEF Messages
  <2>2. QED
    BY <1>1, <2>1, CallStep DEF AddGroupClientNode, Calls, link
<1>2. ASSUME NEW p \in Peers, RemoveGroupClientNode(p) PROVE IInv' /\ Keeps
  <2>1. Del(p) \in Messages /\ Del(p) \in Requests /\ inRoom' \in BOOLEAN
    BY <1>2, MessageKinds, TypeParts DEF Messages, IInv, AppTypes, RemoveGroupClientNode
  <2>2. QED
    BY <1>2, <2>1, CallStep DEF RemoveGroupClientNode, Calls
<1>3. CASE ClearGroupClientList
  <2>1. Leave \in Messages /\ Leave \in Requests /\ inRoom' \in BOOLEAN
    BY <1>3, MessageKinds, TypeParts DEF Messages, IInv, AppTypes, ClearGroupClientList
  <2>2. QED
    BY <1>3, <2>1, CallStep DEF ClearGroupClientList, Calls
<1>4. CASE SetP2PTransmit
  <2>1. TypeOK'
    BY <1>4, TypeParts, TypePartsNext
    DEF IInv, AppTypes, LoopTypes, PeerTypes, TimerTypes, RetryTypes, EchoTypes, LinkTypes, ServerTypes, LateTyped,
        loop, link, server, SetP2PTransmit
  <2>2. Keeps
    BY <1>4, PursuedParts DEF Keeps, Pending, Answered, Carried, loop, link, server, SetP2PTransmit
  <2>3. QED
    BY <1>4, <2>1, <2>2
    DEF IInv, TimersHavePeers, FailedRetried, LinkBinds, Quiet, loop, link, server, SetP2PTransmit
<1>5. CASE LoopEnds \/ Dies
  <2>1. Cleared /\ inRoom' \in BOOLEAN
    BY <1>5, TypeParts DEF IInv, AppTypes, LoopEnds, Dies
  <2>2. QED
    BY <2>1, ClearedStep
<1>6. QED
  BY <1>1, <1>2, <1>3, <1>4, <1>5, LoginStep, LogoutStep DEF App

-----------------------------------------------------------------------------
(* The loop thread.                                                        *)

\* The messages of the application's thread do.
LEMMA OnQueueStep == ASSUME IInv, OnQueue PROVE IInv' /\ Keeps
<1>0. /\ running /\ UNCHANGED <<alive, running, linked, links, answers, failed, retries, punched, server>>
      /\ queue' \in Seq(Messages) /\ {inRoom', enableP2P'} \subseteq BOOLEAN
  <2>1. queue # <<>> /\ queue' = Tail(queue)
    BY DEF OnQueue, OnReqLeaveRoom, OnReqAddForwardNode, OnReqRemoveForwardNode
  <2>2. queue' \in Seq(Messages)
    BY <2>1, TypeParts, TailElements DEF IInv, AppTypes
  <2>3. UNCHANGED <<alive, running, linked, links, answers, failed, retries, punched, server>>
        /\ {inRoom', enableP2P'} \subseteq BOOLEAN
    BY TypeParts DEF IInv, AppTypes, OnQueue, OnReqLeaveRoom, OnReqAddForwardNode, OnReqRemoveForwardNode,
                     link, server
  <2>4. QED
    BY <2>1, <2>2, <2>3 DEF IInv, Quiet
<1>1. ASSUME wire' \in Seq(Requests), LinkBinds', PeerTypes', TimerTypes', TimersHavePeers'
      PROVE  IInv'
  <2>1. TypeOK'
    BY <1>0, <1>1, TypeParts, TypePartsNext
    DEF IInv, AppTypes, LoopTypes, RetryTypes, EchoTypes, LinkTypes, ServerTypes, LateTyped, server
  <2>2. QED
    BY <1>0, <1>1, <2>1 DEF IInv, FailedRetried, Quiet
<1>2. ASSUME NEW p \in Peers, OnReqAddForwardNode(p) PROVE IInv' /\ Keeps
  <2>0. Ask(p) \in Requests /\ Add(p) \in Requests /\ UNCHANGED timers
    BY <1>2, MessageKinds DEF OnReqAddForwardNode
  <2>1. CASE UNCHANGED <<peers, wire>>
    <3>1. IInv'
      BY <1>0, <1>1, <2>0, <2>1, TypeParts
      DEF IInv, LoopTypes, PeerTypes, TimerTypes, LinkTypes, LinkBinds, TimersHavePeers, server
    <3>2. Keeps
      BY <1>0, <2>0, <2>1, PursuedParts DEF Keeps, Pending, Answered, Carried, server
    <3>3. QED
      BY <3>1, <3>2
  <2>2. ASSUME p \notin DOMAIN peers, NEW v \in Status, peers' = Put(peers, p, v),
               NEW m \in Requests, Send(m), v = "pending" => m = Ask(p)
        PROVE  IInv' /\ Keeps
    <3>1. /\ wire' \in Seq(Requests) /\ LinkBinds'
          /\ \A q \in Peers : Carried(q) => Carried(q)'
          /\ \A q \in Peers : alive /\ linked /\ m = Ask(q) => Carried(q)'
      BY <1>0, <2>2, SendStep DEF IInv, server
    <3>2. /\ DOMAIN peers' = DOMAIN peers \cup {p} /\ peers'[p] = v
          /\ \A q \in DOMAIN peers : peers'[q] = peers[q]
          /\ PeerTypes'
      BY <2>2, TypeParts DEF IInv, LoopTypes, PeerTypes, Put
    <3>3. IInv'
      BY <1>1, <2>0, <3>1, <3>2, TypeParts DEF IInv, LoopTypes, TimerTypes, TimersHavePeers
    <3>4. Keeps
      <4>1. SUFFICES ASSUME NEW q \in Peers, Pending(q)', Pending(q) => Pursued(q), linked', alive'
                     PROVE  Pursued(q)'
        BY DEF Keeps
      <4>2. CASE q = p
        BY <1>0, <2>2, <3>1, <3>2, <4>1, <4>2, PursuedParts DEF Pending
      <4>3. CASE q # p
        BY <1>0, <2>0, <3>1, <3>2, <4>1, <4>3, PursuedParts DEF Pending, Answered
      <4>4. QED
        BY <4>2, <4>3
    <3>5. QED
      BY <3>3, <3>4
  <2>3. QED
    BY <1>2, <2>0, <2>1, <2>2 DEF OnReqAddForwardNode, Status
<1>3. ASSUME NEW p \in Peers, OnReqRemoveForwardNode(p) PROVE IInv' /\ Keeps
  <2>1. peers' = Drop(peers, p) /\ timers' = Drop(timers, p) /\ UNCHANGED wire
    BY <1>3 DEF OnReqRemoveForwardNode, link
  <2>2. /\ DOMAIN peers' = DOMAIN peers \ {p} /\ DOMAIN timers' = DOMAIN timers \ {p}
        /\ \A q \in DOMAIN peers \ {p} : peers'[q] = peers[q]
        /\ PeerTypes' /\ TimerTypes'
    BY <2>1, TypeParts DEF IInv, LoopTypes, PeerTypes, TimerTypes, Drop
  <2>3. IInv'
    BY <1>0, <1>1, <2>1, <2>2, TypeParts DEF IInv, LinkTypes, LinkBinds, TimersHavePeers, server
  <2>4. Keeps
    BY <1>0, <2>1, <2>2, PursuedParts DEF Keeps, Pending, Answered, Carried, server
  <2>5. QED
    BY <2>3, <2>4
<1>4. CASE OnReqLeaveRoom
  <2>1. DOMAIN peers' = {} /\ DOMAIN timers' = {} /\ PeerTypes' /\ TimerTypes' /\ UNCHANGED wire
    BY <1>4 DEF OnReqLeaveRoom, PeerTypes, TimerTypes, link
  <2>2. IInv'
    BY <1>0, <1>1, <2>1, TypeParts DEF IInv, LinkTypes, LinkBinds, TimersHavePeers, server
  <2>3. QED
    BY <2>1, <2>2 DEF Keeps, Pending
<1>5. QED
  BY <1>2, <1>3, <1>4 DEF OnQueue

\* A timer that is started, in the place of another or not.
LEMMA Started ==
    ASSUME IInv, NEW p \in DOMAIN peers, NEW phase \in {"LAN", "WAN"}, NEW n \in Nat,
           timers' = StartTimer(p, phase, n), DOMAIN peers' = DOMAIN peers
    PROVE  TimerTypes' /\ TimersHavePeers' /\ DOMAIN timers' = DOMAIN timers \cup {p}
<1> DEFINE t == [phase |-> phase, left |-> n]
<1>1. t \in [phase : {"LAN", "WAN"}, left : Nat] /\ timers' = Put(timers, p, t) /\ TimerTypes
  BY TypeParts DEF IInv, LoopTypes, StartTimer
<1>2. QED
  BY <1>1 DEF IInv, TimerTypes, TimersHavePeers, Put

\* The answers of the server do.
LEMMA OnAnswerStep == ASSUME IInv, OnAnswer PROVE IInv' /\ Keeps
<1>0. PICK p \in Peers : OnP2PAddr(p) \/ OnP2PAddrFail(p)
  BY DEF OnAnswer
<1>1. /\ UNCHANGED <<app, peers, punched, linked, links, wire, server>>
      /\ answers # <<>> /\ answers' = Tail(answers) /\ Head(answers).peer = p
  BY <1>0 DEF OnP2PAddr, OnP2PAddrFail
<1>2. /\ answers' \in Seq(Answers)
      /\ \A q \in Peers : Answered(q) => Answered(q)' \/ q = p
  BY <1>1, TakeAnswer DEF IInv
<1>3. ASSUME TimerTypes', RetryTypes', TimersHavePeers', FailedRetried'
      PROVE  IInv'
  <2>1. TypeOK'
    BY <1>1, <1>2, <1>3, TypeParts, TypePartsNext
    DEF IInv, AppTypes, LoopTypes, PeerTypes, EchoTypes, LinkTypes, ServerTypes, LateTyped, app, server
  <2>2. QED
    BY <1>1, <1>3, <2>1 DEF IInv, LinkBinds, Quiet, app, server
<1>4. ASSUME DOMAIN timers \subseteq DOMAIN timers', failed \subseteq failed',
             Pending(p) /\ inRoom => p \in DOMAIN timers' \cup failed'
      PROVE  Keeps
  <2>1. \A q \in Peers : Carried(q) => Carried(q)'
    BY <1>1 DEF Carried, server
  <2>2. QED
    BY <1>1, <1>2, <1>4, <2>1, PursuedParts DEF Keeps, Pending
<1>5. CASE OnP2PAddr(p)
  <2>1. /\ UNCHANGED <<failed, retries>>
        /\ timers' = IF p \in DOMAIN peers THEN StartTimer(p, "LAN", LanTries) ELSE timers
    BY <1>5 DEF OnP2PAddr
  <2>2. /\ TimerTypes' /\ TimersHavePeers' /\ DOMAIN timers \subseteq DOMAIN timers'
        /\ p \in DOMAIN peers => p \in DOMAIN timers'
    <3>1. CASE p \in DOMAIN peers
      BY <1>1, <2>1, <3>1, Started, ClientAssumption
    <3>2. CASE p \notin DOMAIN peers
      BY <1>1, <2>1, <3>2, TypeParts DEF IInv, LoopTypes, TimerTypes, TimersHavePeers
    <3>3. QED
      BY <3>1, <3>2
  <2>3. IInv'
    BY <1>3, <2>1, <2>2, TypeParts DEF IInv, LoopTypes, RetryTypes, FailedRetried
  <2>4. Keeps
    BY <1>4, <2>1, <2>2 DEF Pending
  <2>5. QED
    BY <2>3, <2>4
<1>6. CASE OnP2PAddrFail(p)
  <2>1. /\ UNCHANGED timers
        /\ \/ ~inRoom \/ p \notin DOMAIN peers
           \/ failed' = failed \cup {p} /\ retries' = retries + 1
        /\ \/ UNCHANGED <<failed, retries>>
           \/ failed' = failed \cup {p} /\ retries' = retries + 1
    BY <1>6 DEF OnP2PAddrFail
  <2>2. TimerTypes' /\ RetryTypes' /\ TimersHavePeers' /\ FailedRetried'
    BY <1>1, <2>1, TypeParts DEF IInv, LoopTypes, TimerTypes, RetryTypes, TimersHavePeers, FailedRetried
  <2>3. Keeps
    BY <1>4, <2>1 DEF Pending
  <2>4. QED
    BY <1>3, <2>2, <2>3
<1>7. QED
  BY <1>0, <1>5, <1>6

\* The timer of failed requests does.
LEMMA RetryTimerStep == ASSUME IInv, RetryTimer PROVE IInv' /\ Keeps
<1>1. /\ UNCHANGED <<app, peers, timers, punched, linked, links, answers, server>>
      /\ retries > 0 /\ retries' = retries - 1 /\ failed' = {}
  BY DEF RetryTimer
<1>2. wire \in Seq(Requests) /\ retries \in Nat /\ failed \subseteq Peers
  BY TypeParts DEF IInv, LinkTypes, LoopTypes, RetryTypes
<1>3. Cardinality(failed) \in Nat
  BY <1>2, ClientAssumption, FS_Subset, FS_CardinalityType
<1>4. /\ wire' \in Seq(Requests) /\ LinkBinds'
      /\ \A p \in Peers : Carried(p) => Carried(p)'
      /\ \A p \in failed : alive /\ linked => Carried(p)'
  <2>1. CASE ~linked /\ UNCHANGED wire
    BY <1>1, <1>2, <2>1 DEF IInv, LinkBinds, Carried, server
  <2>2. ASSUME NEW s \in [1 .. Cardinality(failed) -> failed],
               \A p \in failed : \E i \in DOMAIN s : s[i] = p,
               wire' = wire \o [i \in DOMAIN s |-> Ask(s[i])]
        PROVE  <1>4!:
    <3>1. DOMAIN s = 1 .. Cardinality(failed)
          /\ [i \in DOMAIN s |-> Ask(s[i])] \in [1 .. Cardinality(failed) -> Requests]
      BY <1>2, MessageKinds
    <3>2. PICK n \in Nat : n = Cardinality(failed)
      BY <1>3
    <3>3. PICK t \in [1 .. n -> Requests] : t = [i \in DOMAIN s |-> Ask(s[i])]
      BY <3>1, <3>2
    <3>4. /\ wire' \in Seq(Requests) /\ LinkBinds'
          /\ \A p \in Peers : Carried(p) => Carried(p)'
          /\ \A p \in Peers, i \in 1 .. n : alive /\ linked /\ t[i] = Ask(p) => Carried(p)'
      BY <1>1, <2>2, <3>2, <3>3, SendAllStep DEF IInv, app, server
    <3>5. ASSUME NEW p \in failed, alive, linked PROVE Carried(p)'
      <4>1. PICK i \in 1 .. n : s[i] = p
        BY <2>2, <3>1, <3>2
      <4>2. t[i] = Ask(p)
        BY <3>1, <3>2, <3>3, <4>1
      <4>3. QED
        BY <1>2, <3>4, <3>5, <4>2
    <3>6. QED
      BY <3>4, <3>5
  <2>3. QED
    BY <2>1, <2>2 DEF RetryTimer
<1>5. TypeOK'
  BY <1>1, <1>2, <1>4, TypeParts, TypePartsNext
  DEF IInv, AppTypes, LoopTypes, PeerTypes, TimerTypes, RetryTypes, EchoTypes, LinkTypes, ServerTypes, LateTyped,
      app, server
<1>6. Keeps
  BY <1>1, <1>4, PursuedParts DEF Keeps, Pending, Answered, app
<1>7. QED
  BY <1>1, <1>4, <1>5, <1>6 DEF IInv, TimersHavePeers, FailedRetried, Quiet, app

\* The timers of hole punching do.
LEMMA P2PTimerStep == ASSUME IInv, NEW p \in Peers, P2PTimer(p) PROVE IInv' /\ Keeps
<1>1. /\ UNCHANGED <<app, failed, retries, linked, links, answers, server>>
      /\ punched' = punched \cup {<<p, timers[p].phase>>}
      /\ p \in DOMAIN timers /\ p \in DOMAIN peers
  BY DEF P2PTimer, IInv, TimersHavePeers
<1>2. timers[p] \in [phase : {"LAN", "WAN"}, left : Nat] /\ EchoTypes'
  <2>1. timers[p] \in [phase : {"LAN", "WAN"}, left : Nat]
    BY <1>1, TypeParts DEF IInv, LoopTypes, TimerTypes
  <2>2. QED
    BY <1>1, <2>1, TypeParts DEF IInv, LoopTypes, EchoTypes
<1>3. ASSUME PeerTypes', TimerTypes', TimersHavePeers', wire' \in Seq(Requests), LinkBinds'
      PROVE  IInv'
  <2>1. TypeOK'
    BY <1>1, <1>2, <1>3, TypeParts, TypePartsNext
    DEF IInv, AppTypes, LoopTypes, RetryTypes, LinkTypes, ServerTypes, LateTyped, app, server
  <2>2. QED
    BY <1>1, <1>3, <2>1, TypeParts
    DEF IInv, FailedRetried, Quiet, app
<1>4. CASE UNCHANGED <<peers, wire>> /\ DOMAIN timers' = DOMAIN timers /\ TimerTypes'
  <2>1. IInv'
    BY <1>1, <1>3, <1>4, TypeParts
    DEF IInv, LoopTypes, PeerTypes, LinkTypes, LinkBinds, TimersHavePeers, app, server
  <2>2. Keeps
    BY <1>1, <1>4, PursuedParts DEF Keeps, Pending, Answered, Carried, server
  <2>3. QED
    BY <2>1, <2>2
<1>5. CASE timers' = Drop(timers, p) /\ peers' = [peers EXCEPT ![p] = "requireRelay"] /\ Send(Add(p))
  <2>1. /\ wire' \in Seq(Requests) /\ LinkBinds'
        /\ \A q \in Peers : Carried(q) => Carried(q)'
    BY <1>1, <1>5, SendStep, MessageKinds DEF IInv, app, server
  <2>2. /\ PeerTypes' /\ DOMAIN peers' = DOMAIN peers
        /\ \A q \in DOMAIN peers : peers'[q] = IF q = p THEN "requireRelay" ELSE peers[q]
    BY <1>5, TypeParts DEF IInv, LoopTypes, PeerTypes, Status
  <2>3. TimerTypes' /\ TimersHavePeers' /\ DOMAIN timers' = DOMAIN timers \ {p}
    BY <1>5, <2>2, TypeParts DEF IInv, LoopTypes, TimerTypes, TimersHavePeers, Drop
  <2>4. Keeps
    BY <1>1, <2>1, <2>2, <2>3, PursuedParts DEF Keeps, Pending, Answered
  <2>5. QED
    BY <1>3, <2>1, <2>2, <2>3, <2>4
<1>6. CASE timers' = [timers EXCEPT ![p].left = @ - 1] /\ timers[p].left > 0 /\ UNCHANGED <<peers, wire>>
  <2>1. TimerTypes' /\ DOMAIN timers' = DOMAIN timers
    BY <1>1, <1>2, <1>6, TypeParts DEF IInv, LoopTypes, TimerTypes
  <2>2. QED
    BY <1>4, <1>6, <2>1
<1>7. CASE timers' = StartTimer(p, "WAN", WanTries) /\ UNCHANGED <<peers, wire>>
  <2>1. TimerTypes' /\ DOMAIN timers' = DOMAIN timers
    BY <1>1, <1>7, Started, ClientAssumption
  <2>2. QED
    BY <1>4, <1>7, <2>1
<1>8. QED
  BY <1>5, <1>6, <1>7 DEF P2PTimer

\* The echo of a punch-hole message does.
LEMMA EchoStep ==
    ASSUME IInv, NEW p \in Peers, NEW phase \in {"LAN", "WAN"}, OnRecvPunchHoleMsg2(p, phase)
    PROVE  IInv' /\ Keeps
<1> DEFINE v == IF phase = "LAN" THEN "LAN_success" ELSE "WAN_success"
<1>1. /\ UNCHANGED <<app, failed, retries, punched, link, server>> /\ timers' = Drop(timers, p)
      /\ peers' = IF p \in DOMAIN peers THEN [peers EXCEPT ![p] = v] ELSE peers
  BY DEF OnRecvPunchHoleMsg2
<1>2. /\ PeerTypes' /\ DOMAIN peers' = DOMAIN peers
      /\ \A q \in DOMAIN peers : peers'[q] = IF q = p THEN v ELSE peers[q]
  <2>1. v \in Status /\ PeerTypes
    BY TypeParts DEF IInv, LoopTypes, Status
  <2>2. QED
    BY <1>1, <2>1 DEF PeerTypes
<1>3. TimerTypes' /\ TimersHavePeers' /\ DOMAIN timers' = DOMAIN timers \ {p}
  BY <1>1, <1>2, TypeParts DEF IInv, LoopTypes, TimerTypes, TimersHavePeers, Drop
<1>4. TypeOK'
  BY <1>1, <1>2, <1>3, TypeParts, TypePartsNext
  DEF IInv, AppTypes, LoopTypes, RetryTypes, EchoTypes, LinkTypes, ServerTypes, LateTyped, app, link, server
<1>5. Keeps
  BY <1>1, <1>2, <1>3, PursuedParts DEF Keeps, Pending, Answered, Carried, link, server
<1>6. QED
  BY <1>1, <1>2, <1>3, <1>4, <1>5 DEF IInv, FailedRetried, LinkBinds, Quiet, app, link, server

-----------------------------------------------------------------------------
(* The server and the connection.                                          *)

\* A message that the server handles does, if it answers when it is asked.
LEMMA HandledStep ==
    ASSUME IInv, NEW m \in Requests, Handle(m),
           bound => bound', m = Bind => bound', bound' \in BOOLEAN,
           forwards' \subseteq online, answers' \in Seq(Answers),
           \A p \in Peers : Answered(p) \/ (bound /\ m = Ask(p)) => Answered(p)'
    PROVE  IInv' /\ Keeps
<1>1. /\ UNCHANGED <<app, loop, linked, links, late, registered, online>>
      /\ wire' \in Seq(Requests) /\ LinkBinds'
      /\ \A p \in Peers : Carried(p) => Carried(p)' \/ (bound /\ m = Ask(p))
  BY HandleStep DEF IInv, Handle
<1>2. TypeOK'
  BY <1>1, TypeParts, TypePartsNext
  DEF IInv, AppTypes, LoopTypes, PeerTypes, TimerTypes, RetryTypes, EchoTypes, LinkTypes, ServerTypes, LateTyped, app, loop
<1>3. Keeps
  BY <1>1, PursuedParts DEF Keeps, Pending, loop
<1>4. QED
  BY <1>1, <1>2, <1>3 DEF IInv, TimersHavePeers, FailedRetried, Quiet, app, loop

\* The server does, whatever it handles.
LEMMA OnWireStep == ASSUME IInv, OnWire PROVE IInv' /\ Keeps
<1>0. answers \in Seq(Answers) /\ forwards \subseteq online /\ {bound, TRUE} \subseteq BOOLEAN
      /\ online \subseteq Peers
  BY TypeParts DEF IInv, LinkTypes, ServerTypes, LateTyped
<1>1. CASE HandleBind
  BY <1>0, <1>1, HandledStep, MessageKinds DEF HandleBind, Handle, Answered
<1>2. CASE HandleLeave
  <2>1. UNCHANGED <<answers, bound>> /\ forwards' \subseteq online /\ Handle(Leave)
    BY <1>2 DEF HandleLeave
  <2>2. Leave \in Requests /\ Leave # Bind /\ \A q \in Peers : Leave # Ask(q)
    BY DEF Requests, Leave, Bind, Ask
  <2>3. QED
    BY <1>0, <2>1, <2>2, HandledStep DEF Answered
<1>3. ASSUME NEW p \in Peers, HandleUpdate(p) PROVE IInv' /\ Keeps
  <2>1. PICK m \in {Add(p), Del(p)} : Handle(m)
    BY <1>3 DEF HandleUpdate
  <2>2. UNCHANGED <<answers, bound, online>> /\ forwards' \subseteq online
    BY <1>0, <1>3 DEF HandleUpdate, Handle
  <2>3. m \in Requests /\ m # Bind /\ \A q \in Peers : m # Ask(q)
    BY MessageKinds
  <2>4. QED
    BY <1>0, <2>1, <2>2, <2>3, HandledStep DEF Answered
<1>4. ASSUME NEW p \in Peers, HandleAsk(p) PROVE IInv' /\ Keeps
  <2> DEFINE a == [peer |-> p, success |-> p \in online]
  <2>1. /\ Handle(Ask(p)) /\ UNCHANGED <<bound, forwards>> /\ Ask(p) \in Requests /\ Ask(p) # Bind
        /\ answers' = IF bound THEN Append(answers, a) ELSE answers
    BY <1>4, MessageKinds DEF HandleAsk
  <2>2. a \in Answers /\ a.peer = p
    BY DEF Answers
  <2>3. /\ answers' \in Seq(Answers)
        /\ \A q \in Peers : Answered(q) \/ (bound /\ q = p) => Answered(q)'
    <3>1. CASE ~bound
      BY <1>0, <2>1, <3>1 DEF Answered
    <3>2. CASE bound
      <4> HIDE DEF a
      <4>1. /\ answers' \in Seq(Answers)
            /\ Len(answers) + 1 \in DOMAIN answers' /\ answers'[Len(answers) + 1] = a
            /\ \A i \in DOMAIN answers : i \in DOMAIN answers' /\ answers'[i] = answers[i]
        BY <1>0, <2>1, <2>2, <3>2, AppendElements
      <4>2. QED
        BY <2>2, <4>1 DEF Answered
    <3>3. QED
      BY <3>1, <3>2
  <2>4. \A q \in Peers : Ask(p) = Ask(q) => p = q
    BY MessageKinds
  <2>5. QED
    BY <1>0, <2>1, <2>3, <2>4, HandledStep
<1>5. QED
  BY <1>1, <1>2, <1>3, <1>4 DEF OnWire

\* What happens around the two does.
LEMMA EnvironmentStep == ASSUME IInv, Environment PROVE IInv' /\ Keeps
<1>0. UNCHANGED <<app, loop>>
  BY DEF Environment, AfterDisconnected, AfterReconnectSuccess, OnLate, NoticeClose, ThrowOut, Heartbeat,
         PeerComes, PeerGoes
<1>1. ASSUME LinkTypes', ServerTypes', LinkBinds' PROVE IInv'
  <2>1. TypeOK'
    BY <1>0, <1>1, TypeParts, TypePartsNext
    DEF IInv, AppTypes, LoopTypes, PeerTypes, TimerTypes, RetryTypes, EchoTypes, app, loop
  <2>2. QED
    BY <1>0, <1>1, <2>1 DEF IInv, TimersHavePeers, FailedRetried, Quiet, app, loop
<1>2. CASE AfterDisconnected
  <2>1. LinkTypes'
    BY <1>2, EmptySequence, TypeParts DEF IInv, LinkTypes, AfterDisconnected
  <2>2. ServerTypes'
    <3>1. late' \in [DOMAIN late' -> [wire : Seq(Requests), bound : BOOLEAN]]
      BY <1>2, OutlivesTypes DEF IInv, AfterDisconnected
    <3>2. {bound', registered'} \subseteq BOOLEAN /\ online' = online /\ forwards' = forwards
      BY <1>2, TypeParts DEF IInv, ServerTypes, LateTyped, AfterDisconnected
    <3>3. QED
      BY <3>1, <3>2, TypeParts DEF IInv, ServerTypes, LateTyped
  <2>3. QED
    BY <1>1, <1>2, <2>1, <2>2 DEF LinkBinds, Keeps, AfterDisconnected
<1>3. CASE AfterReconnectSuccess /\ wire' = Append(wire, Bind)
  <2>1. /\ ~linked /\ linked' = TRUE /\ links' = links + 1 /\ wire' = Append(wire, Bind)
        /\ UNCHANGED <<answers, server>>
    BY <1>3 DEF AfterReconnectSuccess
  <2>2. /\ wire \in Seq(Requests) /\ wire' \in Seq(Requests)
        /\ Len(wire) + 1 \in DOMAIN wire' /\ wire'[Len(wire) + 1] = Bind
        /\ \A i \in DOMAIN wire : i \in DOMAIN wire' /\ wire'[i] = wire[i]
    BY <2>1, AppendElements, MessageKinds, TypeParts DEF IInv, LinkTypes
  <2>3. LinkTypes' /\ ServerTypes' /\ LinkBinds'
    BY <2>1, <2>2, TypeParts DEF IInv, LinkTypes, ServerTypes, LateTyped, LinkBinds, server
  <2>4. ASSUME NEW p \in Peers, Carried(p) PROVE Carried(p)'
    <3>1. PICK i \in DOMAIN wire : wire[i] = Ask(p) /\ (bound \/ \E j \in 1 .. i : wire[j] = Bind)
      BY <2>4 DEF Carried
    <3>2. \A j \in 1 .. i : j \in DOMAIN wire
      BY <2>2
    <3>3. QED
      BY <2>1, <2>2, <3>1, <3>2 DEF Carried, server
  <2>5. Keeps
    BY <1>0, <2>1, <2>4, PursuedParts DEF Keeps, Pending, Answered, loop
  <2>6. QED
    BY <1>1, <2>3, <2>5
<1>11. CASE AfterReconnectSuccess /\ ~alive /\ UNCHANGED wire
  <2>1. /\ UNCHANGED <<answers, server>> /\ links' = links + 1 /\ linked' = TRUE /\ ~alive'
    BY <1>0, <1>11 DEF AfterReconnectSuccess, app
  <2>2. LinkTypes' /\ ServerTypes' /\ LinkBinds'
    BY <1>11, <2>1, TypeParts DEF IInv, LinkTypes, ServerTypes, LateTyped, LinkBinds, server
  <2>3. QED
    BY <1>1, <2>1, <2>2 DEF Keeps
<1>4. ASSUME UNCHANGED <<link, bound>>, LateTyped', registered' \in BOOLEAN,
             online' \subseteq Peers, forwards' \subseteq online'
      PROVE  IInv' /\ Keeps
  <2>1. LinkTypes' /\ ServerTypes' /\ LinkBinds'
    BY <1>0, <1>4, TypeParts DEF IInv, LinkTypes, ServerTypes, LinkBinds, app, link
  <2>2. Keeps
    BY <1>0, <1>4, PursuedParts DEF Keeps, Pending, Answered, Carried, loop, link
  <2>3. QED
    BY <1>1, <2>1, <2>2
<1>5. /\ LateTyped /\ registered \in BOOLEAN /\ online \subseteq Peers /\ forwards \subseteq online
  BY TypeParts DEF IInv, ServerTypes, LateTyped
<1>6. ASSUME NEW k \in DOMAIN late, NoticeClose(k) PROVE IInv' /\ Keeps
  <2>1. LateTyped'
    BY <1>5, <1>6 DEF NoticeClose, Drop, LateTyped
  <2>2. registered' \in BOOLEAN /\ forwards' \subseteq online' /\ UNCHANGED <<link, bound>> /\ online' \subseteq Peers
    BY <1>5, <1>6 DEF NoticeClose
  <2>3. QED
    BY <1>4, <2>1, <2>2
<1>12. ASSUME NEW k \in DOMAIN late, OnLate(k) PROVE IInv' /\ Keeps
  <2>1. late[k].wire \in Seq(Requests) /\ late[k].bound \in BOOLEAN /\ late[k].wire # <<>>
    BY <1>5, <1>12 DEF OnLate, LateTyped
  <2>2. PICK c : c = [wire |-> Tail(late[k].wire), bound |-> late[k].bound \/ Head(late[k].wire) = Bind]
    OBVIOUS
  <2>3. c \in [wire : Seq(Requests), bound : BOOLEAN]
    BY <2>1, <2>2, TailElements
  <2>4. late' = [late EXCEPT ![k] = c]
    BY <1>12, <2>2 DEF OnLate
  <2>5. LateTyped'
    BY <1>5, <2>3, <2>4 DEF LateTyped
  <2>6. registered' \in BOOLEAN /\ forwards' \subseteq online' /\ UNCHANGED <<link, bound>> /\ online' \subseteq Peers
    BY <1>5, <1>12 DEF OnLate
  <2>7. QED
    BY <1>4, <2>5, <2>6
<1>7. CASE ThrowOut
  BY <1>4, <1>5, <1>7 DEF LateTyped, ThrowOut
<1>8. CASE Heartbeat
  BY <1>4, <1>5, <1>8 DEF LateTyped, Heartbeat
<1>9. ASSUME NEW p \in Peers, PeerComes(p) \/ PeerGoes(p) PROVE IInv' /\ Keeps
  BY <1>4, <1>5, <1>9 DEF LateTyped, PeerComes, PeerGoes
<1>10. QED
  BY <1>2, <1>3, <1>6, <1>7, <1>8, <1>9, <1>11, <1>12 DEF Environment, AfterReconnectSuccess

-----------------------------------------------------------------------------
(* The last word the server has of a peer.                                 *)

\* What RelayServed says of a step.
Serves ==
    \A p \in Peers :
        Relayed(p)' /\ (Relayed(p) => Served(p)) =>
            \/ Served(p)' \/ Undone(p)
            \/ ~linked' \/ ~registered' \/ p \notin online'
            \/ \E i \in DOMAIN queue' : queue'[i] \in {Del(p), Leave}

\* The words about a peer differ from one another and from those about others.
LEMMA CommandKinds ==
    /\ \A p, q \in Peers : Ask(p) \notin {Add(q), Del(q), Leave}
    /\ \A p, q \in Peers : Add(p) \notin {Del(q), Leave} /\ (Add(p) = Add(q) => p = q)
    /\ \A p, q \in Peers : Del(p) # Leave /\ (Del(p) = Del(q) => p = q)
    /\ \A p \in Peers : Bind \notin {Add(p), Del(p), Leave}
BY DEF Bind, Leave, Ask, Add, Del

\* A step that leaves the wire and the forward of a peer alone keeps it served.
LEMMA ServedKept ==
    ASSUME NEW p \in Peers, wire' = wire, p \in forwards => p \in forwards'
    PROVE  Served(p) => Served(p)'
BY DEF Served, Commands

\* A message sent that does not take p back; if it is for p, it is the last word.
LEMMA ServedAppend ==
    ASSUME NEW p \in Peers, wire \in Seq(Requests), NEW m \in Requests,
           wire' = Append(wire, m), m \notin {Del(p), Leave}, UNCHANGED forwards
    PROVE  /\ Served(p) => Served(p)'
           /\ m = Add(p) => Served(p)'
<1>1. /\ Len(wire) \in Nat /\ DOMAIN wire = 1 .. Len(wire) /\ DOMAIN wire' = 1 .. Len(wire) + 1
      /\ wire'[Len(wire) + 1] = m
      /\ \A i \in 1 .. Len(wire) : wire'[i] = wire[i]
  OBVIOUS
<1>2. Commands(p)' = {i \in 1 .. Len(wire) + 1 : wire'[i] \in {Add(p), Del(p), Leave}}
  BY <1>1 DEF Commands
<1>3. CASE m = Add(p)
  <2>1. Len(wire) + 1 \in Commands(p)' /\ \A j \in Commands(p)' : j <= Len(wire) + 1
    BY <1>1, <1>2, <1>3
  <2>2. Served(p)'
    BY <1>1, <1>3, <2>1 DEF Served
  <2>3. QED
    BY <2>2
<1>4. CASE m # Add(p)
  <2>1. Commands(p)' = Commands(p)
    <3>1. \A i \in 1 .. Len(wire) + 1 :
             i \in Commands(p)' <=> i \in 1 .. Len(wire) /\ wire[i] \in {Add(p), Del(p), Leave}
      BY <1>1, <1>2, <1>4
    <3>2. QED
      BY <1>1, <1>2, <3>1 DEF Commands
  <2>2. \A i \in Commands(p) : wire'[i] = wire[i]
    BY <1>1 DEF Commands
  <2>3. QED
    BY <1>4, <2>1, <2>2 DEF Served
<1>5. QED
  BY <1>3, <1>4

\* Requests for addresses say nothing of forwarding.
LEMMA ServedConcat ==
    ASSUME NEW p \in Peers, wire \in Seq(Requests), NEW n \in Nat, NEW t \in [1 .. n -> Requests],
           wire' = wire \o t, \A i \in 1 .. n : t[i] \notin {Add(p), Del(p), Leave},
           UNCHANGED forwards
    PROVE  Served(p) => Served(p)'
<1>1. t \in Seq(Requests) /\ Len(t) = n
  OBVIOUS
<1>2. /\ Len(wire) \in Nat /\ DOMAIN wire = 1 .. Len(wire) /\ DOMAIN wire' = 1 .. Len(wire) + n
      /\ \A i \in 1 .. Len(wire) : wire'[i] = wire[i]
      /\ \A i \in 1 .. Len(wire) + n : i > Len(wire) => i - Len(wire) \in 1 .. n /\ wire'[i] = t[i - Len(wire)]
  <2>1. /\ Len(wire) \in Nat /\ DOMAIN wire = 1 .. Len(wire)
        /\ wire' \in Seq(Requests) /\ Len(wire') = Len(wire) + n
        /\ DOMAIN wire' = 1 .. Len(wire')
        /\ \A i \in 1 .. Len(wire) + n :
              wire'[i] = IF i <= Len(wire) THEN wire[i] ELSE t[i - Len(wire)]
    <3>1. /\ wire \o t \in Seq(Requests) /\ Len(wire \o t) = Len(wire) + n
          /\ \A i \in 1 .. Len(wire) + n :
                (wire \o t)[i] = IF i <= Len(wire) THEN wire[i] ELSE t[i - Len(wire)]
      BY <1>1, ConcatProperties
    <3>2. wire' \in Seq(Requests)
      BY <3>1
    <3>3. Len(wire) \in Nat /\ DOMAIN wire = 1 .. Len(wire) /\ DOMAIN wire' = 1 .. Len(wire')
      BY <3>2
    <3>4. QED
      BY <3>1, <3>2, <3>3
  <2>2. \A i \in 1 .. Len(wire) : i \in 1 .. Len(wire) + n /\ i <= Len(wire)
    BY <2>1
  <2>3. \A i \in 1 .. Len(wire) + n : i > Len(wire) => ~(i <= Len(wire)) /\ i - Len(wire) \in 1 .. n
    BY <2>1
  <2>4. QED
    BY <2>1, <2>2, <2>3
<1>3. Commands(p)' = Commands(p)
  <2>1. \A i : i \in Commands(p)' <=> i \in 1 .. Len(wire) + n /\ wire'[i] \in {Add(p), Del(p), Leave}
    BY <1>2 DEF Commands
  <2>2. \A i \in 1 .. Len(wire) + n : i \in 1 .. Len(wire) \/ i > Len(wire)
    BY <1>2
  <2>3. \A i \in 1 .. Len(wire) : i \in 1 .. Len(wire) + n
    BY <1>2
  <2>4. \A i : i \in Commands(p)' <=> i \in 1 .. Len(wire) /\ wire[i] \in {Add(p), Del(p), Leave}
    BY <1>2, <2>1, <2>2, <2>3
  <2>5. QED
    BY <1>2, <2>4 DEF Commands
<1>4. \A i \in Commands(p) : wire'[i] = wire[i]
  BY <1>2 DEF Commands
<1>5. QED
  BY <1>3, <1>4 DEF Served

\* The server handles the first message; if that is the last word it has of p, it
\* does what it says.
LEMMA ServedHandle ==
    ASSUME NEW p \in Peers, wire \in Seq(Requests), wire # <<>>, wire' = Tail(wire),
           Head(wire) \notin {Add(p), Del(p), Leave} => (p \in forwards => p \in forwards'),
           Served(p)
    PROVE  Served(p)' \/ (Head(wire) = Add(p) /\ (p \in forwards' => Served(p)'))
<1>1. /\ Len(wire) \in Nat \ {0} /\ Head(wire) = wire[1]
      /\ DOMAIN wire = 1 .. Len(wire) /\ DOMAIN wire' = 1 .. Len(wire) - 1
      /\ \A i \in 1 .. Len(wire) - 1 : wire'[i] = wire[i + 1]
  OBVIOUS
<1>2. \A i : i \in Commands(p)' <=> i \in 1 .. Len(wire) - 1 /\ wire[i + 1] \in {Add(p), Del(p), Leave}
  BY <1>1 DEF Commands
<1>3. \A i : i \in Commands(p) <=> i \in 1 .. Len(wire) /\ wire[i] \in {Add(p), Del(p), Leave}
  BY <1>1 DEF Commands
<1>4. \A j \in Commands(p)' : j \in Nat /\ j + 1 \in Commands(p)
  BY <1>1, <1>2, <1>3
<1>5. CASE Commands(p) = {}
  <2>1. Commands(p)' = {} /\ wire[1] \notin {Add(p), Del(p), Leave}
    BY <1>1, <1>3, <1>4, <1>5
  <2>2. QED
    BY <1>1, <1>5, <2>1 DEF Served
<1>6. CASE Commands(p) # {}
  <2>1. PICK i \in Commands(p) : wire[i] = Add(p) /\ \A j \in Commands(p) : j <= i
    BY <1>6 DEF Served
  <2>2. i \in 1 .. Len(wire)
    BY <1>3
  <2>3. CASE i = 1
    <3>1. Commands(p)' = {}
      BY <1>4, <2>1, <2>3, <1>2
    <3>2. QED
      BY <1>1, <2>1, <2>3, <3>1 DEF Served
  <2>4. CASE i # 1
    <3>1. i - 1 \in 1 .. Len(wire) - 1 /\ wire'[i - 1] = Add(p)
      BY <1>1, <2>1, <2>2, <2>4
    <3>2. i - 1 \in Commands(p)'
      BY <1>2, <2>1, <2>2, <3>1
    <3>3. \A j \in Commands(p)' : j <= i - 1
      BY <1>4, <2>1, <2>2
    <3>4. QED
      BY <3>1, <3>2, <3>3 DEF Served
  <2>5. QED
    BY <2>3, <2>4
<1>7. QED
  BY <1>5, <1>6

\* What the application sends or the timers ask for, while no peer changes.
LEMMA ServesSend ==
    ASSUME IInv, NEW m \in Requests, Send(m), UNCHANGED <<peers, forwards, linked>>,
           \A p \in Peers : m \in {Del(p), Leave} =>
              \E i \in DOMAIN queue' : queue'[i] \in {Del(p), Leave}
    PROVE  Serves
<1>1. SUFFICES ASSUME NEW p \in Peers, Served(p), m \notin {Del(p), Leave}
               PROVE  Served(p)'
  BY DEF Serves, Relayed
<1>2. CASE ~linked /\ UNCHANGED wire
  BY <1>1, <1>2, ServedKept
<1>3. CASE wire' = Append(wire, m)
  BY <1>1, <1>3, ServedAppend, TypeParts DEF IInv, LinkTypes
<1>4. QED
  BY <1>2, <1>3 DEF Send

\* A peer that begins to need the relay is sent to the server in the same step.
LEMMA ServesRelay ==
    ASSUME IInv, NEW p \in Peers, NEW m \in {Ask(p), Add(p)}, Send(m),
           UNCHANGED <<forwards, linked>>,
           \A q \in Peers \ {p} : Relayed(q)' => Relayed(q),
           Relayed(p)' => m = Add(p)
    PROVE  Serves
<1>1. SUFFICES ASSUME NEW q \in Peers, Relayed(q)', Relayed(q) => Served(q), linked
               PROVE  Served(q)'
  BY DEF Serves
<1>2. wire' = Append(wire, m) /\ wire \in Seq(Requests) /\ m \in Requests
  BY <1>1, MessageKinds, TypeParts DEF IInv, LinkTypes, Send
<1>3. m \notin {Del(q), Leave}
  BY CommandKinds
<1>4. CASE q = p
  BY <1>1, <1>2, <1>3, <1>4, ServedAppend
<1>5. CASE q # p
  BY <1>1, <1>2, <1>3, <1>5, ServedAppend
<1>6. QED
  BY <1>4, <1>5

\* The application's calls leave no earlier word as the last.
LEMMA AppServes == ASSUME IInv, App PROVE Serves
<1>0. queue \in Seq(Messages) /\ \A p \in Peers : {Add(p), Del(p), Leave} \subseteq Messages
  BY TypeParts DEF IInv, AppTypes, Messages
<1>1. CASE SetP2PTransmit \/ Logout \/ \E p \in Peers : AddGroupClientNode(p)
  <2>1. UNCHANGED <<peers, wire, forwards>>
    BY <1>1 DEF SetP2PTransmit, Logout, AddGroupClientNode, loop, link, server
  <2>2. QED
    BY <2>1, ServedKept DEF Serves, Relayed
<1>2. CASE Login \/ LoopEnds \/ Dies
  <2>1. DOMAIN peers' = {}
    BY <1>2 DEF Login, LoopEnds, Dies, Cleared, IInv, Quiet, loop
  <2>2. QED
    BY <2>1 DEF Serves, Relayed
<1>3. ASSUME NEW p \in Peers, RemoveGroupClientNode(p) PROVE Serves
  <2>1. /\ Send(Del(p)) /\ queue' = Append(queue, Del(p)) /\ UNCHANGED <<peers, forwards, linked>>
    BY <1>3 DEF RemoveGroupClientNode, loop, server
  <2>2. \E i \in DOMAIN queue' : queue'[i] = Del(p)
    BY <1>0, <2>1, AppendElements
  <2>3. Del(p) \in Requests /\ \A q \in Peers : Del(p) \in {Del(q), Leave} => q = p
    BY CommandKinds, MessageKinds
  <2>4. QED
    BY <2>1, <2>2, <2>3, ServesSend
<1>4. CASE ClearGroupClientList
  <2>1. /\ Send(Leave) /\ queue' = Append(queue, Leave) /\ UNCHANGED <<peers, forwards, linked>>
    BY <1>4 DEF ClearGroupClientList, loop, server
  <2>2. \E i \in DOMAIN queue' : queue'[i] = Leave
    <3>1. Leave \in Messages
      BY DEF Messages
    <3>2. QED
      BY <1>0, <2>1, <3>1, AppendElements
  <2>3. Leave \in Requests
    BY MessageKinds
  <2>4. QED
    BY <2>1, <2>2, <2>3, ServesSend
<1>5. QED
  BY <1>1, <1>2, <1>3, <1>4 DEF App

\* Neither do the messages of the application's thread.
LEMMA OnQueueServes == ASSUME IInv, OnQueue PROVE Serves
<1>1. ASSUME NEW p \in Peers, OnReqAddForwardNode(p) PROVE Serves
  <2>1. UNCHANGED <<forwards, linked>>
    BY <1>1 DEF OnReqAddForwardNode, server
  <2>2. CASE UNCHANGED <<peers, wire>>
    BY <2>1, <2>2, ServedKept DEF Serves, Relayed
  <2>3. ASSUME NEW v \in Status, peers' = Put(peers, p, v), p \notin DOMAIN peers,
               NEW m \in {Ask(p), Add(p)}, Send(m), v = "requireRelay" => m = Add(p)
        PROVE  Serves
    <3>1. /\ peers'[p] = v
          /\ \A q \in DOMAIN peers' \ {p} : q \in DOMAIN peers /\ peers'[q] = peers[q]
      BY <2>3 DEF Put
    <3>2. QED
      BY <2>1, <2>3, <3>1, ServesRelay DEF Relayed
  <2>4. CASE p \notin DOMAIN peers /\ peers' = Put(peers, p, "pending") /\ Send(Ask(p))
    <3>1. "pending" \in Status /\ "pending" # "requireRelay"
      BY DEF Status
    <3>2. QED
      BY <2>3, <2>4, <3>1
  <2>5. CASE p \notin DOMAIN peers /\ peers' = Put(peers, p, "requireRelay") /\ Send(Add(p))
    <3>1. "requireRelay" \in Status
      BY DEF Status
    <3>2. QED
      BY <2>3, <2>5, <3>1
  <2>6. QED
    BY <1>1, <2>2, <2>4, <2>5 DEF OnReqAddForwardNode
<1>2. ASSUME NEW p \in Peers, OnReqRemoveForwardNode(p) PROVE Serves
  <2>1. /\ UNCHANGED <<wire, forwards>>
        /\ \A q \in DOMAIN peers' : q \in DOMAIN peers /\ peers'[q] = peers[q]
    BY <1>2 DEF OnReqRemoveForwardNode, Drop, link, server
  <2>2. QED
    BY <2>1, ServedKept DEF Serves, Relayed
<1>3. CASE OnReqLeaveRoom
  <2>1. DOMAIN peers' = {}
    BY <1>3 DEF OnReqLeaveRoom
  <2>2. QED
    BY <2>1 DEF Serves, Relayed
<1>4. QED
  BY <1>1, <1>2, <1>3 DEF OnQueue

\* Neither do answers and repeated requests.
LEMMA LoopServes ==
    ASSUME IInv, OnAnswer \/ RetryTimer
    PROVE  Serves
<1>1. UNCHANGED <<peers, forwards, linked>>
  BY DEF OnAnswer, OnP2PAddr, OnP2PAddrFail, RetryTimer, server
<1>2. CASE UNCHANGED wire
  BY <1>1, <1>2, ServedKept DEF Serves, Relayed
<1>3. ASSUME NEW s \in [1 .. Cardinality(failed) -> failed],
             wire' = wire \o [i \in DOMAIN s |-> Ask(s[i])]
      PROVE  Serves
  <2>1. wire \in Seq(Requests) /\ failed \subseteq Peers
    BY TypeParts DEF IInv, LinkTypes, LoopTypes, RetryTypes
  <2>2. PICK n \in Nat : n = Cardinality(failed)
    BY <2>1, ClientAssumption, FS_Subset, FS_CardinalityType
  <2>3. DOMAIN s = 1 .. n
    BY <2>2
  <2>4. PICK t \in [1 .. n -> Requests] : t = [i \in DOMAIN s |-> Ask(s[i])]
    BY <2>1, <2>2, <2>3, MessageKinds
  <2>5. \A p \in Peers, i \in 1 .. n : t[i] \notin {Add(p), Del(p), Leave}
    <3>1. \A i \in 1 .. n : s[i] \in Peers /\ t[i] = Ask(s[i])
      BY <2>1, <2>2, <2>3, <2>4
    <3>2. QED
      BY <3>1, CommandKinds
  <2>6. \A p \in Peers : Served(p) => Served(p)'
    BY <1>1, <1>3, <2>1, <2>4, <2>5, ServedConcat
  <2>7. QED
    BY <1>1, <2>6 DEF Serves, Relayed
<1>4. QED
  BY <1>2, <1>3 DEF OnAnswer, OnP2PAddr, OnP2PAddrFail, RetryTimer

\* Neither do hole punching and its end.
LEMMA PunchServes ==
    ASSUME IInv, NEW p \in Peers,
           P2PTimer(p) \/ \E phase \in {"LAN", "WAN"} : OnRecvPunchHoleMsg2(p, phase)
    PROVE  Serves
<1>1. UNCHANGED <<forwards, linked>>
  BY DEF P2PTimer, OnRecvPunchHoleMsg2, link, server
<1>2. CASE UNCHANGED <<peers, wire>>
  BY <1>1, <1>2, ServedKept DEF Serves, Relayed
<1>3. CASE peers' = [peers EXCEPT ![p] = "requireRelay"] /\ Send(Add(p))
  <2>1. \A q \in DOMAIN peers' \ {p} : q \in DOMAIN peers /\ peers'[q] = peers[q]
    BY <1>3
  <2>2. QED
    BY <1>1, <1>3, <2>1, ServesRelay DEF Relayed
<1>4. ASSUME NEW phase \in {"LAN", "WAN"}, OnRecvPunchHoleMsg2(p, phase) PROVE Serves
  <2>1. /\ UNCHANGED wire
        /\ \A q \in DOMAIN peers' : q \in DOMAIN peers /\ (peers'[q] = "requireRelay" => peers'[q] = peers[q])
    BY <1>4 DEF OnRecvPunchHoleMsg2, link
  <2>2. QED
    BY <1>1, <2>1, ServedKept DEF Serves, Relayed
<1>5. QED
  BY <1>2, <1>3, <1>4 DEF P2PTimer

\* The server does what the words say.
LEMMA OnWireServes == ASSUME IInv, OnWire PROVE Serves
<1>1. /\ wire # <<>> /\ wire' = Tail(wire) /\ wire \in Seq(Requests)
      /\ UNCHANGED <<peers, linked, registered, online>>
  BY TypeParts DEF IInv, LinkTypes, OnWire, HandleBind, HandleLeave, HandleAsk, HandleUpdate, Handle, loop
<1>2. SUFFICES ASSUME NEW p \in Peers, Served(p), registered, p \in online
               PROVE  Served(p)'
  BY <1>1 DEF Serves, Relayed
<1>3. CASE Head(wire) = Add(p)
  <2>1. \A q \in Peers : Handle(Add(q)) => q = p
    BY <1>3, CommandKinds DEF Handle
  <2>2. ~Handle(Bind) /\ ~Handle(Leave) /\ \A q \in Peers : ~Handle(Ask(q)) /\ ~Handle(Del(q))
    BY <1>3, CommandKinds DEF Handle
  <2>3. p \in forwards'
    BY <1>2, <2>1, <2>2 DEF OnWire, HandleBind, HandleLeave, HandleAsk, HandleUpdate
  <2>4. QED
    BY <1>1, <1>2, <1>3, <2>3, ServedHandle
<1>4. CASE Head(wire) # Add(p)
  <2>1. Head(wire) \notin {Del(p), Leave} => (p \in forwards => p \in forwards')
    BY <1>4 DEF OnWire, HandleBind, HandleLeave, HandleAsk, HandleUpdate, Handle
  <2>2. QED
    BY <1>1, <1>2, <1>4, <2>1, ServedHandle
<1>5. QED
  BY <1>3, <1>4

\* What happens around the two takes no word back, or ends the connection.
LEMMA EnvironmentServes == ASSUME IInv, Environment PROVE Serves
<1>0. UNCHANGED peers
  BY DEF Environment, AfterDisconnected, AfterReconnectSuccess, OnLate, NoticeClose, ThrowOut, Heartbeat,
         PeerComes, PeerGoes, loop
<1>1. CASE AfterDisconnected \/ ThrowOut
  BY <1>1 DEF AfterDisconnected, ThrowOut, Serves
<1>2. CASE AfterReconnectSuccess
  <2>1. /\ wire' = wire \/ wire' = Append(wire, Bind)
        /\ UNCHANGED forwards /\ wire \in Seq(Requests)
    BY <1>2, TypeParts DEF AfterReconnectSuccess, IInv, LinkTypes, server
  <2>2. \A p \in Peers : Served(p) => Served(p)'
    BY <2>1, ServedKept, ServedAppend, CommandKinds, MessageKinds
  <2>3. QED
    BY <1>0, <2>2 DEF Serves, Relayed
<1>5. ASSUME NEW k \in DOMAIN late, NoticeClose(k) PROVE Serves
  <2>1. UNCHANGED wire /\ (UNCHANGED forwards \/ ~registered')
    BY <1>5 DEF NoticeClose, link
  <2>2. QED
    BY <1>0, <2>1, ServedKept DEF Serves, Relayed
<1>6. ASSUME NEW k \in DOMAIN late, OnLate(k) PROVE Serves
  <2>1. /\ late[k].wire # <<>> /\ UNCHANGED <<wire, online>>
        /\ forwards' = IF Head(late[k].wire) = Leave THEN {}
                       ELSE (forwards \ {p \in Peers : Head(late[k].wire) = Del(p)})
                            \cup {p \in online : Head(late[k].wire) = Add(p) /\ registered}
    BY <1>6 DEF OnLate, link
  <2>2. k \in DOMAIN late' /\ late'[k].wire = Tail(late[k].wire)
    BY <1>6, TypeParts DEF OnLate, IInv, ServerTypes, LateTyped
  <2>3. \A p \in Peers : Head(late[k].wire) \in {Del(p), Leave} => Undone(p)
    BY <2>1, <2>2 DEF Undone
  <2>4. \A p \in Peers : Head(late[k].wire) \notin {Del(p), Leave} /\ p \in forwards => p \in forwards'
    BY <2>1
  <2>5. QED
    BY <1>0, <2>1, <2>3, <2>4, ServedKept DEF Serves, Relayed
<1>3. ASSUME Heartbeat \/ \E p \in Peers : PeerComes(p) \/ PeerGoes(p) PROVE Serves
  <2>1. UNCHANGED wire /\ \A p \in Peers : p \in forwards => p \in forwards' \/ p \notin online'
    BY <1>3 DEF Heartbeat, PeerComes, PeerGoes, link
  <2>2. QED
    BY <1>0, <2>1, ServedKept DEF Serves, Relayed
<1>4. QED
  BY <1>1, <1>2, <1>3, <1>5, <1>6 DEF Environment

\* No step leaves a relayed peer without its forward.
LEMMA NextServes == ASSUME IInv, Next PROVE Serves
BY AppServes, OnQueueServes, LoopServes, PunchServes, OnWireServes, EnvironmentServes DEF Next

-----------------------------------------------------------------------------
(* The theorems.                                                           *)

\* Every step preserves the invariant, and pending peers stay pursued.
LEMMA NextStep == ASSUME IInv, Next PROVE IInv' /\ Keeps
BY AppStep, OnQueueStep, OnAnswerStep, OnWireStep, EnvironmentStep, RetryTimerStep, P2PTimerStep, EchoStep
DEF Next

\* The invariant of the client holds.
LEMMA Invariance == Spec => []IInv
<1>1. Init => IInv
  <2> SUFFICES ASSUME Init PROVE IInv
    OBVIOUS
  <2>1. AppTypes /\ LinkTypes
    <3>1. queue \in Seq(Messages) /\ wire \in Seq(Requests) /\ answers \in Seq(Answers)
      BY EmptySequence DEF Init
    <3>2. QED
      BY <3>1 DEF Init, AppTypes, LinkTypes
  <2>2. LoopTypes /\ ServerTypes
    <3>1. PeerTypes /\ TimerTypes
      BY DEF Init, PeerTypes, TimerTypes
    <3>2. RetryTypes /\ EchoTypes
      BY DEF Init, RetryTypes, EchoTypes
    <3>3. ServerTypes
      <4>1. LateTyped
        BY DEF Init, LateTyped
      <4>2. QED
        BY <4>1 DEF Init, ServerTypes
    <3>4. QED
      BY <3>1, <3>2, <3>3 DEF LoopTypes
  <2>3. TimersHavePeers /\ FailedRetried /\ LinkBinds /\ Quiet
    BY DEF Init, TimersHavePeers, FailedRetried, LinkBinds, Quiet
  <2>4. QED
    BY <2>1, <2>2, <2>3, TypeParts DEF IInv
<1>2. ASSUME IInv, UNCHANGED cvars PROVE IInv'
  BY <1>2, TypeParts, TypePartsNext
  DEF IInv, AppTypes, LoopTypes, PeerTypes, TimerTypes, RetryTypes, EchoTypes, LinkTypes, ServerTypes, LateTyped,
      TimersHavePeers, FailedRetried, LinkBinds, Quiet, cvars, app, loop, link, server
<1>3. IInv /\ [Next]_cvars => IInv'
  BY <1>2, NextStep
<1>4. QED
  BY <1>1, <1>3, PTL DEF Spec

\* The variables of the client and of the connection keep their types, for any
\* number of peers, calls, retries and connections.
THEOREM ClientTypeCorrect == Spec => []TypeOK
BY Invariance, PTL DEF IInv

\* A timer of hole punching never outlives its peer: P2PTimer finds the peer it
\* was started for, whatever calls, late answers and late echoes come between.
THEOREM TimersOwned == Spec => []TimersHavePeers
BY Invariance, PTL DEF IInv

\* A request that failed always has a timer to repeat it, however many peers share
\* the set and however many timers run.
THEOREM FailedHaveTimer == Spec => []FailedRetried
BY Invariance, PTL DEF IInv

\* As long as the login and the connection stand and the room is not left, a peer that waits for
\* a decision has a request, an answer, a timer or a retry that will bring it.
THEOREM PendingStaysPursued == Spec => PendingPursued
<1> DEFINE Keep == \A p \in Peers :
                     Pending(p)' /\ (Pending(p) => Pursued(p)) => Pursued(p)' \/ ~linked' \/ ~alive' \/ ~inRoom
<1>1. ASSUME IInv, Next PROVE Keep
  BY <1>1, NextStep DEF Keeps
<1>2. IInv /\ [Next]_cvars => [Keep]_cvars
  BY <1>1
<1>3. QED
  BY Invariance, <1>2, PTL DEF Spec, PendingPursued

\* A peer that needs the relay is forwarded to, or the last the server is told of it
\* on this connection is to forward, until the application takes it back: the loop
\* thread's timers and the calls, which write to the connection by turns, never leave
\* the server with an earlier word of this connection.  A word of an earlier one is the
\* only thing that does, in the step in which the server handles it.
THEOREM RelayedAreServed == Spec => RelayServed
<1> DEFINE Serve == \A p \in Peers :
                      Relayed(p)' /\ (Relayed(p) => Served(p)) =>
                          \/ Served(p)' \/ Undone(p)
                          \/ ~linked' \/ ~registered' \/ p \notin online'
                          \/ \E i \in DOMAIN queue' : queue'[i] \in {Del(p), Leave}
<1>1. ASSUME IInv, Next PROVE Serve
  BY <1>1, NextServes DEF Serves
<1>2. IInv /\ [Next]_cvars => [Serve]_cvars
  BY <1>1
<1>3. QED
  BY Invariance, <1>2, PTL DEF Spec, RelayServed

=============================================================================
