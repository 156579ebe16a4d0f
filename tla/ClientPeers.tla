----------------------------- MODULE ClientPeers -----------------------------
(***************************************************************************)
(* The client network module: the peers a client wants to talk to, and how *)
(* it finds out for each whether media goes to it directly, on the local   *)
(* network or through a hole in the NAT, or through the relay server.      *)
(*                                                                         *)
(* The application calls from its own thread.  A call sends to the server  *)
(* on the spot and leaves a message for the loop thread, which owns the    *)
(* peers and the timers.  Datagrams are lost, repeated and late; the TCP   *)
(* connection keeps the order until it is lost.  The relay server appears  *)
(* as what it holds of this client.                                        *)
(***************************************************************************)
EXTENDS Integers, Sequences, FiniteSets

CONSTANTS
    Peers,    \* the users this client may add
    LanTries, \* how often the LAN timer repeats (4)
    WanTries, \* how often the WAN timer repeats (10)
    MaxBusy,  \* bounds what is under way when the application calls
    MaxRetry, \* bounds the timers of failed requests, which two peers multiply
    MaxLinks  \* bounds the number of connections

ASSUME ClientAssumption ==
    /\ IsFiniteSet(Peers)
    /\ {LanTries, WanTries, MaxBusy, MaxRetry, MaxLinks} \subseteq Nat

VARIABLES
    alive,      \* m_pTcpClient is set
    running,    \* the loop thread runs
    inRoom,     \* m_bInRoom
    enableP2P,  \* m_bEnableP2P
    queue,      \* the messages of the application to the loop thread
    peers,      \* m_mapPeerClientCtx: the status of each peer
    timers,     \* m_mapP2PTimer: the phase and the repeats left of each timer
    failed,     \* m_setFailRequest
    retries,    \* the number of one second timers of failed requests
    punched,    \* the punch-hole messages sent: an echo of them may come
    linked,     \* the TCP connection stands
    links,      \* how many connections there have been
    wire,       \* what has been sent to the server on the connection
    answers,    \* the address answers on their way back
    bound,      \* the server has bound this connection to the user
    late,       \* earlier connections whose end the server has still to notice: what it
                \* may still handle of each, and whether it is bound
    registered, \* the user is in the server's forwarding table
    online,     \* the peers that are in the server's forwarding table
    forwards    \* the peers the server forwards the user's media to

app == <<alive, running, inRoom, enableP2P, queue>>
loop == <<peers, timers, failed, retries, punched>>
link == <<linked, links, wire, answers>>
server == <<bound, late, registered, online, forwards>>
cvars == <<app, loop, link, server>>

Ask(p) == [op |-> "ask", peer |-> p]
Add(p) == [op |-> "add", peer |-> p]
Del(p) == [op |-> "del", peer |-> p]
Bind == [op |-> "bind"]
Leave == [op |-> "leave"]

Put(f, k, v) == [x \in DOMAIN f \cup {k} |-> IF x = k THEN v ELSE f[x]]
Drop(f, k) == [x \in DOMAIN f \ {k} |-> f[x]]

Init ==
    /\ alive = FALSE /\ running = FALSE /\ inRoom = FALSE /\ enableP2P = TRUE
    /\ queue = <<>>
    /\ peers = <<>> /\ timers = <<>>
    /\ failed = {} /\ retries = 0 /\ punched = {}
    /\ linked = FALSE /\ links = 0
    /\ wire = <<>> /\ answers = <<>>
    /\ bound = FALSE /\ late = <<>>
    /\ registered = FALSE /\ online = {} /\ forwards = {}

\* What is sent while there is no connection is lost, or, if it is written while the
\* next attempt is pending, goes out ahead of everything else on the new connection.
Send(m) ==
    \/ wire' = Append(wire, m)
    \/ ~linked /\ UNCHANGED wire

-----------------------------------------------------------------------------
(* The application's thread.                                               *)

\* The application has logged in; the model's bound on what its calls set going.
Calls ==
    /\ alive
    /\ Len(queue) + Len(wire) + Len(answers) + retries + Cardinality(DOMAIN timers)
          + Cardinality(UNION {{k} \X DOMAIN late[k].wire : k \in DOMAIN late}) < MaxBusy

\* The pointer to the TCP module is cleared first.  Its destructor then waits for the
\* loop thread, which goes on meanwhile.
Logout ==
    /\ alive
    /\ alive' = FALSE
    /\ UNCHANGED <<running, inRoom, enableP2P, queue, loop, link, server>>

\* A connection that ends does not call back what was sent on it: the server still
\* handles all of it or a part, on the old connection.
Outlives == Put(late, links, [wire |-> wire, bound |-> bound])

\* What the modules hold goes with them.
Cleared ==
    /\ ~alive /\ running
    /\ running' = FALSE
    /\ queue' = <<>> /\ peers' = <<>> /\ timers' = <<>>
    /\ failed' = {} /\ retries' = 0 /\ punched' = {}
    /\ linked' = FALSE /\ wire' = <<>> /\ answers' = <<>>
    /\ bound' = FALSE /\ late' = IF linked THEN Outlives ELSE late
    /\ UNCHANGED <<alive, enableP2P, links, registered, online, forwards>>

LoopEnds == Cleared /\ UNCHANGED inRoom

\* The loop thread is about to use the TCP module.
UsesModule ==
    \/ queue # <<>> /\ Head(queue) \in {Add(p) : p \in Peers \ DOMAIN peers}
    \/ \E p \in DOMAIN timers : timers[p] = [phase |-> "WAN", left |-> 0]
    \/ answers # <<>> /\ ~Head(answers).success
    \/ retries > 0

\* With the pointer cleared and the module half destroyed that is undefined: it goes
\* well, as the other actions have it, or the process dies.
Dies == UsesModule /\ Cleared /\ inRoom' = FALSE

\* A login that succeeds: it binds the connection and waits for the server's
\* acknowledgement of the UDP login.  One that fails logs out again.
Login ==
    /\ ~alive /\ ~running /\ links < MaxLinks
    /\ alive' = TRUE /\ running' = TRUE /\ enableP2P' = TRUE
    /\ linked' = TRUE /\ links' = links + 1
    /\ wire' = <<Bind>>
    /\ registered' = TRUE
    /\ UNCHANGED <<inRoom, queue, loop, answers, bound, late, online, forwards>>

AddGroupClientNode(p) ==
    /\ Calls
    /\ inRoom' = TRUE
    /\ queue' = Append(queue, Add(p))
    /\ UNCHANGED <<alive, running, enableP2P, loop, link, server>>

\* The loop thread may be several messages behind: the server is told first.
RemoveGroupClientNode(p) ==
    /\ Calls
    /\ Send(Del(p))
    /\ queue' = Append(queue, Del(p))
    /\ UNCHANGED <<alive, running, inRoom, enableP2P, loop, linked, links, answers, server>>

\* The call then waits for m_bInRoom, a second at most: it may return while its
\* message is still queued.
ClearGroupClientList ==
    /\ Calls
    /\ Send(Leave)
    /\ queue' = Append(queue, Leave)
    /\ UNCHANGED <<alive, running, inRoom, enableP2P, loop, linked, links, answers, server>>

SetP2PTransmit ==
    /\ alive
    /\ enableP2P' = ~enableP2P
    /\ UNCHANGED <<alive, running, inRoom, queue, loop, link, server>>

-----------------------------------------------------------------------------
(* The loop thread: messages of the application.                           *)

OnReqAddForwardNode(p) ==
    /\ queue # <<>> /\ Head(queue) = Add(p)
    /\ queue' = Tail(queue)
    /\ \/ /\ p \in DOMAIN peers
          /\ UNCHANGED <<peers, wire>>
       \/ /\ p \notin DOMAIN peers /\ enableP2P
          /\ peers' = Put(peers, p, "pending")
          /\ Send(Ask(p))
       \/ /\ p \notin DOMAIN peers /\ ~enableP2P
          /\ peers' = Put(peers, p, "requireRelay")
          /\ Send(Add(p))
    /\ UNCHANGED <<alive, running, inRoom, enableP2P, timers, failed, retries, punched,
                   linked, links, answers, server>>

\* A slip: the timer of the peer goes on.
RemoveKeepsTimer(p) ==
    /\ queue # <<>> /\ Head(queue) = Del(p)
    /\ queue' = Tail(queue)
    /\ peers' = Drop(peers, p)
    /\ UNCHANGED <<alive, running, inRoom, enableP2P, timers, failed, retries, punched, link, server>>

OnReqRemoveForwardNode(p) ==
    /\ queue # <<>> /\ Head(queue) = Del(p)
    /\ queue' = Tail(queue)
    /\ peers' = Drop(peers, p)
    /\ timers' = Drop(timers, p)
    /\ UNCHANGED <<alive, running, inRoom, enableP2P, failed, retries, punched, link, server>>

OnReqLeaveRoom ==
    /\ queue # <<>> /\ Head(queue) = Leave
    /\ queue' = Tail(queue)
    /\ peers' = <<>> /\ timers' = <<>>
    /\ inRoom' = FALSE
    /\ UNCHANGED <<alive, running, enableP2P, failed, retries, punched, link, server>>

-----------------------------------------------------------------------------
(* The loop thread: answers, timers and datagrams.                         *)

\* A timer takes the place of the one the peer has.
StartTimer(p, phase, tries) == Put(timers, p, [phase |-> phase, left |-> tries])

\* The server knows the address: the peer is tried on the local network.
OnP2PAddr(p) ==
    /\ answers # <<>> /\ Head(answers) = [peer |-> p, success |-> TRUE]
    /\ answers' = Tail(answers)
    /\ timers' = IF p \in DOMAIN peers THEN StartTimer(p, "LAN", LanTries) ELSE timers
    /\ UNCHANGED <<app, peers, failed, retries, punched, linked, links, wire, server>>

\* A slip: a request is not noted when a timer is running already.
NotesFirstOnly(p) ==
    /\ answers # <<>> /\ Head(answers) = [peer |-> p, success |-> FALSE]
    /\ answers' = Tail(answers)
    /\ \/ /\ ~inRoom \/ p \notin DOMAIN peers \/ retries > 0
          /\ UNCHANGED <<failed, retries>>
       \/ /\ inRoom /\ p \in DOMAIN peers /\ retries = 0
          /\ failed' = failed \cup {p}
          /\ retries' = retries + 1
    /\ UNCHANGED <<app, peers, timers, punched, linked, links, wire, server>>

\* The server does not: the request is repeated in a second.
OnP2PAddrFail(p) ==
    /\ answers # <<>> /\ Head(answers) = [peer |-> p, success |-> FALSE]
    /\ answers' = Tail(answers)
    /\ \/ /\ ~inRoom \/ p \notin DOMAIN peers
          /\ UNCHANGED <<failed, retries>>
       \/ /\ inRoom /\ p \in DOMAIN peers /\ retries < MaxRetry
          /\ failed' = failed \cup {p}
          /\ retries' = retries + 1
    /\ UNCHANGED <<app, peers, timers, punched, linked, links, wire, server>>

\* A slip: the requests stay noted after they were repeated.
RepeatsKeep ==
    /\ retries > 0
    /\ retries' = retries - 1
    /\ \E s \in [1 .. Cardinality(failed) -> failed] :
            /\ \A p \in failed : \E i \in DOMAIN s : s[i] = p
            /\ wire' = wire \o [i \in DOMAIN s |-> Ask(s[i])]
    /\ UNCHANGED <<app, peers, timers, failed, punched, linked, links, answers, server>>

\* Each timer repeats all the requests that have failed by then, in any order.
RetryTimer ==
    /\ retries > 0
    /\ retries' = retries - 1
    /\ failed' = {}
    /\ \/ \E s \in [1 .. Cardinality(failed) -> failed] :
            /\ \A p \in failed : \E i \in DOMAIN s : s[i] = p
            /\ wire' = wire \o [i \in DOMAIN s |-> Ask(s[i])]
       \/ ~linked /\ UNCHANGED wire
    /\ UNCHANGED <<app, peers, timers, punched, linked, links, answers, server>>

\* A slip: the server is not told that it has to forward.
FallsSilent(p) ==
    /\ p \in DOMAIN timers
    /\ punched' = punched \cup {<<p, timers[p].phase>>}
    /\ \/ /\ timers[p].phase = "LAN"
          /\ timers' = StartTimer(p, "WAN", WanTries)
          /\ UNCHANGED peers
       \/ /\ timers[p].phase = "WAN"
          /\ timers' = Drop(timers, p)
          /\ peers' = [peers EXCEPT ![p] = "requireRelay"]
    /\ UNCHANGED <<app, failed, retries, link, server>>

\* A slip: the local network is tried again after the public address.
PunchesOn(p) ==
    /\ p \in DOMAIN timers
    /\ punched' = punched \cup {<<p, timers[p].phase>>}
    /\ timers' = StartTimer(p, IF timers[p].phase = "LAN" THEN "WAN" ELSE "LAN", 0)
    /\ UNCHANGED <<app, peers, failed, retries, link, server>>

\* A punch-hole message (the peer is there: TimersHavePeers); after the last one on the
\* local network the peer is tried at its public address, and after the last one there
\* the server has to forward.
P2PTimer(p) ==
    /\ p \in DOMAIN timers
    /\ LET t == timers[p] IN
       /\ punched' = punched \cup {<<p, t.phase>>}
       /\ \/ /\ t.left > 0
             /\ timers' = [timers EXCEPT ![p].left = @ - 1]
             /\ UNCHANGED <<peers, wire>>
          \/ /\ t.left = 0 /\ t.phase = "LAN"
             /\ timers' = StartTimer(p, "WAN", WanTries)
             /\ UNCHANGED <<peers, wire>>
          \/ /\ t.left = 0 /\ t.phase = "WAN"
             /\ timers' = Drop(timers, p)
             /\ peers' = [peers EXCEPT ![p] = "requireRelay"]
             /\ Send(Add(p))
    /\ UNCHANGED <<app, failed, retries, linked, links, answers, server>>

\* The peer's echo, however late.
OnRecvPunchHoleMsg2(p, phase) ==
    /\ <<p, phase>> \in punched
    /\ timers' = Drop(timers, p)
    /\ peers' = IF p \in DOMAIN peers
                THEN [peers EXCEPT ![p] = IF phase = "LAN" THEN "LAN_success" ELSE "WAN_success"]
                ELSE peers
    /\ UNCHANGED <<app, failed, retries, punched, link, server>>

-----------------------------------------------------------------------------
(* The connection.                                                         *)

\* The answers are lost.
AfterDisconnected ==
    /\ linked /\ links < MaxLinks
    /\ linked' = FALSE
    /\ wire' = <<>> /\ answers' = <<>>
    /\ bound' = FALSE /\ late' = Outlives
    /\ UNCHANGED <<app, loop, links, registered, online, forwards>>

\* A slip: the new connection is not bound.
ReconnectsUnbound ==
    /\ alive /\ ~linked
    /\ linked' = TRUE /\ links' = links + 1
    /\ UNCHANGED <<app, loop, wire, answers, server>>

\* An object that is being destroyed may leave it unbound.
AfterReconnectSuccess ==
    /\ running /\ ~linked
    /\ linked' = TRUE /\ links' = links + 1
    /\ \/ wire' = Append(wire, Bind)
       \/ ~alive /\ UNCHANGED wire
    /\ UNCHANGED <<app, loop, answers, server>>

-----------------------------------------------------------------------------
(* The relay server, as far as this client is concerned.                   *)

Handle(m) ==
    /\ linked /\ wire # <<>> /\ Head(wire) = m
    /\ wire' = Tail(wire)
    /\ UNCHANGED <<app, loop, linked, links, late, registered, online>>

HandleBind ==
    /\ Handle(Bind)
    /\ bound' = TRUE
    /\ UNCHANGED <<answers, forwards>>

\* Only a bound connection is answered.
HandleAsk(p) ==
    /\ Handle(Ask(p))
    /\ answers' = IF bound THEN Append(answers, [peer |-> p, success |-> p \in online]) ELSE answers
    /\ UNCHANGED <<bound, forwards>>

\* A slip: nobody asks whether the peer is there.
ForwardsBlindly(p) ==
    /\ \/ Handle(Add(p)) /\ forwards' = forwards \cup {p}
       \/ Handle(Del(p)) /\ forwards' = forwards \ {p}
    /\ UNCHANGED <<answers, bound>>

HandleUpdate(p) ==
    /\ \/ /\ Handle(Add(p))
          /\ forwards' = IF registered /\ p \in online THEN forwards \cup {p} ELSE forwards
       \/ /\ Handle(Del(p))
          /\ forwards' = forwards \ {p}
    /\ UNCHANGED <<answers, bound>>

HandleLeave ==
    /\ Handle(Leave)
    /\ forwards' = {}
    /\ UNCHANGED <<answers, bound>>

\* The server handles what an earlier connection still holds, between or after the
\* messages of the next one; an answer does not arrive.
OnLate(k) ==
    /\ late[k].wire # <<>>
    /\ LET m == Head(late[k].wire) IN
       /\ late' = [late EXCEPT ![k] = [wire |-> Tail(@.wire), bound |-> @.bound \/ m = Bind]]
       /\ forwards' = IF m = Leave THEN {}
                      ELSE (forwards \ {p \in Peers : m = Del(p)})
                           \cup {p \in online : m = Add(p) /\ registered}
    /\ UNCHANGED <<app, loop, link, bound, registered, online>>

\* The rest of it is lost.  The end of a bound connection logs the user out, even one
\* who is back.
NoticeClose(k) ==
    /\ late' = Drop(late, k)
    /\ \/ late[k].bound /\ registered' = FALSE /\ forwards' = {}
       \/ ~late[k].bound /\ UNCHANGED <<registered, forwards>>
    /\ UNCHANGED <<app, loop, link, bound, online>>

\* Heartbeats went missing.
ThrowOut ==
    /\ registered
    /\ registered' = FALSE /\ forwards' = {}
    /\ UNCHANGED <<app, loop, link, bound, late, online>>

Heartbeat ==
    /\ alive /\ ~registered
    /\ registered' = TRUE
    /\ UNCHANGED <<app, loop, link, bound, late, online, forwards>>

PeerComes(p) ==
    /\ p \notin online
    /\ online' = online \cup {p}
    /\ UNCHANGED <<app, loop, link, bound, late, registered, forwards>>

PeerGoes(p) ==
    /\ p \in online
    /\ online' = online \ {p}
    /\ forwards' = forwards \ {p}
    /\ UNCHANGED <<app, loop, link, bound, late, registered>>

-----------------------------------------------------------------------------
App ==
    \/ Login \/ Logout \/ LoopEnds \/ Dies \/ ClearGroupClientList \/ SetP2PTransmit
    \/ \E p \in Peers : AddGroupClientNode(p) \/ RemoveGroupClientNode(p)

OnQueue == OnReqLeaveRoom \/ \E p \in Peers : OnReqAddForwardNode(p) \/ OnReqRemoveForwardNode(p)

OnAnswer == \E p \in Peers : OnP2PAddr(p) \/ OnP2PAddrFail(p)

OnWire == HandleBind \/ HandleLeave \/ \E p \in Peers : HandleAsk(p) \/ HandleUpdate(p)

Environment ==
    \/ AfterDisconnected \/ AfterReconnectSuccess
    \/ ThrowOut \/ Heartbeat
    \/ \E k \in DOMAIN late : OnLate(k) \/ NoticeClose(k)
    \/ \E p \in Peers : PeerComes(p) \/ PeerGoes(p)

Next ==
    \/ App \/ OnQueue \/ OnAnswer \/ OnWire \/ Environment \/ RetryTimer
    \/ \E p \in Peers : P2PTimer(p) \/ \E phase \in {"LAN", "WAN"} : OnRecvPunchHoleMsg2(p, phase)

Spec == Init /\ [][Next]_cvars

\* The loop thread and the server go on, and a reconnect succeeds in the end.
FairSpec ==
    /\ Spec
    /\ WF_cvars(OnQueue) /\ WF_cvars(OnAnswer) /\ WF_cvars(OnWire)
    /\ WF_cvars(RetryTimer) /\ WF_cvars(AfterReconnectSuccess)
    /\ \A p \in Peers : WF_cvars(P2PTimer(p))

-----------------------------------------------------------------------------
(* Properties.                                                             *)

Requests == {Bind, Leave} \cup UNION {{Ask(p), Add(p), Del(p)} : p \in Peers}
Status == {"pending", "LAN_success", "WAN_success", "requireRelay"}

\* The variables have their types.
TypeOK ==
    /\ {alive, running, inRoom, enableP2P, linked, bound, registered} \subseteq BOOLEAN
    /\ queue \in Seq({Leave} \cup {Add(p) : p \in Peers} \cup {Del(p) : p \in Peers})
    /\ DOMAIN peers \subseteq Peers /\ peers \in [DOMAIN peers -> Status]
    /\ timers \in [DOMAIN timers -> [phase : {"LAN", "WAN"}, left : Nat]]
    /\ failed \subseteq Peers /\ retries \in Nat
    /\ punched \subseteq Peers \X {"LAN", "WAN"}
    /\ links \in Nat /\ wire \in Seq(Requests)
    /\ late \in [DOMAIN late -> [wire : Seq(Requests), bound : BOOLEAN]]
    /\ answers \in Seq([peer : Peers, success : BOOLEAN])
    /\ online \subseteq Peers /\ forwards \subseteq online

\* No timer outlives its peer, whatever is removed, left or answered late: P2PTimer
\* never finds its peer gone, and the server is never asked to forward to a peer
\* that the loop thread has removed.
TimersHavePeers == DOMAIN timers \subseteq DOMAIN peers

\* A failed request is never forgotten by the timers: there is one to repeat it.
FailedRetried == failed # {} => retries > 0

Pending(p) == p \in DOMAIN peers /\ peers[p] = "pending"
Relayed(p) == p \in DOMAIN peers /\ peers[p] = "requireRelay"

\* Something is under way that will decide on the peer.
Pursued(p) ==
    \/ p \in DOMAIN timers
    \/ \E i \in DOMAIN wire : /\ wire[i] = Ask(p)
                              /\ bound \/ \E j \in 1 .. i : wire[j] = Bind
    \/ \E i \in DOMAIN answers : answers[i].peer = p
    \/ p \in failed

\* A peer that is pending is pursued from the moment it is added, through failed
\* requests, retries shared with other peers and timers that replace each other:
\* only the loss of the connection, a logout, or an answer that comes while m_bInRoom
\* is false, gives it up.
PendingPursued ==
    [][\A p \in Peers :
         Pending(p)' /\ (Pending(p) => Pursued(p)) =>
             Pursued(p)' \/ ~linked' \/ ~alive' \/ ~inRoom]_cvars

\* The last word the server has of p.
Commands(p) == {i \in DOMAIN wire : wire[i] \in {Add(p), Del(p), Leave}}
Served(p) ==
    IF Commands(p) = {} THEN p \in forwards
    ELSE \E i \in Commands(p) : wire[i] = Add(p) /\ \A j \in Commands(p) : j <= i

\* The server has just obeyed an earlier connection that took p back.
Undone(p) ==
    \E k \in DOMAIN late \cap DOMAIN late' :
        /\ late[k].wire # <<>> /\ Head(late[k].wire) \in {Del(p), Leave}
        /\ late'[k].wire = Tail(late[k].wire)

\* A peer that needs the relay is forwarded to, or will be once the server has
\* handled what was sent: the timers and the application's calls, which reach the
\* server by two threads, do not undo each other.  Nothing but a word on an earlier
\* connection that the server handles late does.
RelayServed ==
    [][\A p \in Peers :
         Relayed(p)' /\ (Relayed(p) => Served(p)) =>
             \/ Served(p)' \/ Undone(p)
             \/ ~linked' \/ ~registered' \/ p \notin online'
             \/ \E i \in DOMAIN queue' : queue'[i] \in {Del(p), Leave}]_cvars

\* A peer that is pursued and online does not stay pending.
PeerDecided == \A p \in Peers : ~<>[](Pending(p) /\ Pursued(p) /\ p \in online)

=============================================================================
