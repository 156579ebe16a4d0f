------------------------------- MODULE Master -------------------------------
(***************************************************************************)
(* The master: slaves log in over TCP and are handed out to sessions, so   *)
(* that all clients of a session meet on one slave.  The slaves' side of   *)
(* the link, which logs in again after every reconnect, is part of the     *)
(* module.  Either end of a connection may notice first that it is gone.   *)
(***************************************************************************)
EXTENDS Integers, Sequences, FiniteSets

CONSTANTS
    Slaves,     \* the slave nodes: what a slave reports as its address
    Sessions,   \* the sessions clients ask a slave for
    LocalAddrs, \* the addresses of the master that a connection can arrive at
    Whitelist,  \* m_setSlaveNodeWhitelist
    MaxConn     \* bounds the number of connections

ASSUME MasterAssumption == Whitelist \subseteq LocalAddrs /\ MaxConn \in Nat

VARIABLES
    phase,        \* how far each slave's start-up is
    link,         \* the connection of each slave as the slave sees it, or 0
    lastId,       \* s_id, the last client id handed out
    open,         \* m_mapClientsList: the connections as the master sees them
    logins,       \* login messages on their way, by connection
    slaveAddr,    \* m_mapSlaveAddr
    vectorIndex,  \* m_vectorIndex
    sessionIndex, \* m_mapSessionIndex
    answer,       \* the replies sent in the last step
    up            \* the master process lives

links == <<phase, link, lastId, open, logins>>
tables == <<slaveAddr, vectorIndex, sessionIndex>>
mvars == <<links, tables, answer, up>>

Garbage == "garbage" \* the address of no slave

Put(f, k, v) == [x \in DOMAIN f \cup {k} |-> IF x = k THEN v ELSE f[x]]
Drop(f, k) == [x \in DOMAIN f \ {k} |-> f[x]]
Elems(s) == {s[i] : i \in DOMAIN s}

Init ==
    /\ phase = [s \in Slaves |-> "start"]
    /\ link = [s \in Slaves |-> 0]
    /\ lastId = 0
    /\ open = <<>>
    /\ logins = <<>>
    /\ slaveAddr = <<>>
    /\ vectorIndex = <<>>
    /\ sessionIndex = <<>>
    /\ answer = {}
    /\ up = TRUE

-----------------------------------------------------------------------------
(* The slaves.  A slave is "alone" until its connection stands, "silent"   *)
(* when it stood too late for the login, "connected" before the login and  *)
(* "running" after it.                                                     *)

\* The slaves that will need a new connection; MaxConn leaves them one each.
Broken == {s \in Slaves : phase[s] \notin {"start", "alone"} /\ link[s] \notin DOMAIN open}
Spare == lastId + Cardinality(Broken) < MaxConn

\* A connection of s is accepted, with n login messages on it.
Accept(s, n) ==
    /\ up
    /\ lastId' = lastId + 1
    /\ \E l \in LocalAddrs : open' = Put(open, lastId + 1, [node |-> s, local |-> l])
    /\ link' = [link EXCEPT ![s] = lastId + 1]
    /\ logins' = Put(logins, lastId + 1, n)

\* The slave starts.  A first connect that is refused is not tried again.
Start(s) ==
    /\ phase[s] = "start" /\ Spare
    /\ \/ /\ phase' = [phase EXCEPT ![s] = "alone"]
          /\ UNCHANGED <<link, lastId, open, logins>>
       \/ /\ phase' = [phase EXCEPT ![s] = "connected"]
          /\ Accept(s, 0)
    /\ answer' = {}
    /\ UNCHANGED <<tables, up>>

\* A first connect that answers after the 10 s that Connect waits: nobody logs in on it.
LateConnect(s) ==
    /\ phase[s] = "alone" /\ Spare
    /\ phase' = [phase EXCEPT ![s] = "silent"]
    /\ Accept(s, 0)
    /\ answer' = {}
    /\ UNCHANGED <<tables, up>>

\* The thread that started the slave logs in; without a connection the message is lost.
LoginAsSlave(s) ==
    /\ phase[s] = "connected"
    /\ phase' = [phase EXCEPT ![s] = "running"]
    /\ logins' = IF link[s] \in DOMAIN open THEN [logins EXCEPT ![link[s]] = @ + 1] ELSE logins
    /\ answer' = {}
    /\ UNCHANGED <<link, lastId, open, tables, up>>

\* The slave's loop notices that its connection is gone.
Disconnected(s) ==
    /\ link[s] # 0
    /\ link[s] \in DOMAIN open => Spare
    /\ link' = [link EXCEPT ![s] = 0]
    /\ answer' = {}
    /\ UNCHANGED <<phase, lastId, open, logins, tables, up>>

\* A slip: the login is left to the thread that started the slave.
ReconnectsSilently(s) ==
    /\ phase[s] \in {"silent", "connected", "running"} /\ link[s] = 0
    /\ phase' = [phase EXCEPT ![s] = IF @ = "silent" THEN "running" ELSE @]
    /\ Accept(s, 0)
    /\ answer' = {}
    /\ UNCHANGED <<tables, up>>

AfterReconnectSuccess(s) ==
    /\ phase[s] \in {"silent", "connected", "running"} /\ link[s] = 0
    /\ phase' = [phase EXCEPT ![s] = IF @ = "silent" THEN "running" ELSE @]
    /\ Accept(s, 1)
    /\ answer' = {}
    /\ UNCHANGED <<tables, up>>

-----------------------------------------------------------------------------
(* The master.                                                             *)

\* A slip: a second login on a connection is taken like the first.
TakesTwice(c) ==
    /\ up /\ c \in DOMAIN open /\ logins[c] > 0
    /\ logins' = [logins EXCEPT ![c] = @ - 1]
    /\ \/ /\ open[c].local \notin Whitelist
          /\ UNCHANGED <<slaveAddr, vectorIndex>>
       \/ /\ open[c].local \in Whitelist
          /\ slaveAddr' = Put(slaveAddr, c, open[c].node)
          /\ vectorIndex' = Append(vectorIndex, c)
    /\ answer' = {}
    /\ UNCHANGED <<phase, link, lastId, open, sessionIndex, up>>

\* The login is refused, repeated or taken.  The address that is looked up in the
\* whitelist is the one the connection arrived at.
OnSlaveLoginMsg(c) ==
    /\ up /\ c \in DOMAIN open /\ logins[c] > 0
    /\ logins' = [logins EXCEPT ![c] = @ - 1]
    /\ \/ /\ open[c].local \notin Whitelist \/ c \in DOMAIN slaveAddr
          /\ UNCHANGED <<slaveAddr, vectorIndex>>
       \/ /\ open[c].local \in Whitelist /\ c \notin DOMAIN slaveAddr
          /\ slaveAddr' = Put(slaveAddr, c, open[c].node)
          /\ vectorIndex' = Append(vectorIndex, c)
    /\ answer' = {}
    /\ UNCHANGED <<phase, link, lastId, open, sessionIndex, up>>

\* A slip: what is kept for the session is the drawn position, not the id there.
KeepsPosition(q) ==
    \E i \in DOMAIN vectorIndex : sessionIndex' = Put(sessionIndex, q, i - 1)

AllocateServerToSessionId(q) ==
    \E i \in DOMAIN vectorIndex : sessionIndex' = Put(sessionIndex, q, vectorIndex[i])

\* The reply for session q.  Reading an entry that is not there is undefined: the
\* master dies or replies with whatever it finds.
Reply(q, c) ==
    \/ /\ c \in DOMAIN slaveAddr
       /\ answer' = {[session |-> q, node |-> slaveAddr[c]]}
       /\ UNCHANGED up
    \/ /\ c \notin DOMAIN slaveAddr
       /\ answer' = {[session |-> q, node |-> Garbage]}
       /\ up' \in BOOLEAN

\* A slip: a slave is drawn for every request.
DrawsAlways(q) ==
    /\ up
    /\ \/ /\ vectorIndex = <<>>
          /\ answer' = {}
          /\ UNCHANGED <<sessionIndex, up>>
       \/ /\ vectorIndex # <<>>
          /\ AllocateServerToSessionId(q)
          /\ Reply(q, sessionIndex'[q])
    /\ UNCHANGED <<links, slaveAddr, vectorIndex>>

OnReqSlaveAddrMsg(q) ==
    /\ up
    /\ \/ /\ vectorIndex = <<>>
          /\ answer' = {}
          /\ UNCHANGED <<sessionIndex, up>>
       \/ /\ vectorIndex # <<>>
          /\ \/ /\ q \in DOMAIN sessionIndex
                /\ sessionIndex[q] \in DOMAIN slaveAddr
                /\ UNCHANGED sessionIndex
             \/ /\ q \in DOMAIN sessionIndex => sessionIndex[q] \notin DOMAIN slaveAddr
                /\ AllocateServerToSessionId(q)
          /\ Reply(q, sessionIndex'[q])
    /\ UNCHANGED <<links, slaveAddr, vectorIndex>>

\* A slip: the end of a connection leaves the slave in the map.
KeepsSlave(c) ==
    /\ up /\ c \in DOMAIN open
    /\ link[open[c].node] = c => Spare
    /\ open' = Drop(open, c)
    /\ logins' = Drop(logins, c)
    /\ answer' = {}
    /\ UNCHANGED <<phase, link, lastId, tables, up>>

\* The master's end of connection c is gone: the slave closed it, or the
\* keep-alive found it dead.
CloseCB(c) ==
    /\ up /\ c \in DOMAIN open
    /\ link[open[c].node] = c => Spare
    /\ open' = Drop(open, c)
    /\ logins' = Drop(logins, c)
    /\ slaveAddr' = Drop(slaveAddr, c)
    /\ answer' = {}
    /\ UNCHANGED <<phase, link, lastId, vectorIndex, sessionIndex, up>>

Next ==
    \/ \E s \in Slaves : \/ Start(s) \/ LateConnect(s) \/ LoginAsSlave(s)
                         \/ Disconnected(s) \/ AfterReconnectSuccess(s)
    \/ \E c \in DOMAIN open : OnSlaveLoginMsg(c) \/ CloseCB(c)
    \/ \E q \in Sessions : OnReqSlaveAddrMsg(q)

Spec == Init /\ [][Next]_mvars

\* Each process goes on, a lost connection is noticed, and a reconnect succeeds in the end.
FairSpec ==
    /\ Spec
    /\ \A s \in Slaves : /\ WF_mvars(LoginAsSlave(s))
                         /\ WF_mvars(link[s] \notin DOMAIN open /\ Disconnected(s))
                         /\ WF_mvars(AfterReconnectSuccess(s))
    /\ \A c \in 1..MaxConn : WF_mvars(OnSlaveLoginMsg(c))

-----------------------------------------------------------------------------
(* Properties.                                                             *)

LinkTypes ==
    /\ phase \in [Slaves -> {"start", "alone", "silent", "connected", "running"}]
    /\ lastId \in Nat
    /\ link \in [Slaves -> 0..lastId]
    /\ DOMAIN open \subseteq 1..lastId
    /\ open \in [DOMAIN open -> [node : Slaves, local : LocalAddrs]]
    /\ logins \in [DOMAIN open -> Nat]

TableTypes ==
    /\ DOMAIN slaveAddr \subseteq 1..lastId
    /\ slaveAddr \in [DOMAIN slaveAddr -> Slaves]
    /\ vectorIndex \in Seq(1..lastId)
    /\ DOMAIN sessionIndex \subseteq Sessions
    /\ sessionIndex \in [DOMAIN sessionIndex -> 1..lastId]

\* The variables of the slaves' links and of the master's tables have their types;
\* what a session is kept with is the id of a connection.
TypeOK ==
    /\ LinkTypes
    /\ TableTypes
    /\ answer \subseteq [session : Sessions, node : Slaves \cup {Garbage}]
    /\ up \in BOOLEAN

\* The slaves handed out are those whose connection is open: CloseCB takes a
\* slave out with its connection, whatever logins were still on the way, and a
\* slave is listed with the address of the node at the other end.
RegisteredOpen ==
    \A c \in DOMAIN slaveAddr : c \in DOMAIN open /\ slaveAddr[c] = open[c].node

\* Every slave that is online can be drawn, and with the same chance as any
\* other: the list holds its id exactly once, even when the start of the slave
\* and a reconnect both log it in on one connection.
IndexCovers ==
    \A c \in DOMAIN slaveAddr : \E i \in DOMAIN vectorIndex :
        \A j \in DOMAIN vectorIndex : vectorIndex[j] = c <=> j = i

\* The clients of a session meet: while the slave of a session stays online every
\* answer for the session is that slave, whatever logins and ends of connections
\* come in between.
SessionSticks ==
    [][\A q \in DOMAIN sessionIndex :
         sessionIndex[q] \in DOMAIN slaveAddr =>
           /\ q \in DOMAIN sessionIndex' /\ sessionIndex'[q] = sessionIndex[q]
           /\ \A a \in answer' : a.session = q => a.node = slaveAddr[sessionIndex[q]]]_mvars

\* A slave that has logged in is handed out again after every loss of its
\* connection, unless it is refused or the master is gone: AfterReconnectSuccess
\* and the starting thread see to it, though each may run first.
SlaveReturns ==
    \A s \in Slaves :
        phase[s] \in {"connected", "running"} ~>
            \/ link[s] \in DOMAIN slaveAddr
            \/ link[s] \in DOMAIN open /\ open[link[s]].local \notin Whitelist
            \/ ~up

\* A session is sent to a slave that is online: "index of mapSlaveAddr", as the
\* declaration of m_mapSessionIndex has it.
AllocatedOnline == \A a \in answer : a.node \in Slaves
=============================================================================
