---------------------------- MODULE MasterProofs ----------------------------
(***************************************************************************)
(* Proofs about the master.  Ids are never used twice, so the list of ids  *)
(* may keep those of slaves that have gone and still hold every slave that *)
(* is online exactly once.                                                 *)
(***************************************************************************)
EXTENDS Master, TLAPS

\* A listed connection that is still open belongs to a slave that is online.
\* Without it a login could list an id a second time.
Listed ==
    \A i \in DOMAIN vectorIndex :
        vectorIndex[i] \in DOMAIN open => vectorIndex[i] \in DOMAIN slaveAddr

IInv == TypeOK /\ RegisteredOpen /\ IndexCovers /\ Listed

-----------------------------------------------------------------------------
(* The slaves' steps leave the tables alone.                               *)

\* A connection that is accepted has a new id and preserves the invariant.
LEMMA AcceptStep ==
    ASSUME IInv, NEW s \in Slaves, NEW n \in Nat, Accept(s, n), UNCHANGED tables,
           phase' \in [Slaves -> {"start", "alone", "silent", "connected", "running"}],
           answer' = {}, UNCHANGED up
    PROVE  IInv'
<1>1. PICK l \in LocalAddrs : open' = Put(open, lastId + 1, [node |-> s, local |-> l])
  BY DEF Accept
<1> DEFINE o == [node |-> s, local |-> l]
<1>2. /\ DOMAIN open' = DOMAIN open \cup {lastId + 1}
      /\ open' \in [DOMAIN open' -> [node : Slaves, local : LocalAddrs]]
      /\ \A x \in DOMAIN open : open'[x] = open[x]
  <2>1. o \in [node : Slaves, local : LocalAddrs]
    OBVIOUS
  <2>2. open \in [DOMAIN open -> [node : Slaves, local : LocalAddrs]] /\ lastId + 1 \notin DOMAIN open
    BY DEF IInv, TypeOK, LinkTypes
  <2>3. QED
    BY <1>1, <2>1, <2>2 DEF Put
<1>3. logins' \in [DOMAIN open' -> Nat]
  <2>1. logins \in [DOMAIN logins -> Nat] /\ DOMAIN logins = DOMAIN open
    BY DEF IInv, TypeOK, LinkTypes
  <2>2. logins' = Put(logins, lastId + 1, n)
    BY DEF Accept
  <2>3. QED
    BY <1>2, <2>1, <2>2 DEF Put
<1>4. lastId' = lastId + 1 /\ lastId \in Nat /\ 1..lastId \subseteq 1..lastId' /\ 0..lastId \subseteq 0..lastId'
  BY DEF IInv, TypeOK, LinkTypes, Accept
<1>5. LinkTypes'
  <2>1. link' \in [Slaves -> 0..lastId']
    BY <1>4 DEF IInv, TypeOK, LinkTypes, Accept
  <2>2. DOMAIN open' \subseteq 1..lastId'
    BY <1>2, <1>4 DEF IInv, TypeOK, LinkTypes
  <2>3. QED
    BY <1>2, <1>3, <1>4, <2>1, <2>2 DEF LinkTypes
<1>6. TypeOK'
  BY <1>4, <1>5 DEF IInv, TypeOK, TableTypes, tables, Accept
<1>7. RegisteredOpen'
  BY <1>2 DEF IInv, RegisteredOpen, tables
<1>8. Listed'
  <2>1. \A i \in DOMAIN vectorIndex : vectorIndex[i] # lastId + 1
    BY <1>4 DEF IInv, TypeOK, TableTypes
  <2>2. QED
    BY <1>2, <2>1 DEF IInv, Listed, tables
<1>9. QED
  BY <1>6, <1>7, <1>8 DEF IInv, IndexCovers, tables

\* A step of the slaves that opens no connection.
LEMMA KeepStep ==
    ASSUME IInv, UNCHANGED <<tables, lastId, open, up>>, answer' = {},
           phase' \in [Slaves -> {"start", "alone", "silent", "connected", "running"}],
           link' \in [Slaves -> 0..lastId],
           logins' \in [DOMAIN open -> Nat]
    PROVE  IInv'
BY DEF IInv, TypeOK, LinkTypes, TableTypes, RegisteredOpen, IndexCovers, Listed, tables

\* What the slaves do preserves the invariant.
LEMMA SlaveStep ==
    ASSUME IInv, NEW s \in Slaves,
           \/ Start(s) \/ LateConnect(s) \/ LoginAsSlave(s)
           \/ Disconnected(s) \/ AfterReconnectSuccess(s)
    PROVE  IInv'
<1>0. LinkTypes
  BY DEF IInv, TypeOK
<1>1. CASE Start(s)
  <2>1. phase' \in [Slaves -> {"start", "alone", "silent", "connected", "running"}]
    BY <1>0, <1>1 DEF LinkTypes, Start
  <2>2. CASE Accept(s, 0)
    BY <1>1, <2>1, <2>2, AcceptStep DEF Start
  <2>3. CASE UNCHANGED <<link, lastId, open, logins>>
    BY <1>0, <1>1, <2>1, <2>3, KeepStep DEF Start, LinkTypes
  <2>4. QED
    BY <1>1, <2>2, <2>3 DEF Start
<1>2. CASE LateConnect(s)
  <2>1. phase' \in [Slaves -> {"start", "alone", "silent", "connected", "running"}]
    BY <1>0, <1>2 DEF LinkTypes, LateConnect
  <2>2. QED
    BY <1>2, <2>1, AcceptStep DEF LateConnect
<1>3. CASE LoginAsSlave(s)
  BY <1>0, <1>3, KeepStep DEF LoginAsSlave, LinkTypes
<1>4. CASE Disconnected(s)
  BY <1>0, <1>4, KeepStep DEF Disconnected, LinkTypes
<1>5. CASE AfterReconnectSuccess(s)
  <2>1. phase' \in [Slaves -> {"start", "alone", "silent", "connected", "running"}]
    BY <1>0, <1>5 DEF LinkTypes, AfterReconnectSuccess
  <2>2. QED
    BY <1>5, <2>1, AcceptStep DEF AfterReconnectSuccess
<1>6. QED
  BY <1>1, <1>2, <1>3, <1>4, <1>5

-----------------------------------------------------------------------------
(* The master's handlers.                                                  *)

\* A login preserves it: the id is appended once.
LEMMA OnSlaveLoginMsgStep ==
    ASSUME IInv, NEW c \in DOMAIN open, OnSlaveLoginMsg(c)
    PROVE  IInv'
<1>1. LinkTypes'
  BY DEF IInv, TypeOK, LinkTypes, OnSlaveLoginMsg
<1>2. CASE UNCHANGED <<slaveAddr, vectorIndex>>
  BY <1>1, <1>2 DEF IInv, TypeOK, TableTypes, RegisteredOpen, IndexCovers, Listed, OnSlaveLoginMsg
<1>3. CASE /\ c \notin DOMAIN slaveAddr
           /\ slaveAddr' = Put(slaveAddr, c, open[c].node)
           /\ vectorIndex' = Append(vectorIndex, c)
  <2>1. c \in 1..lastId /\ open[c].node \in Slaves /\ lastId' = lastId /\ open' = open
    BY DEF IInv, TypeOK, LinkTypes, OnSlaveLoginMsg
  <2>2. /\ DOMAIN slaveAddr' = DOMAIN slaveAddr \cup {c}
        /\ slaveAddr' \in [DOMAIN slaveAddr' -> Slaves]
        /\ slaveAddr'[c] = open[c].node
        /\ \A x \in DOMAIN slaveAddr : slaveAddr'[x] = slaveAddr[x]
    <3>1. slaveAddr \in [DOMAIN slaveAddr -> Slaves]
      BY DEF IInv, TypeOK, TableTypes
    <3>2. QED
      BY <1>3, <2>1, <3>1 DEF Put
  <2>3. /\ vectorIndex \in Seq(1..lastId)
        /\ DOMAIN vectorIndex' = DOMAIN vectorIndex \cup {Len(vectorIndex) + 1}
        /\ vectorIndex'[Len(vectorIndex) + 1] = c
        /\ \A i \in DOMAIN vectorIndex : vectorIndex'[i] = vectorIndex[i]
        /\ vectorIndex' \in Seq(1..lastId)
        /\ Len(vectorIndex) + 1 \notin DOMAIN vectorIndex
    BY <1>3, <2>1 DEF IInv, TypeOK, TableTypes
  <2>4. TypeOK'
    BY <1>1, <2>1, <2>2, <2>3 DEF IInv, TypeOK, TableTypes, OnSlaveLoginMsg
  <2>5. RegisteredOpen'
    BY <2>1, <2>2 DEF IInv, RegisteredOpen
  <2>6. \A i \in DOMAIN vectorIndex : vectorIndex[i] # c
    BY <1>3 DEF IInv, Listed
  <2>7. IndexCovers'
    <3>1. SUFFICES ASSUME NEW d \in DOMAIN slaveAddr'
                   PROVE  \E i \in DOMAIN vectorIndex' :
                            \A j \in DOMAIN vectorIndex' : vectorIndex'[j] = d <=> j = i
      BY DEF IndexCovers
    <3>2. CASE d = c
      BY <2>3, <2>6, <3>2
    <3>3. CASE d # c
      <4>1. PICK i \in DOMAIN vectorIndex :
              \A j \in DOMAIN vectorIndex : vectorIndex[j] = d <=> j = i
        BY <2>2, <3>3 DEF IInv, IndexCovers
      <4>2. QED
        BY <2>3, <3>3, <4>1
    <3>4. QED
      BY <3>2, <3>3
  <2>8. Listed'
    BY <2>1, <2>2, <2>3 DEF IInv, Listed
  <2>9. QED
    BY <2>4, <2>5, <2>7, <2>8 DEF IInv
<1>4. QED
  BY <1>2, <1>3 DEF OnSlaveLoginMsg

\* An element of a sequence is in its set.
LEMMA ElementOf == ASSUME NEW S, NEW v \in Seq(S), NEW i \in DOMAIN v PROVE v[i] \in S
OBVIOUS

\* What a request for a slave does to the sessions, and what it answers.
LEMMA Assigned ==
    ASSUME IInv, NEW q \in Sessions, OnReqSlaveAddrMsg(q), vectorIndex # <<>>
    PROVE  /\ DOMAIN sessionIndex' = DOMAIN sessionIndex \cup {q}
           /\ sessionIndex' \in [DOMAIN sessionIndex' -> 1..lastId]
           /\ \A x \in DOMAIN sessionIndex :
                x # q \/ sessionIndex[x] \in DOMAIN slaveAddr => sessionIndex'[x] = sessionIndex[x]
           /\ Reply(q, sessionIndex'[q])
<1>0. /\ sessionIndex \in [DOMAIN sessionIndex -> 1..lastId]
      /\ vectorIndex \in Seq(1..lastId)
  BY DEF IInv, TypeOK, TableTypes
<1>1. Reply(q, sessionIndex'[q])
  BY DEF OnReqSlaveAddrMsg
<1>2. CASE q \in DOMAIN sessionIndex /\ UNCHANGED sessionIndex
  BY <1>0, <1>1, <1>2
<1>3. CASE /\ q \in DOMAIN sessionIndex => sessionIndex[q] \notin DOMAIN slaveAddr
           /\ AllocateServerToSessionId(q)
  <2>1. PICK i \in DOMAIN vectorIndex : sessionIndex' = Put(sessionIndex, q, vectorIndex[i])
    BY <1>3 DEF AllocateServerToSessionId
  <2>2. vectorIndex[i] \in 1..lastId
    BY <1>0, <2>1, ElementOf
  <2>3. QED
    BY <1>0, <1>1, <1>3, <2>1, <2>2 DEF Put
<1>4. QED
  BY <1>2, <1>3 DEF OnReqSlaveAddrMsg

\* A request for a slave preserves it.
LEMMA OnReqSlaveAddrMsgStep ==
    ASSUME IInv, NEW q \in Sessions, OnReqSlaveAddrMsg(q)
    PROVE  IInv'
<1>1. UNCHANGED <<phase, link, lastId, open, logins, slaveAddr, vectorIndex>>
  BY DEF OnReqSlaveAddrMsg, links
<1>2. LinkTypes' /\ RegisteredOpen' /\ IndexCovers' /\ Listed'
  BY <1>1 DEF IInv, TypeOK, LinkTypes, RegisteredOpen, IndexCovers, Listed
<1>3. CASE vectorIndex = <<>>
  <2>1. UNCHANGED <<sessionIndex, up>> /\ answer' = {}
    BY <1>3 DEF OnReqSlaveAddrMsg
  <2>2. QED
    BY <1>1, <1>2, <2>1 DEF IInv, TypeOK, TableTypes
<1>4. CASE vectorIndex # <<>>
  <2>1. TableTypes'
    BY <1>1, <1>4, Assigned DEF IInv, TypeOK, TableTypes
  <2>2. answer' \subseteq [session : Sessions, node : Slaves \cup {Garbage}] /\ up' \in BOOLEAN
    <3>1. Reply(q, sessionIndex'[q])
      BY <1>4, Assigned
    <3>2. slaveAddr \in [DOMAIN slaveAddr -> Slaves] /\ up \in BOOLEAN
      BY DEF IInv, TypeOK, TableTypes
    <3>3. QED
      BY <3>1, <3>2 DEF Reply
  <2>3. QED
    BY <1>2, <2>1, <2>2 DEF IInv, TypeOK
<1>5. QED
  BY <1>3, <1>4

\* The end of a connection preserves it, with the id left in the list.
LEMMA CloseCBStep ==
    ASSUME IInv, NEW c \in DOMAIN open, CloseCB(c)
    PROVE  IInv'
<1>1. /\ DOMAIN open' = DOMAIN open \ {c}
      /\ open' \in [DOMAIN open' -> [node : Slaves, local : LocalAddrs]]
      /\ \A x \in DOMAIN open \ {c} : open'[x] = open[x]
  <2>1. open \in [DOMAIN open -> [node : Slaves, local : LocalAddrs]] /\ open' = Drop(open, c)
    BY DEF IInv, TypeOK, LinkTypes, CloseCB
  <2>2. QED
    BY <2>1 DEF Drop
<1>2. logins' \in [DOMAIN open' -> Nat]
  <2>1. logins \in [DOMAIN logins -> Nat] /\ DOMAIN logins = DOMAIN open /\ logins' = Drop(logins, c)
    BY DEF IInv, TypeOK, LinkTypes, CloseCB
  <2>2. QED
    BY <1>1, <2>1 DEF Drop
<1>3. /\ DOMAIN slaveAddr' = DOMAIN slaveAddr \ {c}
      /\ slaveAddr' \in [DOMAIN slaveAddr' -> Slaves]
      /\ \A x \in DOMAIN slaveAddr' : slaveAddr'[x] = slaveAddr[x]
  <2>1. slaveAddr \in [DOMAIN slaveAddr -> Slaves] /\ slaveAddr' = Drop(slaveAddr, c)
    BY DEF IInv, TypeOK, TableTypes, CloseCB
  <2>2. QED
    BY <2>1 DEF Drop
<1>4. UNCHANGED <<phase, link, lastId, vectorIndex, sessionIndex, up>> /\ answer' = {}
  BY DEF CloseCB
<1>5. TypeOK'
  BY <1>1, <1>2, <1>3, <1>4 DEF IInv, TypeOK, LinkTypes, TableTypes
<1>6. RegisteredOpen'
  BY <1>1, <1>3 DEF IInv, RegisteredOpen
<1>7. IndexCovers' /\ Listed'
  BY <1>1, <1>3, <1>4 DEF IInv, IndexCovers, Listed
<1>8. QED
  BY <1>5, <1>6, <1>7 DEF IInv

-----------------------------------------------------------------------------
(* The theorems.                                                           *)

\* The invariant holds of a master without slaves.
LEMMA InitIInv == Init => IInv
BY DEF Init, IInv, TypeOK, LinkTypes, TableTypes, RegisteredOpen, IndexCovers, Listed

\* Every step preserves it.
LEMMA NextIInv == IInv /\ [Next]_mvars => IInv'
<1> SUFFICES ASSUME IInv, [Next]_mvars PROVE IInv'
  OBVIOUS
<1>1. CASE \E s \in Slaves : \/ Start(s) \/ LateConnect(s) \/ LoginAsSlave(s)
                             \/ Disconnected(s) \/ AfterReconnectSuccess(s)
  BY <1>1, SlaveStep
<1>2. CASE \E c \in DOMAIN open : OnSlaveLoginMsg(c) \/ CloseCB(c)
  BY <1>2, OnSlaveLoginMsgStep, CloseCBStep
<1>3. CASE \E q \in Sessions : OnReqSlaveAddrMsg(q)
  BY <1>3, OnReqSlaveAddrMsgStep
<1>4. CASE UNCHANGED mvars
  BY <1>4 DEF mvars, links, tables, IInv, TypeOK, LinkTypes, TableTypes, RegisteredOpen, IndexCovers, Listed
<1>5. QED
  BY <1>1, <1>2, <1>3, <1>4 DEF Next

\* The invariant of the master holds.
LEMMA Invariance == Spec => []IInv
BY InitIInv, NextIInv, PTL DEF Spec

\* The variables of the master and of the slaves keep their types.
THEOREM MasterTypeCorrect == Spec => []TypeOK
<1>1. IInv => TypeOK
  BY DEF IInv
<1>2. QED
  BY Invariance, <1>1, PTL

\* No slave is online without an open connection, and each is known by its own address.
THEOREM SlavesConnected == Spec => []RegisteredOpen
<1>1. IInv => RegisteredOpen
  BY DEF IInv
<1>2. QED
  BY Invariance, <1>1, PTL

\* Every slave that is online is in the list of ids exactly once.
THEOREM SlavesListed == Spec => []IndexCovers
<1>1. IInv => IndexCovers
  BY DEF IInv
<1>2. QED
  BY Invariance, <1>1, PTL

\* A session stays with its slave while the slave is online.
THEOREM SessionsStay == Spec => SessionSticks
<1> DEFINE Stay ==
      \A q \in DOMAIN sessionIndex :
         sessionIndex[q] \in DOMAIN slaveAddr =>
           /\ q \in DOMAIN sessionIndex' /\ sessionIndex'[q] = sessionIndex[q]
           /\ \A a \in answer' : a.session = q => a.node = slaveAddr[sessionIndex[q]]
<1>1. ASSUME IInv, Next PROVE Stay
  <2>1. CASE UNCHANGED sessionIndex /\ answer' = {}
    BY <2>1
  <2>2. ASSUME NEW r \in Sessions, OnReqSlaveAddrMsg(r), vectorIndex # <<>> PROVE Stay
    <3>1. SUFFICES ASSUME NEW q \in DOMAIN sessionIndex, sessionIndex[q] \in DOMAIN slaveAddr
                   PROVE  /\ q \in DOMAIN sessionIndex' /\ sessionIndex'[q] = sessionIndex[q]
                          /\ \A a \in answer' : a.session = q => a.node = slaveAddr[sessionIndex[q]]
      OBVIOUS
    <3>2. q \in DOMAIN sessionIndex' /\ sessionIndex'[q] = sessionIndex[q]
      BY <1>1, <2>2, <3>1, Assigned
    <3>3. Reply(r, sessionIndex'[r])
      BY <1>1, <2>2, Assigned
    <3>4. ASSUME NEW a \in answer', a.session = q PROVE a.node = slaveAddr[sessionIndex[q]]
      <4>1. a.session = r
        BY <3>3, <3>4 DEF Reply
      <4>2. sessionIndex'[r] = sessionIndex[q]
        BY <3>2, <3>4, <4>1
      <4>3. QED
        BY <3>1, <3>3, <3>4, <4>2 DEF Reply
    <3>5. QED
      BY <3>2, <3>4
  <2>3. QED
    BY <1>1, <2>1, <2>2 DEF Next, Start, LateConnect, LoginAsSlave, Disconnected,
       AfterReconnectSuccess, OnSlaveLoginMsg, CloseCB, OnReqSlaveAddrMsg, tables
<1>2. ASSUME IInv, UNCHANGED mvars PROVE [Stay]_mvars
  BY <1>2
<1>3. IInv /\ [Next]_mvars => [Stay]_mvars
  BY <1>1, <1>2
<1>4. QED
  BY Invariance, <1>3, PTL DEF Spec, SessionSticks
=============================================================================
