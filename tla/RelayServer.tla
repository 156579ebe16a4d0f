---------------------------- MODULE RelayServer ----------------------------
(***************************************************************************)
(* The relay server: the media server and the TCP signaling server         *)
(* (CSignalingServer) that drives it.  Both live on one libuv loop, and    *)
(* the signaling server calls the media server's handlers directly, so a   *)
(* TCP message and all it does to the forwarding table is one action.      *)
(***************************************************************************)
EXTENDS MediaServer

\* The ids of the TCP connections that are open at one time.  The code never
\* gives an id twice; here a closed connection, which leaves no trace, gives
\* its id back.
CONSTANT Clients

VARIABLES
    conns,       \* the open TCP connections
    mapClientId, \* m_mapClientId: the user each connection is bound to
    reply        \* the CRspP2PAddrMsg the last handler sent

signal == <<conns, mapClientId, reply>>

relayVars == <<vars, signal>>

P2PReply == [client : Clients, dst : Users,
             answer : [success : BOOLEAN, addr : AnyAddr]]

RelayTypeOK ==
    /\ TypeOK
    /\ conns \subseteq Clients
    /\ DOMAIN mapClientId \subseteq Clients
    /\ mapClientId \in [DOMAIN mapClientId -> Users]
    /\ reply \subseteq P2PReply

RelayInit ==
    /\ Init
    /\ conns = {}
    /\ mapClientId = [c \in {} |-> {}]
    /\ reply = {}

-----------------------------------------------------------------------------

AcceptConnection(c) ==
    /\ Idle
    /\ c \notin conns
    /\ conns' = conns \cup {c}
    /\ reply' = {}
    /\ UNCHANGED <<vars, mapClientId>>

\* The first user a connection binds stays bound: insert does not overwrite.
OnReqBindUserId(c, u) ==
    /\ Idle
    /\ c \in conns
    /\ mapClientId' = Insert(mapClientId, c, u)
    /\ reply' = {}
    /\ UNCHANGED <<vars, conns>>

\* Slip: the binding goes, the user stays in the forwarding table.
CloseKeepsUser(c) ==
    /\ mapClientId' = Erase(mapClientId, c)
    /\ reply' = {}
    /\ UNCHANGED vars

\* Slip: the user is logged out, the binding stays.
CloseKeepsBinding(c) ==
    /\ \/ /\ c \in DOMAIN mapClientId
          /\ OnLogout(mapClientId[c])
       \/ /\ c \notin DOMAIN mapClientId
          /\ UNCHANGED vars
    /\ reply' = {}
    /\ UNCHANGED mapClientId

\* Slip: the entry is taken out of the table without a proper logout.
CloseDropsEntry(c) ==
    /\ \/ /\ c \in DOMAIN mapClientId
          /\ table' = Erase(table, mapClientId[c])
          /\ out' = {}
          /\ mapClientId' = Erase(mapClientId, c)
          /\ UNCHANGED <<capacity, verifying, unvisited, sweepIn>>
       \/ /\ c \notin DOMAIN mapClientId
          /\ UNCHANGED <<vars, mapClientId>>
    /\ reply' = {}

\* The bound user is logged out of the media server and the binding goes.
CloseCB(c) ==
    /\ \/ /\ c \in DOMAIN mapClientId
          /\ OnLogout(mapClientId[c])
          /\ mapClientId' = Erase(mapClientId, c)
       \/ /\ c \notin DOMAIN mapClientId
          /\ UNCHANGED <<vars, mapClientId>>
    /\ reply' = {}

\* A logout message is handled like the end of the connection, which stays.
OnReqLogout(c) ==
    /\ Idle
    /\ c \in conns
    /\ CloseCB(c)
    /\ UNCHANGED conns

SubClientClosed(c) ==
    /\ Idle
    /\ c \in conns
    /\ CloseCB(c)
    /\ conns' = conns \ {c}

\* The media server looks the address up and calls the signaling server back,
\* which answers the connection only if it is bound.
AskP2PAddr(c, dst) ==
    /\ c \in conns
    /\ OnReqP2PAddr(dst)
    /\ reply' = {[client |-> x, dst |-> dst, answer |-> P2PAddr(dst)] :
                    x \in {c} \cap DOMAIN mapClientId}
    /\ UNCHANGED <<conns, mapClientId>>

\* Requests a connection passes on, about users that need not be its own.
PassLeaveRoom(c, u) ==
    /\ c \in conns
    /\ OnReqLeaveRoom(u)
    /\ reply' = {}
    /\ UNCHANGED <<conns, mapClientId>>

PassUpdateForwardTable(c, src, dst, add) ==
    /\ c \in conns
    /\ OnReqUpdateForwardTable(src, dst, add)
    /\ reply' = {}
    /\ UNCHANGED <<conns, mapClientId>>

\* The sweep tells the signaling server of the user it throws out.  Nothing
\* ever enters m_mapUserId, so the lookup fails and nothing is done.
OnUserTimeout(u) == UNCHANGED <<conns, mapClientId>>

SweepExpiredUser(u) ==
    /\ SweepExpired(u)
    /\ OnUserTimeout(u)
    /\ reply' = {}

\* Handlers of the media server the signaling server has no part in.
MediaOnly ==
    /\ \/ Receive
       \/ \E w \in Works : AfterVerification(w)
       \/ Tick
       \/ OfflineDetection
       \/ \E u \in Users : SweepFresh(u)
    /\ reply' = {}
    /\ UNCHANGED <<conns, mapClientId>>

Signal(c) ==
    \/ AcceptConnection(c)
    \/ OnReqLogout(c)
    \/ SubClientClosed(c)
    \/ \E u \in Users : OnReqBindUserId(c, u)
    \/ \E u \in Users : AskP2PAddr(c, u)
    \/ \E u \in Users : PassLeaveRoom(c, u)
    \/ \E src, dst \in Users, add \in BOOLEAN :
          PassUpdateForwardTable(c, src, dst, add)

RelayNext ==
    \/ MediaOnly
    \/ \E u \in Users : SweepExpiredUser(u)
    \/ \E c \in Clients : Signal(c)

RelaySpec == RelayInit /\ [][RelayNext]_relayVars

-----------------------------------------------------------------------------
(* Properties.                                                             *)

\* Only open connections are bound.  m_mapClientId keeps a pointer to the
\* connection's context, which the TCP server recycles once it is closed.
BindingsOpen == DOMAIN mapClientId \subseteq conns

\* When a bound connection ends, its user is out of the forwarding table and
\* out of every other user's forwards in the same step, so no packet is sent to
\* the address of a client known to be gone.
CloseLogsOut ==
    [][\A c \in DOMAIN mapClientId \ conns' :
         /\ mapClientId[c] \notin DOMAIN table'
         /\ \A s \in DOMAIN table' :
               mapClientId[c] \notin DOMAIN table'[s].dataTo]_relayVars

\* The address a peer is told is the one the server itself sends that user's
\* media to: it agrees with every address cached in the forwarding table, so
\* the direct path and the relayed one lead to the same client.
PeerAddrAgrees ==
    \A r \in reply : r.answer.success =>
        \A s \in DOMAIN table : r.dst \in DOMAIN table[s].dataTo =>
            table[s].dataTo[r.dst] = r.answer.addr

\* Whatever TCP clients do, the media server sees only its own handlers run:
\* what holds of the media server alone holds of the relay server.
ActsAsMediaServer == Spec

=============================================================================
