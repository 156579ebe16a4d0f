------------------------------- MODULE TcpServer -------------------------------
(***************************************************************************)
(* CTCPServer: the connections of the signaling server and of the master.  *)
(* Each accepted connection has a context, taken from the list of those    *)
(* that earlier connections have left or made new, and an AcceptClient in  *)
(* m_mapClientsList.  Everything runs on the loop thread but Start and     *)
(* Close, which the application calls.                                     *)
(*                                                                         *)
(* An iteration of the libuv loop polls first, when any call back for an   *)
(* event may run, and then runs the call backs of the handles that were    *)
(* closed.  uv_close on a handle that is closing fails an assertion.  The  *)
(* client lock is not recursive (pthread): a thread that locks it twice    *)
(* hangs.  What a connection carries is PacketSync and RelayServer.        *)
(***************************************************************************)
EXTENDS Integers, Sequences, FiniteSets

CONSTANTS
    MAXLISTSIZE,  \* the lists of contexts and write requests: 20 in the code
    MaxConn,      \* bounds the connections that come in
    MaxStart,     \* bounds the calls of Start
    MaxClose,     \* bounds the calls of Close
    MaxWrites     \* bounds the writes under way on a connection

ASSUME TcpServerAssumption ==
    {MAXLISTSIZE, MaxConn, MaxStart, MaxClose, MaxWrites} \subseteq Nat

VARIABLES
    loop,       \* the loop thread: off, in one of its two phases, or for ever
                \* waiting for the lock or dead in an assertion
    closed,     \* m_bIsClosed
    asked,      \* m_bIsUserAskForClosed
    async,      \* m_asyncHandle has been sent
    ending,     \* the thread has set m_bIsClosed and has one assignment to go
    locked,     \* m_mutexClients is held between two call backs
    listening,  \* m_tcpHandle and m_asyncHandle: open, closing or closed
    avail,      \* m_listAvaiTcpHandle
    handle,     \* the tcphandle of every context allocated
    flying,     \* for every context, its writes under way
    spare,      \* the size of m_listWriteParam
    clients,    \* m_mapClientsList: the context of each client
    ids,        \* the last client id given out
    calls       \* counts the calls of Start and Close, and the connections

lists == <<avail, handle, flying, spare, clients, ids>>
flags == <<closed, asked, async, ending, locked, listening>>
vars == <<loop, lists, flags, calls>>

Contexts == DOMAIN handle
Put(f, x, v) == [y \in DOMAIN f \cup {x} |-> IF y = x THEN v ELSE f[y]]
Drop(f, x) == [y \in DOMAIN f \ {x} |-> f[y]]
Least(m, n) == IF m < n THEN m ELSE n

\* A handle on its way to each of the close call backs.
Closing == {"AfterClientClose", "RecycleTcpHandle", "AfterServerClose"}

Init ==
    /\ loop = "off"
    /\ closed = TRUE
    /\ asked = FALSE
    /\ async = FALSE
    /\ ending = FALSE
    /\ locked = FALSE
    /\ listening = "closed"
    /\ avail = <<>>
    /\ handle = <<>>
    /\ flying = <<>>
    /\ spare = 0
    /\ clients = <<>>
    /\ ids = 0
    /\ calls = [start |-> 0, close |-> 0, conn |-> 0]

-------------------------------------------------------------------------------
\* The application.

\* Start, on a server that is closed, and the thread it creates.
Start ==
    /\ calls.start < MaxStart
    /\ closed
    /\ closed' = FALSE
    /\ listening' = "open"
    /\ loop' = "poll"
    /\ async' = FALSE
    /\ calls' = [calls EXCEPT !.start = @ + 1]
    /\ UNCHANGED <<lists, asked, ending, locked>>

Close ==
    /\ calls.close < MaxClose
    /\ ~closed
    /\ asked' = TRUE
    /\ async' = TRUE
    /\ calls' = [calls EXCEPT !.close = @ + 1]
    /\ UNCHANGED <<loop, lists, closed, ending, locked, listening>>

-------------------------------------------------------------------------------
\* The poll phase.

\* The loop thread waits for a lock that nobody will release.
Hangs == loop' = "blocked" /\ UNCHANGED <<lists, flags>>

\* The context a new connection gets, and what is left of the list.
Fresh == Cardinality(Contexts) + 1
Chosen == IF avail = <<>> THEN Fresh ELSE Head(avail)

NotPopped == avail                            \* a slip: front without pop_front

Rest == IF avail = <<>> THEN <<>> ELSE Tail(avail)

Take(h, list) ==
    /\ handle' = Put(handle, Chosen, h)
    /\ flying' = Put(flying, Chosen, 0)
    /\ avail' = list

\* uv_tcp_init or uv_accept fails: the context goes to the list, with a handle
\* that was initialised in the second case.
AcceptFails ==
    LET before == IF Chosen \in Contexts THEN handle[Chosen] ELSE "closed"
    IN  /\ \/ Take(before, Append(Rest, Chosen)) /\ UNCHANGED ids
           \/ Take("open", Append(Rest, Chosen)) /\ ids' = ids + 1
        /\ UNCHANGED <<loop, flags, clients, spare>>

\* uv_read_start fails: the handle is closed and the context recycled.
ReadStartFails ==
    /\ Take("RecycleTcpHandle", Rest)
    /\ ids' = ids + 1
    /\ UNCHANGED <<loop, flags, clients, spare>>

\* A slip: the lock is kept.
AcceptsLocked ==
    /\ ~locked
    /\ Take("open", Rest)
    /\ ids' = ids + 1
    /\ clients' = Put(clients, ids + 1, Chosen)
    /\ locked' = TRUE
    /\ UNCHANGED <<loop, spare, closed, asked, async, ending, listening>>

Accepts ==
    /\ ~locked
    /\ Take("open", Rest)
    /\ ids' = ids + 1
    /\ clients' = Put(clients, ids + 1, Chosen)
    /\ UNCHANGED <<loop, flags, spare>>

AcceptConnection ==
    /\ loop = "poll"
    /\ listening = "open"
    /\ calls.conn < MaxConn
    /\ calls' = [calls EXCEPT !.conn = @ + 1]
    /\ AcceptFails \/ ReadStartFails \/ Accepts \/ (locked /\ Hangs)

\* AfterRecv with an error or the end of the stream: AcceptClient::Close.
AfterRecvEnd(id) ==
    /\ loop = "poll"
    /\ handle[clients[id]] = "open"
    /\ handle' = [handle EXCEPT ![clients[id]] = "AfterClientClose"]
    /\ UNCHANGED <<loop, flags, calls, avail, flying, spare, clients, ids>>

\* A write request is taken from the list or made new; one that is refused,
\* since the handle is closing, goes to the list at once.
sendinl(id) ==
    LET c == clients[id]
        left == IF spare = 0 THEN 0 ELSE spare - 1
    IN  /\ loop = "poll"
        /\ flying[c] < MaxWrites
        /\ IF handle[c] = "open"
           THEN /\ flying' = [flying EXCEPT ![c] = @ + 1]
                /\ spare' = left
           ELSE /\ spare' = left + 1
                /\ UNCHANGED flying
        /\ UNCHANGED <<loop, flags, calls, avail, handle, clients, ids>>

\* n requests come back one after the other; a list that is too long takes no
\* more.
Recycled(n) == IF spare > MAXLISTSIZE THEN spare ELSE Least(spare + n, MAXLISTSIZE + 1)

AfterSend(c) ==
    /\ loop = "poll"
    /\ handle[c] = "open"
    /\ flying[c] > 0
    /\ flying' = [flying EXCEPT ![c] = @ - 1]
    /\ spare' = Recycled(1)
    /\ UNCHANGED <<loop, flags, calls, avail, handle, clients, ids>>

\* A slip: the listening socket stays open.
ClosesClients ==
    /\ locked' = TRUE
    /\ async' = FALSE
    /\ handle' = [c \in Contexts |->
            IF handle[c] = "open" THEN "AfterClientClose" ELSE handle[c]]
    /\ UNCHANGED <<loop, closed, asked, ending, listening, avail, flying, spare,
                   clients, ids>>

\* closeinl closes every client, then what else is open in the loop, and leaves
\* with the lock.  A client whose stream has ended in this very iteration is
\* closed twice.
closeinl ==
    IF locked THEN Hangs
    ELSE IF \E id \in DOMAIN clients : handle[clients[id]] # "open"
    THEN loop' = "aborted" /\ UNCHANGED <<lists, flags>>
    ELSE /\ locked' = TRUE
         /\ async' = FALSE
         /\ listening' = "closing"
         /\ handle' = [c \in Contexts |->
                IF handle[c] # "open" THEN handle[c]
                ELSE IF \E id \in DOMAIN clients : clients[id] = c
                THEN "AfterClientClose" ELSE "AfterServerClose"]
         /\ UNCHANGED <<loop, closed, asked, ending, avail, flying, spare,
                        clients, ids>>

\* Without a request to close, send_inl of the base class, which does nothing.
AsyncCloseCB ==
    /\ loop = "poll"
    /\ async
    /\ listening = "open"
    /\ \/ asked /\ closeinl
       \/ ~asked /\ async' = FALSE
          /\ UNCHANGED <<loop, lists, closed, asked, ending, locked, listening>>
    /\ UNCHANGED calls

-------------------------------------------------------------------------------
\* The close call backs.

Pending == {c \in Contexts : handle[c] \in Closing}

\* The iteration goes on to its second phase.
Polled ==
    /\ loop = "poll"
    /\ Pending # {} \/ listening = "closing"
    /\ loop' = "closing"
    /\ listening' = IF listening = "closing" THEN "closed" ELSE listening
    /\ UNCHANGED <<lists, closed, asked, async, ending, locked, calls>>

\* The context goes to the list, if that is not too long, or is freed; before
\* that libuv has called back the writes that were under way.
Recycle(c) ==
    /\ handle' = [handle EXCEPT
            ![c] = IF Len(avail) > MAXLISTSIZE THEN "freed" ELSE "closed"]
    /\ avail' = IF Len(avail) > MAXLISTSIZE THEN avail ELSE Append(avail, c)
    /\ spare' = Recycled(flying[c])
    /\ flying' = [flying EXCEPT ![c] = 0]

\* A slip: the client stays in the map.
KeepsClient(id) ==
    /\ loop = "closing"
    /\ handle[clients[id]] = "AfterClientClose"
    /\ Recycle(clients[id])
    /\ UNCHANGED <<loop, flags, calls, clients, ids>>

\* AfterClientClose, which calls SubClientClosed.
SubClientClosed(id) ==
    /\ loop = "closing"
    /\ handle[clients[id]] = "AfterClientClose"
    /\ UNCHANGED calls
    /\ \/ locked /\ Hangs
       \/ /\ ~locked
          /\ Recycle(clients[id])
          /\ clients' = Drop(clients, id)
          /\ UNCHANGED <<loop, flags, ids>>

RecycleTcpHandle(c) ==
    /\ loop = "closing"
    /\ handle[c] = "RecycleTcpHandle"
    /\ Recycle(c)
    /\ UNCHANGED <<loop, flags, calls, clients, ids>>

AfterServerClose(c) ==
    /\ loop = "closing"
    /\ handle[c] = "AfterServerClose"
    /\ handle' = [handle EXCEPT ![c] = "closed"]
    /\ UNCHANGED <<loop, flags, calls, avail, flying, spare, clients, ids>>

\* The next iteration, or the end of run when no handle is left.
Iterate ==
    /\ loop = "closing"
    /\ Pending = {}
    /\ IF listening = "closed" /\ \A c \in Contexts : handle[c] # "open"
       THEN loop' = "off" /\ closed' = TRUE /\ ending' = TRUE
       ELSE loop' = "poll" /\ UNCHANGED <<closed, ending>>
    /\ UNCHANGED <<lists, asked, async, locked, listening, calls>>

\* StartThread's last assignment; another thread has seen IsClosed by then.
ThreadEnds ==
    /\ ending
    /\ ending' = FALSE
    /\ asked' = FALSE
    /\ UNCHANGED <<loop, lists, closed, async, locked, listening, calls>>

CloseCallback ==
    \/ \E id \in DOMAIN clients : SubClientClosed(id)
    \/ \E c \in Contexts : RecycleTcpHandle(c) \/ AfterServerClose(c)

Next ==
    \/ Start
    \/ Close
    \/ AcceptConnection
    \/ \E id \in DOMAIN clients : AfterRecvEnd(id) \/ sendinl(id)
    \/ \E c \in Contexts : AfterSend(c)
    \/ AsyncCloseCB
    \/ Polled
    \/ CloseCallback
    \/ Iterate
    \/ ThreadEnds

Spec == Init /\ [][Next]_vars

\* The loop thread runs what is pending.
FairSpec ==
    Spec /\ WF_vars(AsyncCloseCB) /\ WF_vars(Polled) /\ WF_vars(CloseCallback)
         /\ WF_vars(Iterate) /\ WF_vars(ThreadEnds)

-------------------------------------------------------------------------------
Hung == loop \in {"blocked", "aborted"}
Places(c) == {i \in DOMAIN avail : avail[i] = c}
Owners(c) == {id \in DOMAIN clients : clients[id] = c}

\* Every context is in one place: with one client, in the list once, on its way
\* there, or freed with no write left to call back for it; and the lists stay
\* bounded, at one more than the constant says (AcceptConnection, its error
\* branches, RecycleTcpHandle and SubClientClosed).
ContextsOwned ==
    /\ \A c \in Contexts :
        /\ handle[c] \in {"freed", "RecycleTcpHandle"} => Places(c) \cup Owners(c) = {}
        /\ handle[c] \notin {"freed", "RecycleTcpHandle"}
              => Cardinality(Places(c)) + Cardinality(Owners(c)) = 1
        /\ flying[c] > 0 => Owners(c) # {}
    /\ \A id \in DOMAIN clients : handle[clients[id]] \in {"open", "AfterClientClose"}
    /\ Len(avail) <= MAXLISTSIZE + 1
    /\ spare <= MAXLISTSIZE + 1

\* As long as nobody closes the server its loop thread neither waits for the
\* client lock for ever nor closes a handle twice, whatever connections come,
\* fail and go (closeinl is the only one to leave with the lock).
HangsOnlyAfterClose == Hung => calls.close > 0

\* A connection that has ended is taken out of m_mapClientsList.
EndedGoes ==
    \A id \in 1 .. MaxConn :
        (id \in DOMAIN clients /\ handle[clients[id]] = "AfterClientClose")
            ~> (id \notin DOMAIN clients \/ calls.close > 0)

\* The first Close of a server is answered, and ends it when closeinl finds no
\* client (tcpserver.h:38: "verify IsClosed for real closed").  With a client
\* the loop thread hangs in SubClientClosed.
CloseEnds ==
    /\ (asked /\ calls.start = 1) ~> (closed \/ Hung)
    /\ (listening = "closing" /\ DOMAIN clients = {}) ~> closed

===============================================================================
