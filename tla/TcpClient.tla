------------------------------- MODULE TcpClient -------------------------------
(***************************************************************************)
(* CTCPClient: a connection that comes back by itself, and the buffer that *)
(* the threads of the program fill with Send and the loop thread empties   *)
(* into it.  The subclasses are the slave's link to the master and the     *)
(* client's link to the signaling server.                                  *)
(*                                                                         *)
(* A message is two units here, so that it can be written in part.  Time   *)
(* is left out but for the repeat time of the reconnect timer, as the      *)
(* power of two it has grown to: an attempt that takes less than 2^Slow    *)
(* seconds is answered before a timer that is at least as long runs out.   *)
(***************************************************************************)
EXTENDS Integers, Sequences

CONSTANTS
    Threads,    \* the threads that send, but the loop thread
    Loop,       \* the loop thread
    Capacity,   \* units m_buferWrite holds
    Slow,       \* the repeat time that outlasts a connection attempt
    MaxDelay,   \* bounds the repeat time, no less than Slow
    MaxSend,    \* bounds the messages of a thread
    MaxChange   \* bounds how often the server goes away and comes back

ASSUME TcpClientAssumption ==
    /\ {Capacity, Slow, MaxDelay, MaxSend, MaxChange} \subseteq Nat
    /\ Capacity >= 2
    /\ Slow <= MaxDelay
    /\ Loop \notin Threads

VARIABLES
    loop,          \* the loop thread: before Connect, in its loop, waiting in
                   \* Send for room in the buffer, or after Close
    conn,          \* the tcphandle and its connection
    handleClosed,  \* m_bTcpHandleClosed
    reconnecting,  \* m_bIsReconnecting
    armed,         \* m_timerReconnet is started
    delay,         \* m_nRepeatTime: 2^delay seconds
    asked,         \* m_bIsUserAskForClosed
    async,         \* m_asyncHandle has been sent
    buffer,        \* m_buferWrite
    rest,          \* what every thread in Send has still to write
    count,         \* how many messages every thread has begun
    parted,        \* some message has been written in part
    flying,        \* a write request is under way
    stream,        \* what was written to the connection
    up,            \* the server is there
    changes        \* counts its comings and goings

link == <<conn, handleClosed, reconnecting, armed, delay>>
queue == <<buffer, rest, count, parted>>
env == <<up, changes>>
vars == <<loop, link, asked, async, queue, flying, stream, env>>

Senders == Threads \cup {Loop}
Message(t, k) == <<[by |-> t, no |-> k, part |-> 1], [by |-> t, no |-> k, part |-> 2]>>
Least(m, n) == IF m < n THEN m ELSE n
Same(d) == d   \* a slip: the repeat time does not double
Twice(d) == Least(d + 1, MaxDelay)

Init ==
    /\ loop = "idle"
    /\ conn = "closed"
    /\ handleClosed = FALSE
    /\ reconnecting = FALSE
    /\ armed = FALSE
    /\ delay = 0
    /\ asked = FALSE
    /\ async = FALSE
    /\ buffer = <<>>
    /\ rest = [t \in Senders |-> <<>>]
    /\ count = [t \in Senders |-> 0]
    /\ parted = FALSE
    /\ flying = FALSE
    /\ stream = <<>>
    /\ up \in BOOLEAN
    /\ changes = 0

-------------------------------------------------------------------------------
\* Send.

\* A slip: the next turn writes the message from its beginning.
WriteAgain(t, units) ==
    LET n == Least(Len(units), Capacity - Len(buffer))
    IN  /\ buffer' = buffer \o SubSeq(units, 1, n)
        /\ rest' = [rest EXCEPT ![t] = IF n = Len(units) THEN <<>> ELSE units]
        /\ parted' = (parted \/ n < Len(units))

\* One turn of the loop in Send: under the lock, what fits of the rest.
Write(t, units) ==
    LET n == Least(Len(units), Capacity - Len(buffer))
    IN  /\ buffer' = buffer \o SubSeq(units, 1, n)
        /\ rest' = [rest EXCEPT ![t] = SubSeq(units, n + 1, Len(units))]
        /\ parted' = (parted \/ n < Len(units))

\* Send by another thread: it wakes the loop thread before and after.
Send(t) ==
    /\ loop # "idle"
    /\ rest[t] = <<>>
    /\ count[t] < MaxSend
    /\ count' = [count EXCEPT ![t] = @ + 1]
    /\ rest' = [rest EXCEPT ![t] = Message(t, count[t] + 1)]
    /\ async' = TRUE
    /\ UNCHANGED <<loop, link, asked, buffer, parted, flying, stream, env>>

\* A slip: the loop thread is woken before the message is written only.
WriteSilently(t) ==
    /\ rest[t] # <<>>
    /\ ~asked
    /\ Write(t, rest[t])
    /\ loop' = IF t = Loop /\ rest'[t] = <<>> THEN "run" ELSE loop
    /\ UNCHANGED <<link, asked, async, count, flying, stream, env>>

WriteRest(t) ==
    /\ rest[t] # <<>>
    /\ ~asked
    /\ Write(t, rest[t])
    /\ async' = (async \/ rest'[t] = <<>>)
    /\ loop' = IF t = Loop /\ rest'[t] = <<>> THEN "run" ELSE loop
    /\ UNCHANGED <<link, asked, count, flying, stream, env>>

\* Close ends the wait of a thread with its message unfinished.
GiveUp(t) ==
    /\ rest[t] # <<>>
    /\ asked
    /\ rest' = [rest EXCEPT ![t] = <<>>]
    /\ async' = TRUE
    /\ parted' = TRUE
    /\ loop' = IF t = Loop THEN "run" ELSE loop
    /\ UNCHANGED <<link, asked, buffer, count, flying, stream, env>>

\* Send on the loop thread, which waits for room that only it can make.
SendsItself ==
    /\ count' = [count EXCEPT ![Loop] = @ + 1]
    /\ async' = TRUE
    /\ IF asked THEN UNCHANGED <<loop, buffer, rest, parted>>
       ELSE /\ Write(Loop, Message(Loop, count[Loop] + 1))
            /\ loop' = IF rest'[Loop] = <<>> THEN "run" ELSE "waits"

\* A timer or a message of the subclass makes it send.
HandlerSends ==
    /\ loop = "run"
    /\ count[Loop] < MaxSend
    /\ SendsItself
    /\ UNCHANGED <<link, asked, flying, stream, env>>

\* send_inl: the buffer is emptied into the connection, or into one that is on
\* its way; without either the write is refused and the units are gone.
send_inl(under) ==
    /\ buffer' = <<>>
    /\ IF conn \in {"connecting", "open"}
       THEN /\ stream' = stream \o buffer
            /\ flying' = (under \/ buffer # <<>>)
       ELSE UNCHANGED stream /\ flying' = under

AfterSend ==
    /\ loop = "run"
    /\ conn = "open"
    /\ flying
    /\ send_inl(FALSE)
    /\ UNCHANGED <<loop, link, asked, async, rest, count, parted, env>>

\* AfterRecv with data calls send_inl first.
AfterRecv ==
    /\ loop = "run"
    /\ conn = "open"
    /\ buffer # <<>>
    /\ send_inl(flying)
    /\ UNCHANGED <<loop, link, asked, async, rest, count, parted, env>>

-------------------------------------------------------------------------------
\* The connection.

Connect ==
    /\ loop = "idle"
    /\ loop' = "run"
    /\ conn' = "connecting"
    /\ UNCHANGED <<handleClosed, reconnecting, armed, delay, asked, async, queue,
                   flying, stream, env>>

StopReconnect ==
    /\ reconnecting' = FALSE
    /\ armed' = FALSE
    /\ delay' = 0

\* AfterConnect without an error; after a reconnect AfterReconnectSuccess of
\* the subclass sends, to bind the user or to log the slave in.
AfterConnect ==
    /\ loop = "run"
    /\ conn = "connecting"
    /\ up
    /\ conn' = "open"
    /\ IF reconnecting
       THEN StopReconnect /\ SendsItself
       ELSE UNCHANGED <<loop, reconnecting, armed, delay, async, queue>>
    /\ UNCHANGED <<handleClosed, asked, flying, stream, env>>

\* The repeat time doubles and the timer starts again.
Restart == delay' = Twice(delay) /\ armed' = TRUE

\* AfterConnect with an error: what was queued on the handle is lost.
AfterConnectError ==
    /\ loop = "run"
    /\ conn = "connecting"
    /\ ~up
    /\ conn' = "failed"
    /\ stream' = <<>>
    /\ flying' = FALSE
    /\ IF reconnecting THEN Restart ELSE UNCHANGED <<delay, armed>>
    /\ UNCHANGED <<loop, handleClosed, reconnecting, asked, async, queue, env>>

\* AfterRecv with an error or the end of the stream: StartReconnect.  A server
\* that stays may end the connection too.
AfterRecvEnd ==
    /\ loop = "run"
    /\ conn = "open"
    /\ ~up \/ changes < MaxChange
    /\ changes' = IF up THEN changes + 1 ELSE changes
    /\ conn' = "closing"
    /\ handleClosed' = TRUE
    /\ reconnecting' = TRUE
    /\ delay' = 0
    /\ stream' = <<>>
    /\ flying' = FALSE
    /\ UNCHANGED <<loop, armed, asked, async, queue, up>>

AfterClientClose ==
    /\ loop = "run"
    /\ conn = "closing"
    /\ conn' = "closed"
    /\ armed' = TRUE
    /\ UNCHANGED <<loop, handleClosed, reconnecting, delay, asked, async, queue,
                   flying, stream, env>>

\* The timer finds the last attempt under way, or uv_tcp_connect fails for
\* another reason: the handle is closed, without a call back.
ReconnectFails ==
    /\ conn' = IF conn = "connecting" THEN "cancelling" ELSE "discarding"
    /\ handleClosed' = TRUE
    /\ Restart
    /\ UNCHANGED <<stream, flying>>

\* A handle that was closed is initialised again; one whose attempt failed is
\* used as it is.
Reconnects ==
    /\ conn \in IF handleClosed THEN {"closed"} ELSE {"failed"}
    /\ conn' = "connecting"
    /\ handleClosed' = FALSE
    /\ stream' = <<>>
    /\ flying' = FALSE
    /\ UNCHANGED <<delay, armed>>

\* The timer does not run out while a handle is closing, nor before an attempt
\* that it outlasts is answered.
ReconnectTimer ==
    /\ loop = "run"
    /\ armed
    /\ reconnecting
    /\ conn \in {"closed", "failed", "connecting"}
    /\ conn = "connecting" => delay < Slow
    /\ Reconnects \/ ((conn = "connecting" \/ ~up) /\ ReconnectFails)
    /\ UNCHANGED <<loop, reconnecting, asked, async, queue, env>>

\* The handle is closed; an attempt that was under way is called back first, as
\* a failure (AfterConnect with UV_ECANCELED).
Discarded ==
    /\ loop = "run"
    /\ conn \in {"cancelling", "discarding"}
    /\ conn' = "closed"
    /\ IF conn = "cancelling" THEN Restart ELSE UNCHANGED <<delay, armed>>
    /\ stream' = <<>>
    /\ flying' = FALSE
    /\ UNCHANGED <<loop, handleClosed, reconnecting, asked, async, queue, env>>

-------------------------------------------------------------------------------
Close ==
    /\ loop # "idle"
    /\ ~asked
    /\ asked' = TRUE
    /\ async' = TRUE
    /\ UNCHANGED <<loop, link, queue, flying, stream, env>>

closeinl ==
    /\ StopReconnect
    /\ loop' = "off"
    /\ conn' = "closed"
    /\ handleClosed' = TRUE
    /\ flying' = FALSE
    /\ UNCHANGED <<buffer, stream>>

AsyncCloseCB ==
    /\ loop = "run"
    /\ async
    /\ async' = FALSE
    /\ IF asked THEN closeinl ELSE send_inl(flying) /\ UNCHANGED <<loop, link>>
    /\ UNCHANGED <<asked, rest, count, parted, env>>

\* The server, or the way to it, goes away or comes back.
Change ==
    /\ changes < MaxChange
    /\ up' = ~up
    /\ changes' = changes + 1
    /\ UNCHANGED <<loop, link, asked, async, queue, flying, stream>>

\* The loop thread's own steps, and those of a thread in Send.
Work ==
    \/ AfterSend \/ AsyncCloseCB
    \/ AfterConnect \/ AfterConnectError \/ AfterRecvEnd \/ AfterClientClose
    \/ ReconnectTimer \/ Discarded

Next ==
    \/ Connect
    \/ \E t \in Threads : Send(t)
    \/ \E t \in Senders : WriteRest(t) \/ GiveUp(t)
    \/ HandlerSends
    \/ AfterRecv
    \/ Work
    \/ Close
    \/ Change

Spec == Init /\ [][Next]_vars

\* The threads run; libuv reports what has happened.
FairSpec ==
    /\ Spec
    /\ WF_vars(AsyncCloseCB)
    /\ WF_vars(AfterConnect)
    /\ WF_vars(AfterConnectError)
    /\ WF_vars(~up /\ AfterRecvEnd)
    /\ WF_vars(AfterClientClose)
    /\ WF_vars(ReconnectTimer)
    /\ WF_vars(Discarded)
    /\ \A t \in Senders : WF_vars(WriteRest(t)) /\ WF_vars(GiveUp(t))

-------------------------------------------------------------------------------
\* A message of one thread comes before the next, no unit comes twice, and as
\* long as every message found room at once no message is torn by another or
\* by a lost connection (Send, which releases the lock between the parts, and
\* send_inl, which empties the buffer into whatever connection there is).
StreamWhole ==
    /\ \A i, j \in DOMAIN stream :
        i < j /\ stream[i].by = stream[j].by
            => \/ stream[i].no < stream[j].no
               \/ stream[i].no = stream[j].no /\ stream[i].part < stream[j].part
    /\ ~parted => \A i \in DOMAIN stream :
        IF stream[i].part = 1
        THEN i < Len(stream) /\ stream[i + 1] = [stream[i] EXCEPT !.part = 2]
        ELSE i > 1 /\ stream[i - 1] = [stream[i] EXCEPT !.part = 1]

\* Every Send of another thread returns, unless the loop thread waits in a Send
\* of its own for room in a buffer that only it empties.
SendEnds ==
    \A t \in Threads : rest[t] # <<>> ~> (rest[t] = <<>> \/ loop = "waits")

\* Once the server is there for good a lost connection comes back: attempts
\* that the timer cuts off are fewer than it takes the repeat time to outgrow
\* them (ReconnectTimer and AfterConnect, which double it).
ComesBack ==
    <>[]up => (reconnecting ~> (~reconnecting \/ asked \/ loop = "waits"))

===============================================================================
