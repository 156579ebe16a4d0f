# Verification of relay_server

TLA+ models of the relay server, the configurations TLC checks them with, and
theorems TLAPS proves of them.  File names without a directory are in
`src/src/relay_server_sdk/`.

## 1. The system

A relay server (a *slave*) carries the voice and video packets of clients that
cannot reach each other directly.  A *master* hands the slaves out to clients.

| Component | State | Operations | Talks to |
|---|---|---|---|
| Media server (`media_server.cpp`) | forwarding table: per user the address, session, expiry, whom it sends to (`dataTo`, with a copy of their addresses) and who sends to it (`dataFrom`); logins being verified | UDP login, logout, media to one or to all receivers; requests of the signaling server; answer of a verification; sweep timer | clients by UDP; signaling server by direct calls; libuv thread pool; master through the slave link |
| Signaling server (`signaling_server.cpp`) | connection -> (context pointer, user); a reverse index that is never filled | bind, logout, ask for an address, leave the room, change a forward, end of a connection, time-out of a user | clients by TCP; media server by direct calls |
| Relay server (`relay_server.cpp`) | the two servers, the validation urls | start, close, configuration, http validation | both servers |
| Slave link (`slave.cpp`) | the master's address | log in as a slave, again after a reconnect; report traffic | master by TCP |
| Master (`relay_server_master/`) | slaves by connection, list of their ids, session -> slave | slave login, slave for a session, end of a connection | slaves and clients by TCP |
| TCP server (`simple_uv/tcpserver.cpp`) | open connections, recycled contexts, mutex, close flags | start, accept, receive, send, close of one connection and of all | libuv |
| TCP client (`simple_uv/tcpclient.cpp`) | connection status, shared write buffer, reconnect timer | connect, send, receive, reconnect, close | libuv; caller's thread and loop thread |
| Framing (`simple_uv/PacketSync.*`) | bytes not yet consumed, parse state | feed bytes, deliver packets | TCP server and client |
| Circular buffer (`simple_uv/PodCircularBuffer.h`) | array, two positions, two flags | write, read | TCP client and server |
| Thread messages (`simple_uv/ThreadMsgBase.*`, `UVThread*`) | message queue per thread, registry of threads | push, dispatch, register, unregister | threads |
| UDP handle (`simple_uv/UDP*`) | socket, one static receive buffer | send, receive, dispatch on the packet type | media server, client |
| Client (`client_network/`) | TCP and UDP module, peers with their P2P status, timers | login with heartbeat, add and remove a peer, hole punching LAN then WAN then relay, reconnect | relay server, master |

What is hard:

- **Media server.**  All handlers run on one loop thread, but a handler that
  removes or links a user touches several entries, and three different handlers
  clean up in three different ways.  `operator[]` on a user left over in
  `dataFrom` creates an empty entry (a *phantom*), during a logout or in the
  middle of the sweep, which is walking the same hash table.  Verifications run
  on the thread pool and come back in any order, to a table that has changed.
  *Correct when* no forward leads to a user who is gone or to an address that
  is not the user's, the sweep removes exactly the logins that ran out, an
  address enters the table only by a verified login, and phantoms go.
- **Signaling server.**  It keeps raw pointers to connections, and the end of a
  connection must undo in the media server what the connection stood for.
  *Correct when* no binding outlives its connection, the end of a connection
  logs its user out, the address told to a peer is the one media goes to, and
  the media server is driven through its own handlers only.
- **Master.**  The list of slave ids and the map of slaves change separately.
  *Correct when* a session is always sent to a slave that is online.
- **TCP server and client.**  Contexts are recycled; close, reconnect and send
  race between the caller's thread and the loop.  *Correct when* a recycled
  context carries nothing over, close ends, a packet is not torn, and a lost
  connection is tried again.
- **Framing and circular buffer.**  *Correct when* the packets do not depend on
  how the stream is cut, and the buffer is a bounded queue.
- **Client.**  Timers, late answers and retries.  *Correct when* every peer ends
  up reached directly or through the server, and not both.

## 2. The modules

| Module | What it is |
|---|---|
| `MediaServer` | The media server: table, verifications, sweep. Properties. |
| `ForwardGraph` | What the table stands for: a relation between users and an address for each. |
| `RelayServer` | The signaling server on top of the media server (EXTENDS `MediaServer`). |
| `Master` | The master and the slaves' links to it. |
| `ClientPeers` | The client's peers: hole punching, relay, retries, two threads, the connection. |
| `TcpServer` | The connections of a TCP server: contexts, client lock, close. |
| `TcpClient` | A TCP connection that comes back, and the buffer several threads fill for it. |
| `PacketSync` | The framing of the TCP streams, byte by byte. |
| `ThreadMsg` | The messages other threads leave for a loop thread. |
| `CircularBuffer` | The write buffer of a TCP connection. |
| `BoundedQueue` | What the buffer promises: a first-in first-out queue of limited length. |
| `MCMediaServer`, `MCRelayServer`, `MCClientPeers` | Symmetry sets for TLC; the specification of the run about progress. |
| `MCPacketSync` | The messages for TLC, and the lengths their bytes read as. |
| `RelayServerProofs` | The media server: types and consistent forwards, what no step may do, every step is one of `ForwardGraph`. The relay server: it implements `MediaServer`; bindings, end of a connection, answers. |
| `MasterProofs` | The inductive invariant of the master, and what no step of it may do. |
| `ClientProofs` | The inductive invariant of the client; a pending peer stays pursued, a relayed one served. |
| `TcpServerProofs` | Every context is in one place; the loop thread hangs only in a close. |
| `TcpClientProofs` | The stream keeps messages in order and whole. |
| `PacketSyncProofs` | The frames found are those of the stream, the buffers hold them, and a new connection gets in step. |
| `ThreadMsgProofs` | Messages are handled once and in order. |
| `CircularBufferProofs` | The buffer is safe and implements `BoundedQueue`. |

### MediaServer

| Variable | Code |
|---|---|
| `table` | `m_mapForwardTable`, a function on the users that have an entry |
| `capacity` | the number of entries the hash table takes before it rehashes |
| `verifying` | the `VerifyCtx` of every `uv_work_t` in flight |
| `unvisited` | the entries the iterator of `offlineDetection` has still to reach |
| `sweepIn` | the time until `m_OfflineDetectionTimer` fires |
| `out` | what the last handler sent |

A handler runs to completion on the loop thread, so it is one action, with the
name it has in the code.  The sweep is the exception: `OfflineDetection` starts
it, then `SweepExpired` and `SweepFresh` take one entry each, in any order, for
the order is that of the hash table.  While `unvisited` is not empty every other
action waits (`Idle`), as the loop thread does.

The sweep calls `operator[]` on the users an expired entry names.  An entry made
that way may or may not be met later in the walk.  If the insertion rehashes the
table the walk goes on in the new order and may miss any of the entries ahead of
it; that is the choice of `missed`.  `capacity` never falls, as
`std::unordered_map` never gives buckets back on erase.  `Grow` leaves the
number of spare buckets after a rehash to the constant `Slack`.

`expireIn` is `expireTime - uv_now`.  The code asks only whether it is negative,
so it stops at -1.  A phantom has `expireTime` 0, hence -1.  `Tick` passes one
unit of time and waits while the timer is due: libuv runs due timers in the
iteration in which it updates its clock.  Datagrams are not stored: a handler's
action may happen at any time with any content, which covers loss, duplication,
delay and reordering of every datagram.

Left out of the entry: `localUdpPort`, which is carried next to the address and
never read by the server.  Left out of the server: `statusDetection` and its
byte counters, which no other handler reads.

### RelayServer

`conns` is the set of open connections, `mapClientId` is `m_mapClientId`,
`reply` the address answer the last handler sent.  The two servers share a loop
and call each other directly, so a TCP message with everything it does to the
forwarding table is one action: `PassLeaveRoom(c, u)` conjoins
`OnReqLeaveRoom(u)`, `CloseCB(c)` conjoins `OnLogout`.  `m_mapUserId` has no
variable: nothing is ever inserted into it, so `OnUserTimeout` does nothing.

### Master

`slaveAddr`, `vectorIndex` and `sessionIndex` are `m_mapSlaveAddr`,
`m_vectorIndex` and `m_mapSessionIndex`; `open` is `m_mapClientsList` with, for
each connection, the slave at its other end and the address of the master it
arrived at (the one `uv_tcp_getsockname` returns, which is what the whitelist is
searched for).  `link` is the connection as the slave sees it: either end may
notice first that it is gone, so the slave can be back on a new connection
before the master handles the end of the old one.  `logins` counts the login
messages on their way: the thread that started the slave sends one after
`Connect` has returned, the loop thread one after each reconnect, and the two
threads can overtake each other.  A first connect that is refused is never tried
again (`"alone"`), one that answers after the ten seconds `Connect` waits is a
connection on which nobody logs in (`"silent"`).  `answer` holds the replies the
last step sent.  Reading the entry of a slave that is gone is undefined: the
reply is `Garbage`, or the process dies (`up`).  Left out: status reports, which
the master only logs.

### ClientPeers

One client, from the application's calls to what the server holds of it.

| Variables | Code |
|---|---|
| `alive`, `running`, `inRoom`, `enableP2P` | the pointer to the TCP module is set, the loop thread runs, `m_bInRoom`, `m_bEnableP2P` |
| `queue` | the messages of the application's thread to the loop thread |
| `peers` | `m_mapPeerClientCtx`: the P2P status of each peer |
| `timers` | `m_mapP2PTimer`: for each peer the phase and the repeats left |
| `failed`, `retries` | `m_setFailRequest` and the number of its one second timers |
| `punched` | the punch-hole messages sent; the echo of any of them may come at any time |
| `linked`, `links`, `wire`, `answers` | the TCP connection and what is on it in either direction |
| `bound`, `late`, `registered`, `online`, `forwards` | the relay server: whether it has bound this connection, what it may still handle of each earlier one whose end it has not seen, whether the user is in its table, which peers are, and to which of them it forwards |

The application's calls and the handlers of the loop thread interleave.
`RemoveGroupClientNode` and `ClearGroupClientList` send to the server on the
caller's thread and leave a message for the loop thread, so the server may be
ahead of the client.  `ClearGroupClientList` waits a second for `m_bInRoom` and
returns in any case: the wait forbids nothing.  A message sent without a
connection is lost, or goes out first on the next one if it was written while
that was being set up (`Send`).

The end of a connection, lost or closed, calls back nothing of what was sent on it:
`late` keeps it (`Outlives`), and the server handles it message by message between or
after those of the next connection (`OnLate`), until it sees the end, which loses the
rest and logs the user out even if it is back (`NoticeClose`).  Only the answers never
arrive.

`Logout` clears the pointer to the TCP module and then destroys it; the destructor
waits for the loop thread, which goes on in between.  So `Logout` only ends `alive`,
and `LoopEnds` is the end of the loop thread with all that the modules held.  A handler
or timer that uses the TCP module in that time goes through a null pointer or destroyed
members (`UsesModule`), which is undefined: nothing comes of it, it goes well, or the
process ends (`Dies`).  Only logins that succeed are modelled; one that fails ends in
`Logout`.  Media packets change no state and are left out, as is
the question to the master, which `masterServer = 0` switches off.

### TcpServer

| Variables | Code |
|---|---|
| `loop` | the loop thread: off, in the poll phase or the closing phase of libuv's iteration, waiting for ever for a lock (`blocked`), or dead in an assertion (`aborted`) |
| `closed`, `asked`, `async`, `ending` | `m_bIsClosed`, `m_bIsUserAskForClosed`, the close event, and the moment between the two last assignments of `StartThread` |
| `locked` | `m_mutexClients`, as it is left between two call backs |
| `handle`, `flying` | for each context allocated, its handle and the writes under way |
| `avail`, `spare`, `clients`, `ids` | `m_listAvaiTcpHandle`, the size of `m_listWriteParam`, `m_mapClientsList`, the last client id |

A handle on its way to a close call back is named after that call back.  An
iteration of libuv's loop first runs the call backs of events, in any order,
then those of the handles that were closed: so a connection can end and the
server be closed in one iteration, before the first of the two has been called
back.  The client lock is a pthread mutex that is not recursive; the second lock
by the thread that holds it is the end of the loop thread.  `closeinl` keeps the
lock, so a server that is closed with a client connected does not come to an end;
the model says so and the properties are about everything else.  The UDP server
shares the loop (`relay_server.cpp:78`), but neither the client lock nor the contexts,
so its call backs change nothing here: they are actions of `MediaServer`, and
`RelayServer` has both.  What a connection carries is `PacketSync` and `RelayServer`.

### TcpClient

| Variables | Code |
|---|---|
| `loop` | the loop thread: before `Connect`, in its loop, in a `Send` of its own, or closed |
| `conn`, `handleClosed`, `reconnecting`, `armed`, `delay` | the handle with its connection, `m_bTcpHandleClosed`, `m_bIsReconnecting`, the reconnect timer, and `m_nRepeatTime` as a power of two |
| `buffer`, `rest`, `count` | `m_buferWrite`, what each thread in `Send` has still to write, and how many messages it has begun |
| `stream`, `flying` | what has been written to the connection of the moment, and whether a write is under way |
| `up` | the server and the way to it |

A message is two units, so that it can be torn.  The calls of `uv_async_send`
before and after a message are one flag, as libuv has it.  Time is left out but
for the repeat time: an attempt takes less than `2^Slow` seconds, so a timer that
is at least as long does not cut it off.  A write on a handle that is not
connected is refused and its units are lost; one on a handle that is being
connected waits for the connection and goes out before anything else, ahead of
the login that `AfterReconnectSuccess` sends.  The members and callers of the
subclasses appear as a message the loop thread sends (`HandlerSends`, and the one
of `AfterConnect` after a reconnect).

### PacketSync

`parser` is `CPacketSync`: the state, `thread_readdata` up to `truepacketlen`
with its length `cap`, `headpos`, and `thread_packetdata` up to `getdatalen`.
`AfterRecv(n)` calls `recvdata` with the next `n` bytes, and each turn of its loop
is an action: `Search` looks for a header, `Collect` adds a read to an incomplete
payload, `Complete` ends in `Deliver` or, if tail or check are wrong, in `Rescan`.
Until it has returned (`Idle`) nothing else is read and the connection stays.  A
turn is an action because the proofs need the state between two turns; nothing
can come in between but bytes that are sent and not yet received.

Bytes are tuples, so that a byte of a payload can be any byte of a frame.  The 34
bytes of a header are two: `Mark` for the first 26, of which the parser looks at
header, tail and check, the MD5 of the payload taken to be injective; and `Length` for
the last 8, with datalen.  A connection can be lost between the two.  datalen is then
read from the next connection, and `Number` says what length any byte reads as there,
from 0 to beyond 2^31.  A cut inside the first part is one between the two if header
and tail are in (the check then fits nothing, as the payload would have to), and one
before the first if not; a cut inside the second part is one between the two.  A
payload may hold the bytes of a header whose check fits nothing (`Unmatched`).

datalen is a `uint32_t`, and the lesser of what is there and what is wanted is taken
after a cast to `int` (`PacketSync.cpp:54`).  From a datalen of `INT_MAX` on the
second is negative (or, at 2^32 - 1, zero, and byte 2^32 - 1 of a buffer of no bytes is
read next): `getdatalen` becomes huge and the `memcpy` behind it runs past its
buffer.  That is the end of the parser, `"overrun"`.  The subtraction of two `size_t`
that underflows when the buffer is longer than it says is modelled as such (`room`).
`realloc` is taken to succeed.

A parser belongs to a context and outlives its connection (`Start` sets head and tail
only); `Reconnect` loses what was on its way and keeps the parser.

`fed`, `at`, `ends` and `conns` are history for the properties: everything
received, where the frames handed out and those sent stand, and what each
connection found.  `PacketSyncAssumption` says that the length written for a message
is read back, that no message is too long for an `int`, and that the read buffer takes
a header and two bytes more (`BUFFER_SIZE` is 10 kB).

### ThreadMsg

`tail` is `m_pMsgTail` and `next` the pointers of the nodes that are allocated,
which form a ring; `pc`, `first` and `at` are where the loop thread is in
`DispatchThreadMsg` and its local variables.  `async` is the wake-up, which stands
for any number of calls; `waking` holds the threads between `PushBackMsg` and
`uv_async_send`.  The test of the tail is outside the lock in the code and a step
of its own.  Handles have `m_nTcpHandle` set, so the loop leaves after one batch.

### CircularBuffer and BoundedQueue

`buf`, `readPos`, `writePos`, `isEmpty`, `isFull` are the members of
`CPodCircularBuffer`, `returned` and `got` what the last call gave back.
`write` and `read` have one operator for each branch of the code: room at once,
or around the end of the array, with the write position ahead of the read
position or behind it.  Callers hold `m_mutexClients` during a call, so a call is
one action.  The items are the bytes; what is kept of them is their order.
`BoundedQueue` has one variable, the items in it, and takes as many of the
offered items as there is room for; `CircularBuffer` implements it under the
items between the two positions.

### ForwardGraph

Its variables are the set of linked pairs of users, the address of each user in
the table, and the receivers of the last media packet.  A user can enter with an
address, link or unlink, lose links, and go with all its links; media goes to
the current addresses of the users the sender is linked to.  `MediaServer`
implements it under `links`, `addrOf` and `sent`.

## 3. What TLC checks

| Run | Instance | Checks |
|---|---|---|
| `media_safety` | 3 users, 1 address, 1 session, 1 verification, login valid for 0 ticks, sweep every tick | types, `ForwardConsistent`, `PhantomsExpired`, `ImplementsForwardGraph`, `SweepSparesFresh` |
| `media_progress` | 3 users, 1 address, 1 session, 1 verification, login valid for 0 ticks, sweep every tick, no handler that only sends, fair loop | `ExpiredGoes`, `PhantomGoes` |
| `relay` | 2 users, 2 connections, 2 addresses, 2 verifications, no http interface | types, `BindingsOpen`, `PeerAddrAgrees`, `CloseLogsOut`, `ActsAsMediaServer`, `EntersVerified` |
| `master` | 2 slaves, 1 session, 2 addresses of the master of which one is listed, 4 connections, fair slaves | types, `RegisteredOpen`, `IndexCovers`, `SessionSticks`, `SlaveReturns` |
| `client` | 1 peer, one punch-hole message per phase, at most 1 thing under way when the application calls, 2 connections, fair loop thread and server | `PendingPursued`, `RelayServed`, `PeerDecided` |
| `client_retries` | 2 peers, two messages on the LAN and one on the WAN, 2 retry timers, 1 connection | types, `TimersHavePeers`, `FailedRetried`, `PendingPursued` |
| `ring_buffer` | 4 items, 2 data values, calls of up to 5 items | `BufferOK`, `ImplementsQueue` |
| `framing` | 3 connections on one context, 2 frames each, an empty message and one that holds two headers, bytes that read as lengths of 0, 4, 5 and `INT_MAX`, a read buffer of 4 bytes, reads of any length | `CutsDoNotMatter`, `Resynchronises`, `BuffersHold` |
| `tcp_server` | 4 connections, lists of 1, 2 starts, 2 closes, 1 write per connection, fair loop thread | `ContextsOwned`, `HangsOnlyAfterClose`, `EndedGoes`, `CloseEnds` |
| `tcp_client` | 2 threads and the loop thread with one message each, a buffer of 3 units, 2 changes of the server, fair threads | `StreamWhole`, `SendEnds`, `ComesBack` |
| `thread_msg` | 3 threads, 4 messages, fair threads | `FirstIn`, `AllHandled` |
| `master_offline` | violation | `AllocatedOnline`: a slave that is gone is drawn from the list |

Why the bounds are enough.  A sweep that rehashes under itself and misses an
entry takes three users: the expired one, the phantom it makes, and the one that
is missed.  Time plays no part in that beyond an entry being fresh or run out,
which is why the runs with three users have `Lifetime` 0 (fresh until the next
tick; three sweeps in the code).  `media_progress` needs that case too: an entry that
is missed over and over would stay.  It leaves out the handlers that only send, a link
of a user with itself and the UDP logout, which the client never sends: they are in
`media_safety`, and a phantom can also come from a logout by TCP or a sweep.  Two
verifications in flight matter when two logins of one user from two addresses, or a
login and a logout, cross, and need one session only: `relay` has them.  `Works` bounds
the verifications in flight, `Timeout` and `Lifetime` are the ratio of the code's
two times, `Slack` the spare room after a rehash; the initial `capacity` 1 is the
smallest table, so that rehashes happen at the sizes TLC can explore.  In
`master`, `MaxConn` 4 lets each of two slaves lose its connection once, or one of
them twice, so that the list holds ids of slaves that are gone next to those of
slaves that are there; `Spare` keeps one connection back for each slave that has
lost its own, so the bound never stops a reconnect.  One session is enough:
sessions do not touch each other.  In `ring_buffer` calls are one item longer
than the buffer, so that every branch is met with the positions in every order.
In `client`, `MaxBusy` 2
lets two calls be under way at once, the second of which leaves a message on the wire
and one in the queue; it is a guard of the
application's calls only and never stops the loop thread or the server.
`MaxLinks` 2 is one connection that is lost or closed and one that replaces it, while
the server still handles what is left of the first; a timer, or a call that finds the
rest handled, asks on the second for what a late message of the first takes back.  `client_retries` has the second peer, for the set of
failed requests and its timers are shared; `MaxRetry` bounds those timers, since
two peers that are not there multiply them.  `LanTries` and `WanTries` (4 and 10
in the code) are 0 or 1: the last message of a phase, and one that is not.
In `framing` the read buffer of 4 bytes is as long as an empty frame, so that one
of 8 bytes is taken apart into both buffers and the rebuilt rest outgrows the
first.  A header cut
before its length reads the next HEAD as 4, and then waits through a whole frame of the
next connection, whose message it hands out on the third if that connection is lost
too; a payload byte that is TAIL reads as `INT_MAX`, and overruns.  Three connections
also let a parser be left in the middle of a frame twice.
In `tcp_server` the lists hold one entry
(two by the code's test), so that three connections at once meet a full list, and
the fourth a recycled context; the second start and close meet what the first have
left.  In `tcp_client` the buffer holds one message and a half, so that of two
messages the second is written in part; `MaxChange` 2 is a connection that is
lost and a server that comes back, `Slow` 2 lets an attempt be cut off twice
before the repeat time has outgrown it, and `MaxDelay`, beyond which the repeat
time no longer matters, is one more.  In `thread_msg` three threads can have
pushed before the first wakes the loop thread, and the fourth message comes while
the batch is walked.
Users, connections, verifications and peers are symmetric in the runs without liveness.

Fairness (`Fairness` of `MediaServer`, in the `ProgressSpec` of `MCMediaServer`): time
passes, a due timer is served, a sweep that began goes on, a verification comes back.  These are the loop thread, libuv's
repeating timer and its thread pool, which nothing in the code stops.  No
fairness is assumed of clients: a login, a logout or a packet may never come.
`FairSpec` of `Master`: a thread of the slave goes on, a lost connection is
noticed in the end, the reconnect timer, which is started again after every
failure, gets through while the master lives, and the master handles the logins
it has received.  Nothing is assumed of the clients' requests nor of the time at
which the master notices the end of a connection.

`FairSpec` of `ClientPeers`: the loop thread handles its queue, the answers and
its timers, the server handles what it receives, a reconnect succeeds in the
end.  Nothing is assumed of the application, of echoes, of peers coming online
or of heartbeats.

`FairSpec` of `TcpServer`: the loop thread runs what is pending in its phase and
goes on to the next.  Nothing is assumed of connections, of writes nor of the
application.  `FairSpec` of `TcpClient`: what libuv has to report is reported, the
timer runs out, and a thread in `Send` takes its next turn.  Data from the server
is not assumed to come, nor does a server stay that the properties do not say
stays.  `FairSpec` of `ThreadMsg`: a thread that has pushed goes on to
`uv_async_send`, and the loop thread runs.

Deadlock checking is off where the system may stop: the two runs of `Master`
(the master may die, and the slaves may all be alone), `tcp_server` (the loop
thread may hang, and a closed server need not start again), `tcp_client` (after
`Close`), `framing` and `thread_msg` (all messages of the bound are through).

## 4. What TLAPS proves

For every number of users, addresses, sessions, verifications and connections
and every value of `Timeout`, `Lifetime` and `Slack`, from the assumption
`MediaAssumption` (finitely many users; the zero address is no client's address;
`Timeout` positive, the other bounds natural):

- `TypeCorrect`, `ForwardCorrect`: `Spec => []TypeOK`, `Spec => []ForwardConsistent`.
  The inductive invariant is `IInv == TypeOK /\ ForwardConsistent`.  Forwards
  alone are not inductive: a handler that removes u finds those who send to u in
  `dataFrom` of u, so every forward must be backed by a reverse entry
  (`s \in t[d].dataFrom`), and the cached address must be that of an entry that
  exists.  `TypeOK` includes `unvisited \subseteq DOMAIN table`: a sweep never
  points at an entry that is gone, or `SweepExpired` would read one.
- `Refinement`: `Spec => ImplementsForwardGraph`, step by step: every action is
  mapped to one action of `ForwardGraph` or to a stuttering step, from `IInv`.
- `OnlyVerifiedEnter`, `PhantomsStayExpired`, `FreshSurvive`:
  the action properties.  They rest on one lemma (`NextAccounted`): after any
  step every entry was there with the same address and session, or is an empty
  one, or comes with a verification that ends in the step.  `PhantomsExpired`
  needs the strengthening `PhantomsBlank`: a phantom has session 0 too, which is
  why every login of its user goes to verification instead of refreshing it.
  Both are conditional on no client using session 0: with a session 0 a login
  from another address would refresh the phantom.
- `RelayImplementsMedia`: `RelaySpec => Spec`, so all of the above holds of the
  relay server.  `RelayTypeCorrect`, `BindingsFollow`, `CloseForgets` and
  `PeerAddrTrue` follow from it and from the signaling server's own invariant
  `Bound`.  `CloseForgets` is `ForwardConsistent` at work: a user who has no
  entry after the step can be in nobody's `dataTo`.

For every number of slaves, sessions and connections:

- `MasterTypeCorrect`, `SlavesConnected`, `SlavesListed`: `TypeOK`,
  `RegisteredOpen`, `IndexCovers`.  `IndexCovers` is not inductive: a login
  appends an id to a list that may keep old ids, so the invariant adds `Listed`:
  a listed connection that is still open belongs to a slave that is online.  That
  and ids that are never used twice (`vectorIndex \in Seq(1..lastId)`) show that a
  login never lists an id a second time.  The bound `MaxConn` plays no part.
- `SessionsStay`: `SessionSticks`, from one lemma on what a request does to the
  sessions (`Assigned`).

For every finite set of peers and every number of calls, retries, connections and
repeats of a timer (`ClientAssumption`):

- `ClientTypeCorrect`, `TimersOwned`, `FailedHaveTimer`: `TypeOK`,
  `TimersHavePeers`, `FailedRetried`.
- `PendingStaysPursued`: `PendingPursued`.  That a request on the connection
  will be answered is not inductive by itself, for the server answers bound
  connections only.  The invariant adds `LinkBinds`: the binding of the connection
  that stands is done or is on it; a request is always sent behind it, and
  `HandleStep` shows that handling one message takes nothing from the others.
  `Quiet` (nothing is left to do without a login) settles the step of a login.
- `RelayedAreServed`: `RelayServed`.  It is an action property with a condition on
  both states, and the same word can be said to the server by a call of the
  application and by a timer.  `Served` looks only at the last word about a peer on
  `wire`, or at the server if there is none; three lemmas say what that word does
  when messages are added behind it (`ServedAppend`, `ServedConcat`) and when the
  server takes the first one (`ServedHandle`).  Every action is then one of these, but
  for a word of an earlier connection that the server handles late: a late removal or
  leave is the exception the property names (`Undone`), a late addition does no harm to
  a peer that is to be relayed (`EnvironmentServes`).

For every number of connections, starts, closes and writes under way and every
`MAXLISTSIZE` (`TcpServerAssumption`):

- `ContextsInOnePlace`: `ContextsOwned`.  The invariant `OInv` says it without
  counting: no context is listed twice or owned by two clients, and each that is
  neither freed nor on its way is either listed or owned.  It needs `Numbered`
  (the contexts are those allocated so far, so a new one is new) and
  `ClientsLive`, without which a handle could be closed as a client's and as one
  of the list.
- `HangsOnlyInClose`: `HangsOnlyAfterClose`, from `LInv`: only `Close` asks for a
  close, and only `closeinl` leaves with the lock.

For every number of threads, messages and reconnects and every size of the write
buffer from 2 units (`TcpClientAssumption`):

- `MessagesWhole`: `StreamWhole`.  The invariant speaks of `stream`, `buffer` and
  `rest` together: each is in order, each comes before the next (`InOrder`), and
  what a thread has still to write is its message or the second part of it
  (`RestKnown`), so what is appended is always later than what is there (`Begun`
  for a new message).  `InPairs` says that while no message was parted the stream
  and the buffer are made of whole messages; concatenation keeps that
  (`PairedConcat`).  One lemma covers every turn of `Send` (`WriteKeeps`), one
  every step that moves or empties the buffer or loses the stream (`MovesKeep`).

For all messages, read buffers and numbers of frames and connections
(`PacketSyncAssumption`):

- `FramesFound`: `CutsDoNotMatter`.  The invariant
  adds `Window`: each of the buffers holds what stands in `fed` at its place, and
  together they are its end (`Decided` is how much comes before).  From it each turn
  of `recvdata` is one of two things (`Turn`): it `Skips` bytes at which no frame can
  begin, or it `Takes` the frame that stands there.  `Found` collects them; that it
  is final whatever comes later is `FrameStays` and `NoFrameStays`.
- `SpecRInv`, for connections.  `RInv` speaks of `fed \o wire`, all that was or will be
  received: the frames of `sent` stand in it one behind the other from the beginning of
  the connection to the end (`Layout`), and what has been decided on of this connection
  is the first of them (`InStep`).  No turn can leave that track: what begins at the end
  of a frame is the next one.  `InStep` holds on a connection that found the parser
  empty, and on every one if the payloads are plain (`Caught`).
- `BuffersSafe`: `BuffersHold`, for any payloads.  A parser in step goes by the headers
  that were sent, and none of those asks for too much: a length beyond `INT_MAX` is one
  that was put together from two connections (`OverrunBehind`).
- `Resync`: `Resynchronises`, if the payloads are plain.  Before the first frame of the
  connection no frame spans its beginning (`NoneSpans`): such a frame would have a
  payload that holds the first header of the connection, for a header comes there
  before any tail (`Boundaries`), and whatever length a cut header reads, no tail and
  check fit it.  With a message that carries a header together with the MD5 of a
  message, a copy of a frame, a lost connection could complete a frame out of two.
  When the connection has brought what the header in use asks for, the parser is
  through with it (`NoLongerWaits`) and with every frame that is there (`AllArrived`).
  `MCPacketSync` asserts the hypothesis of the messages of the run, whose false headers
  it allows.

For every number of threads and messages (`ThreadMsgAssumption`):

- `HandledInOrder`: `FirstIn`.  It is not inductive: the invariant adds how the
  nodes are linked (`RingInv`, `BatchInv`).  The batch ends where the ring begins
  (`BatchEnd`), also while another thread pushes during the walk.  `BatchInv` also
  says why the walk may compare with `first`, a node that it has deleted: no node
  of the batch has a number as small.

For every capacity and every length of call (`BufferAssumption`: the size is
positive, the longest call a natural number):

- `BufferSafe`, `BufferImplementsQueue`.  Each branch of `write` and `read` is
  taken apart into what becomes of the positions and flags (`Grown`, `Shrunk`:
  arithmetic) and of the array (`Appended`, `Copied`); that the contents grow by
  what was written and shrink by what was read (`GrownContents`,
  `ShrunkContents`) is then proved once and not once for each branch.

Only model-checked: `ExpiredGoes`, `PhantomGoes`, `SlaveReturns`, `PeerDecided`,
`EndedGoes`, `CloseEnds`, `SendEnds`, `ComesBack` and `AllHandled`, for the prover
does not handle liveness under fairness or ENABLED.  Every invariant and every
action property of a passing run is proved.  The violation is TLC's counterexample.

## 5. Findings

`master_offline`: `CloseCB` of the master (`master.cpp:114`) leaves the id of the
slave in `m_vectorIndex`, from which `AllocateServerToSessionId` draws; the reply
is then read from an end iterator (`master.cpp:109`).

What else the models show of the code, without a run of its own:

- `OnReqLeaveRoom` (`media_server.cpp:64`) leaves the user in the `dataFrom` of
  those it sent to, which `media_server.h:87` calls a reverse search.  The stale
  names are where phantoms come from (`PhantomGoes`).
- `OnUpdateLoginInfo` (`media_server.cpp:168`) uses `insert`, which does not
  overwrite: a known user who logs in from a new address with a new session is
  verified and acknowledged, and stays at the old address until it expires.
- `m_mapUserId` is searched (`signaling_server.cpp:80`) and never filled: a user
  thrown out by the sweep stays bound.
- `network_module.cpp:88` and `:100` tell the server of a removal before the loop
  thread knows of it; a request the loop thread sends in between
  (`udp_module.cpp:219`, `timer_module.cpp:42`) makes the server forward to a peer
  that is gone, until the peer leaves or the room is left again.
- `closeinl` of the TCP server keeps the client lock (`tcpserver.cpp:48`): the loop
  thread of a server that is closed with a client connected waits for ever in
  `SubClientClosed`, and the destructor waits for the thread.
- A client whose stream ends in the very iteration in which the server is closed
  has its handle closed twice (`tcpserver.cpp:51`), which libuv answers with an
  assertion.
- A thread that waits for `IsClosed` and starts the server again can have its
  next `Close` forgotten, for `StartThread` clears `m_bIsUserAskForClosed` after it
  has set `m_bIsClosed` (`tcpserver.cpp:177`).
- The lists of contexts and write requests grow to one entry more than
  `MAXLISTSIZE` (`tcpserver.cpp:279`, `:327`, `:538`).
- Two messages of the TCP client that do not both fit into the buffer can be
  mixed on the stream (`tcpclient.cpp:221`); the parser at the other end recovers
  (`Resynchronises`), the messages are lost.
- A parser that a lost connection left waiting for a long frame goes on waiting on
  the next one, whose context it is (`tcpserver.cpp:199`).  Messages that have arrived
  there in full are handed out when the long frame would be complete; if that
  connection is lost too, they come as messages of the one after it, which may belong
  to another client (`late` in `Resynchronises`).
- If the connection was lost between the tail and the datalen of a header, the frame
  may be any length the next connection's bytes read as: the context then takes in up to
  2^31 bytes before it hands anything out, and from a datalen of 2^31 - 1 on the `memcpy`
  of `PacketSync.cpp:57` runs past its buffer (`Wanted`, `BuffersHold`).  The test
  `datalen < 0` of `PacketSync.cpp:41`, which would be the guard, is never true of a
  `uint32_t` (`net_base.h:146`).
- A removal or a leave that was sent before the connection ended can be handled by the
  server after the client has asked for the same forward on its next connection, which
  nothing repeats (`network_module.cpp:107`; `Undone` in `RelayServed`).  An addition
  handled as late makes the server forward to a peer that was removed.
- `Logout` clears the pointer to the TCP module before the loop thread has ended
  (`network_module.cpp:109`), and that thread's handlers and timers go through it
  (`network_module.cpp:157`, `:167`) or use members that are destroyed (`Dies`).
- A `Send` on the loop thread that finds the buffer full waits for itself
  (`tcpclient.cpp:220`).
- What was sent while the connection was being set up goes out before the bind or
  the login of `AfterReconnectSuccess`; what was sent while it was down is lost.
- A datagram of 6 bytes or more is read as a packet of 12 from a static buffer
  (`UDPHandle.cpp:156`): missing fields are those of an earlier datagram, one more value
  of the messages that a handler is modelled for.
- `CTCPClient` never sets `m_bIsClosed`, which `tcpclient.h:30` tells the caller to
  wait for.

## 6. Not modelled, and the plan

Left out of modelled parts (the reasons are with the components in
`PROJECT.json`): the status reports of a slave and the byte counters they carry;
a start of a TCP server that is open; `broadcast`, which nothing calls; the start-up
of the relay server before its parts know each other, a few instructions without a
guard or retry that a property could be about; the client's question to the
master, which the code switches off; media packets of the client, which change no
state.

Not to be modelled: logger, hash, configuration files and platform queries,
which keep no protocol state; `UVMsgFraming`, `CUVThread` and `CUVThreadMng`, which
nothing uses; third-party code under `src/3rd` (libuv and curl), which makes up
nearly all of the repository's lines and appears in the models as the behaviour
its callers rely on.

Plan:

- `ClientPeers`, what is left: the client composed with `RelayServer` instead of
  the server's part it has now; logins that fail; the answering of another
  client's punch-hole message.
- Proofs: the client composed with `RelayServer`, once it is modelled, as a
  refinement of the server's part that `ClientPeers` has.
