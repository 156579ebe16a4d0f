------------------------------- MODULE ThreadMsg -------------------------------
(***************************************************************************)
(* CThreadMsgBase: the messages that the threads of the application leave  *)
(* for the loop thread (SendUvThreadMessage, AsyncRecvMsg).  They form a   *)
(* ring that is known by its last node; the loop thread takes the whole    *)
(* ring at a time and walks it.  uv_async_send wakes the loop thread once  *)
(* for any number of calls.                                                *)
(*                                                                         *)
(* A node is known by its place in the order of the pushes.                *)
(***************************************************************************)
EXTENDS Integers, Sequences

CONSTANTS
    Threads,  \* the threads that send
    MaxMsg    \* bounds the messages of all of them

ASSUME ThreadMsgAssumption == MaxMsg \in Nat

NULL == 0

VARIABLES
    tail,     \* m_pMsgTail
    next,     \* the next pointer of every node that is allocated
    from,     \* the thread that pushed each node
    waking,   \* threads between PushBackMsg and uv_async_send
    async,    \* m_asyncHandleForRecvMsg has been sent
    pc,       \* where the loop thread is in DispatchThreadMsg
    first,    \* its local variables first and next
    at,
    handled   \* the nodes whose message OnDispatchMsg was given, in order

ring == <<tail, next, from>>
loop == <<pc, first, at, handled>>
vars == <<ring, waking, async, loop>>

Init ==
    /\ tail = NULL
    /\ next = <<>>
    /\ from = <<>>
    /\ waking = {}
    /\ async = FALSE
    /\ pc = "polls"
    /\ first = NULL
    /\ at = NULL
    /\ handled = <<>>

Put(f, x, v) == [y \in DOMAIN f \cup {x} |-> IF y = x THEN v ELSE f[y]]
Drop(f, x) == [y \in DOMAIN f \ {x} |-> f[y]]

\* A slip: the tail is not moved to the new node.
PushBehindTail(t) ==
    LET msg == Len(from) + 1
    IN  /\ t \notin waking
        /\ Len(from) < MaxMsg
        /\ next' = IF tail = NULL THEN Put(next, msg, msg)
                   ELSE Put(Put(next, msg, next[tail]), tail, msg)
        /\ tail' = IF tail = NULL THEN msg ELSE tail
        /\ from' = Append(from, t)
        /\ waking' = waking \cup {t}
        /\ UNCHANGED <<async, loop>>

\* PushBackMsg, under the lock.
PushBackMsg(t) ==
    LET msg == Len(from) + 1
    IN  /\ t \notin waking
        /\ Len(from) < MaxMsg
        /\ next' = IF tail = NULL THEN Put(next, msg, msg)
                   ELSE Put(Put(next, msg, next[tail]), tail, msg)
        /\ tail' = msg
        /\ from' = Append(from, t)
        /\ waking' = waking \cup {t}
        /\ UNCHANGED <<async, loop>>

AsyncSend(t) ==
    /\ t \in waking
    /\ async' = TRUE
    /\ waking' = waking \ {t}
    /\ UNCHANGED <<ring, loop>>

\* The loop thread is woken: AsyncRecvMsg.
AsyncRecvMsg ==
    /\ pc = "polls"
    /\ async
    /\ async' = FALSE
    /\ pc' = "looks"
    /\ UNCHANGED <<ring, waking, first, at, handled>>

\* Without the lock: is there a message?
LookAtTail ==
    /\ pc = "looks"
    /\ pc' = IF tail = NULL THEN "polls" ELSE "takes"
    /\ UNCHANGED <<ring, waking, async, first, at, handled>>

\* Under the lock: the whole ring.
TakeRing ==
    /\ pc = "takes"
    /\ first' = next[tail]
    /\ at' = next[tail]
    /\ tail' = NULL
    /\ pc' = "walks"
    /\ UNCHANGED <<next, from, waking, async, handled>>

\* One turn of the walk: the node after this one, OnDispatchMsg, delete.
OnDispatchMsg ==
    /\ pc = "walks"
    /\ at # NULL
    /\ at' = IF next[at] # first THEN next[at] ELSE NULL
    /\ handled' = Append(handled, at)
    /\ next' = Drop(next, at)
    /\ UNCHANGED <<tail, from, waking, async, pc, first>>

\* A slip: the wake-up is forgotten after the batch instead of before it.
ForgetsWakeUp ==
    /\ pc = "walks"
    /\ at = NULL
    /\ async' = FALSE
    /\ pc' = "polls"
    /\ UNCHANGED <<ring, waking, first, at, handled>>

WalkEnds ==
    /\ pc = "walks"
    /\ at = NULL
    /\ pc' = "polls"
    /\ UNCHANGED <<ring, waking, async, first, at, handled>>

Loop == AsyncRecvMsg \/ LookAtTail \/ TakeRing \/ OnDispatchMsg \/ WalkEnds

Next ==
    \/ \E t \in Threads : PushBackMsg(t) \/ AsyncSend(t)
    \/ Loop

Spec == Init /\ [][Next]_vars

\* A thread that has pushed goes on, and the loop thread runs.
FairSpec == Spec /\ WF_vars(Loop) /\ \A t \in Threads : WF_vars(AsyncSend(t))

-------------------------------------------------------------------------------
\* The messages are handled once each and in the order of the pushes, no node
\* is used after it was deleted, and every node that is allocated can still be
\* reached: those of the ring from its tail, those of the batch from the walk
\* (PushBackMsg and DispatchThreadMsg, which share tail and next).
FirstIn ==
    /\ handled = [i \in 1 .. Len(handled) |-> i]
    /\ DOMAIN next = Len(handled) + 1 .. Len(from)
    /\ tail # NULL => tail = Len(from)
    /\ pc = "walks" /\ at # NULL => at = Len(handled) + 1
    /\ tail = NULL => (pc = "walks" /\ at # NULL) \/ DOMAIN next = {}

\* Every message is handled, though one wake-up may stand for several of them
\* and may come while the loop thread is still at the last batch.
AllHandled == \A n \in 1 .. MaxMsg : n \in DOMAIN from ~> n \in DOMAIN handled

===============================================================================
