---------------------------- MODULE BoundedQueue ----------------------------
(***************************************************************************)
(* What a circular buffer promises: a first-in first-out queue of at most  *)
(* Size items that takes as much of what is written as it has room for.    *)
(***************************************************************************)
EXTENDS Integers, Sequences

CONSTANTS
    Data,     \* the items
    Size,     \* how many of them there is room for
    MaxCount  \* bounds how many items one call writes or reads

VARIABLES
    queue,    \* the items in the order they came
    returned, \* how many items the last call moved
    got       \* the items the last read handed out

qvars == <<queue, returned, got>>

Least(m, n) == IF m < n THEN m ELSE n

QInit ==
    /\ queue = <<>>
    /\ returned = 0
    /\ got = <<>>

Put(s) ==
    LET n == Least(Len(s), Size - Len(queue))
    IN  /\ queue' = queue \o SubSeq(s, 1, n)
        /\ returned' = n
        /\ got' = <<>>

Take(count) ==
    LET n == Least(count, Len(queue))
    IN  /\ got' = SubSeq(queue, 1, n)
        /\ queue' = SubSeq(queue, n + 1, Len(queue))
        /\ returned' = n

Empty ==
    /\ queue' = <<>>
    /\ returned' = 0
    /\ got' = <<>>

QNext ==
    \/ \E n \in 0 .. MaxCount : \E s \in [1 .. n -> Data] : Put(s)
    \/ \E count \in 0 .. MaxCount : Take(count)
    \/ Empty

QSpec == QInit /\ [][QNext]_qvars

=============================================================================
